----------------------------- MODULE MCLiveRoom -----------------------------
(* Sets of interchangeable sockets and devices for TLC.                      *)
EXTENDS LiveRoom, TLC

RoomSymmetry == Permutations(Sockets) \cup Permutations(Devices)
=============================================================================
