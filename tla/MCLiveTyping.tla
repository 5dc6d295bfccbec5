---------------------------- MODULE MCLiveTyping ----------------------------
(* LiveTyping is checked as it is; its constants are numbers.                *)
EXTENDS LiveTyping
=============================================================================
