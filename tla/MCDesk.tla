------------------------------- MODULE MCDesk -------------------------------
(* The parts of the pets' window on a small instance, for TLC.              *)
EXTENDS Desk

SheetBytes == [k \in {"hug", "walk"} |-> IF k = "hug" THEN 2 ELSE 1]
DragTops == {-30, 0, 20, 46, 70}
PartnerDays == <<1, 2, 1>>
PartnerTimes == <<1, 4, 30>>

\* The median of the samples is the middle one of them sorted.
ASSUME MedianIsTheMiddle == \A n \in 1 .. 5 : \A s \in [1 .. n -> 0 .. 3] :
    Paws!Median(s) = Paws!SortSeq(s, LAMBDA a, b : a < b)[n \div 2 + 1]
=============================================================================
