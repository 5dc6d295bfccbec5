-------------------------- MODULE MCHistoryRecorder --------------------------
(* HistoryRecorder is checked as it is; its constants are numbers.           *)
EXTENDS HistoryRecorder
=============================================================================
