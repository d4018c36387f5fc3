---------------------------- MODULE MCSubProcess ----------------------------
(* Two streams of a client and one command of execCmd.                     *)
EXTENDS SubProcess, TLC

CONSTANTS a, b, x

TwoLines == [j \in Job |-> 2]
WordCounts == {0, 2, 32, 33}
=============================================================================
