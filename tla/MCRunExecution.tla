--------------------------- MODULE MCRunExecution ----------------------------
(* RunExecution for journals of at most MaxRecords lines, at most MaxMinted *)
(* cursors issued, and at most MaxEffort of both together.  An idle host    *)
(* that may neither record nor mint is the end of the bounded run, not a    *)
(* deadlock of the program.                                                 *)
EXTENDS RunExecution

CONSTANTS MaxRecords, MaxMinted, MaxEffort

Bounded ==
  /\ Len(journal) <= MaxRecords
  /\ Len(minted) <= MaxMinted
  /\ Len(journal) + Len(minted) <= MaxEffort
==============================================================================
