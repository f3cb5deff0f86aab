--------------------------- MODULE MCStageProtocol ---------------------------
(* StageProtocol on three stages, for journals of at most MaxRecords lines *)
(* that use at most MaxSerial attempt keys and the record states States.   *)
EXTENDS StageProtocol

CONSTANTS MaxRecords, MaxSerial, States

Bounded ==
  /\ Len(journal) <= MaxRecords
  /\ mem.serial <= MaxSerial
  /\ \A i \in DOMAIN journal : journal[i].state \in States
==============================================================================
