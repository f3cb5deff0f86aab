---------------------------- MODULE StageProtocol ----------------------------
(***************************************************************************)
(* The discipline under which the governed run journal stays restorable:   *)
(* one RunExecution at a time writes the journal, any crash replaces its   *)
(* memory by what restore_cursors reads back, and a stage opened for the   *)
(* first time (which journals nothing) gets its evidence before anything   *)
(* else is opened.  RunExecution itself does not impose this on a caller   *)
(* (module RunExecution drops it); GovernedExecutionDriver keeps it        *)
(* (module GovernedRun implements this specification).                     *)
(***************************************************************************)
EXTENDS StageCursor

VARIABLES journal,   \* the governed records on disk, oldest first
          mem,       \* the running process's RunExecution
          image,     \* what restore_cursors would rebuild from journal
          verdict,   \* whether restore_cursors would accept journal
          opening    \* the stage whose first open is not on disk yet, or 0

vars == <<journal, mem, image, verdict, opening>>

RecordType == [cursor : CursorType, state : EvidenceState \cup {CursorOpened, "reported"}]
Entry(c, state) == [cursor |-> c, state |-> state]

TypeOK ==
  /\ journal \in Seq(RecordType)
  /\ mem \in MemoryType
  /\ image \in MemoryType
  /\ verdict \in {"accepted", "refused"}
  /\ opening \in Stage \cup {NoStage}

Init ==
  /\ journal = << >>
  /\ mem = EmptyMemory
  /\ image = EmptyMemory
  /\ verdict = "accepted"
  /\ opening = NoStage

(* record(): one journal line, written and fsynced; image and verdict are  *)
(* what a later restore will make of it.                                   *)
Append1(c, state) ==
  /\ journal' = Append(journal, Entry(c, state))
  /\ image' = Replay(image, c, state, Len(journal) + 1)
  /\ verdict' = IF ReplayAccepts(image, c, state) THEN verdict ELSE "refused"

(* begin_revision, first open.                                             *)
BeginRevisionFirst(s) ==
  /\ opening = NoStage
  /\ ~Live(mem.cursors[s])
  /\ mem' = FirstOpen(mem, s)
  /\ opening' = s
  /\ UNCHANGED <<journal, image, verdict>>

(* begin_revision of a live stage.  A stage still being opened may only be *)
(* bumped while no later stage is live: restore sees no earlier revision   *)
(* of it and so will not drop the later ones.                              *)
BeginRevisionBump(s) ==
  /\ \/ opening = NoStage
     \/ opening = s /\ \A t \in Descendants(s) : ~Live(mem.cursors[t])
  /\ Live(mem.cursors[s])
  /\ mem' = Bump(mem, s)
  /\ Append1(RevisedCursor(mem, s), CursorOpened)
  /\ opening' = NoStage

(* begin_attempt.                                                          *)
BeginAttempt(s) ==
  /\ opening = NoStage
  /\ Live(mem.cursors[s])
  /\ mem' = NextAttempt(mem, s)
  /\ UNCHANGED <<journal, image, verdict, opening>>

(* record_stage with the stage's live cursor.                              *)
RecordStage(s, state) ==
  /\ opening \in {NoStage, s}
  /\ Live(mem.cursors[s])
  /\ Recordable(mem, mem.cursors[s], state)
  /\ mem' = Recorded(mem, mem.cursors[s], state, Len(journal) + 1)
  /\ Append1(mem.cursors[s], state)
  /\ opening' = NoStage

(* A journal line that carries no stage_cursor: restore skips it.          *)
AppendOther ==
  /\ journal' = Append(journal, Entry(NoCursor, "reported"))
  /\ UNCHANGED <<mem, image, verdict, opening>>

(* The process dies, or ends, and another one calls RunExecution.create.   *)
Restart ==
  /\ verdict = "accepted"
  /\ mem' = image
  /\ opening' = NoStage
  /\ UNCHANGED <<journal, image, verdict>>

Next ==
  \/ \E s \in Stage :
       \/ BeginRevisionFirst(s)
       \/ BeginRevisionBump(s)
       \/ BeginAttempt(s)
       \/ \E state \in EvidenceState : RecordStage(s, state)
  \/ AppendOther
  \/ Restart

Spec == Init /\ [][Next]_vars

------------------------------------------------------------------------------
(* Every journal this discipline can leave on disk is one restore_cursors  *)
(* accepts: no broken chain, no position recorded twice.                   *)
Restorable == verdict = "accepted"

(* attempt_key serials fence: once a revision of s is opened under serial  *)
(* n, no later stage is ever recorded under a serial below n, not even by  *)
(* a process restarted from the journal; and the records of one stage      *)
(* never go back to an older serial ("fence and order on attempt_key").    *)
FencingOrder ==
  \A i, j \in 1..Len(journal) :
    i < j /\ journal[j].state # "reported" =>
      /\ journal[j].cursor.stage = journal[i].cursor.stage
           => journal[j].cursor.serial >= journal[i].cursor.serial
      /\ journal[i].state = CursorOpened /\ journal[j].cursor.stage > journal[i].cursor.stage
           => journal[j].cursor.serial > journal[i].cursor.serial

(* What a restart restores: the live cursors, except that an unrecorded    *)
(* first open is gone and an unrecorded attempt falls back to the attempt  *)
(* before it.  No stage the process had invalidated comes back.            *)
RestartAgrees ==
  \A s \in Stage :
    \/ image.cursors[s] = mem.cursors[s]
    \/ s = opening /\ ~Live(image.cursors[s])
    \/ /\ Live(image.cursors[s])
       /\ image.cursors[s].rev = mem.cursors[s].rev
       /\ image.cursors[s].att < mem.cursors[s].att

------------------------------------------------------------------------------
(* The inductive strengthening behind the three properties above.          *)

(* No serial in memory or on disk exceeds the counter it was minted from.  *)
SerialsBounded ==
  /\ image.serial <= mem.serial
  /\ \A s \in Stage : /\ mem.cursors[s].serial <= mem.serial
                      /\ image.cursors[s].serial <= image.serial
  /\ \A p \in image.positions : p.cursor.serial <= image.serial
  /\ \A i \in 1..Len(journal) : journal[i].cursor.serial <= image.serial

(* A live cursor sits in its own slot and chains to its stage's last       *)
(* evidence; a slot without one is empty.                                  *)
Chained(m) ==
  \A s \in Stage :
    IF Live(m.cursors[s])
    THEN m.cursors[s].stage = s /\ m.cursors[s].parent = m.last[s]
    ELSE m.cursors[s] = NoCursor

(* Evidence is on disk before it is in memory, so both agree on it, and    *)
(* recorded evidence lies strictly behind its stage's chain tip.           *)
EvidenceBehindTip ==
  /\ mem.last = image.last
  /\ mem.positions = image.positions
  /\ \A s \in Stage : image.last[s] <= Len(journal)
  /\ \A p \in image.positions :
       /\ p.cursor.stage \in Stage
       /\ p.state # CursorOpened => p.cursor.parent < image.last[p.cursor.stage]

(* A live cursor could be recorded next without breaking FencingOrder.     *)
Fenced(m) ==
  \A t \in Stage, i \in 1..Len(journal) :
    Live(m.cursors[t]) =>
      /\ journal[i].cursor.stage = t => m.cursors[t].serial >= journal[i].cursor.serial
      /\ journal[i].state = CursorOpened /\ t > journal[i].cursor.stage
           => m.cursors[t].serial > journal[i].cursor.serial

(* While a first open is pending, its stage and nothing else is missing    *)
(* from the image.                                                         *)
OpeningPending == opening # NoStage => Live(mem.cursors[opening])
                                       /\ ~Live(image.cursors[opening])

Inv ==
  /\ TypeOK
  /\ Restorable
  /\ FencingOrder
  /\ RestartAgrees
  /\ SerialsBounded
  /\ Chained(mem) /\ Chained(image)
  /\ EvidenceBehindTip
  /\ Fenced(mem) /\ Fenced(image)
  /\ OpeningPending
==============================================================================
