----------------------------- MODULE StageCursor -----------------------------
(***************************************************************************)
(* The stage-cursor arithmetic of factory.orchestrator.execution: what one *)
(* RunExecution object keeps in memory, how begin_revision, begin_attempt  *)
(* and record_stage change it, and how restore_cursors rebuilds it from    *)
(* the journal, one record at a time.  Everything here is a pure operator; *)
(* the state machines are in the modules that extend this one.             *)
(*                                                                         *)
(* Stages are numbered along CANONICAL_EXECUTION_STAGES, so "later in the  *)
(* canonical graph" is ">".  The SHA-256 digest of a stage record is the   *)
(* number of its line in the journal: two records have the same digest     *)
(* exactly when they are the same record, and NoDigest stands for None.    *)
(* An attempt_key "run/task/stage/rN/aN/vS" is the four fields stage, rev, *)
(* att and serial of the cursor that carries it.                           *)
(***************************************************************************)
EXTENDS Integers, Sequences, FiniteSets

CONSTANT NumStages    \* the length of CANONICAL_EXECUTION_STAGES

ASSUME NumStagesAssumption == NumStages \in Nat \ {0}

Stage == 1..NumStages
Root  == 1            \* stages[0], the stage open_task_cursor addresses
NoStage == 0

(* Journal record states.  CursorOpened marks a position, not evidence.    *)
CursorOpened  == "cursor-opened"
EvidenceState == {"completed", "failed", "needs_input", "human-decision-recorded"}

NoDigest == 0
CursorType == [stage : Nat, rev : Nat, att : Nat, parent : Nat, serial : Nat]
NoCursor   == [stage |-> 0, rev |-> 0, att |-> 0, parent |-> NoDigest, serial |-> 0]
Live(c)    == c.rev > 0

(* _position_key: revision/attempt, key, parent and state of one record.   *)
Position     == [cursor : CursorType, state : EvidenceState \cup {CursorOpened}]
PositionKey(c, state) == [cursor |-> c, state |-> state]

(***************************************************************************)
(* The in-memory half of a RunExecution.  prior_attempt_keys is left out:  *)
(* every key in it carries a serial that attempt_serial has reached, so    *)
(* the loop of _issue_attempt_key that consults it always stops at once.   *)
(***************************************************************************)
MemoryType == [cursors     : [Stage -> CursorType],
               invalidated : SUBSET Stage,
               serial      : Nat,
               last        : [Stage -> Nat],
               positions   : SUBSET Position]

EmptyMemory == [cursors     |-> [s \in Stage |-> NoCursor],
                invalidated |-> {},
                serial      |-> 0,
                last        |-> [s \in Stage |-> NoDigest],
                positions   |-> {}]

DescendantsPastTheEnd(s) == (s + 1)..(NumStages + 1)   \* mutant of Descendants
Descendants(s) == {t \in Stage : t > s}

(* _invalidate_descendants: later stages lose their cursor.                *)
DropLater(cursors, s) == [t \in Stage |-> IF t > s THEN NoCursor ELSE cursors[t]]

(* Mutant of NewCursor: chained to the line before the stage's evidence.   *)
NewCursorBehind(m, s, rev, att) ==
  [stage |-> s, rev |-> rev, att |-> att, parent |-> m.last[s] - 1, serial |-> m.serial + 1]

(* _new_cursor: a fresh serial, chained to the stage's last evidence.      *)
NewCursor(m, s, rev, att) ==
  [stage |-> s, rev |-> rev, att |-> att, parent |-> m.last[s], serial |-> m.serial + 1]

RevisedCursor(m, s) == NewCursor(m, s, m.cursors[s].rev + 1, 1)

(* begin_revision of a stage that has no cursor: nothing is journalled.    *)
FirstOpen(m, s) ==
  [cursors     |-> [m.cursors EXCEPT ![s] = RevisedCursor(m, s)],
   invalidated |-> m.invalidated \ {s},
   serial      |-> m.serial + 1,
   last        |-> m.last,
   positions   |-> m.positions]

(* Mutant of Bump: the later cursors survive the invalidation.             *)
BumpKeepingLater(m, s) ==
  LET c == RevisedCursor(m, s)
  IN  [cursors     |-> [m.cursors EXCEPT ![s] = c],
       invalidated |-> m.invalidated \ {s},
       serial      |-> m.serial + 1,
       last        |-> m.last,
       positions   |-> m.positions \cup {PositionKey(c, CursorOpened)}]

(* begin_revision of a live stage: descendants go, the opening is          *)
(* journalled as RevisedCursor(m, s) and only then applied.                *)
Bump(m, s) ==
  LET c == RevisedCursor(m, s)
  IN  [cursors     |-> [DropLater(m.cursors, s) EXCEPT ![s] = c],
       invalidated |-> (m.invalidated \cup Descendants(s)) \ {s},
       serial      |-> m.serial + 1,
       last        |-> m.last,
       positions   |-> m.positions \cup {PositionKey(c, CursorOpened)}]

(* begin_revision whose record was never written: the descendants and the  *)
(* serial are gone, the stage keeps the cursor it had.                     *)
OpeningFailed(m, s) ==
  [cursors     |-> DropLater(m.cursors, s),
   invalidated |-> m.invalidated \cup Descendants(s),
   serial      |-> m.serial + 1,
   last        |-> m.last,
   positions   |-> m.positions]

(* Mutant of NextAttempt: the serial it used is not used up.               *)
NextAttemptReissuing(m, s) ==
  [cursors     |-> [m.cursors EXCEPT ![s] =
                      NewCursor(m, s, m.cursors[s].rev, m.cursors[s].att + 1)],
   invalidated |-> m.invalidated,
   serial      |-> m.serial,
   last        |-> m.last,
   positions   |-> m.positions]

(* begin_attempt: same revision, next attempt, nothing journalled.         *)
NextAttempt(m, s) ==
  [cursors     |-> [m.cursors EXCEPT ![s] =
                      NewCursor(m, s, m.cursors[s].rev, m.cursors[s].att + 1)],
   invalidated |-> m.invalidated,
   serial      |-> m.serial + 1,
   last        |-> m.last,
   positions   |-> m.positions]

(* The advanced cursor: the same position, chained to its own record.      *)
Advance(c, digest) ==
  [stage |-> c.stage, rev |-> c.rev, att |-> c.att, parent |-> digest, serial |-> c.serial]

(* Mutant of Recordable: neither the parent nor the position is checked.   *)
RecordableRepeatedly(m, c, state) ==
  /\ Live(m.cursors[c.stage])
  /\ c.rev = m.cursors[c.stage].rev
  /\ c.att = m.cursors[c.stage].att
  /\ c.serial = m.cursors[c.stage].serial

(* record_stage refuses an unknown stage, a stale revision/attempt, a      *)
(* foreign fencing key, a foreign parent and a position already recorded.  *)
Recordable(m, c, state) ==
  /\ Live(m.cursors[c.stage])
  /\ c.rev = m.cursors[c.stage].rev
  /\ c.att = m.cursors[c.stage].att
  /\ c.serial = m.cursors[c.stage].serial
  /\ c.parent = m.cursors[c.stage].parent
  /\ PositionKey(c, state) \notin m.positions

(* Mutant of Recorded: the stage's chain tip stays where it was.           *)
RecordedForgettingTip(m, c, state, digest) ==
  [cursors     |-> [m.cursors EXCEPT ![c.stage] = Advance(c, digest)],
   invalidated |-> m.invalidated,
   serial      |-> m.serial,
   last        |-> m.last,
   positions   |-> m.positions \cup {PositionKey(c, state)}]

(* record_stage once the record is on disk with that digest.               *)
Recorded(m, c, state, digest) ==
  [cursors     |-> [m.cursors EXCEPT ![c.stage] = Advance(c, digest)],
   invalidated |-> m.invalidated,
   serial      |-> m.serial,
   last        |-> [m.last EXCEPT ![c.stage] = digest],
   positions   |-> m.positions \cup {PositionKey(c, state)}]

(***************************************************************************)
(* restore_cursors, one step of its loop over the journal.  ReplayAccepts  *)
(* are the checks that raise RunCursorError; Replay is the rest of the     *)
(* loop body.  The seen_keys check cannot fire on a record this code wrote *)
(* because the key spells out the position it is compared with.            *)
(***************************************************************************)
ReplayAccepts(img, c, state) ==
  /\ c.parent = img.last[c.stage]
  /\ PositionKey(c, state) \notin img.positions

NotOlder(c, prev) ==
  \/ c.rev > prev.rev
  \/ c.rev = prev.rev /\ c.att >= prev.att

(* Mutants of Replay: a revised stage leaves the later ones live; the      *)
(* serial counter follows the last record instead of the highest.          *)
ReplayKeepingLater(img, c, state, digest) ==
  LET prev   == img.cursors[c.stage]
      newer  == ~Live(prev) \/ NotOlder(c, prev)
      opened == state = CursorOpened
  IN  [cursors     |-> IF newer THEN [img.cursors EXCEPT ![c.stage] =
                                        IF opened THEN c ELSE Advance(c, digest)]
                                ELSE img.cursors,
       invalidated |-> img.invalidated \ {c.stage},
       serial      |-> IF c.serial > img.serial THEN c.serial ELSE img.serial,
       last        |-> IF opened THEN img.last
                                 ELSE [img.last EXCEPT ![c.stage] = digest],
       positions   |-> img.positions \cup {PositionKey(c, state)}]

ReplayLastSerial(img, c, state, digest) ==
  LET prev    == img.cursors[c.stage]
      revised == Live(prev) /\ c.rev > prev.rev
      base    == IF revised THEN DropLater(img.cursors, c.stage) ELSE img.cursors
      opened  == state = CursorOpened
  IN  [cursors     |-> [base EXCEPT ![c.stage] = IF opened THEN c ELSE Advance(c, digest)],
       invalidated |-> img.invalidated \ {c.stage},
       serial      |-> c.serial,
       last        |-> IF opened THEN img.last
                                 ELSE [img.last EXCEPT ![c.stage] = digest],
       positions   |-> img.positions \cup {PositionKey(c, state)}]

Replay(img, c, state, digest) ==
  LET prev    == img.cursors[c.stage]
      revised == Live(prev) /\ c.rev > prev.rev
      newer   == ~Live(prev) \/ NotOlder(c, prev)
      base    == IF revised THEN DropLater(img.cursors, c.stage) ELSE img.cursors
      stale   == IF revised THEN Descendants(c.stage) ELSE {}
      opened  == state = CursorOpened
  IN  [cursors     |-> IF newer THEN [base EXCEPT ![c.stage] =
                                        IF opened THEN c ELSE Advance(c, digest)]
                                ELSE img.cursors,
       invalidated |-> IF newer THEN (img.invalidated \cup stale) \ {c.stage}
                                ELSE img.invalidated,
       serial      |-> IF c.serial > img.serial THEN c.serial ELSE img.serial,
       last        |-> IF opened THEN img.last
                                 ELSE [img.last EXCEPT ![c.stage] = digest],
       positions   |-> img.positions \cup {PositionKey(c, state)}]

(* restore_cursors over a whole journal: the memory it rebuilds, and       *)
(* whether it gets there without raising.  Only the lines in carriers have *)
(* a stage_cursor the loop can read; it passes over the others.            *)
RestoreLine(r, e, digest) ==
  [accepted |-> r.accepted /\ ReplayAccepts(r.image, e.cursor, e.state),
   image    |-> Replay(r.image, e.cursor, e.state, digest)]

RestoreCursors(log, carriers) ==
  LET after[n \in 0..Len(log)] ==
        IF n = 0 THEN [accepted |-> TRUE, image |-> EmptyMemory]
        ELSE IF n \in carriers THEN RestoreLine(after[n - 1], log[n], n)
        ELSE after[n - 1]
  IN  after[Len(log)]
==============================================================================
