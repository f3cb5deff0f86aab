---------------------------- MODULE RunExecution -----------------------------
(***************************************************************************)
(* factory.orchestrator.execution.RunExecution as its callers may use it:  *)
(* the public operations in any order, cursors a caller keeps and hands    *)
(* back later, several host processes each with its own object over the    *)
(* one journal file of the run (no lock guards it), crashes, and evidence  *)
(* too large to stay inline.  StageProtocol is the discipline under which  *)
(* all of this is safe; here nothing imposes it.                           *)
(***************************************************************************)
EXTENDS StageCursor, FiniteSetsExt

CONSTANTS Hosts,       \* processes that may hold a RunExecution of this run
          Decisions,   \* ALLOWED_HUMAN_DECISIONS
          MaxStarts,   \* bound: how often a host process starts
          Payloads     \* what callers record

ASSUME RunExecutionAssumption ==
  /\ MaxStarts \in Nat
  /\ Payloads \subseteq {"inline", "oversized"}

VARIABLES journal,     \* the records on disk
          mem,         \* per host, its RunExecution, or NotRunning
          held,        \* per host, the cursors its caller has been handed
          consuming,   \* per host, the decision consume_human_decision has
                       \* checked but not yet journalled, or NoDecision
          minted,      \* every cursor issued so far, newest last
          starts       \* how many host processes have started

vars == <<journal, mem, held, consuming, minted, starts>>

NotRunning == [serial |-> -1]
Running(h) == mem[h].serial # -1
NoDecision == [request |-> 0, decision |-> "none"]
Idle(h)    == Running(h) /\ consuming[h] = NoDecision

(* payload "oversized" means _bounded_payload moved the body, stage_cursor *)
(* included, to a blob: restore_cursors finds no cursor in the record.     *)
(* request is the journal line of the request a decision answers.          *)
RecordType == [cursor : CursorType, state : EvidenceState \cup {CursorOpened},
               payload : {"inline", "oversized"},
               request : Nat, decision : Decisions \cup {"none"}]

Entry(c, state, payload) ==
  [cursor |-> c, state |-> state, payload |-> payload, request |-> 0, decision |-> "none"]
DecisionEntry(c, d) ==
  [cursor |-> c, state |-> "human-decision-recorded", payload |-> "inline",
   request |-> d.request, decision |-> d.decision]

TypeOK ==
  /\ journal \in Seq(RecordType)
  /\ mem \in [Hosts -> MemoryType \cup {NotRunning}]
  /\ held \in [Hosts -> SUBSET CursorType]
  /\ consuming \in [Hosts -> [request : Nat, decision : Decisions \cup {"none"}]]
  /\ minted \in Seq(CursorType)
  /\ starts \in 0..MaxStarts

(* restore_cursors over a whole journal, and whether it raises.            *)
Restored(log) == RestoreCursors(log, {i \in DOMAIN log : log[i].payload # "oversized"})

(* Requests and the decisions that consumed them, as the journal has them. *)
Requests  == {i \in DOMAIN journal : journal[i].state = "needs_input"}
Consumed  == {journal[i].request : i \in DOMAIN journal} \ {0}
Pending   == Requests \ Consumed
LatestPending == Max(Pending)

Init ==
  /\ journal = << >>
  /\ mem = [h \in Hosts |-> NotRunning]
  /\ held = [h \in Hosts |-> {}]
  /\ consuming = [h \in Hosts |-> NoDecision]
  /\ minted = << >>
  /\ starts = 0

(* RunExecution.create; raises, leaving no object, on a journal restore    *)
(* refuses.                                                                *)
Create(h) ==
  /\ ~Running(h)
  /\ starts < MaxStarts
  /\ starts' = starts + 1
  /\ Restored(journal).accepted
  /\ mem' = [mem EXCEPT ![h] = Restored(journal).image]
  /\ UNCHANGED <<journal, held, consuming, minted>>

(* The host process ends: memory and the caller's cursors go with it.      *)
Crash(h) ==
  /\ Running(h)
  /\ mem' = [mem EXCEPT ![h] = NotRunning]
  /\ held' = [held EXCEPT ![h] = {}]
  /\ consuming' = [consuming EXCEPT ![h] = NoDecision]
  /\ UNCHANGED <<journal, minted, starts>>

HandOut(h, c) == held' = [held EXCEPT ![h] = @ \cup {c}]

(* begin_revision, and open_task_cursor on a run without a root cursor.    *)
BeginRevision(h, s) ==
  LET c    == RevisedCursor(mem[h], s)
      bump == Live(mem[h].cursors[s])
  IN  /\ Idle(h)
      /\ mem' = [mem EXCEPT ![h] = IF bump THEN Bump(@, s) ELSE FirstOpen(@, s)]
      /\ journal' = IF bump THEN Append(journal, Entry(c, CursorOpened, "inline")) ELSE journal
      /\ minted' = Append(minted, c)
      /\ HandOut(h, c)
      /\ UNCHANGED <<consuming, starts>>

(* begin_revision of a live stage whose journal write raises: it has       *)
(* invalidated the descendants by then, and its caller keeps the object.   *)
OpeningFails(h, s) ==
  /\ Idle(h)
  /\ Live(mem[h].cursors[s])
  /\ mem' = [mem EXCEPT ![h] = OpeningFailed(@, s)]
  /\ minted' = Append(minted, RevisedCursor(mem[h], s))
  /\ UNCHANGED <<journal, held, consuming, starts>>

(* begin_attempt.                                                          *)
BeginAttempt(h, s) ==
  /\ Idle(h)
  /\ Live(mem[h].cursors[s])
  /\ mem' = [mem EXCEPT ![h] = NextAttempt(@, s)]
  /\ minted' = Append(minted, mem'[h].cursors[s])
  /\ HandOut(h, mem'[h].cursors[s])
  /\ UNCHANGED <<journal, consuming, starts>>

(* open_cursor.                                                            *)
OpenCursor(h, s) ==
  /\ Idle(h)
  /\ Live(mem[h].cursors[s])
  /\ HandOut(h, mem[h].cursors[s])
  /\ UNCHANGED <<journal, mem, consuming, minted, starts>>

(* The common tail of every recording: the line, then the memory.          *)
Write(h, e) ==
  LET n == Len(journal) + 1 IN
  /\ journal' = Append(journal, e)
  /\ mem' = [mem EXCEPT ![h] = Recorded(@, e.cursor, e.state, n)]
  /\ HandOut(h, Advance(e.cursor, n))

(* record_stage with whatever cursor the caller still holds.               *)
RecordStage(h, c, payload) ==
  /\ Idle(h)
  /\ Recordable(mem[h], c, "completed")
  /\ Write(h, Entry(c, "completed", payload))
  /\ UNCHANGED <<consuming, minted, starts>>

(* open_human_decision_request: refused while one is pending.              *)
OpenHumanDecisionRequest(h, c) ==
  /\ Idle(h)
  /\ Pending = {}
  /\ Recordable(mem[h], c, "needs_input")
  /\ Write(h, Entry(c, "needs_input", "inline"))
  /\ UNCHANGED <<consuming, minted, starts>>

(* Mutant of ConsumeHumanDecision: a superseded request is answered too.   *)
ConsumeSuperseded(h, d) ==
  /\ Idle(h)
  /\ d.request \notin Consumed
  /\ Pending # {} /\ d.request = LatestPending
  /\ Live(mem[h].cursors[journal[d.request].cursor.stage])
  /\ consuming' = [consuming EXCEPT ![h] = d]
  /\ UNCHANGED <<journal, mem, held, minted, starts>>

(* consume_human_decision up to its last check: the request is the pending *)
(* one and the stage is still where the request was opened.  A decision    *)
(* already journalled for the request is returned or refused, and writes   *)
(* nothing.                                                                *)
ConsumeHumanDecision(h, d) ==
  LET asked == journal[d.request].cursor IN
  /\ Idle(h)
  /\ d.request \notin Consumed
  /\ Pending # {} /\ d.request = LatestPending
  /\ Live(mem[h].cursors[asked.stage])
  /\ mem[h].cursors[asked.stage].rev = asked.rev
  /\ mem[h].cursors[asked.stage].att = asked.att
  /\ consuming' = [consuming EXCEPT ![h] = d]
  /\ UNCHANGED <<journal, mem, held, minted, starts>>

(* Its record_stage call, which checks this host's memory alone.           *)
JournalDecision(h) ==
  LET d == consuming[h]
      c == mem[h].cursors[journal[d.request].cursor.stage]
  IN  /\ Running(h) /\ d # NoDecision
      /\ Recordable(mem[h], c, "human-decision-recorded")
      /\ Write(h, DecisionEntry(c, d))
      /\ consuming' = [consuming EXCEPT ![h] = NoDecision]
      /\ UNCHANGED <<minted, starts>>

Next ==
  \E h \in Hosts :
    \/ Create(h)
    \/ Crash(h)
    \/ \E s \in Stage : \/ BeginRevision(h, s) \/ OpeningFails(h, s)
                       \/ BeginAttempt(h, s) \/ OpenCursor(h, s)
    \/ \E c \in held[h] : \/ \E payload \in Payloads : RecordStage(h, c, payload)
                          \/ OpenHumanDecisionRequest(h, c)
    \/ \E i \in Requests, d \in Decisions :
         ConsumeHumanDecision(h, [request |-> i, decision |-> d])
    \/ JournalDecision(h)

Spec == Init /\ [][Next]_vars

------------------------------------------------------------------------------
(* A cursor from before an invalidation is never accepted again: once a    *)
(* revision of a stage is journalled under serial n, every later record of *)
(* a later stage carries a serial above n.                                 *)
StaleCursorRefused ==
  \A i, j \in DOMAIN journal :
    i < j /\ journal[i].state = CursorOpened
          /\ journal[j].cursor.stage > journal[i].cursor.stage
      => journal[j].cursor.serial > journal[i].cursor.serial

(* While one object has written the whole journal, whatever old cursors    *)
(* its caller keeps and offers again, it accepts none that it invalidated. *)
LiveFence == starts <= 1 => StaleCursorRefused

(* While one object has issued them all, no two cursors share the serial   *)
(* of their attempt_key.                                                   *)
LiveSerials ==
  starts <= 1 => \A i, j \in DOMAIN minted : i # j => minted[i].serial # minted[j].serial

(* No record repeats: a position (cursor with its key and parent, and the  *)
(* record state) is journalled at most once.                               *)
PositionsJournalledOnce ==
  \A i, j \in DOMAIN journal :
    i # j => PositionKey(journal[i].cursor, journal[i].state)
               # PositionKey(journal[j].cursor, journal[j].state)

(* A request is decided at most once, by a record of the very revision and *)
(* attempt that asked.                                                     *)
DecisionsBound ==
  \A i \in DOMAIN journal : journal[i].request # 0 =>
    LET asked == journal[journal[i].request].cursor IN
    /\ journal[i].cursor.stage = asked.stage
    /\ journal[i].cursor.rev = asked.rev
    /\ journal[i].cursor.att = asked.att
    /\ \A j \in DOMAIN journal : journal[j].request = journal[i].request => j = i

(* The run can always be reopened: restore_cursors accepts the journal.    *)
Restorable == Restored(journal).accepted

==============================================================================
