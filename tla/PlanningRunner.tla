--------------------------- MODULE PlanningRunner ---------------------------
(***************************************************************************)
(* The transactional runner of one planning run                            *)
(* (src/coherence/planning/runner.py).  Its hash-chained events are the    *)
(* only truth: every call validates the whole store, replays the events,   *)
(* commits its own in one transaction, and then projects them to files     *)
(* outside of it.  A call that goes wrong blocks the attempt it was about. *)
(* Runner objects of several processes share the store; a process may die  *)
(* between the commit and the projection, and a new object may recover.    *)
(*                                                                         *)
(* An attempt is its identity <<stage, revision, attempt>>; a hash is the  *)
(* content it is of. The stages read one input and each keeps its output   *)
(* path from one attempt to the next, as the tests and the canonical       *)
(* outputs do. A process has a runner object whenever it wants one, and a  *)
(* host passes a verification on at once or loses it. Tampering with the   *)
(* database or with projected files is left out, and with it the orphan    *)
(* check; a file read inside a transaction belongs to its step. Whether    *)
(* the replay accepts the events is kept with them, event by event.        *)
(***************************************************************************)
EXTENDS Integers, Sequences, FiniteSets

CONSTANTS Procs,        \* the processes that may hold a runner object
          NStages,      \* the stages of the run
          Inputs,       \* the contents the input can have
          Outputs,      \* the contents an output can have
          MaxAttempts   \* bound: attempts begun

ASSUME RunnerAssumption ==
  NStages \in 1..10 /\ MaxAttempts \in Nat /\ "none" \notin Outputs

VARIABLES store,   \* the database: its events, and run_metadata's block
          shown,   \* whether the projections show the store; the events
                   \* whose record files are written
          source,  \* the file the stages read
          files,   \* the output file of each stage
          inst     \* the runner object of each process

vars == <<store, shown, source, files, inst>>
disk == <<source, files>>

Stages == 1..NStages
Actions == {"begin", "result", "gate", "block", "advance"}

\* The stages in the order of their names, as the recovery anchor reads them.
NameOrder == <<4, 1, 9, 10, 8, 5, 7, 2, 3, 6>>

Event(action, id, ok, data) ==
  [action |-> action, stage |-> id[1], rev |-> id[2], att |-> id[3], ok |-> ok, data |-> data]

NoVerification == [id |-> <<0, 0, 0>>, passed |-> FALSE, output |-> "none"]
NoTodo == [kind |-> "none", id |-> <<0, 0, 0>>]
NewObject == [ver |-> NoVerification, todo |-> NoTodo]

-----------------------------------------------------------------------------
(* What the events say (_history).                                         *)

Id(e) == <<e.stage, e.rev, e.att>>
At(ev, action) == {n \in DOMAIN ev : ev[n].action = action}
Has(ev, id, action) == \E n \in At(ev, action) : Id(ev[n]) = id
Begun(ev) == {Id(ev[n]) : n \in At(ev, "begin")}
\* Mutant of PassedIn: a terminal block takes the stage back.
PassedUnblocked(ev) == {ev[n].stage : n \in {m \in At(ev, "advance") : ~Has(ev, Id(ev[m]), "block")}}

PassedIn(ev) == {ev[n].stage : n \in At(ev, "advance")}
CurrentStage(ev) == Cardinality(PassedIn(ev)) + 1

Begins(ev, s) == {n \in At(ev, "begin") : ev[n].stage = s}
Latest(ev, s) == ev[CHOOSE n \in Begins(ev, s) : \A m \in Begins(ev, s) : m <= n]
IsLatest(ev, id) == Begins(ev, id[1]) # {} /\ Id(Latest(ev, id[1])) = id
InputOf(ev, id) == ev[CHOOSE n \in At(ev, "begin") : Id(ev[n]) = id].data
GateOf(ev, id) == ev[CHOOSE n \in At(ev, "gate") : Id(ev[n]) = id]

\* Mutant of NextId: a new revision goes on counting attempts.
NextIdWithoutReset(ev, s, input) ==
  IF Begins(ev, s) = {} THEN <<s, 1, 1>>
  ELSE LET last == Latest(ev, s)
       IN <<s, IF last.data = input THEN last.rev ELSE last.rev + 1, last.att + 1>>

\* A retry on the same inputs is the next attempt; on others, a new revision.
NextId(ev, s, input) ==
  IF Begins(ev, s) = {} THEN <<s, 1, 1>>
  ELSE LET last == Latest(ev, s)
       IN IF last.data = input THEN <<s, last.rev, last.att + 1>> ELSE <<s, last.rev + 1, 1>>

\* Mutant of Retryable: nothing is asked of the attempt before.
RetryableAnyway(ev, s) == TRUE

\* A stage begins again only over a blocked attempt.
Retryable(ev, s) == Begins(ev, s) # {} => Has(ev, Id(Latest(ev, s)), "block")

\* A block after the advance of the same attempt ends the history.
Terminal(ev) == \E n \in At(ev, "block"), m \in At(ev, "advance") : m < n /\ Id(ev[m]) = Id(ev[n])

\* One event after those before it, as _history reads it.
Follows(ev, e) ==
  LET id == Id(e)
      open == IsLatest(ev, id) /\ ~Has(ev, id, "block") /\ ~Has(ev, id, "advance")
  IN /\ ~Terminal(ev)
     /\ CASE e.action = "begin" ->
               /\ e.stage = CurrentStage(ev)
               /\ Retryable(ev, e.stage)
               /\ id = NextId(ev, e.stage, e.data) /\ id \notin Begun(ev)
          [] e.action = "result" -> open /\ ~Has(ev, id, "result")
          [] e.action = "gate" -> open /\ Has(ev, id, "result") /\ ~Has(ev, id, "gate")
          [] e.action = "block" -> IsLatest(ev, id) /\ ~Has(ev, id, "block")
          [] e.action = "advance" -> /\ open /\ e.stage = CurrentStage(ev)
                                     /\ Has(ev, id, "gate") /\ GateOf(ev, id).ok

\* The whole replay, for which the store keeps its verdict.
HistoryOk(ev) == \A n \in DOMAIN ev : Follows(SubSeq(ev, 1, n - 1), ev[n])

\* _append_event
Add(st, e) ==
  [st EXCEPT !.events = Append(@, e), !.accepted = @ /\ Follows(st.events, e)]

\* _validate_store: the history, and every gated output as its gate saw it.
Valid(st) ==
  /\ st.accepted
  /\ \A n \in At(st.events, "result") \cup At(st.events, "gate") :
       ~st.events[n].ok => Has(st.events, Id(st.events[n]), "block")
  /\ \A n \in At(st.events, "gate") : files[st.events[n].stage] = st.events[n].data
  /\ (\E s \in Stages : Begins(st.events, s) # {}
        /\ Has(st.events, Id(Latest(st.events, s)), "block")) => st.blocked # "none"

Init ==
  /\ store = [events |-> << >>, accepted |-> TRUE, blocked |-> "none"]
  /\ shown = [store |-> TRUE, records |-> 0]
  /\ source \in Inputs
  /\ files = [s \in Stages |-> "none"]
  /\ inst = [p \in Procs |-> NewObject]

-----------------------------------------------------------------------------
(* The parts of a call.                                                    *)

\* Mutants of InsertBlock: a blocked attempt is blocked again; the run's
\* metadata is left clear.
InsertBlockAgain(st, id, reason) ==
  [Add(st, Event("block", id, FALSE, "none")) EXCEPT !.blocked = reason]
InsertBlockSilently(st, id, reason) ==
  IF Has(st.events, id, "block") THEN st ELSE Add(st, Event("block", id, FALSE, "none"))

\* _insert_block: once per attempt, and also after its advance.
InsertBlock(st, id, reason) ==
  IF Has(st.events, id, "block") THEN st
  ELSE [Add(st, Event("block", id, FALSE, "none")) EXCEPT !.blocked = reason]

\* A commit leaves the projections behind.
Write(st) ==
  /\ store' = st
  /\ shown' = [shown EXCEPT !.store = @ /\ st.events = store.events]

Idle(p) == inst[p].todo = NoTodo
Todo(p, kind, id) ==
  inst' = [inst EXCEPT ![p] = [NewObject EXCEPT !.todo = [kind |-> kind, id |-> id]]]
Settle(p) == inst' = [inst EXCEPT ![p].todo = NoTodo]

\* _mutation_failed: the attempt is blocked, and nothing is projected.
Reject(p, id) ==
  /\ Write(InsertBlock(store, id, "retry"))
  /\ Todo(p, "none", NoTodo.id)
  /\ UNCHANGED disk

\* A block that is part of the call's own transaction.
Block(p, id) ==
  /\ Write(InsertBlock(store, id, "retry"))
  /\ Todo(p, "safely", id)
  /\ UNCHANGED disk

\* The call commits; its projection must succeed or block the attempt.
Commit(p, id, st) ==
  /\ Write(st)
  /\ Todo(p, "orBlock", id)
  /\ UNCHANGED disk

IsCurrent(id) == id[1] = CurrentStage(store.events) /\ IsLatest(store.events, id)

\* The attempts a call can still change; a call about a blocked one does not.
Unblocked(ev) == {id \in Begun(ev) : ~Has(ev, id, "block")}

\* _require_current_attempt lets the call through.  A run that is already
\* blocked refuses without a trace.
Admitted(id) == store.blocked = "none" /\ IsCurrent(id) /\ Valid(store)

\* Mutant of Stale: inputs are never hashed again.
StaleNever(id) == FALSE

\* _stale_input_reason
Stale(id) == source # InputOf(store.events, id)

-----------------------------------------------------------------------------
(* The calls.                                                              *)

\* Mutant of MayBegin: a terminal block counts like any other.
MayBeginAfterTerminal(st) == st.blocked # "final"

\* Neither recovery nor a block of a passed stage has ended the run.
MayBegin(st) == st.blocked # "final" /\ ~Terminal(st.events)

Begin(p) ==
  LET ev == store.events
      s == CurrentStage(ev)
      id == NextId(ev, s, source)
  IN /\ Idle(p) /\ Cardinality(At(ev, "begin")) < MaxAttempts
     /\ s \in Stages 
     /\ Valid(store) /\ MayBegin(store) /\ Retryable(ev, s)
     /\ Commit(p, id, [Add(store, Event("begin", id, TRUE, source)) EXCEPT
                         !.blocked = "none"])

\* Any of the calls below raises before it wrote: its attempt is not the
\* current one, or the store does not validate.
Misplaced(p, id) ==
  /\ Idle(p)
  /\ (store.blocked = "none" /\ ~IsCurrent(id)) \/ ~Valid(store)
  /\ Reject(p, id)

\* The result of the agent: well-formed and ok, failed, or malformed.
RecordResult(p, id, outcome) ==
  /\ Idle(p) /\ Admitted(id)
  /\ IF Has(store.events, id, "result") THEN Reject(p, id)
     ELSE IF Stale(id) \/ outcome = "malformed" THEN Block(p, id)
     ELSE IF outcome = "failed"
     THEN /\ Write(InsertBlock(Add(store, Event("result", id, FALSE, "none")), id, "retry"))
          /\ Todo(p, "safely", id) /\ UNCHANGED disk
     ELSE Commit(p, id, Add(store, Event("result", id, TRUE, "none")))

\* _ParentGateVerifier.attest: a verification bound to the result and to the
\* output on disk; only this object will accept it.
Attest(p, id, passed) ==
  /\ Idle(p) /\ Admitted(id)
  /\ IF Stale(id) \/ ~Has(store.events, id, "result") \/ files[id[1]] = "none"
     THEN Reject(p, id)
     ELSE /\ inst' = [inst EXCEPT ![p].ver =
                        [id |-> id, passed |-> passed, output |-> files[id[1]]]]
          /\ UNCHANGED <<store, shown, disk>>

\* A decision of the caller, or a verification another object made: refused
\* before the store is looked at.
RecordGateUnattested(p, id) == Idle(p) /\ Reject(p, id)

RecordGate(p, id) ==
  LET v == inst[p].ver
      gate == Event("gate", id, v.passed, v.output)
  IN /\ Idle(p) /\ v # NoVerification /\ Admitted(id)
     /\ IF \/ Stale(id) \/ ~Has(store.events, id, "result")
           \/ v.id # id \/ v.output # files[id[1]]
        THEN Block(p, id)
        ELSE IF Has(store.events, id, "gate") THEN Reject(p, id)
        ELSE Commit(p, id, IF v.passed THEN Add(store, gate)
                           ELSE InsertBlock(Add(store, gate), id, "retry"))

Advance(p, id) ==
  /\ Idle(p) /\ Admitted(id)
  /\ IF Stale(id) \/ ~Has(store.events, id, "gate") THEN Block(p, id)
     ELSE Commit(p, id, Add(store, Event("advance", id, TRUE, "none")))

\* _refresh_projections, repeated until no other commit overlaps it.
Refresh(p) ==
  LET todo == inst[p].todo
  IN /\ todo # NoTodo
     /\ IF Valid(store)
        THEN /\ shown' = [store |-> TRUE, records |-> Len(store.events)]
             /\ Settle(p)
             /\ UNCHANGED <<store, disk>>
        ELSE IF todo.kind = "orBlock" THEN Reject(p, todo.id)
        ELSE Settle(p) /\ UNCHANGED <<store, shown, disk>>

\* The projection cannot be written.
RefreshFails(p) ==
  LET todo == inst[p].todo
  IN /\ todo # NoTodo
     /\ IF todo.kind = "orBlock" THEN Reject(p, todo.id)
        ELSE Settle(p) /\ UNCHANGED <<store, shown, disk>>

\* The latest attempts that have begun and nothing else.
BeginOnly(ev) ==
  {id \in Begun(ev) : IsLatest(ev, id)
     /\ \A a \in Actions \ {"begin"} : ~Has(ev, id, a)}

\* The events whose record file was never projected.
Missing == {n \in DOMAIN store.events :
              n > shown.records /\ store.events[n].action \in {"begin", "result", "gate"}}

\* _recovery_anchor: the first attempt of the stage whose name comes first.
Anchor(ev) ==
  LET n == CHOOSE n \in DOMAIN NameOrder :
             /\ \E id \in Begun(ev) : id[1] = NameOrder[n]
             /\ \A m \in 1..(n - 1) : \A id \in Begun(ev) : id[1] # NameOrder[m]
  IN <<NameOrder[n], 1, 1>>

\* _recover_interrupted_attempts on a store that validates: what each of its
\* three findings blocks, one after the other.
Interrupted == store.blocked = "none" /\ BeginOnly(store.events) # {}
Unprojected == store.blocked = "none" /\ store.events # << >> /\ ~shown.store
Candidate == CHOOSE id \in BeginOnly(store.events) : TRUE

Recovered ==
  LET ev == store.events
      first == IF Interrupted THEN InsertBlock(store, Candidate, "retry") ELSE store
      second == IF Unprojected
                THEN InsertBlock(first, IF Interrupted THEN Candidate ELSE Anchor(ev), "final")
                ELSE first
  IN IF Missing = {} THEN second
     ELSE LET n == CHOOSE n \in Missing : \A m \in Missing : n <= m
          IN InsertBlock(second, Id(ev[n]), "final")

\* A new object with recover: a store that does not validate is given up.
OpenRecovering(p) ==
  /\ inst[p] = NewObject
  /\ IF Valid(store)
     THEN /\ Write(Recovered)
          /\ IF Missing # {} \/ (Interrupted /\ shown.store)
             THEN Todo(p, "safely", NoTodo.id) ELSE UNCHANGED inst
     ELSE /\ store' = [store EXCEPT !.blocked = "final"]
          /\ UNCHANGED <<shown, inst>>
  /\ UNCHANGED disk

-----------------------------------------------------------------------------
(* The environment.                                                        *)

\* A process dies, perhaps in the middle of a projection: the record files
\* are written before the state file.
Crash(p) ==
  /\ inst[p] # NewObject
  /\ inst' = [inst EXCEPT ![p] = NewObject]
  /\ \/ UNCHANGED shown
     \/ /\ ~Idle(p) /\ Valid(store)
        /\ shown' = [shown EXCEPT !.records = Len(store.events)]
  /\ UNCHANGED <<store, disk>>

\* Somebody changes the input.
EditSource(content) ==
  /\ source' = content
  /\ UNCHANGED <<store, shown, files, inst>>

\* An agent or a human writes the output of a stage that has begun.
Edit(s, content) ==
  /\ Begins(store.events, s) # {}
  /\ files' = [files EXCEPT ![s] = content]
  /\ UNCHANGED <<store, shown, source, inst>>

Next ==
  \/ \E p \in Procs :
       \/ Begin(p) \/ Refresh(p) \/ RefreshFails(p)
       \/ OpenRecovering(p) \/ Crash(p)
       \/ \E id \in Unblocked(store.events) :
            \/ Misplaced(p, id)
            \/ \E outcome \in {"ok", "failed", "malformed"} : RecordResult(p, id, outcome)
            \/ \E passed \in BOOLEAN : Attest(p, id, passed)
            \/ RecordGateUnattested(p, id) \/ RecordGate(p, id) \/ Advance(p, id)
  \/ \E content \in Inputs : EditSource(content)
  \/ \E s \in Stages, content \in Outputs : Edit(s, content)

Spec == Init /\ [][Next]_vars
=============================================================================
