-------------------------- MODULE MCPlanningRunner --------------------------
(***************************************************************************)
(* PlanningRunner for TLC: two processes over the first stages of a run,   *)
(* and what a run may rely on.                                             *)
(***************************************************************************)
EXTENDS PlanningRunner, TLC

Symmetry == Permutations(Procs) \cup Permutations(Inputs) \cup Permutations(Outputs)

IdType == (0..NStages) \X (0..MaxAttempts) \X (0..MaxAttempts)

\* Types of the store, the projections, the files and the objects; a begin
\* raises the revision or the attempt by one and never both, the projections
\* never run ahead of the store, and its verdict is the replay's.
TypeOK ==
  /\ DOMAIN store = {"events", "accepted", "blocked"}
  /\ \A n \in DOMAIN store.events :
       /\ store.events[n].action \in Actions /\ Id(store.events[n]) \in IdType
       /\ store.events[n].rev + store.events[n].att <= Cardinality(At(store.events, "begin")) + 1
       /\ store.events[n].ok \in BOOLEAN /\ store.events[n].data \in Inputs \cup Outputs \cup {"none"}
  /\ store.accepted = HistoryOk(store.events)
  /\ store.blocked \in {"none", "retry", "final"}
  /\ shown.store \in BOOLEAN /\ shown.records \in 0..Len(store.events)
  /\ source \in Inputs /\ files \in [Stages -> Outputs \cup {"none"}]
  /\ \A p \in Procs : /\ inst[p].ver.id \in IdType /\ inst[p].todo.id \in IdType
                      /\ inst[p].todo.kind \in {"none", "safely", "orBlock"}

Passed == PassedIn(store.events)

\* The replay accepts whatever the runners wrote, up to the block that ended
\* the run: calls in any order from any process cannot corrupt a live one.
LiveHistoryAccepted == store.accepted \/ Terminal(store.events)

\* At most one attempt of the whole run is neither blocked nor advanced.
Unsettled(ev) == {id \in Begun(ev) : ~Has(ev, id, "block") /\ ~Has(ev, id, "advance")}
OneOpenAttempt == Cardinality(Unsettled(store.events)) <= 1

\* A run whose metadata is clear has no blocked attempt to answer for.
BlockReflected ==
  store.blocked = "none" =>
    \A s \in Stages : Begins(store.events, s) # {} =>
      ~Has(store.events, Id(Latest(store.events, s)), "block")

\* A stage passes on its own evidence alone: the result and the gate of the
\* attempt that passes, the inputs it began with, and every gated output
\* standing as its gate saw it.
RestsOnEvidence(ev, id) ==
  /\ Has(ev, id, "gate") /\ GateOf(ev, id).ok /\ ~Has(ev, id, "block")
  /\ InputOf(ev, id) = source
  /\ \A n \in At(ev, "gate") : files[ev[n].stage] = ev[n].data
PassRestsOnEvidence ==
  [][\A s \in PassedIn(store'.events) \ Passed :
       RestsOnEvidence(store'.events, Id(Latest(store'.events, s)))]_store

\* A block of a stage that had passed is the end: nothing begins or passes.
TerminalIsFinal ==
  [][Terminal(store.events) =>
       Begun(store'.events) = Begun(store.events) /\ PassedIn(store'.events) = Passed]_store

Gates == INSTANCE StageGates
           WITH NStages <- NStages, MayRevoke <- FALSE, passed <- Passed

\* The runner implements the stage gates: stages pass in order, each once,
\* and never lose what they passed.
ImplementsGates == Gates!Spec

\* No transaction makes the history of a live run unreadable: _history never
\* has to raise "workflow event follows terminal block".
LiveHistoryStaysReadable ==
  [][store.accepted /\ ~Terminal(store.events) => store'.accepted]_store
=============================================================================
