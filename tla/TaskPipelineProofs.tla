------------------------- MODULE TaskPipelineProofs -------------------------
(***************************************************************************)
(* Proofs about the task pipeline, for any files and contents, any budgets *)
(* and any number of processes started, killed and resumed.                *)
(***************************************************************************)
EXTENDS MCTaskPipeline, TLAPS

TreeContents == FileContents \cup {"todo", "done"} \cup (Outcomes \X (1..MaxStarts))
Trees == {t \in [Paths -> TreeContents] : TreeOk(t)}
Contexts == {"none", "pass", "already"}

RepoType == [tree : Trees, head : Trees, commits : Nat]
CheckpointType ==
  [node : Nodes \cup {"none"}, head : Nat, tree : Trees, start : Trees, context : Contexts]
ProcessType ==
  [at : Places, human : BOOLEAN, resumeAt : Nodes \cup {"none"}, context : Contexts,
   already : BOOLEAN, first : BOOLEAN, round : 0..MaxRounds, cycle : 0..MaxCycles,
   passed : BOOLEAN, outcome : Outcomes, start : Trees, kept : SUBSET (Paths \X TreeContents),
   starts : 0..MaxStarts, checked : Trees, disturbed : 0..MaxStarts]

\* The places of a process before its status is set, and those where a
\* cycle of the inner loop, or a round of the outer one, is left.
BeforeStatus == Places \ {"idle", "publish", "session"}
InCycle == {"context", "grill", "dev", "validation", "review"}
InRound == InCycle \cup {"ask", "human"}

\* Whatever the process does next is within its budgets.
BudgetInv ==
  /\ Running => proc.starts > 0
  /\ proc.at \in InCycle => proc.cycle < MaxCycles
  /\ proc.at \in InRound => proc.round < MaxRounds
  /\ proc.disturbed <= proc.starts /\ ckpt.head <= repo.commits

\* The verdict a commit rests on is about the tree that is still there.
VerdictInv ==
  /\ proc.at \in {"review", "commit"} => ckpt.tree = repo.tree
  /\ proc.at = "review" => proc.checked = repo.tree
  /\ proc.at = "commit" =>
       ckpt.node = "code-commit" /\ (~proc.human => proc.passed /\ proc.checked = repo.tree)
  /\ proc.at \in {"ask", "human"} => proc.human

\* What a human left in the tree of a process that no command disturbed is
\* known to it, or committed.
KeptInv ==
  Running /\ proc.disturbed # proc.starts =>
    \A f \in Files : repo.tree[f] \in HumanContents =>
      repo.tree[f] = repo.head[f] \/ <<f, repo.tree[f]>> \in proc.kept

\* As long as no command has disturbed any process, nothing of a human is
\* committed, so that no patch starts from it.
CommittedInv ==
  proc.disturbed = 0 =>
    \A f \in Files : /\ repo.head[f] \notin HumanContents /\ proc.start[f] \notin HumanContents
                     /\ ckpt.start[f] \notin HumanContents

\* Where a process that passed both verdicts goes, up to its publication.
Closing(p) ==
  \/ p.at \in {"committed", "preflight"}
  \/ p.outcome = "completed" /\ p.at \in {"finalize", "finalized", "status", "publish"}

\* A process that no command disturbed: a status left in the tree is known to
\* it until it sets its own; the files its verdict passed stay as they are
\* until the status is published; and the evidence is recorded before that.
StatusInv ==
  Running /\ proc.disturbed # proc.starts =>
    /\ proc.at \in BeforeStatus /\ repo.tree["task"] = "done" =>
         repo.head["task"] = "done" \/ <<"task", "done">> \in proc.kept
    /\ proc.at = "publish" => repo.tree["task"] = StatusOf(proc.outcome)
    /\ proc.at \in {"status", "publish"} => ckpt.node = "session-review"
    /\ Closing(proc) /\ ~proc.human =>
         proc.passed /\ \A f \in Files : repo.tree[f] = proc.checked[f]

PipeTypes ==
  /\ repo \in RepoType /\ ckpt \in CheckpointType /\ abandoned \in Reasons \cup {"no"}
  /\ proc \in ProcessType

PipeInv ==
  PipeTypes /\ BudgetInv /\ VerdictInv /\ KeptInv /\ CommittedInv /\ StatusInv

\* What a step commits of the work: nothing that was there at the start.
WorkStep ==
  CommitStep =>
    \A f \in Files : \/ repo'.head[f] = repo.head[f]
                     \/ repo'.head[f] = repo.tree[f] /\ <<f, repo.tree[f]>> \notin proc.kept

\* What a process has before it that starts behind dev.
StartStep ==
  Starts /\ SkipsDev' /\ ~proc'.already =>
    \A f \in Files : Tracked(f) /\ ckpt.tree[f] # ckpt.start[f] => repo'.tree[f] = ckpt.tree[f]

PipeStep == PipeInv' /\ WorkStep /\ StartStep

-----------------------------------------------------------------------------
(* Trees.                                                                  *)

(* The task file and the manifest are not files of the work.               *)
LEMMA PathFacts ==
  /\ "task" \in Paths /\ "manifest" \in Paths /\ Files \subseteq Paths
  /\ "task" \notin Files /\ "manifest" \notin Files
  /\ \A c \in HumanContents : c # Absent /\ c # Base /\ c \notin AgentContents
  /\ Absent # "todo" /\ Absent # "done"
  /\ MaxCycles \in Nat \ {0} /\ MaxRounds \in Nat \ {0} /\ MaxStarts \in Nat
  BY PipelineAssumption DEF Paths

(* What stands at the paths of a tree.                                     *)
LEMMA TreeFacts ==
  ASSUME NEW t \in Trees
  PROVE  /\ t \in [Paths -> TreeContents] /\ \A f \in Files : t[f] \in FileContents
         /\ t["task"] \in {"todo", "done"}
         /\ t["manifest"] \in {Absent} \cup (Outcomes \X (1..MaxStarts))
  BY DEF Trees, TreeOk

(* A tree put together, path by path, from two others.                     *)
LEMMA TreeMix ==
  ASSUME NEW t \in Trees, NEW u \in Trees, NEW v, v = [q \in Paths |-> v[q]],
         \A q \in Paths : v[q] = t[q] \/ v[q] = u[q]
  PROVE  v \in Trees
  <1>1. v \in [Paths -> TreeContents]
    BY TreeFacts
  <1>2. TreeOk(v)
    BY <1>1, TreeFacts, PathFacts DEF TreeOk
  <1> QED BY <1>1, <1>2 DEF Trees

(* A tree with another content of one path.                                *)
LEMMA TreePut ==
  ASSUME NEW t \in Trees, NEW q \in Paths, NEW c,
         \/ q \in Files /\ c \in FileContents
         \/ q = "task" /\ c \in {"todo", "done"}
         \/ q = "manifest" /\ c \in Outcomes \X (1..MaxStarts)
  PROVE  LET new == [t EXCEPT ![q] = c]
         IN new \in Trees /\ new[q] = c /\ \A other \in Paths \ {q} : new[other] = t[other]
  <1> DEFINE new == [t EXCEPT ![q] = c]
  <1>1. c \in TreeContents
    BY DEF TreeContents
  <1>2. /\ new \in [Paths -> TreeContents] /\ new[q] = c
        /\ \A other \in Paths \ {q} : new[other] = t[other]
    BY <1>1, TreeFacts
  <1> HIDE DEF new
  <1>3. TreeOk(new)
    <2>1. DOMAIN new = Paths
      BY <1>2
    <2>2. \A f \in Files : new[f] \in FileContents
      BY <1>2, PathFacts, TreeFacts
    <2>3. new["task"] \in {"todo", "done"}
      BY <1>2, PathFacts, TreeFacts
    <2>4. new["manifest"] \in {Absent} \cup (Outcomes \X (1..MaxStarts))
      BY <1>2, PathFacts, TreeFacts
    <2> QED BY <2>1, <2>2, <2>3, <2>4 DEF TreeOk
  <1> QED BY <1>2, <1>3 DEF Trees, new

-----------------------------------------------------------------------------
(* The steps of a process that leave the repository alone.                 *)

(* A checkpoint names the next node and fingerprints what it stands on.    *)
LEMMA RecordFacts ==
  ASSUME PipeTypes, NEW node \in Nodes, Record(node), proc'.context \in Contexts
  PROVE  /\ ckpt' \in CheckpointType /\ ckpt'.node = node /\ ckpt'.head = repo.commits
         /\ ckpt'.tree = repo.tree /\ ckpt'.start = proc.start
  BY DEF PipeTypes, Record, CheckpointType, RepoType, ProcessType

(* A process moves on, with a record or without: what it found when it     *)
(* started stays with it, and it neither skips back before its status nor  *)
(* gets behind the publication.                                            *)
LEMMA MoveStep ==
  ASSUME PipeInv, Running, Running', proc.at # "session", proc'.at # "session",
         UNCHANGED <<repo, abandoned>>, proc' \in ProcessType,
         proc'.start = proc.start, proc'.kept = proc.kept, proc'.starts = proc.starts,
         proc'.disturbed = proc.disturbed,
         proc'.at \in BeforeStatus => proc.at \in BeforeStatus,
         proc'.at \in InCycle => proc'.cycle < MaxCycles,
         proc'.at \in InRound => proc'.round < MaxRounds,
         Closing(proc') => /\ Closing(proc) \/ proc.at = "commit"
                           /\ proc'.human = proc.human /\ proc'.passed = proc.passed
                           /\ proc'.checked = proc.checked,
         proc'.at # "publish", proc'.at = "status" => ckpt'.node = "session-review",
         UNCHANGED ckpt \/ (\E node \in Nodes : Record(node)),
         VerdictInv'
  PROVE  PipeStep
  <1>1. /\ ckpt' \in CheckpointType /\ ckpt'.head <= repo.commits
        /\ ckpt'.start = proc.start \/ (ckpt'.start = ckpt.start /\ ckpt'.node = ckpt.node
                                          /\ ckpt'.head = ckpt.head)
    <2>1. CASE UNCHANGED ckpt
      BY <2>1 DEF PipeInv, PipeTypes, BudgetInv
    <2>2. CASE \E node \in Nodes : Record(node)
      <3>1. PICK node \in Nodes : Record(node)
        BY <2>2
      <3>2. repo.commits \in Nat /\ proc'.context \in Contexts
        BY DEF PipeInv, PipeTypes, RepoType, ProcessType
      <3> QED BY <3>1, <3>2, RecordFacts DEF PipeInv
    <2> QED BY <2>1, <2>2
  <1>2. PipeTypes'
    BY <1>1 DEF PipeInv, PipeTypes
  <1>3. BudgetInv'
    BY <1>1 DEF PipeInv, BudgetInv
  <1>4. KeptInv'
    BY DEF PipeInv, KeptInv
  <1>5. CommittedInv'
    BY <1>1 DEF PipeInv, CommittedInv
  <1>6. StatusInv'
    <2>1. proc.at = "commit" /\ ~proc.human =>
            proc.passed /\ \A f \in Files : repo.tree[f] = proc.checked[f]
      BY DEF PipeInv, VerdictInv
    <2> QED BY <2>1 DEF PipeInv, StatusInv
  <1>7. WorkStep /\ StartStep
    BY DEF WorkStep, StartStep, Starts
  <1> QED BY <1>2, <1>3, <1>4, <1>5, <1>6, <1>7 DEF PipeInv, PipeStep

(* A step that stays before the status, at no place with a verdict of its  *)
(* own, and writes nothing but the loop's own fields.                      *)
LEMMA StepFacts ==
  ASSUME PipeInv
  PROVE  /\ proc \in ProcessType /\ proc.context \in Contexts
         /\ proc.at # "idle" <=> Running
         /\ BeforeStatus \subseteq Places /\ InRound \subseteq BeforeStatus /\ InCycle \subseteq InRound
         /\ proc.cycle \in Nat /\ proc.round \in Nat
  BY PathFacts DEF PipeInv, PipeTypes, ProcessType, BeforeStatus, InRound, InCycle, Places, Running

(* run_context_gatherer                                                    *)
LEMMA ContextStep ==
  ASSUME PipeInv, NEW outcome \in {"pass", "already", "reject"}, Context(outcome)
  PROVE  PipeStep
  <1>1. proc.at = "context" /\ UNCHANGED <<repo, abandoned>> /\ proc.cycle < MaxCycles /\ proc.round < MaxRounds
    BY DEF PipeInv, BudgetInv, InCycle, InRound, Context, At
  <1>2. CASE outcome = "reject"
    <2>1. proc' = [proc EXCEPT !.at = "finalize", !.outcome = "rejected"] /\ Record("closed")
      BY <1>2 DEF Context
    <2> QED BY <1>1, <2>1, StepFacts, MoveStep
        DEF ProcessType, Places, Outcomes, BeforeStatus, Closing, InCycle, InRound, Running, Nodes, VerdictInv
  <1>3. CASE outcome # "reject"
    <2>1. /\ proc' = [proc EXCEPT !.at = IF proc.human THEN "grill" ELSE "dev",
                                  !.context = outcome, !.already = outcome = "already"]
          /\ Record("dev")
      BY <1>3 DEF Context
    <2> DEFINE place == IF proc.human THEN "grill" ELSE "dev"
               already == outcome = "already"
    <2>2. proc' = [proc EXCEPT !.at = place, !.context = outcome, !.already = already]
      BY <2>1
    <2>3. place \in {"grill", "dev"} /\ already \in BOOLEAN /\ outcome \in Contexts
      BY <1>3 DEF Contexts
    <2> HIDE DEF place, already
    <2>4. /\ proc' \in ProcessType /\ proc'.at = place
          /\ proc'.round = proc.round /\ proc'.cycle = proc.cycle /\ proc'.start = proc.start
          /\ proc'.kept = proc.kept /\ proc'.starts = proc.starts /\ proc'.disturbed = proc.disturbed
      BY <2>2, <2>3, StepFacts DEF ProcessType, Places
    <2>5. VerdictInv'
      BY <2>3, <2>4 DEF VerdictInv
    <2> QED BY <1>1, <2>1, <2>3, <2>4, <2>5, MoveStep
        DEF BeforeStatus, Closing, Places, InCycle, InRound, Running, Nodes
  <1> QED BY <1>2, <1>3

(* The grill, and the first dev skipped.                                   *)
LEMMA GrillStep ==
  ASSUME PipeInv, Grill \/ SkipDev
  PROVE  PipeStep
  <1>1. CASE Grill
    BY <1>1, StepFacts, MoveStep DEF Grill, At, Go, PipeInv, BudgetInv,
       ProcessType, Places, BeforeStatus, Closing, InCycle, InRound, Running, Nodes, VerdictInv
  <1>2. CASE SkipDev
    BY <1>2, StepFacts, MoveStep DEF SkipDev, At, PipeInv, BudgetInv,
       ProcessType, Places, BeforeStatus, Closing, InCycle, InRound, Running, Nodes, VerdictInv
  <1> QED BY <1>1, <1>2

(* run_dev ends.                                                           *)
LEMMA DevEndsStep ==
  ASSUME PipeInv, NEW passed \in BOOLEAN, DevEnds(passed)
  PROVE  PipeStep
  <1>1. proc.at = "dev" /\ UNCHANGED <<repo, abandoned>> /\ proc.cycle < MaxCycles /\ proc.round < MaxRounds
    BY DEF PipeInv, BudgetInv, InCycle, InRound, DevEnds, At
  <1>2. CASE passed
    <2>1. proc' = [proc EXCEPT !.at = "validation", !.first = FALSE] /\ Record("validation")
      BY <1>2 DEF DevEnds
    <2> QED BY <1>1, <2>1, StepFacts, MoveStep
        DEF ProcessType, Places, BeforeStatus, Closing, InCycle, InRound, Running, Nodes, VerdictInv
  <1>3. CASE ~passed
    <2>1. /\ proc' = [proc EXCEPT !.at = "finalize", !.first = FALSE, !.outcome = "escalated"]
          /\ Record("closed")
      BY <1>3 DEF DevEnds
    <2>2. /\ proc' \in ProcessType /\ proc'.at = "finalize" /\ proc'.start = proc.start
          /\ proc'.outcome = "escalated" /\ proc'.kept = proc.kept /\ proc'.starts = proc.starts /\ proc'.disturbed = proc.disturbed
      BY <1>1, <2>1, StepFacts DEF ProcessType, Places, Outcomes
    <2>3. VerdictInv'
      BY <2>2 DEF VerdictInv
    <2> QED BY <1>1, <2>1, <2>2, <2>3, MoveStep
        DEF Places, BeforeStatus, Closing, InCycle, InRound, Running, Nodes
  <1> QED BY <1>2, <1>3

(* A red verdict leads back to dev within the budget, and otherwise out of *)
(* the inner loop.                                                         *)
LEMMA RetriedFacts ==
  ASSUME PipeInv, proc.at \in InCycle
  PROVE  /\ Retried \in ProcessType /\ Retried.at \in {"dev", "ask", "finalize"}
         /\ Retried.at \in InCycle => Retried.cycle < MaxCycles
         /\ Retried.round = proc.round /\ Retried.start = proc.start /\ Retried.kept = proc.kept
         /\ Retried.starts = proc.starts /\ Retried.disturbed = proc.disturbed
         /\ Retried.context = proc.context /\ (Retried.at = "finalize" => Retried.outcome = "escalated")
  <1> DEFINE cycle == Again(proc.cycle)
             within == Within(cycle, MaxCycles)
             at == IF within THEN "dev" ELSE IF proc.human THEN "ask" ELSE "finalize"
             outcome == IF within \/ proc.human THEN "none" ELSE "escalated"
  <1>1. Retried = [proc EXCEPT !.cycle = cycle, !.passed = FALSE, !.at = at, !.outcome = outcome]
    BY DEF Retried
  <1>2. cycle \in 0..MaxCycles /\ (within <=> cycle < MaxCycles)
    BY StepFacts, PathFacts DEF PipeInv, BudgetInv, Again, Within
  <1>3. at \in {"dev", "ask", "finalize"} /\ (at = "dev" => within) /\ (at = "ask" => proc.human) /\ outcome \in Outcomes
        /\ (at = "finalize" => outcome = "escalated")
    BY DEF Outcomes
  <1> HIDE DEF cycle, within, at, outcome
  <1> QED BY <1>1, <1>2, <1>3, StepFacts DEF ProcessType, Places, InCycle

(* The human is asked only of an attended process.                         *)
LEMMA RetriedAsks ==
  ASSUME PipeInv, proc.at \in InCycle, proc' = Retried, proc'.at = "ask"
  PROVE  proc'.human
  <1>1. ASSUME ~proc.human PROVE FALSE
    <2>1. Retried.at \in {"dev", "finalize"}
      BY <1>1, StepFacts DEF Retried, ProcessType
    <2> QED BY <2>1
  <1>2. proc'.human = proc.human
    BY StepFacts DEF Retried, ProcessType
  <1> QED BY <1>1, <1>2

(* run_validation                                                          *)
LEMMA ValidateStep ==
  ASSUME PipeInv, NEW passed \in BOOLEAN, Validate(passed)
  PROVE  PipeStep
  <1>1. /\ proc.at = "validation" /\ proc.at \in InCycle /\ UNCHANGED <<repo, abandoned>>
        /\ proc.cycle < MaxCycles /\ proc.round < MaxRounds /\ repo.tree \in Trees
    BY DEF PipeInv, BudgetInv, PipeTypes, RepoType, InCycle, InRound, Validate, At
  <1>2. CASE passed
    <2>1. proc' = [proc EXCEPT !.at = "review", !.checked = repo.tree] /\ Record("review")
      BY <1>2 DEF Validate
    <2>2. proc' \in ProcessType /\ proc'.at = "review" /\ proc'.checked = repo.tree /\ proc'.context = proc.context
      BY <1>1, <2>1, StepFacts DEF ProcessType, Places
    <2>3. ckpt'.tree = repo.tree
      BY <2>1, <2>2, StepFacts, RecordFacts DEF PipeInv, Nodes
    <2>4. VerdictInv'
      BY <1>1, <2>2, <2>3 DEF VerdictInv
    <2> QED BY <1>1, <2>1, <2>2, <2>4, StepFacts, MoveStep
        DEF ProcessType, BeforeStatus, Closing, Places, InCycle, InRound, Running, Nodes
  <1>3. CASE ~passed
    <2>1. proc' = Retried /\ Record("dev")
      BY <1>3 DEF Validate
    <2>2. VerdictInv'
      <3>1. proc'.at \in {"dev", "ask", "finalize"}
        BY <1>1, <2>1, RetriedFacts
      <3> QED BY <1>1, <2>1, <3>1, RetriedAsks DEF VerdictInv
    <2> QED BY <1>1, <2>1, <2>2, StepFacts, RetriedFacts, MoveStep
        DEF BeforeStatus, Closing, Places, InCycle, InRound, Running, Nodes
  <1> QED BY <1>2, <1>3

(* run_review: an unattended run commits the tree both verdicts were of.   *)
LEMMA ReviewStep ==
  ASSUME PipeInv, NEW passed \in BOOLEAN, Review(passed)
  PROVE  PipeStep
  <1>1. /\ proc.at = "review" /\ proc.at \in InCycle /\ UNCHANGED <<repo, abandoned>>
        /\ proc.cycle < MaxCycles /\ proc.round < MaxRounds
        /\ ckpt.tree = repo.tree /\ proc.checked = repo.tree
    BY DEF PipeInv, BudgetInv, VerdictInv, InCycle, InRound, Review, At
  <1>2. CASE passed
    <2> DEFINE place == IF proc.human THEN "ask" ELSE "commit"
               node == IF proc.human THEN "human-review" ELSE "code-commit"
    <2>1. proc' = [proc EXCEPT !.at = place, !.passed = TRUE] /\ Record(node) /\ node \in Nodes
      BY <1>2 DEF Review, Nodes
    <2>2. /\ place \in {"ask", "commit"}
          /\ place = "commit" => ~proc.human /\ node = "code-commit"
          /\ place = "ask" => proc.human
      OBVIOUS
    <2> HIDE DEF place, node
    <2>3. /\ proc' \in ProcessType /\ proc'.at = place /\ proc'.passed /\ proc'.context = proc.context
          /\ proc'.checked = proc.checked /\ proc'.human = proc.human
          /\ proc'.round = proc.round /\ proc'.start = proc.start /\ proc'.kept = proc.kept
          /\ proc'.starts = proc.starts /\ proc'.disturbed = proc.disturbed
      BY <2>1, <2>2, StepFacts DEF ProcessType, Places
    <2>4. ckpt'.tree = repo.tree /\ ckpt'.node = node
      BY <2>1, <2>3, StepFacts, RecordFacts DEF PipeInv
    <2>5. VerdictInv'
      BY <1>1, <2>2, <2>3, <2>4 DEF VerdictInv
    <2> QED BY <1>1, <2>1, <2>2, <2>3, <2>5, StepFacts, MoveStep
        DEF BeforeStatus, Closing, Places, InCycle, InRound, Running
  <1>3. CASE ~passed
    <2>1. proc' = Retried /\ Record("dev")
      BY <1>3 DEF Review
    <2>2. VerdictInv'
      <3>1. proc'.at \in {"dev", "ask", "finalize"}
        BY <1>1, <2>1, RetriedFacts
      <3> QED BY <1>1, <2>1, <3>1, RetriedAsks DEF VerdictInv
    <2> QED BY <1>1, <2>1, <2>2, StepFacts, RetriedFacts, MoveStep
        DEF BeforeStatus, Closing, Places, InCycle, InRound, Running, Nodes
  <1> QED BY <1>2, <1>3

(* The human is asked, and approves the tree that stands, or starts the    *)
(* next round.                                                             *)
LEMMA HumanStep ==
  ASSUME PipeInv, Ask \/ \E approved \in BOOLEAN : Decide(approved)
  PROVE  PipeStep
  <1>1. CASE Ask
    BY <1>1, StepFacts, MoveStep DEF Ask, At, Go, PipeInv, BudgetInv,
       ProcessType, Places, BeforeStatus, Closing, InCycle, InRound, Running, Nodes, VerdictInv
  <1>2. ASSUME NEW approved \in BOOLEAN, Decide(approved), approved PROVE PipeStep
    <2>1. /\ proc.at = "human" /\ proc.human /\ proc' = [proc EXCEPT !.at = "commit"]
          /\ Record("code-commit") /\ UNCHANGED <<repo, abandoned>>
      BY <1>2 DEF Decide, At, Go, PipeInv, VerdictInv
    <2>2. ckpt'.tree = repo.tree /\ ckpt'.node = "code-commit"
      BY <2>1, StepFacts, RecordFacts DEF PipeInv, Nodes, ProcessType
    <2>3. VerdictInv'
      BY <2>1, <2>2, StepFacts DEF VerdictInv, ProcessType
    <2>4. proc' \in ProcessType
      BY <2>1, StepFacts DEF ProcessType, Places
    <2> QED BY <2>1, <2>3, <2>4, StepFacts, MoveStep
        DEF ProcessType, Places, BeforeStatus, Closing, InCycle, InRound, Running, Nodes
  <1>3. ASSUME NEW approved \in BOOLEAN, Decide(approved), ~approved PROVE PipeStep
    <2> DEFINE round == proc.round + 1
               within == Within(round, MaxRounds)
               place == IF within THEN "dev" ELSE "finalize"
               outcome == IF within THEN "none" ELSE "escalated"
    <2>1. /\ proc.at = "human" /\ Record("dev") /\ UNCHANGED <<repo, abandoned>>
          /\ proc' = [proc EXCEPT !.round = round, !.cycle = 0, !.already = FALSE,
                        !.at = place, !.outcome = outcome]
      BY <1>3, StepFacts DEF Decide, At, ProcessType
    <2>2. /\ round \in 0..MaxRounds /\ (within <=> round < MaxRounds)
          /\ place \in {"dev", "finalize"} /\ (place = "dev" => within) /\ outcome \in Outcomes
          /\ (place = "finalize" => outcome = "escalated")
      BY <2>1, StepFacts, PathFacts DEF PipeInv, BudgetInv, InRound, InCycle, Within, Outcomes
    <2> HIDE DEF round, within, place, outcome
    <2>3. /\ proc' \in ProcessType /\ proc'.at = place /\ proc'.round = round /\ proc'.cycle = 0
          /\ proc'.outcome = outcome
          /\ proc'.start = proc.start /\ proc'.kept = proc.kept
          /\ proc'.starts = proc.starts /\ proc'.disturbed = proc.disturbed
      <3>1. 0 \in 0..MaxCycles /\ FALSE \in BOOLEAN /\ place \in Places
        BY <2>2, PathFacts DEF Places
      <3> QED BY <2>1, <2>2, <3>1, StepFacts DEF ProcessType
    <2>4. VerdictInv'
      BY <2>2, <2>3 DEF VerdictInv
    <2> QED BY <2>1, <2>2, <2>3, <2>4, PathFacts, StepFacts, MoveStep
        DEF Places, BeforeStatus, Closing, InCycle, InRound, Running, Nodes
  <1> QED BY <1>1, <1>2, <1>3

(* The commit that is not made, what is recorded of it, the preflight and  *)
(* the record of the evidence.                                             *)
LEMMA ClosingStep ==
  ASSUME PipeInv,
         \/ CommitFails \/ CommitRefused \/ RecordCommit \/ RecordEvidence
         \/ \E ok \in BOOLEAN : Preflight(ok)
  PROVE  PipeStep
  <1>1. CASE CommitFails
    BY <1>1, StepFacts, MoveStep DEF CommitFails, At, Go,
       ProcessType, Places, BeforeStatus, Closing, InCycle, InRound, Running, Nodes, VerdictInv
  <1>2. CASE CommitRefused
    BY <1>2, StepFacts, MoveStep DEF CommitRefused, At,
       ProcessType, Places, Outcomes, BeforeStatus, Closing, InCycle, InRound, Running, Nodes, VerdictInv
  <1>3. CASE RecordCommit
    BY <1>3, StepFacts, MoveStep DEF RecordCommit, At,
       ProcessType, Places, Outcomes, BeforeStatus, Closing, InCycle, InRound, Running, Nodes, VerdictInv
  <1>4. CASE RecordEvidence
    <2>1. /\ proc.at = "finalized" /\ proc' = [proc EXCEPT !.at = "status"] /\ proc'.context = proc.context
          /\ Record("session-review") /\ UNCHANGED <<repo, abandoned>> /\ "session-review" \in Nodes
      BY <1>4, StepFacts DEF RecordEvidence, At, Go, ProcessType, Nodes
    <2>2. ckpt'.node = "session-review"
      BY <2>1, StepFacts, RecordFacts DEF PipeInv
    <2> QED BY <2>1, <2>2, StepFacts, MoveStep
        DEF ProcessType, Places, BeforeStatus, Closing, InCycle, InRound, Running, VerdictInv
  <1>5. ASSUME NEW ok \in BOOLEAN, Preflight(ok), ok PROVE PipeStep
    BY <1>5, StepFacts, MoveStep DEF Preflight, At, Go,
       ProcessType, Places, BeforeStatus, Closing, InCycle, InRound, Running, Nodes, VerdictInv
  <1>6. ASSUME NEW ok \in BOOLEAN, Preflight(ok), ~ok PROVE PipeStep
    <2>1. /\ proc.at = "preflight" /\ UNCHANGED <<repo, abandoned>> /\ Record("closed")
          /\ proc' = [proc EXCEPT !.at = "finalize", !.outcome = "escalated"]
      BY <1>6 DEF Preflight, At
    <2> QED BY <2>1, StepFacts, MoveStep
        DEF ProcessType, Places, Outcomes, BeforeStatus, Closing, InCycle, InRound, Running, Nodes, VerdictInv
  <1> QED BY <1>1, <1>2, <1>3, <1>4, <1>5, <1>6

-----------------------------------------------------------------------------
(* The steps of a process that write the tree or commit it.                *)

(* A write of one path by a live process, at a place without a verdict.    *)
LEMMA WriteStep ==
  ASSUME PipeInv, NEW q \in Paths, NEW c,
         \/ /\ q \in Files /\ c \in AgentContents
            /\ proc.at = "dev" /\ proc'.at = "dev"
         \/ /\ q = "manifest" /\ c \in Outcomes \X (1..MaxStarts)
            /\ proc.at = "finalize" /\ proc'.at = "finalized"
         \/ /\ q = "task" /\ c = StatusOf(proc.outcome)
            /\ proc.at = "status" /\ proc'.at = "publish",
         repo' = [repo EXCEPT !.tree[q] = c], UNCHANGED <<ckpt, abandoned>>,
         proc' \in ProcessType,
         proc'.start = proc.start, proc'.kept = proc.kept, proc'.starts = proc.starts,
         proc'.disturbed = proc.disturbed, proc'.cycle = proc.cycle, proc'.round = proc.round,
         proc'.human = proc.human, proc'.passed = proc.passed, proc'.outcome = proc.outcome,
         proc'.checked = proc.checked
  PROVE  PipeStep
  <1>1. /\ repo'.tree \in Trees /\ repo'.tree[q] = c
        /\ \A other \in Paths \ {q} : repo'.tree[other] = repo.tree[other]
    <2>1. /\ c \in AgentContents => c \in FileContents
          /\ c = StatusOf(proc.outcome) => c \in {"todo", "done"}
      BY DEF FileContents, StatusOf
    <2>2. repo.tree \in Trees /\ repo'.tree = [repo.tree EXCEPT ![q] = c]
      BY DEF PipeInv, PipeTypes, RepoType
    <2> DEFINE tree == repo.tree
    <2>3. tree \in Trees /\ repo'.tree = [tree EXCEPT ![q] = c]
      BY <2>2
    <2> HIDE DEF tree
    <2>4. LET new == [tree EXCEPT ![q] = c]
          IN new \in Trees /\ new[q] = c /\ \A other \in Paths \ {q} : new[other] = tree[other]
      BY <2>1, <2>3, TreePut
    <2> QED BY <2>3, <2>4 DEF tree
  <1>2. repo' \in RepoType /\ repo'.head = repo.head /\ repo'.commits = repo.commits
    BY <1>1 DEF PipeInv, PipeTypes, RepoType
  <1>3. PipeTypes'
    BY <1>2 DEF PipeInv, PipeTypes
  <1>4. BudgetInv'
    BY <1>2 DEF PipeInv, BudgetInv, InCycle, InRound, Running
  <1>5. VerdictInv'
    BY DEF VerdictInv
  <1>6. KeptInv'
    <2>1. SUFFICES ASSUME proc.disturbed # proc.starts, NEW f \in Files, repo'.tree[f] \in HumanContents
                   PROVE  repo'.tree[f] = repo.head[f] \/ <<f, repo'.tree[f]>> \in proc.kept
      BY <1>2 DEF KeptInv
    <2>2. f # q /\ f \in Paths
      BY <1>1, <2>1, PathFacts
    <2>3. repo'.tree[f] = repo.tree[f]
      BY <1>1, <2>2
    <2>4. Running
      BY DEF Running
    <2> QED BY <2>1, <2>3, <2>4 DEF PipeInv, KeptInv
  <1>7. CommittedInv'
    BY <1>2 DEF PipeInv, CommittedInv
  <1>8. StatusInv'
    <2>1. q # "task" => repo'.tree["task"] = repo.tree["task"]
      BY <1>1, PathFacts
    <2>2. q \notin Files => \A f \in Files : repo'.tree[f] = repo.tree[f]
      BY <1>1, PathFacts
    <2>3. Running /\ Running' /\ (proc'.at \in BeforeStatus => proc.at \in BeforeStatus /\ q # "task")
      BY PathFacts DEF Running, BeforeStatus, Places
    <2>4. Closing(proc') => Closing(proc) /\ q \notin Files
      BY PathFacts DEF Closing
    <2>5. q = "task" => repo'.tree["task"] = StatusOf(proc'.outcome)
      BY <1>1, PathFacts DEF StatusOf
    <2>6. proc'.at = "publish" => q = "task" /\ proc.at = "status"
      OBVIOUS
    <2> QED BY <1>2, <2>1, <2>2, <2>3, <2>4, <2>5, <2>6 DEF PipeInv, StatusInv
  <1>9. WorkStep /\ StartStep
    BY DEF WorkStep, CommitStep, StartStep, Starts, Running
  <1> QED BY <1>3, <1>4, <1>5, <1>6, <1>7, <1>8, <1>9 DEF PipeInv, PipeStep

(* The agent's edits, the manifest and the status.                         *)
LEMMA WritingStep ==
  ASSUME PipeInv,
         \/ \E f \in Files, content \in AgentContents : DevWrites(f, content)
         \/ Finalize \/ SetStatus
  PROVE  PipeStep
  <1>1. ASSUME NEW f \in Files, NEW content \in AgentContents, DevWrites(f, content) PROVE PipeStep
    <2>1. /\ proc.at = "dev" /\ UNCHANGED <<ckpt, abandoned, proc>>
          /\ repo' = [repo EXCEPT !.tree[f] = content] /\ f \in Paths
      BY <1>1, PathFacts DEF DevWrites, At
    <2> QED BY <2>1, StepFacts, WriteStep
  <1>2. CASE Finalize
    <2> DEFINE c == <<proc.outcome, proc.starts>>
    <2>1. /\ proc.at = "finalize" /\ UNCHANGED <<ckpt, abandoned>>
          /\ proc' = [proc EXCEPT !.at = "finalized"] /\ repo' = [repo EXCEPT !.tree["manifest"] = c]
      BY <1>2 DEF Finalize, At, Go
    <2>2. c \in Outcomes \X (1..MaxStarts)
      BY <2>1, StepFacts, PathFacts DEF PipeInv, BudgetInv, Running, ProcessType
    <2> HIDE DEF c
    <2>3. /\ proc' \in ProcessType /\ proc'.at = "finalized" /\ proc'.start = proc.start
          /\ proc'.kept = proc.kept /\ proc'.starts = proc.starts /\ proc'.disturbed = proc.disturbed
          /\ proc'.cycle = proc.cycle /\ proc'.round = proc.round /\ proc'.human = proc.human
          /\ proc'.passed = proc.passed /\ proc'.outcome = proc.outcome /\ proc'.checked = proc.checked
      BY <2>1, StepFacts DEF ProcessType, Places
    <2> QED BY <2>1, <2>2, <2>3, PathFacts, WriteStep
  <1>3. CASE SetStatus
    <2> DEFINE c == StatusOf(proc.outcome)
    <2>1. /\ proc.at = "status" /\ UNCHANGED <<ckpt, abandoned>>
          /\ proc' = [proc EXCEPT !.at = "publish"] /\ repo' = [repo EXCEPT !.tree["task"] = c]
      BY <1>3 DEF SetStatus, At, Go
    <2>2. c = StatusOf(proc.outcome)
      OBVIOUS
    <2> HIDE DEF c
    <2>3. /\ proc' \in ProcessType /\ proc'.at = "publish" /\ proc'.start = proc.start
          /\ proc'.kept = proc.kept /\ proc'.starts = proc.starts /\ proc'.disturbed = proc.disturbed
          /\ proc'.cycle = proc.cycle /\ proc'.round = proc.round /\ proc'.human = proc.human
          /\ proc'.passed = proc.passed /\ proc'.outcome = proc.outcome /\ proc'.checked = proc.checked
      BY <2>1, StepFacts DEF ProcessType, Places
    <2> QED BY <2>1, <2>2, <2>3, PathFacts, WriteStep
  <1> QED BY <1>1, <1>2, <1>3

(* commit_all commits nothing of what was there at the start, and nothing  *)
(* of the status: that is published later.                                 *)
LEMMA CommitAllStep ==
  ASSUME PipeInv, Commit
  PROVE  PipeStep
  <1> DEFINE head == [q \in Paths |-> IF <<q, repo.tree[q]>> \in proc.kept THEN repo.head[q] ELSE repo.tree[q]]
             commits == IF head # repo.head THEN repo.commits + 1 ELSE repo.commits
  <1>1. /\ proc.at = "commit" /\ proc' = [proc EXCEPT !.at = "committed"]
        /\ UNCHANGED <<ckpt, abandoned>> /\ repo.commits \in Nat
        /\ repo.tree \in Trees /\ repo.head \in Trees
        /\ repo' = [repo EXCEPT !.head = head, !.commits = commits]
    BY DEF Commit, At, Go, PipeInv, PipeTypes, RepoType
  <1>2. /\ \A q \in Paths : \/ head[q] = repo.head[q]
                            \/ head[q] = repo.tree[q] /\ <<q, repo.tree[q]>> \notin proc.kept
        /\ head \in Trees /\ commits \in Nat /\ commits >= repo.commits
        /\ commits = repo.commits => head = repo.head
    <2>1. \A q \in Paths : \/ head[q] = repo.head[q]
                           \/ head[q] = repo.tree[q] /\ <<q, repo.tree[q]>> \notin proc.kept
      OBVIOUS
    <2>2. head = [q \in Paths |-> head[q]]
      OBVIOUS
    <2>3. commits \in Nat /\ commits >= repo.commits /\ (commits = repo.commits => head = repo.head)
      BY <1>1
    <2> HIDE DEF head
    <2>4. head \in Trees
      BY <1>1, <2>1, <2>2, TreeMix
    <2> QED BY <2>1, <2>3, <2>4
  <1> HIDE DEF head, commits
  <1>3. /\ repo' \in RepoType /\ repo'.head = head /\ repo'.commits = commits /\ repo'.tree = repo.tree
    BY <1>1, <1>2 DEF RepoType, PipeInv, PipeTypes
  <1>4. /\ proc' \in ProcessType /\ proc'.at = "committed" /\ proc'.start = proc.start
        /\ proc'.kept = proc.kept /\ proc'.starts = proc.starts /\ proc'.disturbed = proc.disturbed
        /\ proc'.human = proc.human /\ proc'.passed = proc.passed /\ proc'.checked = proc.checked
    BY <1>1, StepFacts DEF ProcessType, Places
  <1>5. /\ Running /\ Running' /\ proc.at \in BeforeStatus /\ proc.starts > 0
        /\ proc.disturbed = 0 => proc.disturbed # proc.starts
    <2>1. Running /\ Running' /\ proc.at \in BeforeStatus
      BY <1>1, <1>4 DEF Running, BeforeStatus, Places
    <2>2. proc.starts > 0 /\ proc.starts \in Nat
      BY <2>1, StepFacts, PathFacts DEF PipeInv, BudgetInv, ProcessType
    <2> QED BY <2>1, <2>2
  <1>6. PipeTypes'
    BY <1>1, <1>3, <1>4 DEF PipeInv, PipeTypes
  <1>7. BudgetInv'
    <2>1. ckpt.head \in Nat /\ ckpt.head <= repo.commits
      BY DEF PipeInv, PipeTypes, CheckpointType, BudgetInv
    <2>2. ckpt'.head <= repo'.commits
      BY <1>1, <1>2, <1>3, <2>1
    <2> QED BY <1>4, <1>5, <2>2 DEF PipeInv, BudgetInv, InCycle, InRound
  <1>8. VerdictInv'
    BY <1>4 DEF VerdictInv
  <1>9. KeptInv'
    BY <1>2, <1>3, <1>4, <1>5, PathFacts DEF PipeInv, KeptInv
  <1>10. CommittedInv'
    <2>1. ASSUME proc.disturbed = 0, NEW f \in Files PROVE head[f] \notin HumanContents
      <3>1. head[f] = repo.head[f] \/ (head[f] = repo.tree[f] /\ <<f, repo.tree[f]>> \notin proc.kept)
        BY <1>2, PathFacts
      <3>2. repo.head[f] \notin HumanContents
        BY <2>1 DEF PipeInv, CommittedInv
      <3>3. repo.tree[f] \in HumanContents => repo.tree[f] = repo.head[f] \/ <<f, repo.tree[f]>> \in proc.kept
        BY <1>5, <2>1 DEF PipeInv, KeptInv
      <3> QED BY <3>1, <3>2, <3>3
    <2> QED BY <1>1, <1>3, <1>4, <2>1 DEF PipeInv, CommittedInv
  <1>11. StatusInv'
    <2> SUFFICES ASSUME proc.disturbed # proc.starts PROVE StatusInv'
      BY <1>4 DEF StatusInv
    <2>1. repo'.tree["task"] = "done" => repo'.head["task"] = "done" \/ <<"task", "done">> \in proc'.kept
      BY <1>2, <1>3, <1>4, <1>5, PathFacts DEF PipeInv, StatusInv
    <2>2. ~proc'.human => proc'.passed /\ \A f \in Files : repo'.tree[f] = proc'.checked[f]
      BY <1>1, <1>3, <1>4 DEF PipeInv, VerdictInv
    <2> QED BY <1>4, <2>1, <2>2 DEF StatusInv
  <1>12. WorkStep
    BY <1>2, <1>3, PathFacts DEF WorkStep
  <1>13. StartStep
    BY <1>5 DEF StartStep, Starts
  <1> QED BY <1>6, <1>7, <1>8, <1>9, <1>10, <1>11, <1>12, <1>13 DEF PipeInv, PipeStep

(* commit_paths makes a commit of its own, and leaves the files alone.     *)
LEMMA PublishStep ==
  ASSUME PipeInv, CommitPaths
  PROVE  PipeStep
  <1> DEFINE head == [q \in Paths |-> IF q \in Files THEN repo.head[q] ELSE repo.tree[q]]
             commits == repo.commits + 1
  <1>1. /\ proc.at = "publish" /\ proc' = [proc EXCEPT !.at = "session"]
        /\ UNCHANGED <<ckpt, abandoned>> /\ repo.commits \in Nat
        /\ repo.tree \in Trees /\ repo.head \in Trees
        /\ repo' = [repo EXCEPT !.commits = commits, !.head = head]
    BY DEF CommitPaths, At, Go, PipeInv, PipeTypes, RepoType
  <1>2. head \in Trees /\ \A f \in Files : head[f] = repo.head[f]
    <2>1. /\ head = [q \in Paths |-> head[q]] /\ \A f \in Files : head[f] = repo.head[f]
          /\ \A q \in Paths : head[q] = repo.head[q] \/ head[q] = repo.tree[q]
      BY PathFacts
    <2> HIDE DEF head
    <2> QED BY <1>1, <2>1, TreeMix
  <1> HIDE DEF head
  <1>3. /\ repo' \in RepoType /\ repo'.head = head /\ repo'.commits = repo.commits + 1
        /\ repo'.tree = repo.tree
    <2>1. commits \in Nat /\ commits = repo.commits + 1
      BY <1>1
    <2> HIDE DEF commits
    <2> QED BY <1>1, <1>2, <2>1 DEF RepoType, PipeInv, PipeTypes
  <1>4. /\ proc' \in ProcessType /\ proc'.at = "session" /\ proc'.start = proc.start
        /\ proc'.kept = proc.kept /\ proc'.starts = proc.starts /\ proc'.disturbed = proc.disturbed
    BY <1>1, StepFacts DEF ProcessType, Places
  <1>5. ckpt.head \in Nat /\ ckpt.head <= repo.commits /\ Running
    BY <1>1 DEF PipeInv, PipeTypes, CheckpointType, BudgetInv, Running
  <1>6. ckpt'.head <= repo'.commits
    BY <1>1, <1>3, <1>5
  <1>7. PipeTypes'
    BY <1>1, <1>3, <1>4 DEF PipeInv, PipeTypes
  <1>8. BudgetInv'
    BY <1>1, <1>3, <1>4, <1>5, <1>6 DEF PipeInv, BudgetInv, InCycle, InRound
  <1>9. VerdictInv'
    BY <1>4 DEF VerdictInv
  <1>10. KeptInv'
    BY <1>2, <1>3, <1>4, <1>5 DEF PipeInv, KeptInv
  <1>11. CommittedInv'
    BY <1>1, <1>2, <1>3, <1>4 DEF PipeInv, CommittedInv
  <1>12. StatusInv'
    BY <1>4 DEF StatusInv, BeforeStatus, Closing
  <1>13. WorkStep /\ StartStep
    BY <1>1, <1>5 DEF WorkStep, CommitStep, StartStep, Starts
  <1> QED BY <1>7, <1>8, <1>9, <1>10, <1>11, <1>12, <1>13 DEF PipeInv, PipeStep

-----------------------------------------------------------------------------
(* The end of a process, and the environment.                              *)

(* No process: what it would have found is what is there.                  *)
LEMMA IdleFacts ==
  ASSUME PipeInv, proc' = [NoProcess EXCEPT !.starts = proc.starts, !.disturbed = proc.disturbed]
  PROVE  /\ proc' \in ProcessType /\ proc'.at = "idle" /\ proc'.start = repo.head
         /\ proc'.starts = proc.starts /\ proc'.disturbed = proc.disturbed /\ proc'.context = "none"
  <1>1. /\ repo.head \in Trees /\ proc.starts \in 0..MaxStarts /\ proc.disturbed \in 0..MaxStarts
        /\ 0 \in 0..MaxRounds /\ 0 \in 0..MaxCycles /\ {} \in SUBSET (Paths \X TreeContents)
    BY PathFacts DEF PipeInv, PipeTypes, RepoType, ProcessType
  <1> QED BY <1>1 DEF NoProcess, ProcessType, Places, Nodes, Contexts, Outcomes

(* A process dies, or ends after its last record.                          *)
LEMMA IdleStep ==
  ASSUME PipeInv, Crash \/ End
  PROVE  PipeStep
  <1>1. /\ proc' = [NoProcess EXCEPT !.starts = proc.starts, !.disturbed = proc.disturbed]
        /\ UNCHANGED <<repo, abandoned>> /\ Running
    BY DEF Crash, End, At, Running
  <1>2. /\ proc' \in ProcessType /\ proc'.at = "idle" /\ proc'.start = repo.head
        /\ proc'.starts = proc.starts /\ proc'.disturbed = proc.disturbed /\ proc'.context = "none"
    BY <1>1, IdleFacts
  <1>3. /\ ckpt' \in CheckpointType /\ ckpt'.head <= repo.commits
        /\ ckpt' = ckpt \/ (ckpt'.node = "closed" /\ ckpt'.start = proc.start)
    <2>1. CASE Crash
      BY <2>1 DEF Crash, PipeInv, PipeTypes, BudgetInv
    <2>2. CASE End
      <3>1. Record("closed") /\ "closed" \in Nodes /\ proc'.context \in Contexts /\ repo.commits \in Nat
        BY <1>2, <2>2 DEF End, Nodes, Contexts, PipeInv, PipeTypes, RepoType
      <3> QED BY <3>1, RecordFacts DEF PipeInv
    <2> QED BY <2>1, <2>2
  <1>4. PipeTypes'
    BY <1>1, <1>2, <1>3 DEF PipeInv, PipeTypes
  <1>5. BudgetInv'
    BY <1>1, <1>2, <1>3 DEF PipeInv, BudgetInv, InCycle, InRound, Running
  <1>6. VerdictInv' /\ KeptInv' /\ StatusInv'
    BY <1>2 DEF VerdictInv, KeptInv, StatusInv, Running
  <1>7. CommittedInv'
    BY <1>1, <1>2, <1>3 DEF PipeInv, CommittedInv
  <1>8. WorkStep /\ StartStep
    BY <1>2 DEF WorkStep, CommitStep, StartStep, Starts, Running
  <1> QED BY <1>4, <1>5, <1>6, <1>7, <1>8 DEF PipeInv, PipeStep

(* A human edits the tree while no process runs.                           *)
LEMMA ExternalEditStep ==
  ASSUME PipeInv, NEW f \in Files, NEW content \in HumanContents \cup {Absent, repo.head[f]},
         ExternalEdit(f, content)
  PROVE  PipeStep
  <1>1. /\ UNCHANGED <<ckpt, abandoned, proc>> /\ ~Running /\ repo' = [repo EXCEPT !.tree[f] = content]
        /\ repo.tree \in Trees /\ repo.head \in Trees
    BY DEF ExternalEdit, PipeInv, PipeTypes, RepoType
  <1>2. content \in FileContents /\ f \in Paths
    BY <1>1, TreeFacts, PathFacts DEF FileContents
  <1> DEFINE tree == repo.tree
             new == [tree EXCEPT ![f] = content]
  <1>3. new \in Trees
    <2> HIDE DEF tree
    <2>1. tree \in Trees
      BY <1>1 DEF tree
    <2> QED BY <1>2, <2>1, TreePut
  <1>4. repo' \in RepoType /\ repo'.head = repo.head /\ repo'.commits = repo.commits
    <2>1. repo' = [repo EXCEPT !.tree = new]
      BY <1>1 DEF PipeInv, PipeTypes, RepoType
    <2> HIDE DEF new
    <2> QED BY <1>3, <2>1 DEF RepoType, PipeInv, PipeTypes
  <1>5. PipeTypes' /\ BudgetInv'
    BY <1>1, <1>4 DEF PipeInv, PipeTypes, BudgetInv, Running
  <1>6. VerdictInv' /\ KeptInv' /\ StatusInv'
    BY <1>1 DEF VerdictInv, KeptInv, StatusInv, Running
  <1>7. CommittedInv'
    BY <1>1, <1>4 DEF PipeInv, CommittedInv
  <1>8. WorkStep /\ StartStep
    BY <1>1 DEF WorkStep, CommitStep, StartStep, Starts, Running
  <1> QED BY <1>5, <1>6, <1>7, <1>8 DEF PipeInv, PipeStep

-----------------------------------------------------------------------------
(* The start of a process.                                                 *)

(* A process starts on a checkpoint: its own budgets are fresh, and what   *)
(* lies in the tree beside HEAD is known to it.                            *)
LEMMA StartKeeps ==
  ASSUME PipeInv, ~Running, proc.starts < MaxStarts,
         NEW ck \in CheckpointType, NEW human \in BOOLEAN, NEW tree \in Trees,
         StartOn(ck, human, tree), abandoned' \in Reasons \cup {"no"},
         ckpt' \in CheckpointType, ckpt'.head <= repo.commits,
         proc.disturbed = 0 => \A f \in Files : /\ ck.start[f] \notin HumanContents
                                                /\ ckpt'.start[f] \notin HumanContents
  PROVE  /\ PipeInv' /\ WorkStep /\ repo'.tree = tree
         /\ proc'.already = (ck.context = "already") /\ proc'.resumeAt = ck.node
  <1> DEFINE at == Entry(ck)
             already == ck.context = "already"
             starts == proc.starts + 1
             kept == Snapshot'
  <1>1. /\ repo' = [repo EXCEPT !.tree = tree] /\ repo \in RepoType
        /\ proc' = [NoProcess EXCEPT
                !.at = at, !.human = human, !.resumeAt = ck.node, !.already = already,
                !.first = TRUE, !.start = ck.start, !.starts = starts,
                !.kept = kept, !.checked = repo.head, !.disturbed = proc.disturbed]
    BY DEF StartOn, PipeInv, PipeTypes
  <1>2. /\ repo' \in RepoType /\ repo'.tree = tree /\ repo'.head = repo.head
        /\ repo'.commits = repo.commits
    BY <1>1 DEF RepoType
  <1>3. /\ at \in {"dev", "context"} /\ already \in BOOLEAN
        /\ proc.starts \in Nat /\ proc.disturbed \in Nat /\ proc.disturbed <= proc.starts
        /\ starts \in 0..MaxStarts /\ starts > 0 /\ proc.disturbed \in 0..MaxStarts
        /\ 0 \in 0..MaxRounds /\ 0 \in 0..MaxCycles /\ 0 < MaxCycles /\ 0 < MaxRounds
        /\ ck.node \in Nodes \cup {"none"} /\ ck.start \in Trees
        /\ repo.head \in Trees /\ proc.disturbed # starts /\ proc.disturbed <= starts
        /\ 0 \in 0..MaxStarts /\ {} \in SUBSET (Paths \X TreeContents)
    BY PathFacts DEF Entry, PipeInv, PipeTypes, BudgetInv, ProcessType, CheckpointType, RepoType
  <1>4. /\ kept \in SUBSET (Paths \X TreeContents)
        /\ \A q \in Paths : tree[q] # Absent /\ tree[q] # repo.head[q] => <<q, tree[q]>> \in kept
    <2>1. kept = {<<q, tree[q]>> : q \in {q \in Paths : tree[q] \notin {repo.head[q], Absent}}}
      BY <1>2 DEF Snapshot
    <2>2. \A q \in Paths : tree[q] \in TreeContents
      BY TreeFacts
    <2> HIDE DEF kept
    <2> QED BY <2>1, <2>2
  <1> HIDE DEF at, already, starts, kept
  <1>5. /\ proc' \in ProcessType /\ proc'.at = at /\ proc'.start = ck.start /\ proc'.starts = starts
        /\ proc'.kept = kept /\ proc'.disturbed = proc.disturbed /\ proc'.cycle = 0
        /\ proc'.round = 0 /\ proc'.resumeAt = ck.node /\ proc'.already = already
    <2>1. at \in Places /\ TRUE \in BOOLEAN /\ FALSE \in BOOLEAN
      BY <1>3 DEF Places
    <2>2. NoProcess \in ProcessType
      BY <1>3 DEF NoProcess, ProcessType, Places, Nodes, Contexts, Outcomes
    <2>3. NoProcess.cycle = 0 /\ NoProcess.round = 0
      BY DEF NoProcess
    <2> DEFINE none == NoProcess
    <2>4. /\ none \in ProcessType /\ none.cycle = 0 /\ none.round = 0
          /\ proc' = [none EXCEPT
                !.at = at, !.human = human, !.resumeAt = ck.node, !.already = already,
                !.first = TRUE, !.start = ck.start, !.starts = starts,
                !.kept = kept, !.checked = repo.head, !.disturbed = proc.disturbed]
      BY <1>1, <2>2, <2>3
    <2> HIDE DEF none
    <2> QED BY <1>3, <1>4, <2>1, <2>4 DEF ProcessType
  <1>6. PipeTypes'
    BY <1>2, <1>5 DEF PipeTypes
  <1>7. BudgetInv'
    BY <1>2, <1>3, <1>5 DEF BudgetInv
  <1>8. VerdictInv'
    BY <1>3, <1>5 DEF VerdictInv
  <1>9. KeptInv'
    BY <1>2, <1>4, <1>5, PathFacts DEF KeptInv
  <1>10. CommittedInv'
    BY <1>2, <1>5 DEF PipeInv, CommittedInv
  <1>11. StatusInv'
    <2>1. repo'.tree["task"] = "done" => repo'.head["task"] = "done" \/ <<"task", "done">> \in proc'.kept
      BY <1>2, <1>4, <1>5, PathFacts
    <2> QED BY <1>3, <1>5, <2>1 DEF StatusInv, Closing
  <1>12. WorkStep
    BY DEF WorkStep, CommitStep, Running
  <1>13. proc'.already = (ck.context = "already")
    BY <1>5 DEF already
  <1> QED BY <1>2, <1>5, <1>6, <1>7, <1>8, <1>9, <1>10, <1>11, <1>12, <1>13 DEF PipeInv

(* A checkpoint that stands at the beginning of a run, at the HEAD of      *)
(* today.                                                                  *)
LEMMA FreshFacts ==
  ASSUME PipeInv, NEW ck, ck = [NoCheckpoint EXCEPT !.node = "context-gather"]
  PROVE  /\ ck \in CheckpointType /\ ck.start = repo.head
         /\ ck.node = "context-gather" /\ ck.context = "none"
  BY DEF NoCheckpoint, CheckpointType, PipeInv, PipeTypes, RepoType, Nodes, Contexts

(* A run of its own.                                                       *)
LEMMA RunStep ==
  ASSUME PipeInv, NEW human \in BOOLEAN, Run(human)
  PROVE  PipeStep
  <1> DEFINE ck == [NoCheckpoint EXCEPT !.node = "context-gather"]
  <1>1. /\ ~Running /\ proc.starts < MaxStarts /\ StartOn(ck, human, repo.tree)
        /\ ckpt' = [ck EXCEPT !.head = repo.commits, !.tree = repo.tree] /\ UNCHANGED abandoned
    BY DEF Run, NoCheckpoint
  <1>2. ck \in CheckpointType /\ ck.start = repo.head /\ ck.node = "context-gather" /\ ck.context = "none"
    BY FreshFacts
  <1> HIDE DEF ck
  <1>3. repo.tree \in Trees /\ repo.commits \in Nat /\ abandoned' \in Reasons \cup {"no"}
    BY <1>1 DEF PipeInv, PipeTypes, RepoType
  <1>4. ckpt' \in CheckpointType /\ ckpt'.head = repo.commits /\ ckpt'.start = repo.head
    BY <1>1, <1>2, <1>3 DEF CheckpointType
  <1>5. proc.disturbed = 0 => \A f \in Files : repo.head[f] \notin HumanContents
    BY DEF PipeInv, CommittedInv
  <1>6. /\ PipeInv' /\ WorkStep
        /\ proc'.already = (ck.context = "already") /\ proc'.resumeAt = ck.node
    BY <1>1, <1>2, <1>3, <1>4, <1>5, StartKeeps
  <1>7. StartStep
    BY <1>2, <1>6 DEF StartStep, SkipsDev
  <1> QED BY <1>6, <1>7 DEF PipeStep

-----------------------------------------------------------------------------
(* The run-state commands.                                                 *)

(* A command that starts no process may have restored a patch: under a     *)
(* live one that is remembered, and never where a verdict is about to be   *)
(* committed.                                                              *)
LEMMA DisturbStep ==
  ASSUME PipeInv, NEW tree \in Trees, UNCHANGED ckpt, abandoned' \in Reasons \cup {"no"},
         repo' = [repo EXCEPT !.tree = tree],
         proc' = [proc EXCEPT !.disturbed =
                    IF Running /\ tree # repo.tree THEN proc.starts ELSE proc.disturbed],
         tree # repo.tree => ckpt.tree # repo.tree
  PROVE  PipeStep /\ repo'.tree = tree
  <1> DEFINE last == IF Running /\ tree # repo.tree THEN proc.starts ELSE proc.disturbed
  <1>1. /\ repo' \in RepoType /\ repo'.tree = tree /\ repo'.head = repo.head
        /\ repo'.commits = repo.commits
    BY DEF PipeInv, PipeTypes, RepoType
  <1>2. /\ last \in 0..MaxStarts /\ last <= proc.starts
        /\ Running /\ tree # repo.tree => last = proc.starts /\ proc.starts > 0
        /\ ~(Running /\ tree # repo.tree) => last = proc.disturbed
        /\ proc' = [proc EXCEPT !.disturbed = last]
    BY PathFacts DEF PipeInv, PipeTypes, ProcessType, BudgetInv
  <1> HIDE DEF last
  <1>3. /\ proc' \in ProcessType /\ proc'.disturbed = last /\ proc'.at = proc.at
        /\ proc'.human = proc.human /\ proc'.start = proc.start /\ proc'.kept = proc.kept
        /\ proc'.starts = proc.starts /\ proc'.passed = proc.passed /\ proc'.checked = proc.checked
        /\ proc'.round = proc.round /\ proc'.cycle = proc.cycle /\ proc'.outcome = proc.outcome
    BY <1>2 DEF PipeInv, PipeTypes, ProcessType
  <1>4. PipeTypes'
    BY <1>1, <1>3 DEF PipeInv, PipeTypes
  <1>5. BudgetInv'
    BY <1>1, <1>2, <1>3 DEF PipeInv, BudgetInv, Running
  <1>6. VerdictInv'
    <2>1. proc.at \in {"review", "commit"} => tree = repo.tree
      BY DEF PipeInv, VerdictInv
    <2> QED BY <1>1, <1>3, <2>1 DEF PipeInv, VerdictInv
  <1>7. KeptInv'
    BY <1>1, <1>2, <1>3 DEF PipeInv, KeptInv, Running
  <1>8. CommittedInv'
    <2>1. proc'.disturbed = 0 => proc.disturbed = 0
      BY <1>2, <1>3
    <2> QED BY <1>1, <1>3, <2>1 DEF PipeInv, CommittedInv
  <1>9. StatusInv'
    <2>1. Running' /\ proc'.disturbed # proc'.starts => proc.disturbed # proc.starts /\ tree = repo.tree
      BY <1>2, <1>3 DEF Running
    <2>2. (Running' <=> Running) /\ (Closing(proc') <=> Closing(proc))
      BY <1>3 DEF Running, Closing
    <2> QED BY <1>1, <1>3, <2>1, <2>2 DEF PipeInv, StatusInv
  <1>10. WorkStep /\ StartStep
    BY <1>3 DEF WorkStep, CommitStep, StartStep, Starts, Running
  <1> QED BY <1>1, <1>4, <1>5, <1>6, <1>7, <1>8, <1>9, <1>10 DEF PipeInv, PipeStep

(* A command that takes a run up with a checkpoint that begins where the   *)
(* code says: it starts a process, or only leaves what it restored.        *)
LEMMA TakesUpStep ==
  ASSUME PipeInv, NEW starts \in BOOLEAN, NEW ck \in CheckpointType, NEW tree \in Trees,
         TakesUp(starts, ck, tree), UNCHANGED ckpt, abandoned' \in Reasons \cup {"no"},
         tree # repo.tree => ckpt.tree # repo.tree,
         ck = ckpt \/ ck.start = repo.head,
         starts /\ ck.context # "already" /\ ck.node \in {"validation", "review", "human-review"} =>
           \A f \in Files : Tracked(f) /\ ckpt.tree[f] # ckpt.start[f] => tree[f] = ckpt.tree[f]
  PROVE  PipeStep /\ repo'.tree = tree
  <1>1. CASE starts /\ ~Running
    <2>1. proc.starts < MaxStarts /\ StartOn(ck, FALSE, tree)
      BY <1>1 DEF TakesUp
    <2>2. /\ ckpt' \in CheckpointType /\ ckpt'.head <= repo.commits /\ repo.head \in Trees
      BY DEF PipeInv, PipeTypes, BudgetInv, RepoType
    <2>3. proc.disturbed = 0 => \A f \in Files : /\ ck.start[f] \notin HumanContents
                                                 /\ ckpt'.start[f] \notin HumanContents
      BY DEF PipeInv, CommittedInv
    <2>4. /\ PipeInv' /\ WorkStep /\ repo'.tree = tree
          /\ proc'.already = (ck.context = "already") /\ proc'.resumeAt = ck.node
      <3>1. FALSE \in BOOLEAN
        OBVIOUS
      <3> DEFINE human == FALSE
      <3>2. human \in BOOLEAN /\ StartOn(ck, human, tree)
        BY <2>1
      <3> HIDE DEF human
      <3> QED BY <1>1, <2>1, <2>2, <2>3, <3>2, StartKeeps
    <2>5. StartStep
      BY <1>1, <2>4 DEF StartStep, SkipsDev
    <2> QED BY <2>4, <2>5 DEF PipeStep
  <1>2. CASE ~(starts /\ ~Running)
    BY <1>2, DisturbStep DEF TakesUp
  <1> QED BY <1>1, <1>2

(* What a command restores: the content of the checkpoint, over no content *)
(* but that of the start and none.                                         *)
LEMMA RestoredFacts ==
  ASSUME PipeInv, NEW written \in Restorable
  PROVE  /\ Restored(written) \in Trees
         /\ \A q \in Patched : Restored(written)[q] = ckpt.tree[q]
         /\ \A q \in Paths \ Patched : Restored(written)[q] # repo.tree[q] =>
              repo.tree[q] = Absent /\ Restored(written)[q] = ckpt.tree[q]
  <1> DEFINE new == Restored(written)
  <1>1. repo.tree \in Trees /\ ckpt.tree \in Trees
    BY DEF PipeInv, PipeTypes, RepoType, CheckpointType
  <1>2. /\ new = [q \in Paths |-> new[q]] /\ Patched \subseteq Paths
        /\ \A q \in Paths : new[q] = IF q \in Patched \cup written THEN ckpt.tree[q] ELSE repo.tree[q]
    BY DEF Restored, Patched
  <1>3. \A q \in written : q \in Paths /\ repo.tree[q] \in {Absent, ckpt.tree[q]}
    <2>1. written \subseteq Untracked \ Blocked
      BY DEF Restorable
    <2> QED BY <2>1 DEF Untracked, Blocked
  <1> HIDE DEF new
  <1>4. new \in Trees
    BY <1>1, <1>2, TreeMix
  <1>5. /\ \A q \in Patched : new[q] = ckpt.tree[q]
        /\ \A q \in Paths \ Patched : new[q] # repo.tree[q] =>
              repo.tree[q] = Absent /\ new[q] = ckpt.tree[q]
    BY <1>2, <1>3
  <1> QED BY <1>4, <1>5 DEF new

(* A patch that applies means that the tree is not the recorded one.       *)
LEMMA PatchFacts ==
  ASSUME PatchApplies
  PROVE  ckpt.tree # repo.tree
  BY DEF PatchApplies, Patched

(* resume                                                                  *)
LEMMA ResumeStep ==
  ASSUME PipeInv, Resume
  PROVE  PipeStep
  <1>1. /\ Interrupted /\ SameHead /\ UNCHANGED <<ckpt, abandoned>> /\ repo.tree \in Trees
        /\ ckpt \in CheckpointType /\ abandoned' \in Reasons \cup {"no"}
    BY DEF Resume, PipeInv, PipeTypes, RepoType
  <1>2. CASE SameTracked /\ TakesUp(TRUE, ckpt, repo.tree)
    <2>1. \A f \in Files : Tracked(f) => repo.tree[f] = ckpt.tree[f]
      BY <1>2, PathFacts DEF SameTracked
    <2> DEFINE starts == TRUE
    <2>2. starts \in BOOLEAN /\ TakesUp(starts, ckpt, repo.tree)
      BY <1>2
    <2> HIDE DEF starts
    <2> QED BY <1>1, <2>1, <2>2, TakesUpStep
  <1>3. ASSUME ~SameTracked, PatchApplies, NEW written \in Restorable,
               TakesUp(Blocked = {} /\ Restored(written) = ckpt.tree, ckpt, Restored(written))
        PROVE  PipeStep
    <2> DEFINE tree == Restored(written)
               starts == Blocked = {} /\ tree = ckpt.tree
    <2>1. tree \in Trees
      BY <1>3, RestoredFacts
    <2>2. starts \in BOOLEAN /\ TakesUp(starts, ckpt, tree) /\ (starts => tree = ckpt.tree)
      BY <1>3
    <2>3. ckpt.tree # repo.tree
      BY <1>3, PatchFacts
    <2> HIDE DEF starts, tree
    <2> QED BY <1>1, <2>1, <2>2, <2>3, TakesUpStep
  <1> QED BY <1>2, <1>3 DEF Resume

(* preserve-external-edits                                                 *)
LEMMA PreserveStep ==
  ASSUME PipeInv, PreserveExternalEdits
  PROVE  PipeStep
  <1>1. /\ Interrupted /\ SameHead /\ PatchApplies /\ UNCHANGED <<ckpt, abandoned>>
        /\ ckpt \in CheckpointType /\ abandoned' \in Reasons \cup {"no"}
    BY DEF PreserveExternalEdits, PipeInv, PipeTypes
  <1>2. PICK written \in Restorable :
          LET tree == Restored(written)
              overwritten == {q \in Paths : tree[q] \notin {repo.tree[q], Absent}
                                          /\ <<q, repo.tree[q]>> \in Snapshot}
          IN TakesUp(Blocked = {} /\ overwritten = {}, ckpt, tree)
    BY DEF PreserveExternalEdits
  <1> DEFINE tree == Restored(written)
             overwritten == {q \in Paths : tree[q] \notin {repo.tree[q], Absent}
                                         /\ <<q, repo.tree[q]>> \in Snapshot}
             starts == Blocked = {} /\ overwritten = {}
  <1>3. tree \in Trees
    BY RestoredFacts
  <1>4. starts \in BOOLEAN /\ TakesUp(starts, ckpt, tree)
    BY <1>2
  <1>5. \A f \in Files : Tracked(f) /\ ckpt.tree[f] # ckpt.start[f] => tree[f] = ckpt.tree[f]
    BY RestoredFacts, PathFacts DEF Patched
  <1>6. ckpt.tree # repo.tree
    BY <1>1, PatchFacts
  <1> HIDE DEF tree, overwritten, starts
  <1> QED BY <1>1, <1>3, <1>4, <1>5, <1>6, TakesUpStep

(* abandon, and restart                                                    *)
LEMMA RestartStep ==
  ASSUME PipeInv, NEW reason \in Reasons, Abandon(reason) \/ Restart(reason)
  PROVE  PipeStep /\ repo'.tree = repo.tree
  <1>1. CASE Abandon(reason)
    <2>1. UNCHANGED <<repo, ckpt, proc>> /\ abandoned' \in Reasons \cup {"no"}
      BY <1>1 DEF Abandon
    <2>2. PipeTypes' /\ BudgetInv' /\ VerdictInv' /\ KeptInv'
      BY <2>1 DEF PipeInv, PipeTypes, BudgetInv, VerdictInv, KeptInv, Running
    <2>3. CommittedInv' /\ StatusInv'
      BY <2>1 DEF PipeInv, CommittedInv, StatusInv, Running, Closing
    <2>4. WorkStep /\ StartStep
      BY <2>1 DEF WorkStep, CommitStep, StartStep, Starts, Running
    <2> QED BY <2>1, <2>2, <2>3, <2>4 DEF PipeInv, PipeStep
  <1>2. CASE Restart(reason)
    <2> DEFINE ck == [NoCheckpoint EXCEPT !.node = "context-gather"]
               starts == TRUE
    <2>1. /\ Interrupted /\ abandoned' \in Reasons \cup {"no"} /\ UNCHANGED ckpt
          /\ starts \in BOOLEAN /\ TakesUp(starts, ck, repo.tree) /\ repo.tree \in Trees
      BY <1>2 DEF Restart, PipeInv, PipeTypes, RepoType
    <2>2. ck \in CheckpointType /\ ck.start = repo.head /\ ck.node = "context-gather" /\ ck.context = "none"
      BY FreshFacts
    <2> HIDE DEF ck, starts
    <2> QED BY <2>1, <2>2, TakesUpStep
  <1> QED BY <1>1, <1>2

-----------------------------------------------------------------------------
(* The invariant, and what follows from it.                                *)

(* The head and the tree a run may find.                                   *)
LEMMA InitTrees ==
  ASSUME Init
  PROVE  /\ repo \in RepoType /\ repo.commits = 0 /\ repo.head["task"] = "todo"
         /\ repo.tree["task"] = "todo" /\ \A f \in Files : repo.head[f] \in {Absent, Base}
  <1> DEFINE head == [q \in Paths |-> IF q = "task" THEN "todo"
                                      ELSE IF q \in NewFiles \cup {"manifest"} THEN Absent ELSE Base]
  <1>1. PICK wip \in SUBSET Files, c \in HumanContents :
          repo = [head |-> head, commits |-> 0,
                  tree |-> [q \in Paths |-> IF q \in wip THEN c ELSE head[q]]]
    BY DEF Init
  <1> DEFINE tree == [q \in Paths |-> IF q \in wip THEN c ELSE head[q]]
  <1>2. /\ head \in [Paths -> TreeContents] /\ head["task"] = "todo" /\ head["manifest"] = Absent
        /\ \A f \in Files : head[f] \in {Absent, Base}
    BY PathFacts DEF TreeContents, FileContents
  <1>3. /\ tree = [q \in Paths |-> tree[q]]
        /\ \A q \in Paths : tree[q] = IF q \in wip THEN c ELSE head[q]
    OBVIOUS
  <1>4. repo = [head |-> head, commits |-> 0, tree |-> tree]
    BY <1>1
  <1> HIDE DEF head, tree
  <1>5. head \in Trees
    BY <1>2, PathFacts DEF Trees, TreeOk, FileContents
  <1>6. tree["task"] = "todo" /\ tree["manifest"] = Absent
    BY <1>1, <1>2, <1>3, PathFacts
  <1>7. tree \in Trees
    <2>1. \A f \in Files : tree[f] \in FileContents
      BY <1>1, <1>2, <1>3, PathFacts DEF FileContents
    <2>2. tree \in [Paths -> TreeContents]
      BY <1>1, <1>2, <1>3 DEF TreeContents, FileContents
    <2>3. DOMAIN tree = Paths
      BY <2>2
    <2>4. TreeOk(tree)
      BY <1>6, <2>1, <2>3 DEF TreeOk
    <2> QED BY <2>2, <2>4 DEF Trees
  <1> QED BY <1>2, <1>4, <1>5, <1>6, <1>7 DEF RepoType

(* Initially nothing runs, and nothing of a human is committed.            *)
LEMMA PipeInit ==
  ASSUME Init
  PROVE  PipeInv
  <1>1. /\ repo \in RepoType /\ repo.commits = 0 /\ repo.head["task"] = "todo"
        /\ repo.tree["task"] = "todo" /\ \A f \in Files : repo.head[f] \in {Absent, Base}
    BY InitTrees
  <1>2. abandoned = "no" /\ ckpt = NoCheckpoint /\ proc = NoProcess
    BY DEF Init
  <1>3. /\ ckpt \in CheckpointType /\ ckpt.head = 0 /\ ckpt.start = repo.head /\ ckpt.node = "none"
    BY <1>1, <1>2 DEF NoCheckpoint, CheckpointType, RepoType, Nodes, Contexts
  <1>4. /\ proc \in ProcessType /\ proc.at = "idle" /\ proc.starts = 0 /\ proc.disturbed = 0
        /\ proc.start = repo.head
    <2>1. /\ repo.head \in Trees /\ 0 \in 0..MaxStarts /\ 0 \in 0..MaxRounds /\ 0 \in 0..MaxCycles
          /\ {} \in SUBSET (Paths \X TreeContents)
      BY <1>1, PathFacts DEF RepoType
    <2> QED BY <1>2, <2>1 DEF NoProcess, ProcessType, Places, Nodes, Contexts, Outcomes
  <1>5. PipeTypes
    BY <1>1, <1>2, <1>3, <1>4 DEF PipeTypes
  <1>6. BudgetInv /\ VerdictInv /\ KeptInv
    BY <1>1, <1>3, <1>4 DEF BudgetInv, VerdictInv, KeptInv, Running, InCycle, InRound
  <1>7. CommittedInv
    BY <1>1, <1>3, <1>4, PathFacts DEF CommittedInv
  <1>8. StatusInv
    BY <1>4 DEF StatusInv, Running
  <1> QED BY <1>5, <1>6, <1>7, <1>8 DEF PipeInv

(* Every step of the pipeline, of a human or of a command preserves the    *)
(* invariant, commits nothing that was there at the start and starts only  *)
(* before the work it skips.                                               *)
LEMMA PipeNext ==
  ASSUME PipeInv, [Next]_vars
  PROVE  PipeStep
  <1>1. CASE Step
    <2>1. ASSUME NEW outcome \in {"pass", "already", "reject"}, Context(outcome) PROVE PipeStep
      BY <2>1, ContextStep
    <2>2. ASSUME NEW passed \in BOOLEAN,
                 DevEnds(passed) \/ Validate(passed) \/ Review(passed) \/ Preflight(passed)
          PROVE  PipeStep
      BY <2>2, DevEndsStep, ValidateStep, ReviewStep, ClosingStep
    <2>3. CASE Grill \/ SkipDev
      BY <2>3, GrillStep
    <2>4. CASE Ask
      BY <2>4, HumanStep
    <2>5. CASE Commit
      BY <2>5, CommitAllStep
    <2>6. CASE CommitFails \/ CommitRefused \/ RecordCommit \/ RecordEvidence
      BY <2>6, ClosingStep
    <2>7. CASE Finalize \/ SetStatus
      BY <2>7, WritingStep
    <2>8. CASE CommitPaths
      BY <2>8, PublishStep
    <2>9. CASE End
      BY <2>9, IdleStep
    <2> QED BY <1>1, <2>1, <2>2, <2>3, <2>4, <2>5, <2>6, <2>7, <2>8, <2>9 DEF Step
  <1>2. CASE Command
    BY <1>2, ResumeStep, PreserveStep, RestartStep DEF Command
  <1>3. CASE Crash
    BY <1>3, IdleStep
  <1>4. ASSUME NEW human \in BOOLEAN, Run(human) PROVE PipeStep
    BY <1>4, RunStep
  <1>5. ASSUME NEW f \in Files, NEW content \in AgentContents, DevWrites(f, content) PROVE PipeStep
    BY <1>5, WritingStep
  <1>6. ASSUME NEW approved \in BOOLEAN, Decide(approved) PROVE PipeStep
    BY <1>6, HumanStep
  <1>7. ASSUME NEW f \in Files, NEW content \in HumanContents \cup {Absent, repo.head[f]},
               ExternalEdit(f, content)
        PROVE  PipeStep
    BY <1>7, ExternalEditStep
  <1>8. CASE UNCHANGED vars
    <2>1. PipeTypes' /\ BudgetInv' /\ VerdictInv' /\ KeptInv'
      BY <1>8 DEF vars, PipeInv, PipeTypes, BudgetInv, VerdictInv, KeptInv, Running
    <2>2. CommittedInv' /\ StatusInv'
      BY <1>8 DEF vars, PipeInv, CommittedInv, StatusInv, Running, Closing
    <2>3. WorkStep /\ StartStep
      BY <1>8 DEF vars, WorkStep, CommitStep, StartStep, Starts, Running
    <2> QED BY <2>1, <2>2, <2>3 DEF PipeInv, PipeStep
  <1> QED BY <1>1, <1>2, <1>3, <1>4, <1>5, <1>6, <1>7, <1>8 DEF Next

(* A command restores over nothing that a human wrote, as long as none has *)
(* disturbed a process before.                                             *)
LEMMA CommandKeeps ==
  ASSUME PipeInv, Command, proc.disturbed = 0, NEW f \in Files, repo.tree[f] \in HumanContents
  PROVE  repo'.tree[f] = repo.tree[f]
  <1>1. f \in Paths /\ repo.tree[f] # Absent /\ repo \in RepoType
    BY PathFacts DEF PipeInv, PipeTypes
  <1>2. ASSUME NEW starts, NEW tree, TakesUp(starts, ckpt, tree) PROVE repo'.tree = tree
    BY <1>1, <1>2 DEF TakesUp, StartOn, RepoType
  <1>3. ASSUME PatchApplies, NEW written \in Restorable PROVE Restored(written)[f] = repo.tree[f]
    <2>1. f \notin Patched
      BY <1>3 DEF PatchApplies, PipeInv, CommittedInv
    <2> QED BY <1>1, <1>3, <2>1, RestoredFacts
  <1>4. CASE Resume
    <2>1. CASE TakesUp(TRUE, ckpt, repo.tree)
      BY <1>2, <2>1
    <2>2. ASSUME PatchApplies, NEW written \in Restorable,
                 TakesUp(Blocked = {} /\ Restored(written) = ckpt.tree, ckpt, Restored(written))
          PROVE  repo'.tree[f] = repo.tree[f]
      <3> DEFINE starts == Blocked = {} /\ Restored(written) = ckpt.tree
      <3>1. TakesUp(starts, ckpt, Restored(written))
        BY <2>2
      <3> HIDE DEF starts
      <3> QED BY <1>2, <1>3, <2>2, <3>1
    <2> QED BY <1>4, <2>1, <2>2 DEF Resume
  <1>5. CASE PreserveExternalEdits
    <2>1. PICK written \in Restorable :
            LET tree == Restored(written)
                overwritten == {q \in Paths : tree[q] \notin {repo.tree[q], Absent}
                                            /\ <<q, repo.tree[q]>> \in Snapshot}
            IN TakesUp(Blocked = {} /\ overwritten = {}, ckpt, tree)
      BY <1>5 DEF PreserveExternalEdits
    <2> DEFINE tree == Restored(written)
               starts == Blocked = {} /\ {q \in Paths : tree[q] \notin {repo.tree[q], Absent}
                                                      /\ <<q, repo.tree[q]>> \in Snapshot} = {}
    <2>2. TakesUp(starts, ckpt, tree) /\ PatchApplies
      BY <1>5, <2>1 DEF PreserveExternalEdits
    <2>3. tree[f] = repo.tree[f]
      BY <1>3, <2>2
    <2> HIDE DEF starts, tree
    <2> QED BY <1>2, <2>2, <2>3
  <1>6. ASSUME NEW reason \in Reasons, Abandon(reason) \/ Restart(reason) PROVE repo'.tree = repo.tree
    BY <1>6, RestartStep
  <1> QED BY <1>4, <1>5, <1>6 DEF Command

(* PipeInv holds in every reachable state.                                 *)
THEOREM PipeInvariance == Spec => []PipeInv
  <1>1. Init => PipeInv
    BY PipeInit
  <1>2. PipeInv /\ [Next]_vars => PipeInv'
    BY PipeNext DEF PipeStep
  <1> QED BY <1>1, <1>2, PTL DEF Spec

(* TypeOK of the runs: the tree, HEAD and every fingerprint of them hold   *)
(* what the pipeline, agents and humans write, and the loops of run_next   *)
(* stay within max_review_cycles and max_human_rounds.                     *)
THEOREM PipelineTypeCorrect == Spec => []TypeOK
  <1>1. PipeInv => TypeOK
    <2> SUFFICES ASSUME PipeInv PROVE TypeOK
      OBVIOUS
    <2>1. /\ repo.tree \in Trees /\ repo.head \in Trees /\ repo.commits \in Nat
          /\ ckpt.node \in Nodes \cup {"none"} /\ ckpt.head \in Nat /\ ckpt.tree \in Trees
          /\ ckpt.start \in Trees /\ ckpt.context \in {"none", "pass", "already"}
          /\ abandoned \in Reasons \cup {"no"}
      BY DEF PipeInv, PipeTypes, RepoType, CheckpointType, Contexts
    <2>2. /\ proc.at \in Places /\ proc.resumeAt \in Nodes \cup {"none"} /\ proc.outcome \in Outcomes
          /\ proc.context \in {"none", "pass", "already"} /\ proc.start \in Trees
          /\ proc.checked \in Trees /\ proc.cycle \in 0..MaxCycles /\ proc.round \in 0..MaxRounds
          /\ proc.starts \in 0..MaxStarts /\ proc.disturbed \in 0..MaxStarts
          /\ proc.human \in BOOLEAN /\ proc.already \in BOOLEAN /\ proc.first \in BOOLEAN
          /\ proc.passed \in BOOLEAN
      BY DEF PipeInv, PipeTypes, ProcessType, Contexts
    <2>3. ckpt.head \in 0..repo.commits /\ proc.disturbed \in 0..proc.starts
      BY <2>1, <2>2, PathFacts DEF PipeInv, BudgetInv
    <2>4. \A t \in Trees : TreeOk(t)
      BY DEF Trees
    <2>5. TreeOk(repo.tree) /\ TreeOk(repo.head) /\ TreeOk(ckpt.tree) /\ TreeOk(ckpt.start)
      BY <2>1, <2>4
    <2>6. TreeOk(proc.start) /\ TreeOk(proc.checked)
      BY <2>2, <2>4
    <2>7. \A field \in {"human", "already", "first", "passed"} : proc[field] \in BOOLEAN
      BY <2>2
    <2> QED BY <2>1, <2>2, <2>3, <2>5, <2>6, <2>7 DEF TypeOK
  <1> QED BY <1>1, PipeInvariance, PTL

(* CommitEarned: run_next commits the tree its last verdict was about.     *)
THEOREM CommitsAreEarned == Spec => CommitEarned
  <1>1. PipeInv /\ [Next]_vars =>
          [CommitStep =>
             /\ ckpt.node = "code-commit" /\ ckpt.tree = repo.tree
             /\ ~proc.human => proc.passed /\ proc.checked = repo.tree]_vars
    BY DEF PipeInv, VerdictInv, CommitStep
  <1> QED BY <1>1, PipeInvariance, PTL DEF Spec, CommitEarned

(* HumanWorkSurvives: commit_all takes none of a human's work that lay in  *)
(* the tree when the process started, and no run-state command overwrites  *)
(* any, but for what a command restored under a live process.              *)
THEOREM HumanWorkIsKept == Spec => HumanWorkSurvives
  <1>1. ASSUME PipeInv, [Next]_vars, CommitStep, proc.disturbed # proc.starts, NEW f \in Files,
               repo'.head[f] # repo.head[f]
        PROVE  repo'.head[f] \notin HumanContents
    <2>1. repo'.head[f] = repo.tree[f] /\ <<f, repo.tree[f]>> \notin proc.kept
      BY <1>1, PipeNext DEF PipeStep, WorkStep
    <2>2. Running
      BY <1>1 DEF CommitStep, Running
    <2> QED BY <1>1, <2>1, <2>2 DEF PipeInv, KeptInv
  <1>2. PipeInv /\ [Next]_vars =>
          [/\ CommitStep /\ proc.disturbed # proc.starts =>
                \A f \in Files : repo'.head[f] # repo.head[f] => repo'.head[f] \notin HumanContents
           /\ Command /\ proc.disturbed = 0 =>
                \A f \in Files : repo.tree[f] \in HumanContents => repo'.tree[f] = repo.tree[f]]_vars
    BY <1>1, CommandKeeps
  <1> QED BY <1>2, PipeInvariance, PTL DEF Spec, HumanWorkSurvives

(* ResumesRecordedWork: what a process skips is there.                     *)
THEOREM ResumesOnRecordedWork == Spec => ResumesRecordedWork
  <1>1. PipeInv /\ [Next]_vars =>
          [Starts /\ SkipsDev' /\ ~proc'.already =>
             \A f \in Files : Tracked(f) /\ ckpt.tree[f] # ckpt.start[f] => repo'.tree[f] = ckpt.tree[f]]_vars
    BY PipeNext DEF PipeStep, StartStep
  <1> QED BY <1>1, PipeInvariance, PTL DEF Spec, ResumesRecordedWork

(* Who moves HEAD: commit_all, and commit_paths after it.                  *)
LEMMA HeadMoves ==
  ASSUME PipeInv, [Next]_vars, repo'.head # repo.head
  PROVE  Commit \/ CommitPaths
  <1>1. repo \in RepoType
    BY DEF PipeInv, PipeTypes
  <1>2. ASSUME NEW starts, NEW ck, NEW tree, TakesUp(starts, ck, tree) PROVE FALSE
    BY <1>1, <1>2 DEF TakesUp, StartOn, RepoType
  <1>3. ~Command
    <2>1. ~Resume
      BY <1>2 DEF Resume
    <2>2. ~PreserveExternalEdits
      BY <1>2 DEF PreserveExternalEdits
    <2>3. \A reason \in Reasons : ~Abandon(reason) /\ ~Restart(reason)
      BY <1>2 DEF Abandon, Restart
    <2> QED BY <2>1, <2>2, <2>3 DEF Command
  <1>4. Step => Commit \/ CommitPaths
    BY <1>1 DEF Step, Context, DevEnds, Validate, Review, Preflight, Grill, SkipDev, Ask, CommitFails,
       CommitRefused, RecordCommit, Finalize, RecordEvidence, SetStatus, End, RepoType
  <1> QED BY <1>1, <1>3, <1>4 DEF Next, vars, Crash, Run, StartOn, DevWrites, Decide, ExternalEdit, RepoType

(* DoneIsEarned: set_status and commit_paths publish what the run earned,  *)
(* and commit_all publishes no status that an earlier process left behind. *)
THEOREM DoneIsAlwaysEarned == Spec => DoneIsEarned
  <1>1. ASSUME PipeInv, [Next]_vars, repo.head["task"] # "done", repo'.head["task"] = "done",
               proc.disturbed # proc.starts
        PROVE  /\ proc.at = "publish" /\ proc.outcome = "completed" /\ ckpt.node = "session-review"
               /\ ~proc.human => proc.passed /\ \A f \in Files : repo.tree[f] = proc.checked[f]
    <2>1. CASE Commit
      <3>1. /\ proc.at = "commit" /\ repo.tree["task"] = "done"
            /\ <<"task", repo.tree["task"]>> \notin proc.kept
        BY <1>1, <2>1, PathFacts DEF Commit, At, PipeInv, PipeTypes, RepoType
      <3>2. proc.at \in BeforeStatus /\ Running
        BY <3>1 DEF BeforeStatus, Places, Running
      <3> QED BY <1>1, <3>1, <3>2 DEF PipeInv, StatusInv
    <2>2. CASE CommitPaths
      <3>1. proc.at = "publish" /\ repo.tree["task"] = "done" /\ Running
        BY <1>1, <2>2, PathFacts DEF CommitPaths, At, Running, PipeInv, PipeTypes, RepoType
      <3>2. proc.outcome = "completed"
        BY <1>1, <3>1 DEF PipeInv, StatusInv, StatusOf
      <3> QED BY <1>1, <3>1, <3>2 DEF PipeInv, StatusInv, Closing
    <2> QED BY <1>1, <2>1, <2>2, HeadMoves
  <1>2. PipeInv /\ [Next]_vars =>
          [repo.head["task"] # "done" /\ repo'.head["task"] = "done" /\ proc.disturbed # proc.starts =>
             /\ proc.at = "publish" /\ proc.outcome = "completed" /\ ckpt.node = "session-review"
             /\ ~proc.human => proc.passed /\ \A f \in Files : repo.tree[f] = proc.checked[f]]_vars
    BY <1>1
  <1> QED BY <1>2, PipeInvariance, PTL DEF Spec, DoneIsEarned
=============================================================================
