--------------------------- MODULE MCTaskPipeline ---------------------------
(***************************************************************************)
(* TaskPipeline for TLC, and what a run may rely on.                       *)
(***************************************************************************)
EXTENDS TaskPipeline

FileContents == AgentContents \cup HumanContents \cup {Absent, Base}
Outcomes == {"none", "completed", "escalated", "rejected"}
Places == {"idle", "context", "grill", "dev", "validation", "review", "ask", "human", "commit",
           "committed", "preflight", "finalize", "finalized", "status", "publish", "session"}

TreeOk(tree) ==
  /\ DOMAIN tree = Paths /\ \A f \in Files : tree[f] \in FileContents
  /\ tree["task"] \in {"todo", "done"}
  /\ tree["manifest"] \in {Absent} \cup (Outcomes \X (1..MaxStarts))

\* Types of the repository, the checkpoint and the process, whose loops stay
\* within their budgets.
TypeOK ==
  /\ TreeOk(repo.tree) /\ TreeOk(repo.head) /\ repo.commits \in Nat
  /\ ckpt.node \in Nodes \cup {"none"} /\ ckpt.head \in 0..repo.commits
  /\ TreeOk(ckpt.tree) /\ TreeOk(ckpt.start) /\ ckpt.context \in {"none", "pass", "already"}
  /\ abandoned \in Reasons \cup {"no"}
  /\ proc.at \in Places /\ proc.resumeAt \in Nodes \cup {"none"} /\ proc.outcome \in Outcomes
  /\ proc.context \in {"none", "pass", "already"} /\ TreeOk(proc.start) /\ TreeOk(proc.checked)
  /\ proc.cycle \in 0..MaxCycles /\ proc.round \in 0..MaxRounds
  /\ proc.starts \in 0..MaxStarts /\ proc.disturbed \in 0..proc.starts
  /\ \A field \in {"human", "already", "first", "passed"} : proc[field] \in BOOLEAN

CommitStep == proc.at = "commit" /\ proc'.at = "committed"
Starts == ~Running /\ Running'

\* The run commits what its last verdict was about, also when it began in
\* the middle: an unattended run the tree that validation and review passed,
\* an attended one the tree that stood when the human approved.
CommitEarned ==
  [][CommitStep =>
       /\ ckpt.node = "code-commit" /\ ckpt.tree = repo.tree
       /\ ~proc.human => proc.passed /\ proc.checked = repo.tree]_vars

\* "Resume never silently adopts external edits": what a human left in the
\* tree does not end up in the run's commit, unless a command restored a
\* patch under that process; and no command overwrites it, unless one has
\* been restored under a live process before.
HumanWorkSurvives ==
  [][/\ CommitStep /\ proc.disturbed # proc.starts =>
          \A f \in Files : repo'.head[f] # repo.head[f] => repo'.head[f] \notin HumanContents
     /\ Command /\ proc.disturbed = 0 =>
          \A f \in Files : repo.tree[f] \in HumanContents => repo'.tree[f] = repo.tree[f]]_vars

\* A process that skips dev has before it the work that the checkpoint it
\* resumes from recorded: edits of the tree since then are not taken for it.
ResumesRecordedWork ==
  [][Starts /\ SkipsDev' /\ ~proc'.already =>
       \A f \in Files : Tracked(f) /\ ckpt.tree[f] # ckpt.start[f] => repo'.tree[f] = ckpt.tree[f]]_vars

\* The task becomes done at HEAD only as the last effect of a process that
\* completed, recorded its evidence and, unattended, still has before it the
\* files its last verdict passed. What an interrupted process left in the
\* tree publishes nothing. A process under which a command restored a patch
\* is left out.
DoneIsEarned ==
  [][repo.head["task"] # "done" /\ repo'.head["task"] = "done" /\ proc.disturbed # proc.starts =>
       /\ proc.at = "publish" /\ proc.outcome = "completed" /\ ckpt.node = "session-review"
       /\ ~proc.human => proc.passed /\ \A f \in Files : repo.tree[f] = proc.checked[f]]_vars

\* An unattended process comes to its end.
RunEnds == (Running /\ ~proc.human) ~> ~Running

\* "If the agent touched the file as well, it is the run's work no matter who
\* dirtied it first": the commit leaves none of it behind.
RunWorkCommitted ==
  [][Commit => \A f \in Files : repo.tree[f] \in AgentContents => repo'.head[f] = repo.tree[f]]_vars
=============================================================================
