---------------------------- MODULE TaskPipeline ----------------------------
(***************************************************************************)
(* One run of the task pipeline (src/factory/orchestrator): run_task and   *)
(* run_next over the checkpoints that RunExecution.record leaves, and the  *)
(* run-state commands that take an interrupted run up again.               *)
(*                                                                         *)
(* A run works in the tree the human works in. What it wrote and what was  *)
(* there before are told apart by content alone, so the contents an agent  *)
(* writes and those a human writes are disjoint sets. A process may die    *)
(* between any two effects; the run-state commands may be given at any     *)
(* time, also while the run is alive: they act before they ask for the     *)
(* run lock. The lock itself is taken as atomic.                           *)
(***************************************************************************)
EXTENDS Integers, FiniteSets

CONSTANTS Files,          \* the files of the work
          NewFiles,       \* those of them that HEAD does not have yet
          Absent, Base,   \* no file; the content of a file nobody touched
          AgentContents,  \* the contents agents write
          HumanContents,  \* the contents humans write
          MaxCycles,      \* max_review_cycles
          MaxRounds,      \* max_human_rounds
          MaxStarts       \* bound: processes started

ASSUME PipelineAssumption ==
  /\ MaxCycles \in Nat \ {0} /\ MaxRounds \in Nat \ {0} /\ MaxStarts \in Nat
  /\ NewFiles \subseteq Files /\ {"task", "manifest"} \cap Files = {}
  /\ AgentContents \cap HumanContents = {} /\ Absent \notin {"todo", "done"}
  /\ {Absent, Base} \cap (AgentContents \cup HumanContents) = {}

VARIABLES repo,       \* the working tree, the tree at HEAD, the number of commits
          ckpt,       \* checkpoint.json: the next node, and what it fingerprints
          abandoned,  \* the reason in abandoned.json
          proc        \* the process that runs, and its place in run_next

vars == <<repo, ckpt, abandoned, proc>>

\* The task file, whose frontmatter holds the status, and the run's manifest
\* lie in the same tree.
Paths == Files \cup {"task", "manifest"}
Nodes == {"context-gather", "dev", "validation", "review", "human-review",
          "code-commit", "evidence-finalize", "session-review", "closed"}
Reasons == {"restarted", "other"}

NoCheckpoint == [node |-> "none", head |-> 0, tree |-> repo.head, start |-> repo.head,
                 context |-> "none"]
NoProcess ==
  [at |-> "idle", human |-> FALSE, resumeAt |-> "none", context |-> "none", already |-> FALSE,
   first |-> FALSE, round |-> 0, cycle |-> 0, passed |-> FALSE, outcome |-> "none",
   start |-> repo.head, kept |-> {}, starts |-> 0, checked |-> repo.head,
   disturbed |-> 0]

Tracked(q) == repo.head[q] # Absent
Running == proc.at # "idle"

\* A commit was made of what a human had left in the tree, or not.
Init ==
  LET head == [q \in Paths |-> IF q = "task" THEN "todo"
                               ELSE IF q \in NewFiles \cup {"manifest"} THEN Absent ELSE Base]
  IN \E wip \in SUBSET Files, c \in HumanContents :
       /\ repo = [head |-> head, commits |-> 0,
                  tree |-> [q \in Paths |-> IF q \in wip THEN c ELSE head[q]]]
       /\ abandoned = "no"
       /\ ckpt = NoCheckpoint
       /\ proc = NoProcess

-----------------------------------------------------------------------------
(* The steps of a process.                                                 *)

\* Mutant of Snapshot: nothing is known of the tree before the run.
SnapshotNothing == {}

\* Mutant of Snapshot: only the files of the work are looked at.
SnapshotOfWork ==
  {<<q, repo.tree[q]>> : q \in {q \in Files : repo.tree[q] \notin {repo.head[q], Absent}}}

\* dirty_snapshot: the changed files with their contents; a deletion leaves
\* nothing to hash.
Snapshot ==
  {<<q, repo.tree[q]>> : q \in {q \in Paths : repo.tree[q] \notin {repo.head[q], Absent}}}

\* RunExecution.record: the checkpoint names the next node and fingerprints
\* HEAD and the tree.
Record(node) ==
  ckpt' = [node |-> node, head |-> repo.commits, tree |-> repo.tree, start |-> proc.start,
           context |-> proc'.context]

At(place) == proc.at = place
Go(place) == proc' = [proc EXCEPT !.at = place]

\* Mutant of Entry: a checkpoint of the commit leads straight to it.
EntryAtCommit(ck) ==
  IF ck.node = "code-commit" THEN "commit"
  ELSE IF ck.node # "context-gather" /\ ck.context # "none" THEN "dev" ELSE "context"

\* A recorded context is not gathered again.
Entry(ck) == IF ck.node # "context-gather" /\ ck.context # "none" THEN "dev" ELSE "context"

\* run_next up to run_task, on a checkpoint or on none.
StartOn(ck, human, tree) ==
  /\ repo' = [repo EXCEPT !.tree = tree]
  /\ proc' = [NoProcess EXCEPT
                !.at = Entry(ck),
                !.human = human, !.resumeAt = ck.node, !.already = ck.context = "already",
                !.first = TRUE, !.start = ck.start, !.starts = proc.starts + 1,
                !.kept = Snapshot', !.checked = repo.head, !.disturbed = proc.disturbed]

\* A run of its own: checkpointed before the tree is looked at.
Run(human) ==
  /\ ~Running /\ ckpt.node = "none" /\ proc.starts < MaxStarts
  /\ StartOn([NoCheckpoint EXCEPT !.node = "context-gather"], human, repo.tree)
  /\ ckpt' = [NoCheckpoint EXCEPT !.node = "context-gather", !.head = repo.commits, !.tree = repo.tree]
  /\ UNCHANGED abandoned

\* run_context_gatherer, and the grill of an interactive run after it.
Context(outcome) ==
  /\ At("context")
  /\ IF outcome = "reject"
     THEN /\ proc' = [proc EXCEPT !.at = "finalize", !.outcome = "rejected"]
          /\ Record("closed")
     ELSE /\ proc' = [proc EXCEPT !.at = IF proc.human THEN "grill" ELSE "dev",
                                  !.context = outcome, !.already = outcome = "already"]
          /\ Record("dev")
  /\ UNCHANGED <<repo, abandoned>>

Grill == At("grill") /\ Go("dev") /\ Record("dev") /\ UNCHANGED <<repo, abandoned>>

\* The first dev is skipped over work that exists, and on a resume behind it.
SkipsDev ==
  proc.first /\ (proc.already \/ proc.resumeAt \in {"validation", "review", "human-review"})

SkipDev ==
  /\ At("dev") /\ SkipsDev
  /\ proc' = [proc EXCEPT !.at = "validation", !.first = FALSE]
  /\ UNCHANGED <<repo, ckpt, abandoned>>

DevWrites(f, content) ==
  /\ At("dev") /\ ~SkipsDev
  /\ repo' = [repo EXCEPT !.tree[f] = content]
  /\ UNCHANGED <<ckpt, abandoned, proc>>

DevEnds(passed) ==
  /\ At("dev") /\ ~SkipsDev
  /\ IF passed
     THEN /\ proc' = [proc EXCEPT !.at = "validation", !.first = FALSE]
          /\ Record("validation")
     ELSE /\ proc' = [proc EXCEPT !.at = "finalize", !.first = FALSE, !.outcome = "escalated"]
          /\ Record("closed")
  /\ UNCHANGED <<repo, abandoned>>

\* Mutant of Again: the budget is never spent.
AgainForever(cycle) == 0

\* The cycle after a red validation or review.
Again(cycle) == cycle + 1

\* Mutant of Within: one try too many.
WithinOneMore(count, budget) == count <= budget

Within(count, budget) == count < budget

\* Where the inner loop goes on, or what follows when its budget is spent.
Retried ==
  LET cycle == Again(proc.cycle)
  IN [proc EXCEPT !.cycle = cycle, !.passed = FALSE,
        !.at = IF Within(cycle, MaxCycles) THEN "dev" ELSE IF proc.human THEN "ask" ELSE "finalize",
        !.outcome = IF Within(cycle, MaxCycles) \/ proc.human THEN "none" ELSE "escalated"]

Validate(passed) ==
  /\ At("validation")
  /\ proc' = IF passed THEN [proc EXCEPT !.at = "review", !.checked = repo.tree] ELSE Retried
  /\ Record(IF passed THEN "review" ELSE "dev")
  /\ UNCHANGED <<repo, abandoned>>

Review(passed) ==
  /\ At("review")
  /\ proc' = IF passed THEN [proc EXCEPT !.at = IF proc.human THEN "ask" ELSE "commit", !.passed = TRUE]
             ELSE Retried
  /\ Record(IF ~passed THEN "dev" ELSE IF proc.human THEN "human-review" ELSE "code-commit")
  /\ UNCHANGED <<repo, abandoned>>

\* A human is asked whether or not the reviewer passed.
Ask == At("ask") /\ Go("human") /\ Record("human-review") /\ UNCHANGED <<repo, abandoned>>

Decide(approved) ==
  /\ At("human")
  /\ IF approved
     THEN Go("commit") /\ Record("code-commit")
     ELSE /\ proc' = [proc EXCEPT !.round = @ + 1, !.cycle = 0, !.already = FALSE,
                        !.at = IF Within(proc.round + 1, MaxRounds) THEN "dev" ELSE "finalize",
                        !.outcome = IF Within(proc.round + 1, MaxRounds) THEN "none" ELSE "escalated"]
          /\ Record("dev")
  /\ UNCHANGED <<repo, abandoned>>

\* commit_all: all changes but those that stand as they were at the start.
Commit ==
  LET head == [q \in Paths |-> IF <<q, repo.tree[q]>> \in proc.kept THEN repo.head[q] ELSE repo.tree[q]]
  IN /\ At("commit")
     /\ repo' = [repo EXCEPT !.head = head,
                   !.commits = IF head # repo.head THEN @ + 1 ELSE @]
     /\ Go("committed")
     /\ UNCHANGED <<ckpt, abandoned>>

\* Git fails for another reason: a warning, and no commit. What it leaves
\* staged is not modelled; the next commit_all stages again.
CommitFails == At("commit") /\ Go("committed") /\ UNCHANGED <<repo, ckpt, abandoned>>

\* Git refuses to stage the tree.
CommitRefused ==
  /\ At("commit")
  /\ proc' = [proc EXCEPT !.at = "finalize", !.outcome = "escalated"]
  /\ Record("closed")
  /\ UNCHANGED <<repo, abandoned>>

RecordCommit ==
  /\ At("committed")
  /\ proc' = [proc EXCEPT !.at = "preflight", !.outcome = "completed"]
  /\ Record("evidence-finalize")
  /\ UNCHANGED <<repo, abandoned>>

\* run_completion_preflight
Preflight(ok) ==
  /\ At("preflight")
  /\ IF ok THEN Go("finalize") /\ UNCHANGED ckpt
     ELSE /\ proc' = [proc EXCEPT !.at = "finalize", !.outcome = "escalated"]
          /\ Record("closed")
  /\ UNCHANGED <<repo, abandoned>>

\* finalize_run_evidence: a manifest of its own time.
Finalize ==
  /\ At("finalize")
  /\ repo' = [repo EXCEPT !.tree["manifest"] = <<proc.outcome, proc.starts>>]
  /\ Go("finalized")
  /\ UNCHANGED <<ckpt, abandoned>>

RecordEvidence ==
  /\ At("finalized") /\ Go("status") /\ Record("session-review")
  /\ UNCHANGED <<repo, abandoned>>

StatusOf(outcome) == IF outcome = "completed" THEN "done" ELSE "todo"

SetStatus ==
  /\ At("status")
  /\ repo' = [repo EXCEPT !.tree["task"] = StatusOf(proc.outcome)]
  /\ Go("publish")
  /\ UNCHANGED <<ckpt, abandoned>>

\* commit_paths
CommitPaths ==
  /\ At("publish")
  /\ repo' = [repo EXCEPT !.commits = @ + 1,
                !.head = [q \in Paths |-> IF q \in Files THEN repo.head[q] ELSE repo.tree[q]]]
  /\ Go("session")
  /\ UNCHANGED <<ckpt, abandoned>>

\* The session review, the last record and the end of the process.
End ==
  /\ At("session")
  /\ proc' = [NoProcess EXCEPT !.starts = proc.starts, !.disturbed = proc.disturbed]
  /\ Record("closed")
  /\ UNCHANGED <<repo, abandoned>>

-----------------------------------------------------------------------------
(* The run-state commands.                                                 *)

Interrupted == ckpt.node \notin {"none", "closed"}
SameHead == ckpt.head = repo.commits

\* Mutant of SameTracked: the fingerprint of the tracked diff is not compared.
SameTrackedNot == TRUE

\* assess_recovery: the tracked part stands as recorded, the rest may drift.
SameTracked == \A q \in Paths : Tracked(q) => repo.tree[q] = ckpt.tree[q]

\* check_patch: what the patch changes stands as it was at the start. An
\* empty patch does not apply.
Patched == {q \in Paths : Tracked(q) /\ ckpt.tree[q] # ckpt.start[q]}
PatchApplies == Patched # {} /\ \A q \in Patched : repo.tree[q] = ckpt.start[q]

\* The untracked files of the checkpoint, and those another content blocks.
Untracked == {q \in Paths : ~Tracked(q) /\ ckpt.tree[q] # Absent}

Blocked == {q \in Untracked : repo.tree[q] \notin {Absent, ckpt.tree[q]}}

\* restore_patch; a blocked file ends it among the untracked ones.
Restored(written) == [q \in Paths |-> IF q \in Patched \cup written THEN ckpt.tree[q] ELSE repo.tree[q]]
Restorable == IF Blocked = {} THEN {Untracked} ELSE SUBSET (Untracked \ Blocked)

\* The lock: a live run keeps the command's process from starting, but what
\* the command restored stays under it; "disturbed" remembers which process
\* that happened to last.
TakesUp(starts, ck, tree) ==
  IF starts /\ ~Running
  THEN proc.starts < MaxStarts /\ StartOn(ck, FALSE, tree)
  ELSE /\ repo' = [repo EXCEPT !.tree = tree]
       /\ proc' = [proc EXCEPT !.disturbed =
                    IF Running /\ tree # repo.tree THEN proc.starts ELSE proc.disturbed]

Resume ==
  /\ Interrupted /\ SameHead
  /\ \/ SameTracked /\ TakesUp(TRUE, ckpt, repo.tree)
     \/ /\ ~SameTracked /\ PatchApplies
        /\ \E written \in Restorable :
             LET tree == Restored(written)
             IN TakesUp(Blocked = {} /\ tree = ckpt.tree, ckpt, tree)
  /\ UNCHANGED <<ckpt, abandoned>>

\* The patch is restored around the edits, which must come through it.
PreserveExternalEdits ==
  /\ Interrupted /\ SameHead /\ PatchApplies
  /\ \E written \in Restorable :
       LET tree == Restored(written)
           overwritten == {q \in Paths : tree[q] \notin {repo.tree[q], Absent}
                                       /\ <<q, repo.tree[q]>> \in Snapshot}
       IN TakesUp(Blocked = {} /\ overwritten = {}, ckpt, tree)
  /\ UNCHANGED <<ckpt, abandoned>>

Abandon(reason) ==
  /\ ckpt.node # "none" /\ abandoned = "no"
  /\ abandoned' = reason
  /\ UNCHANGED <<repo, ckpt, proc>>

\* The same run id from the beginning, at the HEAD of today.
Restart(reason) ==
  /\ Interrupted /\ abandoned \in {"no", reason}
  /\ abandoned' = reason
  /\ TakesUp(TRUE, [NoCheckpoint EXCEPT !.node = "context-gather"], repo.tree)
  /\ UNCHANGED ckpt

-----------------------------------------------------------------------------
(* The environment.                                                        *)

Crash ==
  /\ Running
  /\ proc' = [NoProcess EXCEPT !.starts = proc.starts, !.disturbed = proc.disturbed]
  /\ UNCHANGED <<repo, ckpt, abandoned>>

\* A human edits the tree while no process runs: a content of their own, or
\* a file put back or deleted.
ExternalEdit(f, content) ==
  /\ ~Running /\ ckpt.node # "none" /\ proc.starts < MaxStarts
  /\ repo' = [repo EXCEPT !.tree[f] = content]
  /\ UNCHANGED <<ckpt, abandoned, proc>>

\* What a process does by itself; the rest waits for somebody.
Step ==
  \/ \E outcome \in {"pass", "already", "reject"} : Context(outcome)
  \/ \E passed \in BOOLEAN : DevEnds(passed) \/ Validate(passed) \/ Review(passed) \/ Preflight(passed)
  \/ Grill \/ SkipDev \/ Ask \/ Commit \/ CommitFails \/ CommitRefused \/ RecordCommit
  \/ Finalize \/ RecordEvidence \/ SetStatus \/ CommitPaths \/ End

Command ==
  \/ Resume \/ PreserveExternalEdits
  \/ \E reason \in Reasons : Abandon(reason) \/ Restart(reason)

Next ==
  \/ Step \/ Command \/ Crash
  \/ \E human \in BOOLEAN : Run(human)
  \/ \E f \in Files, content \in AgentContents : DevWrites(f, content)
  \/ \E approved \in BOOLEAN : Decide(approved)
  \/ \E f \in Files : \E content \in HumanContents \cup {Absent, repo.head[f]} : ExternalEdit(f, content)

Spec == Init /\ [][Next]_vars

\* Agents, gates and git return: all are called with timeouts.
FairSpec == Spec /\ WF_vars(Step)
=============================================================================
