# pi-agent-factory in TLA+

This directory specifies the parts of pi-agent-factory whose state can go wrong over
time. Four machines let agents work and keep the evidence of it:

* the governed run: agents work on one task, every step is recorded in a journal, a
  human is asked when it must be, and the run is picked up again after any crash;
* the planning kanban: processes share a board of stage cards through leases and locks;
* the planning runner: a transactional store of the attempts of a planning run, with
  projections outside the transaction;
* the task pipeline: one task from context to commit in the human's own working tree,
  interrupted and resumed.

## Inventory

The repository has three Python layers (`src/src/factory`, `src/src/coherence`,
`src/src/substrate`) and two TypeScript editor extensions (`src/pi-ext`). Most of it
reads documents and renders projections of them. The state that can go wrong over time
lives in a run:

| Component | State | Operations | Hard behaviour |
| --- | --- | --- | --- |
| `RunExecution` (`factory/orchestrator/execution.py`) | live cursor per stage, invalidated stages, serial counter, last digest per stage, recorded positions; rebuilt from the journal | `create`/`restore_cursors`, `begin_revision`, `begin_attempt`, `open_cursor`, `record_stage`, `open_human_decision_request`, `consume_human_decision`, `record` | crashes between memory and disk, stale cursors, two processes on one journal, records too large to stay inline |
| `GovernedExecutionDriver` (`execution_driver.py`) | its place in `run()`, fixer passes used, the baseline | `run`, `resume` | a crash between any two records, redispatch, the fixer budget, asking and being answered |
| `coherence execution` (`coherence/execution/cli.py`) | none of its own; reads the journal | `dispatch-task`, `resolve-human`, `report-worker-result`, `legal-actions`, `stream-progress` | what a command checks against what has changed when it writes; a decision journalled and its effect lost |
| `RunJournal` (`journal.py`) | `journal.jsonl`, `checkpoint.json` | `append`, `checkpoint`, `events`, `latest` | a torn last line, append before checkpoint |
| `TestCampaign` (`execution_campaign.py`) | baseline snapshot, memoised confirmations | `capture_baseline`, `evaluate_after_dev` | flaky against regression, a rerun that disagrees |
| Task pipeline (`runner.py`, `nodes.py`, `git_ops.py`) | the working tree and HEAD, the checkpoint, budgets and verdicts in the process | `run_task`, `run_next` | whose work is in the tree; dying in the middle of the finalize steps |
| Run-state commands (`run_cli.py`, `recovery.py`) | `abandoned.json` | `resume`, `preserve-external-edits`, `restart`, `abandon` | a verdict on a half-finished run; acting on the tree before asking for the lock |
| Run lock (`lock.py`) | `.factory-run.lock` | `acquire_lock`, `remove_lock` | check and write are not atomic |
| Human review and grill gates | decision files | wait, archive | polling, timeouts |
| Planning kanban (`coherence/planning/kanban.py`) | state file and generation file, two lock files with recovery markers, leases; the objects' copies and handles | `materialize`, `load`, `claim`, `heartbeat`, `complete`, `mark_gate`, `block`, `resume`, `reclaim`, `recover` | several processes, stale locks, saves cut in half, late workers, revoked gates |
| Planning runner (`coherence/planning/runner.py`) | hash-chained events and metadata in a database, projected records and state | `begin`, `record_result`, `attest`, `record_gate`, `advance`, recovery | late and repeated calls, changed files, a projection that fails after the commit |
| Planning sessions (`run.py`, `gates.py`, `consent.py`, `session.py`) | intent and consent documents | many | files rewritten by several commands |
| Polish loop (`factory/polish`) | session file, worker queue | start, turn, stop | several threads |

The parts of a governed run interact by calls and through files. A host command builds a
`RunExecution` over the run's journal, hands it to a driver, and the driver records each
stage through it; the driver's campaign, reviewers, gates and DEV worker are calls whose
outcome it branches on. Another process may append a worker report to the same journal at
any moment. What one process knows of another is the journal alone.

What makes each of them correct:

* cursors: the journal can always be restored; an invalidated cursor is never accepted; a
  restart resumes at what the disk says; a request is decided once, by the position that
  asked;
* driver: a handoff rests on one uninterrupted pass; the budget holds; nothing advances
  while a human is asked; every command ends, and an escalated run can be taken up again;
* commands: a block stays a block; a defer leaves its Deferral behind;
* journal: what was acknowledged is readable later; the checkpoint is never ahead;
* campaign: a regression is never called flaky or pre-existing;
* kanban: work is handed out only behind an unbroken chain of gates; one lease at a time
  on a card, ended by its owner or for a reason; one writer in the workspace;
* planning runner: stages pass in order and rest on the files as they are; no sequence of
  calls leaves a history nobody can read;
* pipeline: the commit holds what was validated and approved, all of the run's work and
  none of the human's; a resumed run takes nothing for done that is not.

The kanban and the runner are two ways to keep the same promise, `StageGates`: the stages
of a planning run pass strictly in order, and a stage that loses its gate takes the later
ones with it. The host calls them one beside the other; neither reads the other's state.
The task pipeline and the governed run are alternatives for one task: they share
`RunExecution.record` and the checkpoint, and no run uses both.

## Modules

| Module | What it models |
| --- | --- |
| `StageCursor` | The arithmetic of cursors, memories and their replay as pure operators. |
| `StageProtocol` | The abstract specification: one process at a time, crashes anywhere, and the discipline about first openings under which the journal stays restorable. |
| `RunExecution` | The class as its callers may use it: any order, any old cursor, several hosts, oversized records. |
| `GovernedRun` | The driver and the commands over the thirteen canonical stages; implements `StageProtocol`. |
| `StageGates` | The abstract specification of the planning machines: gates stand as a prefix of the stages. |
| `PlanningKanban` | The board: leases, gates, two lock files and their recovery, a save in two writes; implements `StageGates` with revocation. |
| `PlanningRunner` | The store, its replay, its projections and recovery; implements `StageGates` without revocation. |
| `TaskPipeline` | One run of the task pipeline, the run-state commands, a human who edits the tree, and crashes. |
| `MCStageProtocol`, `MCRunExecution` | The same for TLC: bounds on the journal and the cursors minted. |
| `MCPlanningKanban`, `MCPlanningRunner`, `MCTaskPipeline` | The properties of the three, and the symmetry of their instances. |
| `StageCursorProofs` | Lemmas about cursors and memories, and about the pass of `restore_cursors` over a journal one line longer. |
| `StageProtocolProofs`, `RunExecutionProofs`, `GovernedRunProofs`, `GovernedEvidenceProofs`, `PlanningKanbanProofs`, `PlanningRunnerProofs`, `TaskPipelineProofs` | The theorems and their proofs; the second of the driver's two modules adds what needs the pass and its counters. |

### Correspondence with the code

* A stage is its number in `CANONICAL_EXECUTION_STAGES`. A cursor is a record of stage,
  revision, attempt, parent digest and serial; its `attempt_key` spells out these fields
  and is not modelled apart from them. A record's SHA-256 digest is the number of its
  journal line: two digests are equal exactly when they digest the same line. Tampered
  journals are outside the model.
* `mem` is the object in memory. `image` and `verdict` are what `restore_cursors` would
  make of the journal, kept up to date record by record. A crash replaces `mem` by
  `image`. `RunExecution` keeps no image: a start makes the pass over the whole journal
  (`RestoreCursors`), and `DigestInStep` in `StageProtocolProofs` is the lemma that the
  two ways agree; nothing about the code rests on it.
* `opening` is the stage whose first open has not been recorded yet. `begin_revision`
  journals nothing for a first open, and every disagreement between memory and disk comes
  from there, or from a revision whose journal write fails.
* `begin_revision` invalidates the descendants in memory before anything is journalled,
  although its docstring says "The opening is journalled before it is applied in memory"
  (`execution.py:419`, `443-444`).
  When `record` then raises, the revision is undone and the descendants stay invalidated:
  `OpeningFails` of `RunExecution`, after which the object may be used on. The driver lets
  the exception escape, so in `GovernedRun` this is a crash. A `record` that raises after
  its line is on disk is left out.
* In `GovernedRun`, `step` and `at` are the driver's place in `run()`. `_record` is two
  actions (`ReviseStage`, `RecordStageEvidence`) because the process may die between its
  two calls. Each outcome of a gate, of DEV, of the campaign and of the reviewers is a
  disjunct. An exception that escapes `run()` is a `Crash`. `Return` resets the locals of
  `run()`, which no later call can see.
* `Decision`, request and journal line replace the decision's text, hash and author; the
  identical replay of a decision writes nothing and is therefore no action.

Kanban:

* A process is one `PlanningRun` object. The lease token and the attempt number say
  together what the card's `fence` says. A deadline is a card in `late`. Generations are
  compared for equality only: the two files agree or the state file is one ahead, and an
  object's generation is current or not.
* An operation is `Probe` (no lock), `TakeWriter` (cards that write the workspace), then
  at the state lock `Apply` or `Refused`, then `Return`. `Apply` writes the state file,
  `Return` the generation file and frees the locks; a crash between them leaves the files
  `split`. `RecoverLock` and `UnlinkStale` are the two halves of a stale lock's recovery.
* A caller does not start a call its handler would refuse at that moment; every check is
  made again under the lock. A process id that is used again is left out.
* `resumed` is a ready card that was paused before its first claim. `_validate_attempts`
  accepts no claim of such a card (`Savable`).

Planning runner:

* An attempt is `<<stage, revision, attempt>>` and a hash is the content it is of. Each
  stage keeps its output path from one attempt to the next. `accepted` is the verdict of
  `_history` over the events, kept event by event; `TypeOK` compares it with a replay of
  all of them, and ties the numbers of the attempts to their count.
* A call is one transaction with the files it reads. Its projection is a step of its own
  (`todo`, `Refresh`, `RefreshFails`), so that others act in between. A crash in the
  middle of a projection leaves records written and the state file old.
* Tampering with the database or with projected files is left out, and orphan records
  with it. The readings of `attest` are one step.

Task pipeline:

* Git is modelled by content: a patch applies when every file it changes stands as it did
  at its start, an empty one does not; a commit takes each path or leaves it. What agents
  write and what humans write are disjoint sets of contents, which is how the properties
  tell whose work is whose.
* Each `execution.record` is part of the step before it. The process may die after any
  step. `Entry` and `SkipsDev` are the resume; a resumed process has no human, as
  `_resume_run` passes none.
* The run lock is one atomic step (its docstring accepts the race). A run-state command
  acts on the tree first and asks for the lock afterwards, so it may change the tree
  under a live run; `disturbed` remembers under which process one did last. Nothing else
  edits the tree while a process runs. Git's index is left out: what a failing
  `commit_all` leaves staged is staged again by the next one, and `commit_paths` commits
  the paths it names and no other.
* One run id. The start commit and the artifacts of a checkpoint always exist. The
  artifact store publishes nowhere, as `__main__` configures it.

## Runs

| Run | Bounds | Shows |
| --- | --- | --- |
| `stage_protocol` | 3 stages, 5 lines, 4 serials | the journal restores, attempt keys fence, a restart agrees with the disk; the inductive invariant of the proofs holds |
| `run_execution` | 1 host, 2 starts, 2 stages, 4 lines, 4 cursors, 7 of both together | any order of calls, every old cursor offered again, any opening's journal write failing: a live object refuses what it invalidated, reissues no serial, repeats no record, decides once and where it was asked |
| `governed_run` | 13 stages, fixer budget 1, 2 commands, 1 crash, 1 worker report | earned handoffs, answerable questions, the budget, refinement of `StageProtocol`, every command ends |
| `planning_kanban` | 3 processes (2 alive at once), 3 cards, the second a writer, 3 claims and recoveries | the state lock's owner is who saves, one writer, gated ancestors, no writer lock left behind with an object that has no use for it, half a save freezes the board, leases end rightly, refinement of `StageGates` |
| `planning_runner` | 2 processes, 2 stages, 2 attempts, 2 inputs, 2 outputs | the replay accepts a live run's history, attempts are numbered by one at a time, one open attempt, blocks are shown, a pass rests on the files as they are, a terminal block is the end, refinement of `StageGates` |
| `task_pipeline` | a tracked and a new file, one content per author, 2 review cycles, 1 human round, 2 processes one after the other | the commit is what was approved, a human's work is neither committed nor overwritten, a resume that skips dev has the recorded work before it, the task is done only as the last effect of a completed process, an unattended run ends |

Three stages are the least with an earlier, a middle and a later one, so that an
invalidation has something to spare and something to drop; four serials let a stage be
opened, revised and revised again beneath another. Two stages and four lines let
`RunExecution` revise under a live descendant, ask, answer and be superseded; the second
start resumes the journal of the first. `MaxEffort` bounds lines and cursors together: four
lines and three cursors or three and four are reached, all of both is not. In
`GovernedRun` two commands allow a dispatch and an answer, or a dispatch and a
redispatch, with the crash and the report anywhere; one fixer pass reaches both sides of
the budget. The bounds of the first two are a `CONSTRAINT` of the run (`Bounded`), so the
specification that is checked is the one the theorems are about; those of `GovernedRun`
are guards of the actions they bound.

Three cards are the least with a card before and after the writer, three processes the
least with a dead owner and two that recover; two alive at once make every race. Three
fences allow a claim, its recovery and a second claim. `WriterFreed` excepts a card
blocked under its worker: the worker's object keeps the handle until it exits. In the
runner two stages give a passed one beneath a current one, two attempts a retry, two
contents a change; the order of recovery (`NameOrder`) is that of the ten stage names. In
the pipeline the second process is the resumed one; the tracked and the new file differ in
how git and the checkpoint keep them, and in the initial states a human has changed
either, both or neither. All three bounds are guards of the actions they bound.

`LiveFence` and `LiveSerials` speak of a journal one object has written alone
(`starts <= 1`). Without that premise the first is what `stale_cursor_after_restart`
refutes, and the second fails too: `restore_cursors` recovers the serial counter from
journalled cursors, so a serial issued and never recorded is issued again after a restart.

The idle system may stop, so deadlock is not checked; that no command gets stuck is
`CommandReturns`, that no unattended process does is `RunEnds`. The kanban can truly get
stuck: a process that dies holding a recovery marker, or before it wrote its lock record,
leaves a lock nobody recovers, and half a save freezes the board.

Six runs expect a violation. Each states what a comment or docstring says and finds the
behaviour of the code that contradicts it:

| Run | What TLC finds |
| --- | --- |
| `stale_cursor_after_restart` | an invalidation does not survive the restart when the revised stage's first open was never recorded |
| `two_hosts` | two processes each journal a decision for one request |
| `deferral_lost` | a defer is journalled and its Deferral never written |
| `kanban_authority` | a worker whose lease was recovered blocks the card it lost, with no coordinator's authority: its own copy still says running |
| `runner_recovery` | one recovery finds two things wrong and blocks twice, the second time behind a terminal block; no call can read the run any more |
| `resume_loses_work` | a resumed run takes the interrupted process's work for the human's, commits none of it, and the task is done |

The driver stays clear of the first: it records each first open before it opens
anything else, which is what `RunImplements` proves.

More disagreements were met and have no run. Free use of `RunExecution` can leave a
journal that no restart accepts, with one host and small payloads: open a later stage,
begin a second attempt of it and record that, open and revise an earlier stage whose first
open is on no disk, open the later one again and record it; a restart then keeps that
second attempt, whose number is higher, and what it records next chains to a digest the
stage has moved on from (`Restorable` in `RunExecution.cfg` with five cursors to mint). It
is the same gap as the first of the six, and the driver stays clear of it too. A stage
payload above 512 KiB goes to a blob with its `stage_cursor`, and the stage's next record
then names a parent that no restore sees: `Restorable` fails with `Payloads = {"inline",
"oversized"}` in `RunExecution.cfg`; the driver's payloads are small. `dispatch-task`
starts a run whose last decision is a block, although `project` says only a human can
reopen it. For the rest a property could only restate the code. Red canonical gates return
`escalated` with no request open (`execution_driver.py:447`), where the plan of 2026-09-10
asks a human; only a fresh `dispatch-task` moves such a run on. And `fixer_passes_used` is
a local of `run()` (`execution_driver.py:432`), so any redispatch renews the budget, where
the same plan lets only a human retry do so. `FixerBudget` therefore bounds each `run()`.

A resumed pipeline replays completed work. The plan of 2026-08-07 says "A completed attempt
is never replayed for side effects"
(`docs/superpowers/plans/2026-08-07-run-journal-and-recovery.md:14`), the design beside it
"Replaying a completed attempt must not rerun its side effects"
(`docs/superpowers/specs/2026-08-07-factory-evidence-lifecycle-and-recovery-design.md:332-333`).
`run_task` skips dev only when it resumes at validation, review or human-review
(`runner.py:334`). A resume at code-commit, evidence-finalize or session-review runs the
completed dev again, and when the first process died between `RecordCommit` and
`SetStatus` the run commits a second time: `Run`, `Context`, `DevWrites`, `DevEnds`,
`Validate`, `Review`, `Commit`, `RecordCommit`, `Crash`, `Resume`, `DevWrites`, `DevEnds`,
`Validate`, `Review`, `Commit` is a behaviour of `TaskPipeline`. In the same way a run that
was rejected or red and died in its finalize steps is resumed at session-review, runs dev
and may complete. No property of `task_pipeline` says otherwise: `ResumesRecordedWork` is
about the resumes that do skip dev, `CommitEarned` and `DoneIsEarned` hold for the second
commit as for the first.

In the planning package: the coordinator's generation is compared on the unlocked probe
only, so a revocation can block a writer card claimed in between, and its worker keeps
the writer lock until it exits; a card that needs input can be resumed only by the object
that materialised the board, and only while nobody else has written; and one that was
paused before its first claim can then never be claimed, as its history holds an event of
attempt 0 (`kanban.py:1518-1527`, which `_save` runs). A planning stage
that retries writes the path its failed gate had hashed, and until the old bytes are back
the store validates no more, although the plan of 2026-08-27 wants a new path.

In the pipeline: `resume` never passes the human gate, so an interactive run interrupted
before its approval completes unattended; a deletion the human made before the run has no
bytes in `dirty_snapshot` and is committed with the run's work; a `closed` checkpoint is
written before the manifest and the status are, so a crash between them is assessed as
complete; a second resume gathers the context again, as `completed` starts empty; and a
refused restore leaves its changes in the tree. A command that restores a patch under a
live process can make it publish what it did not do: a completed run recorded its status
tree, died, and was restarted; while the restarted process ends rejected, `resume`
restores the task file as done after `SetStatus`, and the rejected run commits it.
`HumanWorkSurvives` and `DoneIsEarned` except a process that was disturbed in this way by
name. A restarted run stays marked abandoned.

## Fairness

`FairRunSpec` assumes weak fairness of the driver's next step: `run()` is a sequence of
calls none of which waits for another command. DEV, the gates and the reviewers are
assumed to return; the code bounds them by timeouts of their own. Nothing is assumed of
commands, worker reports or crashes.

`FairSpec` of the pipeline is weak fairness of the steps a process makes by itself
(`Step`). The agents and the grill come back because `pi_backend.py` and `grill.py` stop
them after a timeout, git and the gates are assumed to return. The human's decision
(`Decide`) is not among them, so `RunEnds` speaks of unattended processes. The kanban and
the runner state no liveness: every call of theirs is made by somebody and ends at once.

## Proofs

Every safety property, action property and refinement that a passing run checks has a
theorem, for every value of the constants that the assumptions below admit.

`StageProtocolProofs` proves `Spec => []Inv` for any number of stages and a journal of
any length. `Restorable` is not inductive by itself. What it needs: both memory and image
chain each live cursor to its stage's last evidence (`Chained`); both agree on evidence
(`EvidenceBehindTip`), and recorded positions lie behind the tip, so the next record
repeats none; memory and image agree on cursors but for openings not yet on disk
(`RestartAgrees`, `OpeningPending`); and every live cursor could be recorded next without
breaking the order of serials (`Fenced`, `SerialsBounded`). Each operation has a lemma
that it keeps all of this. The journal is carried there as its replay, one line at a
time. `restore_cursors` passes over the lines from the first; what it does with a journal
one line longer (`RestoreAppend` in `StageCursorProofs`) rests on this: two passes that
agree so far agree at the next line, and the least line at which they do not does not
exist.

`RunExecutionProofs` is about free use: callers keep no discipline and every old cursor
is offered again. Four invariants, each over its own circumstances:

* `FreeInv`, any hosts and payloads: a live cursor sits in the slot of its stage, in
  memory and image, and a decision between its check and its line stands where the check
  left it. `TypeOK` follows.
* `FenceInv`, any hosts and payloads: while the journal has had one writer, its memory is
  ahead of all serials on disk and handed out. `LiveFence` and `LiveSerials` follow.
* `RepeatInv`, one host and inline payloads: memory and image know every recorded
  position (`Covers`), from which `PositionsJournalledOnce`. An oversized record takes its
  position out of the next restart's sight, and a second host out of the first one's, so
  neither hypothesis can go.
* `AskInv`, one host: an open request is the only one, and a decision under way is about
  a request not yet consumed. `DecisionsBound` follows. With two
  hosts the code's check and its append are two steps, which is what `two_hosts` shows.

`GovernedRunProofs` proves that the driver implements `StageProtocol`, for every fixer
budget and any number of commands, crashes and reports. The invariant says what the
driver's place in its program means for the protocol: between the two calls of `_record`
and nowhere else a first open is pending (`OpeningSettled`), nothing is open beneath a
root that is not (`RootFirst`), and no driver runs while a question is pending
(`AskedAlone`). With it, restorability and fencing carry over to the driver, and
`PendingBindable` and `NoWorkWhileAsking` are proved directly.

`GovernedEvidenceProofs` adds what the evidence on disk is worth. `HandoffEarned` is about
the journal as it was when the handoff was recorded, so `EvidenceInv` says of the pass
under way that the evidence of its stages is in their order, DEV after the last fixer and
the gates completed (`PassOrdered`), and that a completed result rests on the last handoff
(`ResultEarned`). `FixerBudget` needs the fixer's lines since the root to be those the
local counter counted (`FixersCounted`), and both what the other locals hold at each place
of `run` (`PassLocals`). TLC checked the parts beforehand, with a fixer budget of two.

`PlanningKanbanProofs` proves every property of the `planning_kanban` run for any number
of processes alive or dead, any length of the chain, any set of writing cards and any
number of claims. What an operation makes of each card is one lemma (`AfterFacts`); the
chain of gates (`GateInv`), the two gate theorems and the save theorem need nothing else
but types and the shape of an operation's record (`TypeInv`). The locks need more: who is
in a call is alive (`CallersUp`), a process named by a lock or a card is not one that has
yet to start (`NamedHaveRun`), a stale lock about to be unlinked has its remover's marker
and a dead owner (`UnlinkGuarded`), and a handle, a lock taken by the call under way and a
lock about to be dropped are all the writer lock (`WriterHeld`), so that a running writing
card is covered by its owner's handle from the claim's return to the end of its lease
(`WriterCovered`). The leases rest on fences that only grow and on cards that stand still
between the two files of a save (`LeaseInv`). `WriterFreed` needs both, and that a call
which took the writer lock and saved gives it back unless it claimed (`FreedInv`). TLC
checked these invariants on the instance of the run, with two writing cards, before they
were proved.

`PlanningRunnerProofs` proves every property of the `planning_runner` run for any number
of processes and attempts, up to ten stages and any contents. Why the replay accepts each
transaction is spread over the whole history, so the invariant is about histories
(`HistoryInv`): an attempt begins once and before its other events; attempts are numbered
up to the latest; one that is not its stage's latest was blocked; stages pass in order;
and what passed a stage is still its latest attempt. Beside it, `StoreInv` keeps the
store's verdict equal to the replay and its metadata in step with the blocks. The
refinement of `StageGates` and `PassRestsOnEvidence` then follow from what a transaction
may do to attempts and passed stages (`StoreStep`).

`TaskPipelineProofs` proves the safety properties of the pipeline for any files, contents,
budgets and number of processes. `VerdictInv` carries the verdict a commit rests on with
the tree it was given for; `KeptInv` and `CommittedInv` say where the human's contents can
be, and `StatusInv` where a task can already be done: what an interrupted process left in
the tree is in the next one's snapshot, or is rewritten by it before it is published.

Assumed of the constants: at least one stage, and for the driver thirteen; a positive fixer
budget and positive review budgets (the configuration refuses others); for the board at
least one card, and process names that differ from the words for an unheld lock; for the
runner at most ten stages, as `NameOrder` is that of the ten names, and outputs that differ
from the word for no file; for the pipeline that files and contents of the agents, of
humans and of the start commit can be told apart. The bounds that keep TLC finite are any
numbers.

Only model-checked: `CommandReturns` and `RunEnds`, which are liveness under fairness and
beyond the prover, and the six expected violations. Nothing is proved by induction over
data: a recursive function is reasoned about by the least line at which a claim would fail.

## Not modelled, and the plan

In order:

1. `JournalFile`: append, torn line and checkpoint, and a worker report beside a driver.
2. `TestCampaign`: the classification against a reference definition.
3. The planning sessions around the runner and the polish session, surveyed first.
4. The proofs about these, in the modules there are.

The run lock's race is not modelled: its docstring accepts it. Left out for good:
document queries and projections (`navigate`, `register`, `trace`, `audit`, most of the
repository's lines), agent subprocesses, git's own storage, hashing and text rendering.
They hold no state between calls or are pure input and output; see the notes in
`PROJECT.json`.
