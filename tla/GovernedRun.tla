----------------------------- MODULE GovernedRun -----------------------------
(***************************************************************************)
(* One governed run: GovernedExecutionDriver working through the canonical *)
(* stages, and the coherence-execution commands that start it, answer its  *)
(* questions and report worker results.  Every stage evidence is two calls *)
(* on the run's RunExecution (begin_revision, then record_stage), and the  *)
(* host process may die between any two of them; a review or campaign      *)
(* error that escapes run() ends the process the same way.                 *)
(*                                                                         *)
(* Commands follow one another (one host at a time; module RunExecution    *)
(* has the concurrent ones), except report-worker-result, which another    *)
(* process may append at any moment.                                       *)
(***************************************************************************)
EXTENDS StageProtocol

CONSTANTS MaxFixerIterations,  \* governed_execution.max_fixer_iterations
          MaxCommands,         \* bound: dispatch-task and resolve-human calls
          MaxCrashes,          \* bound: host processes that die
          MaxReports           \* bound: report-worker-result calls

ASSUME BudgetAssumption == MaxFixerIterations \in Nat \ {0}
ASSUME BoundAssumption == MaxCommands \in Nat /\ MaxCrashes \in Nat /\ MaxReports \in Nat
ASSUME CanonicalStages == NumStages = 13

Contract == 1   Preflight == 2   Transport == 3     Baseline == 4
Dev == 5        Validation == 6  Campaign == 7      ReviewSpec == 8
ReviewQuality == 9               ReviewJoin == 10   Fixer == 11
CanonicalGates == 12             Handoff == 13

Decision == {"retry", "defer", "block"}

VARIABLES
  step,      \* what the host process does next: "idle" is no process; "enter"
             \* run(); "revise" and "record" the two calls of _record; "act" the
             \* stage's own work; "ask" _request_human_decision; "consume",
             \* "attempt", "defer" the rest of resolve-human
  at,        \* the stage step is about
  passes,    \* fixer_passes_used
  finding,   \* what the current revision's checks said of it
  deciding,  \* the decision resolve-human carries
  decisions, \* the journalled human decisions, in order
  deferral,  \* whether the task carries the Deferral
  result,    \* outcome of the last TaskResult
  commands, crashes, reports

loop    == <<at, passes, finding>>
human   == <<deciding, decisions, deferral>>
counts  == <<commands, crashes, reports>>
runVars == <<vars, step, loop, human, result, counts>>

DecisionType == [request : Nat, decision : Decision, line : Nat]

RunTypeOK ==
  /\ TypeOK
  /\ step \in {"idle", "enter", "revise", "record", "act", "ask", "consume", "attempt", "defer"}
  /\ at \in Stage
  /\ passes \in 0..MaxFixerIterations
  /\ finding \in {"clean", "unclean", "failed"}
  /\ deciding \in Decision
  /\ decisions \in Seq(DecisionType)
  /\ deferral \in {"none", "written"}
  /\ result \in {"none", "completed", "escalated"}
  /\ commands \in 0..MaxCommands /\ crashes \in 0..MaxCrashes /\ reports \in 0..MaxReports

(* What any process reads off the journal (read_run_state and              *)
(* pending_human_decision_request agree on it).                            *)
Lines(s, state) == {i \in DOMAIN journal : journal[i].cursor.stage = s /\ journal[i].state = state}
Consumed == {decisions[i].request : i \in DOMAIN decisions}
Pending  == Lines(Root, "needs_input") \ Consumed
LastDecision == IF decisions = << >> THEN "none" ELSE decisions[Len(decisions)].decision
Latest(lines) == CHOOSE i \in lines : \A j \in lines : j <= i

RunInit ==
  /\ Init
  /\ step = "idle" /\ at = Root /\ passes = 0 /\ finding = "clean"
  /\ deciding = "block" /\ decisions = << >> /\ deferral = "none"
  /\ result = "none"
  /\ commands = 0 /\ crashes = 0 /\ reports = 0

------------------------------------------------------------------------------
(* The commands.                                                           *)

(* Mutant of CreateExecution: the journal is not restored.                 *)
CreateFresh ==
  /\ verdict = "accepted"
  /\ mem' = EmptyMemory
  /\ opening' = NoStage
  /\ UNCHANGED <<journal, image, verdict>>

(* What run() keeps in its locals is gone once it has returned or died.    *)
Return == step' = "idle" /\ at' = Root /\ passes' = 0 /\ finding' = "clean"

(* Every command opens its own RunExecution: create() restores it.         *)
CreateExecution == Restart

(* Mutant of DispatchTask: a pending decision does not refuse it.          *)
DispatchUnasked ==
  /\ step = "idle" /\ commands < MaxCommands
  /\ CreateExecution
  /\ step' = "enter" /\ result' = "none"
  /\ commands' = commands + 1
  /\ UNCHANGED <<loop, human, crashes, reports>>

(* dispatch-task: refused while a human decision is pending, and for no    *)
(* other reason the run's own record could give.                           *)
DispatchTask ==
  /\ step = "idle" /\ commands < MaxCommands
  /\ Pending = {}
  /\ CreateExecution
  /\ step' = "enter" /\ result' = "none"
  /\ commands' = commands + 1
  /\ UNCHANGED <<loop, human, crashes, reports>>

(* resolve-human with a decision that names the pending request; anything  *)
(* else is refused or, if it repeats a recorded decision, only read back.  *)
ResolveHuman(d) ==
  /\ step = "idle" /\ commands < MaxCommands
  /\ Pending # {}
  /\ CreateExecution
  /\ step' = "consume" /\ deciding' = d /\ result' = "none"
  /\ commands' = commands + 1
  /\ UNCHANGED <<loop, decisions, deferral, crashes, reports>>

(* consume_human_decision: the request's revision and attempt must still   *)
(* be the live ones.                                                       *)
ConsumeHumanDecision ==
  LET request == Latest(Pending) IN
  /\ step = "consume"
  /\ Live(mem.cursors[Root])
  /\ mem.cursors[Root].rev = journal[request].cursor.rev
  /\ mem.cursors[Root].att = journal[request].cursor.att
  /\ RecordStage(Root, "human-decision-recorded")
  /\ decisions' = Append(decisions, [request |-> request, decision |-> deciding,
                                     line |-> Len(journal) + 1])
  /\ \/ deciding = "retry" /\ step' = "attempt" /\ result' = "none"
     \/ deciding = "defer" /\ step' = "defer"   /\ result' = "none"
     \/ deciding = "block" /\ step' = "idle"    /\ result' = "escalated"
  /\ UNCHANGED <<loop, deciding, deferral, counts>>

(* _write_deferral, after the decision is on disk.                         *)
WriteDeferral ==
  /\ step = "defer"
  /\ deferral' = "written" /\ result' = "escalated"
  /\ step' = "idle"
  /\ UNCHANGED <<vars, loop, deciding, decisions, counts>>

(* A retry's begin_attempt, then run() with a fresh fixer budget.          *)
BeginRetry ==
  /\ step = "attempt"
  /\ BeginAttempt(Root)
  /\ step' = "enter"
  /\ UNCHANGED <<loop, human, result, counts>>

(* report-worker-result, by any process at any time.                       *)
ReportWorkerResult ==
  /\ reports < MaxReports
  /\ verdict = "accepted"
  /\ AppendOther
  /\ reports' = reports + 1
  /\ UNCHANGED <<step, loop, human, result, commands, crashes>>

(* The host process dies or an error escapes it.                           *)
Crash ==
  /\ step # "idle" /\ crashes < MaxCrashes
  /\ Restart
  /\ Return
  /\ crashes' = crashes + 1
  /\ UNCHANGED <<human, result, commands, reports>>

------------------------------------------------------------------------------
(* The driver.                                                             *)

Goto(s) == at' = s /\ step' = "revise"

(* Mutant of EnterRun: the task cursor is never opened.                    *)
EnterUnopened ==
  /\ step = "enter"
  /\ UNCHANGED vars
  /\ Goto(Preflight)
  /\ UNCHANGED <<passes, finding, human, result, counts>>

(* open_task_cursor: the live root cursor, or its first revision.          *)
EnterRun ==
  /\ step = "enter"
  /\ IF Live(mem.cursors[Root]) THEN UNCHANGED vars ELSE BeginRevisionFirst(Root)
  /\ Goto(Contract)
  /\ UNCHANGED <<passes, finding, human, result, counts>>

(* _record, first half: begin_revision, a first open or a journalled bump. *)
ReviseStage ==
  /\ step = "revise"
  /\ IF Live(mem.cursors[at])
     THEN /\ mem' = Bump(mem, at)
          /\ Append1(RevisedCursor(mem, at), CursorOpened)
          /\ opening' = NoStage
     ELSE /\ mem' = FirstOpen(mem, at)
          /\ opening' = at
          /\ UNCHANGED <<journal, image, verdict>>
  /\ step' = "record"
  /\ UNCHANGED <<loop, human, result, counts>>

(* _record, second half: record_stage on the cursor just opened.           *)
StageState == IF at = CanonicalGates /\ finding = "failed" THEN "failed" ELSE "completed"
RecordStageEvidence ==
  /\ step = "record"
  /\ Recordable(mem, mem.cursors[at], StageState)
  /\ mem' = Recorded(mem, mem.cursors[at], StageState, Len(journal) + 1)
  /\ Append1(mem.cursors[at], StageState)
  /\ opening' = NoStage
  /\ step' = "act"
  /\ UNCHANGED <<loop, human, result, counts>>

(* The stages whose work has no outcome the driver branches on.            *)
Proceed ==
  /\ step = "act" /\ at \in {Preflight, Transport, Baseline, ReviewSpec}
  /\ Goto(at + 1)
  /\ UNCHANGED <<vars, passes, finding, human, result, counts>>

(* A required gate before, DEV, or validation: on to the next stage, or    *)
(* ask the human.                                                          *)
PassOrAsk ==
  /\ step = "act" /\ at \in {Contract, Dev, Validation}
  /\ \/ Goto(at + 1)
     \/ step' = "ask" /\ UNCHANGED at
  /\ UNCHANGED <<vars, passes, finding, human, result, counts>>

(* evaluate_after_dev: regressions or a failed pass-rate gate, or neither. *)
EvaluateCampaign ==
  /\ step = "act" /\ at = Campaign
  /\ finding' \in {"clean", "unclean"}
  /\ Goto(ReviewSpec)
  /\ UNCHANGED <<vars, passes, human, result, counts>>

(* run_review_swarm: both lanes return before review-join is recorded.     *)
ReviewSwarm ==
  /\ step = "act" /\ at = ReviewQuality
  /\ finding' \in {finding, "unclean"}
  /\ Goto(ReviewJoin)
  /\ UNCHANGED <<vars, passes, human, result, counts>>

(* Clean work meets the canonical gates and the completion preflight.      *)
RunCanonicalGates ==
  /\ step = "act" /\ at = ReviewJoin
  /\ finding = "clean"
  /\ finding' \in {"clean", "failed"}
  /\ Goto(CanonicalGates)
  /\ UNCHANGED <<vars, passes, human, result, counts>>

(* Unclean work spends a fixer pass, or the budget is gone.                *)
BudgetLeftOffByOne == passes <= MaxFixerIterations   \* mutant of BudgetLeft
BudgetLeft == passes < MaxFixerIterations
SpendFixerPass ==
  /\ step = "act" /\ at = ReviewJoin
  /\ finding = "unclean"
  /\ IF BudgetLeft THEN Goto(Fixer) ELSE step' = "ask" /\ UNCHANGED at
  /\ UNCHANGED <<vars, passes, finding, human, result, counts>>

(* Mutant of StartFixer: the pass is not counted.                          *)
StartFixerUncounted ==
  /\ step = "act" /\ at = Fixer
  /\ finding' = "clean"
  /\ Goto(Dev)
  /\ UNCHANGED <<vars, passes, human, result, counts>>

(* The fixer is the next DEV pass.                                         *)
StartFixer ==
  /\ step = "act" /\ at = Fixer
  /\ passes' = passes + 1
  /\ finding' = "clean"
  /\ Goto(Dev)
  /\ UNCHANGED <<vars, human, result, counts>>

(* Mutant of AskHuman: the run carries on as if retried.                   *)
AskAndCarryOn ==
  /\ step = "ask"
  /\ Pending = {}
  /\ RecordStage(Root, "needs_input")
  /\ step' = "enter" /\ result' = "none"
  /\ UNCHANGED <<loop, human, counts>>

(* _request_human_decision: a question at the root cursor, then return.    *)
AskHuman ==
  /\ step = "ask"
  /\ Pending = {}
  /\ RecordStage(Root, "needs_input")
  /\ Return /\ result' = "escalated"
  /\ UNCHANGED <<human, counts>>

(* Mutants of AfterGates: red gates hand off; red gates are not handled.   *)
HandOffRegardless ==
  /\ step = "act" /\ at = CanonicalGates
  /\ Goto(Handoff) /\ UNCHANGED result
  /\ UNCHANGED <<vars, passes, finding, human, counts>>

GreenGatesOnly ==
  /\ step = "act" /\ at = CanonicalGates
  /\ finding = "clean"
  /\ Goto(Handoff) /\ UNCHANGED result
  /\ UNCHANGED <<vars, passes, finding, human, counts>>

(* Gates red: return escalated.  Gates green: hand off.                    *)
AfterGates ==
  /\ step = "act" /\ at = CanonicalGates
  /\ IF finding = "failed"
     THEN Return /\ result' = "escalated"
     ELSE Goto(Handoff) /\ UNCHANGED <<passes, finding, result>>
  /\ UNCHANGED <<vars, human, counts>>

Complete ==
  /\ step = "act" /\ at = Handoff
  /\ Return /\ result' = "completed"
  /\ UNCHANGED <<vars, human, counts>>

DriverStep ==
  \/ EnterRun \/ ReviseStage \/ RecordStageEvidence
  \/ Proceed \/ PassOrAsk \/ EvaluateCampaign \/ ReviewSwarm
  \/ RunCanonicalGates \/ SpendFixerPass \/ StartFixer
  \/ AskHuman \/ AfterGates \/ Complete
  \/ ConsumeHumanDecision \/ WriteDeferral \/ BeginRetry

RunNext ==
  \/ DispatchTask
  \/ \E d \in Decision : ResolveHuman(d)
  \/ ReportWorkerResult
  \/ Crash
  \/ DriverStep

RunSpec == RunInit /\ [][RunNext]_runVars

(* A process that is running keeps running: nothing in run() waits.        *)
FairRunSpec == RunSpec /\ WF_runVars(DriverStep)

------------------------------------------------------------------------------
(* The driver's evidence stages, in the order one clean pass records them. *)
PassStages == Stage \ {Fixer}
EvidenceLines(s, before) ==
  {i \in 1..before : journal[i].cursor.stage = s /\ journal[i].state \in {"completed", "failed"}}
FixerLinesSince(line) == {i \in Lines(Fixer, "completed") : i > line}
LastLine(lines) == IF lines = {} THEN 0 ELSE Latest(lines)

(* A handoff is earned by one uninterrupted pass: of every stage, the last *)
(* evidence before it comes after that of the stage before, canonical      *)
(* gates last and not failed, and DEV ran after the last fixer.  No crash, *)
(* retry or redispatch lets it rest on evidence of an earlier pass.  And a *)
(* completed result is the one of the handoff last on disk.                *)
HandoffEarned ==
  /\ \A h \in Lines(Handoff, "completed") :
       /\ \A s \in PassStages : EvidenceLines(s, h) # {}
       /\ \A s, t \in PassStages :
            s < t => Latest(EvidenceLines(s, h)) < Latest(EvidenceLines(t, h))
       /\ Latest(EvidenceLines(CanonicalGates, h)) \in Lines(CanonicalGates, "completed")
       /\ \A f \in EvidenceLines(Fixer, h) : f < Latest(EvidenceLines(Dev, h))
  /\ result = "completed" =>
       \E h \in Lines(Handoff, "completed") :
         \A i \in (h + 1)..Len(journal) : journal[i].state = "reported"

(* Nothing wedges a run that is waiting for its human: there is one        *)
(* request, the journal restores, and the root cursor a restarted process  *)
(* gets is at the revision and attempt the answer must match.              *)
PendingBindable ==
  \A request \in Pending :
    /\ Pending = {request}
    /\ Restorable
    /\ Live(image.cursors[Root])
    /\ image.cursors[Root].rev = journal[request].cursor.rev
    /\ image.cursors[Root].att = journal[request].cursor.att

(* Nothing may advance while a human is being asked (project): the only    *)
(* lines a journal with a pending request gains are worker reports and     *)
(* the decision.                                                           *)
NoWorkWhileAsking ==
  [][Pending # {} /\ Len(journal') > Len(journal)
       => journal'[Len(journal')].state \in {"reported", "human-decision-recorded"}]_runVars

(* No run() spends more fixer passes than the project allows, counted on   *)
(* the journal's evidence rather than on the driver's counter.             *)
FixerBudget ==
  Cardinality(FixerLinesSince(LastLine(Lines(Root, "completed")))) <= MaxFixerIterations

(* A command always comes back: no run() blocks on its own record.         *)
CommandReturns == (step # "idle") ~> (step = "idle")

------------------------------------------------------------------------------
(* What a text around this code promises and the code does not keep.       *)

(* "the Deferral is the record": a deferred run nobody works on has it.    *)
DeferralWritten == step = "idle" /\ LastDecision = "defer" => deferral = "written"

------------------------------------------------------------------------------
(* The inductive invariant behind the proofs: what the driver's place in   *)
(* its own program says of the protocol's state.                           *)

(* Nothing is open beneath a root that is not.                             *)
RootFirst(m) == Live(m.cursors[Root]) \/ \A s \in Stage : ~Live(m.cursors[s])

(* A first open is pending only between the two calls of _record, or under *)
(* open_task_cursor of a run in which nothing else is open.                *)
OpeningSettled ==
  /\ step \notin {"revise", "record"} => opening = NoStage
  /\ step = "revise" =>
       \/ opening = NoStage
       \/ /\ opening = Root /\ at = Root
          /\ \A s \in Descendants(Root) : ~Live(mem.cursors[s])
  /\ step = "record" => opening \in {NoStage, at} /\ Live(mem.cursors[at])

(* The driver works under a live root cursor.                              *)
RootOpen == step \in {"revise", "record", "act", "ask"} => Live(mem.cursors[Root])

(* A question is alone, and no driver is running while it waits.           *)
AskedAlone ==
  /\ \A i, j \in Pending : i = j
  /\ Pending # {} => step \in {"idle", "consume"}
  /\ step = "consume" => Pending # {}

(* A fixer stage was entered with budget left for it.                      *)
FixerFunded == at = Fixer => passes < MaxFixerIterations

RunInv ==
  /\ Inv
  /\ RunTypeOK
  /\ RootFirst(mem) /\ RootFirst(image)
  /\ OpeningSettled
  /\ RootOpen
  /\ AskedAlone
  /\ FixerFunded
  /\ PendingBindable
==============================================================================
