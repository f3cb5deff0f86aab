--------------------------- MODULE GovernedRunProofs -------------------------
(***************************************************************************)
(* The driver keeps the discipline of StageProtocol: RunSpec implements    *)
(* Spec, for every fixer budget and every number of commands, crashes and  *)
(* reports.  What StageProtocolProofs proves of Spec then holds of the     *)
(* driver, and with it that a run waiting for its human is never wedged.   *)
(***************************************************************************)
EXTENDS GovernedRun, StageProtocolProofs

(* The thirteen stages are stages, and their numbers are what they are.    *)
LEMMA StageNumbers ==
  /\ Stage = 1..13
  /\ Root = 1 /\ Contract = 1 /\ Preflight = 2 /\ Transport = 3 /\ Baseline = 4
  /\ Dev = 5 /\ Validation = 6 /\ Campaign = 7 /\ ReviewSpec = 8 /\ ReviewQuality = 9
  /\ ReviewJoin = 10 /\ Fixer = 11 /\ CanonicalGates = 12 /\ Handoff = 13
  /\ NoStage = 0
  BY CanonicalStages DEF Stage, Root, Contract, Preflight, Transport, Baseline, Dev,
     Validation, Campaign, ReviewSpec, ReviewQuality, ReviewJoin, Fixer, CanonicalGates,
     Handoff, NoStage

(* Where a driver step may go, and the type of what it carries.            *)
LEMMA StageStateType == StageState \in EvidenceState \ {"needs_input"}
  BY DEF StageState, EvidenceState

(* The first call of _record is a begin_revision the protocol allows.      *)
LEMMA ReviseImplements ==
  ASSUME RunInv, ReviseStage
  PROVE  BeginRevisionFirst(at) \/ BeginRevisionBump(at)
  <1>1. at \in Stage /\ step = "revise"
    BY DEF RunInv, RunTypeOK, ReviseStage
  <1>2. CASE Live(mem.cursors[at])
    <2>1. opening = NoStage \/ (opening = at /\ \A t \in Descendants(at) : ~Live(mem.cursors[t]))
      BY <1>1, StageNumbers DEF RunInv, OpeningSettled
    <2> QED BY <1>2, <2>1 DEF ReviseStage, BeginRevisionBump
  <1>3. CASE ~Live(mem.cursors[at])
    <2>1. opening = NoStage
      BY <1>1, <1>3 DEF RunInv, OpeningSettled, RootOpen
    <2> QED BY <1>3, <2>1 DEF ReviseStage, BeginRevisionFirst
  <1> QED BY <1>2, <1>3

(* The second call of _record is a record_stage the protocol allows.       *)
LEMMA RecordImplements ==
  ASSUME RunInv, RecordStageEvidence
  PROVE  RecordStage(at, StageState)
  <1>1. opening \in {NoStage, at} /\ Live(mem.cursors[at])
    BY DEF RunInv, OpeningSettled, RecordStageEvidence
  <1> QED BY <1>1 DEF RecordStageEvidence, RecordStage

(* Every step of a command or of the driver is a step of the protocol.     *)
LEMMA StepImplements ==
  ASSUME RunInv, [RunNext]_runVars
  PROVE  [Next]_vars
  <1>0. at \in Stage /\ Root \in Stage /\ "needs_input" \in EvidenceState
        /\ "human-decision-recorded" \in EvidenceState
    BY StageNumbers DEF RunInv, RunTypeOK, EvidenceState
  <1>1. CASE DispatchTask \/ (\E d \in Decision : ResolveHuman(d)) \/ Crash
    BY <1>1 DEF DispatchTask, ResolveHuman, Crash, CreateExecution, Next
  <1>2. CASE ReportWorkerResult
    BY <1>2 DEF ReportWorkerResult, Next
  <1>3. CASE ConsumeHumanDecision \/ AskHuman
    BY <1>0, <1>3 DEF ConsumeHumanDecision, AskHuman, Next
  <1>4. CASE BeginRetry
    BY <1>0, <1>4 DEF BeginRetry, Next
  <1>5. CASE EnterRun
    BY <1>0, <1>5 DEF EnterRun, Next
  <1>6. CASE ReviseStage
    BY <1>0, <1>6, ReviseImplements DEF Next
  <1>7. CASE RecordStageEvidence
    BY <1>0, <1>7, RecordImplements, StageStateType DEF Next
  <1>8. CASE WriteDeferral \/ Proceed \/ PassOrAsk \/ EvaluateCampaign \/ ReviewSwarm
             \/ RunCanonicalGates \/ SpendFixerPass \/ StartFixer \/ AfterGates \/ Complete
    BY <1>8 DEF WriteDeferral, Proceed, PassOrAsk, EvaluateCampaign, ReviewSwarm,
                RunCanonicalGates, SpendFixerPass, StartFixer, AfterGates, Complete
  <1>9. CASE UNCHANGED runVars
    BY <1>9 DEF runVars, vars
  <1> QED BY <1>1, <1>2, <1>3, <1>4, <1>5, <1>6, <1>7, <1>8, <1>9 DEF RunNext, DriverStep

------------------------------------------------------------------------------
(* The root cursor under each operation.                                   *)

(* Opening, revising or retrying a stage, or recording at it, under a live *)
(* root or at the root itself, leaves the root live.                       *)
LEMMA RootAfterOperation ==
  ASSUME NEW m \in MemoryType, NEW s \in Stage, s = Root \/ Live(m.cursors[Root])
  PROVE  /\ Live(FirstOpen(m, s).cursors[Root])
         /\ Live(Bump(m, s).cursors[Root])
         /\ Live(m.cursors[s]) => Live(NextAttempt(m, s).cursors[Root])
         /\ \A state \in EvidenceState, d \in Nat :
              Live(m.cursors[s]) /\ m.cursors[s].stage = s
                => Live(Recorded(m, m.cursors[s], state, d).cursors[Root])
  <1>1. m.cursors \in [Stage -> CursorType] /\ Root \in Stage
    BY MemoryFields, StageNumbers
  <1>2. Live(RevisedCursor(m, s))
    BY RevisedCursorType
  <1>3. Live(FirstOpen(m, s).cursors[Root])
    BY <1>1, <1>2 DEF FirstOpen
  <1>4. Live(Bump(m, s).cursors[Root])
    <2>1. ~(Root > s)
      BY StageNumbers
    <2> QED BY <1>1, <1>2, <2>1, DropLaterType DEF Bump
  <1>5. Live(m.cursors[s]) => Live(NextAttempt(m, s).cursors[Root])
    BY <1>1 DEF NextAttempt, NewCursor, Live
  <1>6. ASSUME NEW state \in EvidenceState, NEW d \in Nat,
               Live(m.cursors[s]), m.cursors[s].stage = s
        PROVE  Live(Recorded(m, m.cursors[s], state, d).cursors[Root])
    BY <1>1, <1>6 DEF Recorded, Advance, Live
  <1> QED BY <1>3, <1>4, <1>5, <1>6

(* Replaying a record written under a live root, or at the root, restores  *)
(* a live root; replaying the root's newest position restores it.          *)
LEMMA RootAfterReplay ==
  ASSUME NEW m \in MemoryType, NEW c \in CursorType, c.stage \in Stage, Live(c),
         NEW state \in EvidenceState \cup {CursorOpened}, NEW d \in Nat,
         c.stage = Root \/ Live(m.cursors[Root])
  PROVE  /\ Live(Replay(m, c, state, d).cursors[Root])
         /\ c.stage = Root /\ (~Live(m.cursors[Root]) \/ NotOlder(c, m.cursors[Root]))
              => /\ Replay(m, c, state, d).cursors[Root].rev = c.rev
                 /\ Replay(m, c, state, d).cursors[Root].att = c.att
  <1> DEFINE r == Replay(m, c, state, d)
             live == IF state = CursorOpened THEN c ELSE Advance(c, d)
             prev == m.cursors[c.stage]
             revised == Live(prev) /\ c.rev > prev.rev
             newer == ~Live(prev) \/ NotOlder(c, prev)
             base == IF revised THEN DropLater(m.cursors, c.stage) ELSE m.cursors
  <1>1. m.cursors \in [Stage -> CursorType] /\ Root \in Stage /\ ~(Root > c.stage)
    BY MemoryFields, StageNumbers
  <1>2. base \in [Stage -> CursorType] /\ base[Root] = m.cursors[Root]
    BY <1>1, DropLaterType
  <1>3. live.rev = c.rev /\ live.att = c.att /\ Live(live)
    BY DEF Advance, Live
  <1>4. r.cursors = IF newer THEN [base EXCEPT ![c.stage] = live] ELSE m.cursors
    BY DEF Replay
  <1> HIDE DEF live, base, r
  <1>5. CASE newer
    <2>1. r.cursors[Root] = IF c.stage = Root THEN live ELSE m.cursors[Root]
      BY <1>1, <1>2, <1>4, <1>5
    <2> QED BY <1>3, <2>1 DEF r
  <1>6. CASE ~newer
    BY <1>4, <1>6 DEF r
  <1> QED BY <1>5, <1>6

(* A live root in memory is live on disk too, its first open apart.        *)
LEMMA RootOnDisk ==
  ASSUME RunInv, Live(mem.cursors[Root]), opening # Root
  PROVE  /\ Live(image.cursors[Root])
         /\ NotOlder(mem.cursors[Root], image.cursors[Root])
  <1>1. Root \in Stage /\ mem.cursors[Root] \in CursorType /\ image.cursors[Root] \in CursorType
    BY StageNumbers, MemoryFields DEF RunInv, Inv, TypeOK
  <1>2. mem.cursors[Root].att \in Nat /\ image.cursors[Root].att \in Nat
        /\ mem.cursors[Root].rev \in Nat
    BY <1>1, CursorFields
  <1> QED BY <1>1, <1>2 DEF RunInv, Inv, RestartAgrees, NotOlder

------------------------------------------------------------------------------
(* The invariant, conjunct by conjunct.                                    *)

(* The steps that only move the driver: nothing of the protocol changes.   *)
Decides ==
  \/ WriteDeferral \/ Proceed \/ PassOrAsk \/ EvaluateCampaign \/ ReviewSwarm
  \/ RunCanonicalGates \/ SpendFixerPass \/ StartFixer \/ AfterGates \/ Complete

(* They go from the stage's work, or the deferral, to the next call.       *)
LEMMA DecidesMoves ==
  ASSUME Decides
  PROVE  /\ UNCHANGED <<vars, decisions, counts>>
         /\ \/ step = "act" /\ step' \in {"revise", "ask", "idle"}
            \/ step = "defer" /\ step' = "idle"
  BY DEF Decides, Goto, Return, WriteDeferral, Proceed, PassOrAsk, EvaluateCampaign, ReviewSwarm,
         RunCanonicalGates, SpendFixerPass, StartFixer, AfterGates, Complete, human

(* The three steps that replace the process's memory by the disk's.        *)
Recreates == DispatchTask \/ (\E d \in Decision : ResolveHuman(d)) \/ Crash

(* What they do to the protocol, and where they leave the driver.          *)
LEMMA RecreatesMoves ==
  ASSUME Recreates
  PROVE  /\ Restart /\ UNCHANGED decisions
         /\ \/ step = "idle" /\ Pending = {} /\ step' = "enter"
            \/ step = "idle" /\ Pending # {} /\ step' = "consume"
            \/ step # "idle" /\ step' = "idle"
  BY DEF Recreates, DispatchTask, ResolveHuman, Crash, CreateExecution, Return, human

(* Every step of RunNext is of one of these kinds.                         *)
LEMMA StepKinds ==
  ASSUME [RunNext]_runVars
  PROVE  \/ Recreates \/ Decides \/ ReportWorkerResult
         \/ ConsumeHumanDecision \/ AskHuman \/ BeginRetry
         \/ EnterRun \/ ReviseStage \/ RecordStageEvidence \/ UNCHANGED runVars
  BY DEF RunNext, DriverStep, Recreates, Decides

(* What recording at stage s under a live root does to the root, in memory *)
(* and on disk.                                                            *)
LEMMA RecordingKeepsRoot ==
  ASSUME RunInv, NEW s \in Stage, NEW state \in EvidenceState, RecordStage(s, state),
         s = Root \/ Live(mem.cursors[Root])
  PROVE  Live(mem.cursors[Root])' /\ Live(image.cursors[Root])'
  <1>1. /\ mem \in MemoryType /\ image \in MemoryType /\ Len(journal) + 1 \in Nat
        /\ Live(mem.cursors[s]) /\ mem.cursors[s].stage = s /\ mem.cursors[s] \in CursorType
        /\ opening \in {NoStage, s}
    BY MemoryFields DEF RunInv, Inv, TypeOK, Chained, RecordStage
  <1>2. Live(mem.cursors[Root])'
    BY <1>1, RootAfterOperation DEF RecordStage
  <1>3. s = Root \/ Live(image.cursors[Root])
    BY <1>1, RootOnDisk, StageNumbers
  <1>4. image' = Replay(image, mem.cursors[s], state, Len(journal) + 1)
    BY DEF RecordStage, Append1
  <1>5. Live(image.cursors[Root])'
    BY <1>1, <1>3, <1>4, RootAfterReplay
  <1> QED BY <1>2, <1>5

(* The root is the first stage open and the last one closed.               *)
LEMMA RootsKept ==
  ASSUME RunInv, [RunNext]_runVars
  PROVE  RootFirst(mem)' /\ RootFirst(image)' /\ RootOpen'
  <1>0. /\ mem \in MemoryType /\ image \in MemoryType /\ at \in Stage /\ Root \in Stage
        /\ Len(journal) + 1 \in Nat
        /\ RootFirst(mem) /\ RootFirst(image) /\ RootOpen
    BY StageNumbers DEF RunInv, Inv, TypeOK, RunTypeOK
  <1>1. CASE Recreates
    <2>1. mem' = image /\ image' = image /\ step' \in {"enter", "consume", "idle"}
      BY <1>1, RecreatesMoves DEF Restart
    <2> QED BY <1>0, <2>1 DEF RootFirst, RootOpen
  <1>2. CASE Decides
    <2>1. mem' = mem /\ image' = image
      BY <1>2, DecidesMoves DEF vars
    <2> QED BY <1>0, <1>2, <2>1, DecidesMoves DEF RootFirst, RootOpen
  <1>3. CASE ReportWorkerResult \/ UNCHANGED runVars
    <2>1. mem' = mem /\ image' = image /\ step' = step
      BY <1>3 DEF ReportWorkerResult, AppendOther, runVars, vars
    <2> QED BY <1>0, <2>1 DEF RootFirst, RootOpen
  <1>4. CASE ConsumeHumanDecision \/ AskHuman
    <2>1. \E state \in EvidenceState : RecordStage(Root, state)
      BY <1>4 DEF ConsumeHumanDecision, AskHuman, EvidenceState
    <2> QED BY <1>0, <2>1, RecordingKeepsRoot DEF RootFirst, RootOpen
  <1>5. CASE BeginRetry
    <2>1. image' = image /\ step' = "enter" /\ Live(mem.cursors[Root])'
      BY <1>0, <1>5, RootAfterOperation DEF BeginRetry, BeginAttempt
    <2> QED BY <1>0, <2>1 DEF RootFirst, RootOpen
  <1>6. CASE EnterRun
    <2>1. image' = image /\ Live(mem.cursors[Root])'
      <3>1. CASE Live(mem.cursors[Root])
        BY <1>6, <3>1 DEF EnterRun, vars
      <3>2. CASE ~Live(mem.cursors[Root])
        <4>1. BeginRevisionFirst(Root)
          BY <1>6, <3>2 DEF EnterRun
        <4> QED BY <1>0, <4>1, RootAfterOperation DEF BeginRevisionFirst
      <3> QED BY <3>1, <3>2
    <2> QED BY <1>0, <2>1 DEF RootFirst, RootOpen
  <1>7. CASE ReviseStage
    <2>1. Live(mem.cursors[Root]) /\ (opening = Root => at = Root)
      BY <1>0, <1>7, StageNumbers DEF ReviseStage, RootOpen, RunInv, OpeningSettled
    <2>2. Live(mem.cursors[Root])'
      BY <1>0, <1>7, <2>1, RootAfterOperation DEF ReviseStage
    <2>3. at = Root \/ Live(image.cursors[Root])
      BY <2>1, RootOnDisk
    <2>4. image' = image \/ image' = Replay(image, RevisedCursor(mem, at), CursorOpened,
                                            Len(journal) + 1)
      BY <1>7 DEF ReviseStage, Append1
    <2>5. Live(Replay(image, RevisedCursor(mem, at), CursorOpened, Len(journal) + 1).cursors[Root])
      <3> DEFINE c == RevisedCursor(mem, at)
      <3>1. c \in CursorType /\ c.stage = at /\ Live(c)
        BY <1>0, RevisedCursorType
      <3> HIDE DEF c
      <3>2. Live(Replay(image, c, CursorOpened, Len(journal) + 1).cursors[Root])
        BY <1>0, <2>3, <3>1, RootAfterReplay
      <3> QED BY <3>2 DEF c
    <2>6. RootFirst(image)'
      BY <1>0, <2>4, <2>5 DEF RootFirst
    <2> QED BY <2>2, <2>6 DEF RootFirst, RootOpen
  <1>8. CASE RecordStageEvidence
    <2>1. Live(mem.cursors[Root])
      BY <1>0, <1>8 DEF RecordStageEvidence, RootOpen
    <2>2. Live(mem.cursors[Root])' /\ Live(image.cursors[Root])'
      BY <1>0, <1>8, <2>1, RecordImplements, RecordingKeepsRoot, StageStateType
    <2> QED BY <2>2 DEF RootFirst, RootOpen
  <1> QED BY <1>1, <1>2, <1>3, <1>4, <1>5, <1>6, <1>7, <1>8, StepKinds

(* A first open is on disk, or about to be, wherever the driver stands.    *)
LEMMA OpeningKept ==
  ASSUME RunInv, [RunNext]_runVars
  PROVE  OpeningSettled'
  <1>0. /\ mem \in MemoryType /\ at \in Stage /\ Root \in Stage /\ Root = Contract
        /\ mem.cursors \in [Stage -> CursorType]
        /\ OpeningSettled /\ RootFirst(mem)
    BY StageNumbers, MemoryFields DEF RunInv, Inv, TypeOK, RunTypeOK
  <1>1. CASE Recreates
    BY <1>1, RecreatesMoves DEF Restart, OpeningSettled
  <1>2. CASE Decides
    <2>1. opening' = opening /\ opening = NoStage /\ step' \in {"revise", "ask", "idle"}
      BY <1>0, <1>2, DecidesMoves DEF vars, OpeningSettled
    <2> QED BY <2>1 DEF OpeningSettled
  <1>3. CASE ReportWorkerResult \/ UNCHANGED runVars
    <2>1. mem' = mem /\ opening' = opening /\ step' = step /\ at' = at
      BY <1>3 DEF ReportWorkerResult, AppendOther, runVars, vars, loop
    <2> QED BY <1>0, <2>1 DEF OpeningSettled
  <1>4. CASE ConsumeHumanDecision \/ AskHuman
    <2>1. opening' = NoStage /\ step' \in {"attempt", "defer", "idle"}
      BY <1>4 DEF ConsumeHumanDecision, AskHuman, RecordStage, Return
    <2> QED BY <2>1 DEF OpeningSettled
  <1>5. CASE BeginRetry
    <2>1. opening' = NoStage /\ step' = "enter"
      BY <1>5 DEF BeginRetry, BeginAttempt
    <2> QED BY <2>1 DEF OpeningSettled
  <1>6. CASE EnterRun
    <2>1. opening = NoStage /\ step' = "revise" /\ at' = Root
      BY <1>0, <1>6 DEF EnterRun, Goto, OpeningSettled
    <2>2. CASE Live(mem.cursors[Root])
      BY <1>6, <2>1, <2>2 DEF EnterRun, vars, OpeningSettled
    <2>3. CASE ~Live(mem.cursors[Root])
      <3>1. mem' = FirstOpen(mem, Root) /\ opening' = Root
        BY <1>6, <2>3 DEF EnterRun, BeginRevisionFirst
      <3>2. \A s \in Descendants(Root) : s \in Stage /\ s # Root /\ ~Live(mem.cursors[s])
        BY <1>0, <2>3, StageNumbers DEF RootFirst, Descendants
      <3>3. \A s \in Descendants(Root) : ~Live(mem'.cursors[s])
        BY <1>0, <3>1, <3>2 DEF FirstOpen
      <3> QED BY <2>1, <3>1, <3>3 DEF OpeningSettled
    <2> QED BY <2>2, <2>3
  <1>7. CASE ReviseStage
    <2>1. step' = "record" /\ at' = at /\ opening' \in {NoStage, at}
      BY <1>7 DEF ReviseStage, loop
    <2>2. mem' = FirstOpen(mem, at) \/ mem' = Bump(mem, at)
      BY <1>7 DEF ReviseStage
    <2>3. mem'.cursors[at] = RevisedCursor(mem, at)
      BY <1>0, <2>2, DropLaterType DEF FirstOpen, Bump
    <2>4. Live(mem'.cursors[at])
      BY <1>0, <2>3, RevisedCursorType
    <2> QED BY <2>1, <2>4 DEF OpeningSettled
  <1>8. CASE RecordStageEvidence
    <2>1. opening' = NoStage /\ step' = "act"
      BY <1>8 DEF RecordStageEvidence
    <2> QED BY <2>1 DEF OpeningSettled
  <1> QED BY <1>1, <1>2, <1>3, <1>4, <1>5, <1>6, <1>7, <1>8, StepKinds

------------------------------------------------------------------------------
(* A list of lines with one member has that member for its latest.         *)
LEMMA LatestOfOne ==
  ASSUME NEW S \in SUBSET Nat, S # {}, \A i, j \in S : i = j
  PROVE  Latest(S) \in S /\ S = {Latest(S)}
  <1>1. PICK k \in S : TRUE
    OBVIOUS
  <1>2. \E i \in S : \A j \in S : j <= i
    BY <1>1
  <1>3. Latest(S) \in S
    BY <1>2 DEF Latest
  <1> QED BY <1>3

(* Pending requests are lines of the journal.                              *)
LEMMA PendingLines ==
  ASSUME RunInv
  PROVE  /\ Pending \in SUBSET (1..Len(journal)) /\ Pending \in SUBSET Nat
         /\ Len(journal) \in Nat /\ journal \in Seq(RecordType)
  BY DEF RunInv, Inv, TypeOK, Pending, Lines

(* The driver's own variables keep their types, its fixer counter stays    *)
(* within the budget, and a fixer stage is only entered with budget left.  *)
LEMMA TypesKept ==
  ASSUME RunInv, [RunNext]_runVars, TypeOK'
  PROVE  RunTypeOK' /\ FixerFunded'
  <1>0. RunTypeOK /\ FixerFunded /\ MaxFixerIterations \in Nat \ {0} /\ MaxCommands \in Nat
        /\ MaxCrashes \in Nat /\ MaxReports \in Nat
    BY BudgetAssumption, BoundAssumption DEF RunInv
  <1>1. CASE DispatchTask \/ \E d \in Decision : ResolveHuman(d)
    <2>1. CASE DispatchTask
      BY <1>0, <2>1 DEF DispatchTask, RunTypeOK, FixerFunded, loop, human
    <2>2. CASE \E d \in Decision : ResolveHuman(d)
      BY <1>0, <2>2 DEF ResolveHuman, RunTypeOK, FixerFunded, loop, human
    <2> QED BY <1>1, <2>1, <2>2
  <1>2. CASE Crash \/ ReportWorkerResult \/ UNCHANGED runVars
    <2>1. CASE Crash
      BY <1>0, <2>1, StageNumbers DEF Crash, Return, RunTypeOK, FixerFunded, human
    <2>2. CASE ReportWorkerResult
      BY <1>0, <2>2 DEF ReportWorkerResult, RunTypeOK, FixerFunded, loop, human
    <2>3. CASE UNCHANGED runVars
      BY <1>0, <2>3 DEF RunTypeOK, FixerFunded, loop, human, runVars, counts
    <2> QED BY <1>2, <2>1, <2>2, <2>3
  <1>3. CASE ConsumeHumanDecision
    <2>1. Latest(Pending) \in Nat
      BY <1>3, PendingLines, LatestOfOne DEF RunInv, AskedAlone, ConsumeHumanDecision
    <2>2. [request |-> Latest(Pending), decision |-> deciding, line |-> Len(journal) + 1]
            \in DecisionType
      BY <1>0, <2>1, PendingLines DEF DecisionType, RunTypeOK
    <2>3. decisions' \in Seq(DecisionType)
      BY <1>0, <1>3, <2>2 DEF ConsumeHumanDecision, RunTypeOK
    <2>4. UNCHANGED <<loop, deciding, deferral, counts>>
          /\ step' \in {"attempt", "defer", "idle"} /\ result' \in {"none", "escalated"}
      BY <1>3 DEF ConsumeHumanDecision
    <2> QED BY <1>0, <2>3, <2>4 DEF RunTypeOK, FixerFunded, loop, counts
  <1>4. CASE WriteDeferral \/ BeginRetry \/ AskHuman \/ Complete
    BY <1>0, <1>4, StageNumbers DEF WriteDeferral, BeginRetry, AskHuman, Complete, Return,
       RunTypeOK, FixerFunded, loop, human, counts
  <1>5. CASE EnterRun \/ ReviseStage \/ RecordStageEvidence
    BY <1>0, <1>5, StageNumbers DEF EnterRun, ReviseStage, RecordStageEvidence, Goto,
       RunTypeOK, FixerFunded, loop, human, counts
  <1>6. CASE Proceed \/ PassOrAsk
    <2>1. /\ at' = at \/ (at' = at + 1 /\ at \in {1, 2, 3, 4, 5, 6, 8})
          /\ step' \in {"revise", "ask"}
          /\ UNCHANGED <<vars, passes, finding, human, result, counts>>
      BY <1>6, StageNumbers DEF Proceed, PassOrAsk, Goto
    <2>2. at' \in Stage /\ (at' = Fixer => at = Fixer)
      BY <1>0, <2>1, StageNumbers DEF RunTypeOK
    <2> QED BY <1>0, <2>1, <2>2 DEF RunTypeOK, FixerFunded, human, counts
  <1>7. CASE EvaluateCampaign \/ ReviewSwarm \/ RunCanonicalGates
    BY <1>0, <1>7, StageNumbers DEF EvaluateCampaign, ReviewSwarm, RunCanonicalGates, Goto,
       RunTypeOK, FixerFunded, human, counts
  <1>8. CASE SpendFixerPass \/ StartFixer \/ AfterGates
    BY <1>0, <1>8, StageNumbers DEF SpendFixerPass, StartFixer, AfterGates, BudgetLeft, Goto,
       Return, RunTypeOK, FixerFunded, human, counts
  <1> QED BY <1>1, <1>2, <1>3, <1>4, <1>5, <1>6, <1>7, <1>8 DEF RunNext, DriverStep

(* A journal line that asks nothing, with no decision taken, leaves the    *)
(* pending requests as they were; a decision on the only one leaves none.  *)
LEMMA PendingAfter ==
  ASSUME RunInv, NEW e \in RecordType, journal' = Append(journal, e)
  PROVE  /\ UNCHANGED decisions /\ e.state # "needs_input"
              => Pending' = Pending /\ \A r \in Pending : journal'[r] = journal[r]
         /\ UNCHANGED decisions /\ Pending = {}
              => Pending' \subseteq {Len(journal) + 1} /\ journal'[Len(journal) + 1] = e
         /\ \A r \in DecisionType :
              decisions' = Append(decisions, r) /\ r.request = Latest(Pending)
                /\ Pending # {} /\ e.state # "needs_input" => Pending' = {}
  <1> DEFINE n == Len(journal) + 1
  <1>1. /\ journal \in Seq(RecordType) /\ Len(journal) \in Nat /\ DOMAIN journal = 1..Len(journal)
        /\ journal' \in Seq(RecordType) /\ Len(journal') = n /\ DOMAIN journal' = 1..n
        /\ \A i \in 1..Len(journal) : journal'[i] = journal[i]
        /\ journal'[n] = e
    BY AppendFacts, PendingLines
  <1>2. Lines(Root, "needs_input")' \subseteq Lines(Root, "needs_input") \cup {n}
    BY <1>1 DEF Lines
  <1>3. Lines(Root, "needs_input") \subseteq Lines(Root, "needs_input")'
    BY <1>1 DEF Lines
  <1>4. e.state # "needs_input" => Lines(Root, "needs_input")' = Lines(Root, "needs_input")
    BY <1>1, <1>2, <1>3 DEF Lines
  <1>5. UNCHANGED decisions => Consumed' = Consumed
    BY DEF Consumed
  <1>6. UNCHANGED decisions /\ e.state # "needs_input"
          => Pending' = Pending /\ \A r \in Pending : journal'[r] = journal[r]
    BY <1>1, <1>4, <1>5, PendingLines DEF Pending
  <1>7. UNCHANGED decisions /\ Pending = {} => Pending' \subseteq {n}
    BY <1>2, <1>5 DEF Pending
  <1>8. ASSUME NEW r \in DecisionType, decisions' = Append(decisions, r),
               r.request = Latest(Pending), Pending # {}, e.state # "needs_input"
        PROVE  Pending' = {}
    <2>1. Pending = {Latest(Pending)}
      BY <1>8, PendingLines, LatestOfOne DEF RunInv, AskedAlone
    <2>2. decisions \in Seq(DecisionType)
      BY DEF RunInv, RunTypeOK
    <2>3. /\ DOMAIN decisions' = 1..(Len(decisions) + 1) /\ DOMAIN decisions = 1..Len(decisions)
          /\ Len(decisions) \in Nat
          /\ \A i \in 1..Len(decisions) : decisions'[i] = decisions[i]
          /\ decisions'[Len(decisions) + 1] = r
      BY <1>8, <2>2
    <2>4. Consumed \cup {Latest(Pending)} \subseteq Consumed'
      BY <1>8, <2>3 DEF Consumed
    <2> QED BY <1>4, <1>8, <2>1, <2>4 DEF Pending
  <1> QED BY <1>1, <1>6, <1>7, <1>8

(* What the lines of the driver look like.                                 *)
LEMMA DriverLines ==
  ASSUME RunInv
  PROVE  /\ \A s \in Stage, state \in EvidenceState :
              Entry(mem.cursors[s], state) \in RecordType
         /\ \A s \in Stage : Entry(RevisedCursor(mem, s), CursorOpened) \in RecordType
         /\ Entry(NoCursor, "reported") \in RecordType
  <1>1. mem \in MemoryType /\ mem.cursors \in [Stage -> CursorType]
    BY MemoryFields DEF RunInv, Inv, TypeOK
  <1> QED BY <1>1, RevisedCursorType, CursorFields DEF Entry, RecordType, CursorOpened

(* The driver's own recordings ask nothing.                                *)
LEMMA DriverAsksNothing ==
  ASSUME RunInv, ReviseStage \/ RecordStageEvidence \/ EnterRun \/ BeginRetry
  PROVE  Pending' = {} /\ step' # "consume"
  <1>1. Pending = {} /\ UNCHANGED decisions /\ step' # "consume" /\ at \in Stage /\ Root \in Stage
    BY StageNumbers DEF RunInv, AskedAlone, RunTypeOK, ReviseStage, RecordStageEvidence, EnterRun,
                        BeginRetry, human, Goto
  <1>2. journal' = journal => Pending' = Pending
    BY <1>1 DEF Pending, Lines, Consumed
  <1>3. CASE EnterRun \/ BeginRetry
    <2>1. journal' = journal
      BY <1>3 DEF EnterRun, BeginRevisionFirst, BeginRetry, BeginAttempt, vars
    <2> QED BY <1>1, <1>2, <2>1
  <1>4. CASE ReviseStage
    <2>1. journal' = journal \/ journal' = Append(journal, Entry(RevisedCursor(mem, at), CursorOpened))
      BY <1>4 DEF ReviseStage, Append1
    <2>2. Entry(RevisedCursor(mem, at), CursorOpened) \in RecordType
          /\ Entry(RevisedCursor(mem, at), CursorOpened).state # "needs_input"
      BY <1>1, DriverLines DEF Entry, CursorOpened
    <2> QED BY <1>1, <1>2, <2>1, <2>2, PendingAfter
  <1>5. CASE RecordStageEvidence
    <2>1. journal' = Append(journal, Entry(mem.cursors[at], StageState))
      BY <1>5 DEF RecordStageEvidence, Append1
    <2>2. Entry(mem.cursors[at], StageState) \in RecordType
          /\ Entry(mem.cursors[at], StageState).state # "needs_input"
      BY <1>1, DriverLines, StageStateType DEF Entry
    <2> QED BY <1>1, <2>1, <2>2, PendingAfter
  <1> QED BY <1>3, <1>4, <1>5

(* A question stays alone and answerable until its answer is recorded.     *)
LEMMA AskingKept ==
  ASSUME RunInv, [RunNext]_runVars, Inv'
  PROVE  AskedAlone' /\ PendingBindable'
  <1>0. AskedAlone /\ PendingBindable /\ Restorable'
    BY DEF RunInv, Inv
  <1>1. ASSUME Pending' = {}, step' # "consume"
        PROVE  AskedAlone' /\ PendingBindable'
    BY <1>1 DEF AskedAlone, PendingBindable
  <1>2. ASSUME Pending' = Pending, image' = image, step' = step \/ Pending = {} \/ step' \in {"idle", "consume"},
               step' = "consume" => Pending # {},
               \A r \in Pending : journal'[r] = journal[r]
        PROVE  AskedAlone' /\ PendingBindable'
    <2>1. AskedAlone'
      BY <1>0, <1>2 DEF AskedAlone
    <2>2. PendingBindable'
      BY <1>0, <1>2 DEF PendingBindable
    <2> QED BY <2>1, <2>2
  <1>3. CASE Recreates
    <2>1. journal' = journal /\ decisions' = decisions /\ image' = image
      BY <1>3, RecreatesMoves DEF Restart
    <2>2. Pending' = Pending
      BY <2>1 DEF Pending, Lines, Consumed
    <2> QED BY <1>2, <1>3, <2>1, <2>2, RecreatesMoves
  <1>4. CASE Decides
    <2>1. journal' = journal /\ decisions' = decisions /\ step \in {"act", "defer"}
          /\ step' # "consume"
      BY <1>4, DecidesMoves DEF vars
    <2>2. Pending' = {}
      BY <1>0, <2>1 DEF AskedAlone, Pending, Lines, Consumed
    <2> QED BY <1>1, <2>1, <2>2
  <1>5. CASE ReportWorkerResult
    <2>1. /\ journal' = Append(journal, Entry(NoCursor, "reported")) /\ image' = image
          /\ step' = step /\ decisions' = decisions
      BY <1>5 DEF ReportWorkerResult, AppendOther, human
    <2>2. Entry(NoCursor, "reported").state # "needs_input"
      BY DEF Entry
    <2>3. Pending' = Pending /\ \A r \in Pending : journal'[r] = journal[r]
      BY <2>1, <2>2, DriverLines, PendingAfter
    <2> QED BY <1>0, <1>2, <2>1, <2>3 DEF AskedAlone
  <1>6. CASE ReviseStage \/ RecordStageEvidence \/ EnterRun \/ BeginRetry
    BY <1>1, <1>6, DriverAsksNothing
  <1>7. CASE ConsumeHumanDecision
    <2> DEFINE e == Entry(mem.cursors[Root], "human-decision-recorded")
               r == [request |-> Latest(Pending), decision |-> deciding, line |-> Len(journal) + 1]
    <2>1. journal' = Append(journal, e) /\ decisions' = Append(decisions, r) /\ step' # "consume"
          /\ Pending # {}
      BY <1>0, <1>7 DEF ConsumeHumanDecision, RecordStage, Append1, AskedAlone
    <2>2. e \in RecordType /\ e.state # "needs_input"
      BY DriverLines, StageNumbers DEF Entry, EvidenceState
    <2>3. Latest(Pending) \in Nat
      BY <1>0, <2>1, PendingLines, LatestOfOne DEF AskedAlone
    <2>4. r \in DecisionType /\ r.request = Latest(Pending)
      BY <2>3, PendingLines DEF DecisionType, RunInv, RunTypeOK
    <2> HIDE DEF e, r
    <2>5. Pending' = {}
      BY <2>1, <2>2, <2>4, PendingAfter
    <2> QED BY <1>1, <2>1, <2>5
  <1>8. CASE AskHuman
    <2> DEFINE c == mem.cursors[Root]
               n == Len(journal) + 1
    <2>1. /\ Pending = {} /\ decisions' = decisions /\ step' = "idle"
          /\ journal' = Append(journal, Entry(c, "needs_input"))
          /\ image' = Replay(image, c, "needs_input", n)
          /\ Live(c)
      BY <1>8 DEF AskHuman, RecordStage, Append1, Return, human
    <2>2. Entry(c, "needs_input") \in RecordType
      BY DriverLines, StageNumbers DEF EvidenceState
    <2>3. Pending' \subseteq {n} /\ journal'[n] = Entry(c, "needs_input")
      BY <2>1, <2>2, PendingAfter
    <2>4. /\ image \in MemoryType /\ c \in CursorType /\ c.stage = Root /\ c.stage \in Stage
          /\ n \in Nat /\ "needs_input" \in EvidenceState
      <3>1. Root \in Stage /\ n \in Nat /\ "needs_input" \in EvidenceState
        BY StageNumbers, PendingLines DEF EvidenceState
      <3>2. image \in MemoryType /\ mem \in MemoryType /\ Chained(mem)
        BY DEF RunInv, Inv, TypeOK
      <3>3. c \in CursorType
        BY <3>1, <3>2, MemoryFields
      <3>4. c.stage = Root
        BY <2>1, <3>1, <3>2 DEF Chained
      <3> QED BY <3>1, <3>2, <3>3, <3>4
    <2>5. Live(image.cursors[Root]) /\ NotOlder(c, image.cursors[Root])
      <3>1. opening # Root
        BY <1>8, StageNumbers DEF RunInv, OpeningSettled, AskHuman
      <3> QED BY <2>1, <3>1, RootOnDisk
    <2>6. /\ Live(image'.cursors[Root])
          /\ image'.cursors[Root].rev = c.rev /\ image'.cursors[Root].att = c.att
      BY <2>1, <2>4, <2>5, RootAfterReplay
    <2>7. journal'[n].cursor = c
      BY <2>3 DEF Entry
    <2>8. AskedAlone'
      BY <2>1, <2>3 DEF AskedAlone
    <2> HIDE DEF c
    <2>9. PendingBindable'
      BY <1>0, <2>3, <2>6, <2>7 DEF PendingBindable
    <2> QED BY <2>8, <2>9
  <1>9. CASE UNCHANGED runVars
    <2>1. journal' = journal /\ decisions' = decisions /\ image' = image /\ step' = step
      BY <1>9 DEF runVars, vars, human
    <2>2. Pending' = Pending
      BY <2>1 DEF Pending, Lines, Consumed
    <2> QED BY <1>0, <1>2, <2>1, <2>2 DEF AskedAlone
  <1> QED BY <1>3, <1>4, <1>5, <1>6, <1>7, <1>8, <1>9, StepKinds

------------------------------------------------------------------------------
(* A run starts in RunInv.                                                 *)
LEMMA RunInitInv == RunInit => RunInv
  <1> SUFFICES ASSUME RunInit PROVE RunInv
    OBVIOUS
  <1>1. Inv /\ Init
    BY InitInv DEF RunInit
  <1>2. journal = << >> /\ decisions = << >> /\ opening = NoStage
        /\ step = "idle" /\ at = Root /\ passes = 0
    BY DEF RunInit, Init
  <1>3. Pending = {}
    BY <1>2 DEF Pending, Lines
  <1>4. RunTypeOK
    BY <1>1, <1>2, StageNumbers, BudgetAssumption, BoundAssumption
       DEF RunInit, RunTypeOK, Inv, Decision, DecisionType
  <1>5. RootFirst(mem) /\ RootFirst(image)
    BY <1>1, CursorFields DEF Init, EmptyMemory, RootFirst
  <1>6. OpeningSettled /\ RootOpen /\ FixerFunded
    BY <1>2, BudgetAssumption, StageNumbers DEF OpeningSettled, RootOpen, FixerFunded
  <1>7. AskedAlone /\ PendingBindable
    BY <1>2, <1>3 DEF AskedAlone, PendingBindable
  <1> QED BY <1>1, <1>4, <1>5, <1>6, <1>7 DEF RunInv

(* Every step of a command or of the driver keeps RunInv.                  *)
LEMMA RunNextInv == RunInv /\ [RunNext]_runVars => RunInv'
  <1> SUFFICES ASSUME RunInv, [RunNext]_runVars PROVE RunInv'
    OBVIOUS
  <1>1. Inv'
    BY StepImplements, NextInv DEF RunInv
  <1>2. TypeOK'
    BY <1>1 DEF Inv
  <1> QED BY <1>1, <1>2, RootsKept, OpeningKept, TypesKept, AskingKept DEF RunInv

(* Where the driver stands always says what is open, recorded and asked.   *)
THEOREM RunInvariance == RunSpec => []RunInv
  BY RunInitInv, RunNextInv, PTL DEF RunSpec

(* The driver and the commands around it implement StageProtocol.          *)
THEOREM RunImplements == RunSpec => Spec
  <1>1. RunInit => Init
    BY DEF RunInit
  <1> QED BY <1>1, StepImplements, RunInvariance, PTL DEF RunSpec, Spec

(* Hence every journal the driver leaves behind can be restored ...        *)
THEOREM RunRestorable == RunSpec => []Restorable
  BY RunImplements, AlwaysRestorable, PTL

(* ... and its attempt keys fence, whatever crashed in between.            *)
THEOREM RunFenced == RunSpec => []FencingOrder
  BY RunImplements, AlwaysFenced, PTL

(* A run waiting for its human can always be answered.                     *)
THEOREM AlwaysBindable == RunSpec => []PendingBindable
  <1>1. RunInv => PendingBindable
    BY DEF RunInv
  <1> QED BY <1>1, RunInvariance, PTL

(* The journal gains no evidence while a human is being asked.             *)
THEOREM AskingStopsWork == RunSpec => NoWorkWhileAsking
  <1> DEFINE Quiet == Pending # {} /\ Len(journal') > Len(journal)
                        => journal'[Len(journal')].state \in {"reported", "human-decision-recorded"}
  <1>1. ASSUME RunInv, [RunNext]_runVars PROVE [Quiet]_runVars
    <2>1. SUFFICES ASSUME Pending # {}, Len(journal') > Len(journal)
                   PROVE journal'[Len(journal')].state \in {"reported", "human-decision-recorded"}
      OBVIOUS
    <2>2. step \in {"idle", "consume"} /\ Len(journal) \in Nat /\ journal \in Seq(RecordType)
      BY <1>1, <2>1, PendingLines DEF RunInv, AskedAlone
    <2>3. journal' # journal
      BY <2>1, <2>2
    <2>4. ReportWorkerResult \/ ConsumeHumanDecision
      <3>1. ~Decides
        BY <2>2, DecidesMoves
      <3>2. ~Recreates /\ ~UNCHANGED runVars
        BY <2>3, RecreatesMoves DEF Restart, runVars, vars
      <3>3. ~AskHuman /\ ~BeginRetry /\ ~EnterRun /\ ~ReviseStage /\ ~RecordStageEvidence
        BY <2>2 DEF AskHuman, BeginRetry, EnterRun, ReviseStage, RecordStageEvidence
      <3> QED BY <1>1, <3>1, <3>2, <3>3, StepKinds
    <2>5. \/ journal' = Append(journal, Entry(NoCursor, "reported"))
          \/ journal' = Append(journal, Entry(mem.cursors[Root], "human-decision-recorded"))
      BY <2>4 DEF ReportWorkerResult, AppendOther, ConsumeHumanDecision, RecordStage, Append1
    <2>6. Root \in Stage /\ "human-decision-recorded" \in EvidenceState
      BY StageNumbers DEF EvidenceState
    <2>7. PICK e \in RecordType : /\ journal' = Append(journal, e)
                                  /\ e.state \in {"reported", "human-decision-recorded"}
      BY <1>1, <2>5, <2>6, DriverLines DEF Entry
    <2> QED BY <2>2, <2>7, AppendFacts
  <1> QED BY <1>1, RunInvariance, PTL DEF RunSpec, NoWorkWhileAsking
==============================================================================
