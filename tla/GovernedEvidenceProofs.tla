----------------------- MODULE GovernedEvidenceProofs -----------------------
(***************************************************************************)
(* What the evidence a governed run leaves behind is worth, for every      *)
(* fixer budget and every number of commands, crashes and reports: a       *)
(* handoff rests on one uninterrupted pass, and no pass spends more fixers *)
(* than the project allows.                                                *)
(***************************************************************************)
EXTENDS GovernedRunProofs, NaturalsInduction, WellFoundedInduction, FiniteSetTheorems

(* Where the driver works, and the stages it has recorded in its pass.     *)
InPass == step \in {"revise", "record", "act", "ask"}
Evidence(s) == EvidenceLines(s, Len(journal))
Done == {s \in PassStages : s < at \/ (s = at /\ step \in {"act", "ask"})}
FixersSinceRoot == FixerLinesSince(LastLine(Lines(Root, "completed")))

(* Of the stages of the pass, the last evidence on disk is of this pass,   *)
(* in the order of the stages, DEV after the last fixer.                   *)
PassOrdered ==
  InPass =>
    /\ \A s \in Done : Evidence(s) # {}
    /\ \A s, t \in Done : s < t => Latest(Evidence(s)) < Latest(Evidence(t))
    /\ Dev \in Done /\ ~(at = Fixer /\ step = "act") =>
         \A f \in Evidence(Fixer) : f < Latest(Evidence(Dev))
    /\ CanonicalGates \in Done /\ finding # "failed" =>
         journal[Latest(Evidence(CanonicalGates))].state = "completed"

(* What run() keeps in its locals where it stands.                         *)
PassLocals ==
  /\ step \in {"idle", "enter", "consume", "attempt", "defer"} => at = Root
  /\ at = Root => passes = 0
  /\ at < CanonicalGates \/ at = Handoff => finding # "failed"
  /\ step # "idle" => result # "completed"
  /\ at = Fixer => step \in {"revise", "record", "act"}

(* A completed result is about to be, or has been, made of the last handoff*)
(* on disk.                                                                *)
ResultEarned ==
  result = "completed" \/ (at = Handoff /\ step = "act") =>
    \E h \in Lines(Handoff, "completed") :
      \A i \in (h + 1)..Len(journal) : journal[i].state = "reported"

(* The fixer's lines since the run was last entered are those it counted.  *)
FixersCounted ==
  /\ InPass /\ ~(at = Root /\ step \in {"revise", "record"}) =>
       Cardinality(FixersSinceRoot) <= IF at = Fixer /\ step = "act" THEN passes + 1 ELSE passes
  /\ Cardinality(FixersSinceRoot) <= MaxFixerIterations

(* What HandoffEarned says of the handoffs on disk.                        *)
HandoffsEarned ==
  \A h \in Lines(Handoff, "completed") :
     /\ \A s \in PassStages : EvidenceLines(s, h) # {}
     /\ \A s, t \in PassStages :
          s < t => Latest(EvidenceLines(s, h)) < Latest(EvidenceLines(t, h))
     /\ Latest(EvidenceLines(CanonicalGates, h)) \in Lines(CanonicalGates, "completed")
     /\ \A f \in EvidenceLines(Fixer, h) : f < Latest(EvidenceLines(Dev, h))

EvidenceInv ==
  RunInv /\ PassLocals /\ PassOrdered /\ ResultEarned /\ FixersCounted /\ HandoffsEarned

-----------------------------------------------------------------------------
(* The lines of the journal.                                               *)

(* The last of some lines.                                                 *)
LEMMA LatestOf ==
  ASSUME NEW n \in Nat, NEW S \in SUBSET (1..n), S # {}
  PROVE  Latest(S) \in S /\ \A j \in S : j <= Latest(S)
  <1> DEFINE T == {n - i : i \in S}
             R == OpToRel(<, Nat)
  <1>1. T \in SUBSET Nat /\ T # {}
    <2>1. \A i \in S : i \in Int /\ i <= n
      OBVIOUS
    <2>2. \A i \in S : n - i \in Nat
      BY <2>1
    <2> QED BY <2>2
  <1>2. \E x \in T : \A y \in T : ~(<<y, x>> \in R)
    <2> HIDE DEF T
    <2> QED BY <1>1, NatLessThanWellFounded, WFMin, Zenon
  <1>3. \A x, y \in Nat : y < x => <<y, x>> \in R
    BY DEF OpToRel
  <1> HIDE DEF R
  <1>4. PICK i \in S : \A y \in T : ~(<<y, n - i>> \in R)
    BY <1>2
  <1>5. ASSUME NEW j \in S PROVE j <= i
    <2>1. n - j \in T /\ n - j \in Nat /\ n - i \in Nat /\ j \in Int /\ i \in Int
      BY <1>1
    <2>2. ~(n - j < n - i)
      BY <1>3, <1>4, <2>1
    <2> QED BY <2>1, <2>2
  <1> QED BY <1>4, <1>5 DEF Latest

(* Evidence lies in the journal.                                           *)
LEMMA EvidenceFacts ==
  ASSUME RunInv
  PROVE  /\ Len(journal) \in Nat /\ journal \in Seq(RecordType) /\ DOMAIN journal = 1..Len(journal)
         /\ \A s \in Stage : Evidence(s) \in SUBSET (1..Len(journal))
         /\ \A s \in Stage : Evidence(s) # {} =>
              /\ Latest(Evidence(s)) \in Evidence(s) /\ Latest(Evidence(s)) \in 1..Len(journal)
              /\ \A j \in Evidence(s) : j <= Latest(Evidence(s))
         /\ IsFiniteSet(FixersSinceRoot)
         /\ Lines(Root, "completed") \in SUBSET (1..Len(journal))
         /\ LastLine(Lines(Root, "completed")) \in 0..Len(journal)
  <1>1. Len(journal) \in Nat /\ journal \in Seq(RecordType) /\ DOMAIN journal = 1..Len(journal)
    BY PendingLines
  <1>2. \A s \in Stage : Evidence(s) \in SUBSET (1..Len(journal))
    BY DEF Evidence, EvidenceLines
  <1>3. ASSUME NEW s \in Stage, Evidence(s) # {}
        PROVE  /\ Latest(Evidence(s)) \in Evidence(s) /\ Latest(Evidence(s)) \in 1..Len(journal)
               /\ \A j \in Evidence(s) : j <= Latest(Evidence(s))
    BY <1>1, <1>2, <1>3, LatestOf
  <1>4. FixersSinceRoot \in SUBSET (1..Len(journal)) /\ IsFiniteSet(1..Len(journal))
    BY <1>1, FS_Interval DEF FixersSinceRoot, FixerLinesSince, Lines
  <1>5. IsFiniteSet(FixersSinceRoot)
    BY <1>4, FS_Subset
  <1>6. Lines(Root, "completed") \in SUBSET (1..Len(journal))
    BY <1>1 DEF Lines
  <1>7. LastLine(Lines(Root, "completed")) \in 0..Len(journal)
    <2>1. CASE Lines(Root, "completed") = {}
      BY <1>1, <2>1 DEF LastLine
    <2>2. CASE Lines(Root, "completed") # {}
      <3>1. Latest(Lines(Root, "completed")) \in 1..Len(journal)
        BY <1>1, <1>6, <2>2, LatestOf
      <3> QED BY <1>1, <2>2, <3>1 DEF LastLine
    <2> QED BY <2>1, <2>2
  <1> QED BY <1>1, <1>2, <1>3, <1>5, <1>6, <1>7

(* A new line changes the evidence of its own stage, and only if it is     *)
(* evidence.                                                               *)
LEMMA LinesAfter ==
  ASSUME RunInv, NEW e \in RecordType, journal' = Append(journal, e)
  PROVE  LET n == Len(journal) + 1
             isEvidence == e.state \in {"completed", "failed"}
         IN  /\ Len(journal)' = n /\ n \in Nat /\ journal'[n] = e
             /\ \A i \in 1..Len(journal) : journal'[i] = journal[i]
             /\ \A s \in Stage, b \in 1..Len(journal) : EvidenceLines(s, b)' = EvidenceLines(s, b)
             /\ \A s \in Stage : Evidence(s)' =
                  IF isEvidence /\ e.cursor.stage = s THEN Evidence(s) \cup {n} ELSE Evidence(s)
             /\ \A s \in Stage : Lines(s, "completed")' =
                  IF e.state = "completed" /\ e.cursor.stage = s THEN Lines(s, "completed") \cup {n}
                  ELSE Lines(s, "completed")
  <1> DEFINE n == Len(journal) + 1
             isEvidence == e.state \in {"completed", "failed"}
  <1>1. /\ Len(journal) \in Nat /\ DOMAIN journal = 1..Len(journal)
        /\ Len(journal') = n /\ DOMAIN journal' = 1..n /\ journal'[n] = e /\ n \in Nat
        /\ \A i \in 1..Len(journal) : journal'[i] = journal[i]
    BY AppendFacts, PendingLines
  <1>2. 1..n = (1..Len(journal)) \cup {n} /\ n \notin 1..Len(journal)
    BY <1>1
  <1>3. ASSUME NEW s \in Stage, NEW b \in 1..Len(journal)
        PROVE  EvidenceLines(s, b)' = EvidenceLines(s, b)
    BY <1>1 DEF EvidenceLines
  <1>4. ASSUME NEW s \in Stage
        PROVE  Evidence(s)' = IF isEvidence /\ e.cursor.stage = s THEN Evidence(s) \cup {n} ELSE Evidence(s)
    <2>1. Evidence(s)' = {i \in (1..Len(journal)) \cup {n} : journal'[i].cursor.stage = s
                                               /\ journal'[i].state \in {"completed", "failed"}}
      BY <1>1, <1>2 DEF Evidence, EvidenceLines
    <2>2. Evidence(s) = {i \in 1..Len(journal) : journal[i].cursor.stage = s
                                               /\ journal[i].state \in {"completed", "failed"}}
      BY DEF Evidence, EvidenceLines
    <2> HIDE DEF n
    <2> QED BY <1>1, <1>2, <2>1, <2>2
  <1>5. ASSUME NEW s \in Stage
        PROVE  Lines(s, "completed")' =
                  IF e.state = "completed" /\ e.cursor.stage = s THEN Lines(s, "completed") \cup {n}
                  ELSE Lines(s, "completed")
    <2>1. Lines(s, "completed")' = {i \in (1..Len(journal)) \cup {n} : journal'[i].cursor.stage = s
                                               /\ journal'[i].state = "completed"}
      BY <1>1, <1>2 DEF Lines
    <2>2. Lines(s, "completed") = {i \in 1..Len(journal) : journal[i].cursor.stage = s
                                               /\ journal[i].state = "completed"}
      BY <1>1 DEF Lines
    <2> HIDE DEF n
    <2> QED BY <1>1, <1>2, <2>1, <2>2
  <1> QED BY <1>1, <1>3, <1>4, <1>5

-----------------------------------------------------------------------------
(* Steps that record no evidence of a stage.                               *)

(* A line that is no evidence changes nothing that evidence rests on.      *)
LEMMA QuietLines ==
  ASSUME RunInv,
         \/ journal' = journal
         \/ \E e \in RecordType : e.state \notin {"completed", "failed"} /\ journal' = Append(journal, e)
  PROVE  /\ \A s \in Stage : Evidence(s)' = Evidence(s)
         /\ \A s \in Stage : Lines(s, "completed")' = Lines(s, "completed")
         /\ \A s \in Stage, b \in 1..Len(journal) : EvidenceLines(s, b)' = EvidenceLines(s, b)
         /\ \A i \in 1..Len(journal) : journal'[i] = journal[i]
         /\ FixersSinceRoot' = FixersSinceRoot
         /\ HandoffsEarned => HandoffsEarned'
  <1>1. /\ \A s \in Stage : Evidence(s)' = Evidence(s)
        /\ \A s \in Stage : Lines(s, "completed")' = Lines(s, "completed")
        /\ \A s \in Stage, b \in 1..Len(journal) : EvidenceLines(s, b)' = EvidenceLines(s, b)
        /\ \A i \in 1..Len(journal) : journal'[i] = journal[i]
    <2>1. CASE journal' = journal
      BY <2>1 DEF Evidence, EvidenceLines, Lines
    <2>2. ASSUME NEW e \in RecordType, e.state \notin {"completed", "failed"}, journal' = Append(journal, e)
          PROVE  /\ \A s \in Stage : Evidence(s)' = Evidence(s)
                 /\ \A s \in Stage : Lines(s, "completed")' = Lines(s, "completed")
                 /\ \A s \in Stage, b \in 1..Len(journal) : EvidenceLines(s, b)' = EvidenceLines(s, b)
                 /\ \A i \in 1..Len(journal) : journal'[i] = journal[i]
      BY <2>2, LinesAfter
    <2> QED BY <2>1, <2>2
  <1>2. FixersSinceRoot' = FixersSinceRoot
    <2>1. Fixer \in Stage /\ Root \in Stage
      BY StageNumbers
    <2> QED BY <1>1, <2>1 DEF FixersSinceRoot, FixerLinesSince
  <1>3. HandoffsEarned => HandoffsEarned'
    <2>1. Handoff \in Stage /\ Fixer \in Stage /\ Dev \in Stage /\ CanonicalGates \in Stage
          /\ PassStages \subseteq Stage
      BY StageNumbers DEF PassStages
    <2>2. Lines(Handoff, "completed") \subseteq 1..Len(journal)
      BY EvidenceFacts DEF Lines
    <2> QED BY <1>1, <2>1, <2>2 DEF HandoffsEarned
  <1> QED BY <1>1, <1>2, <1>3

(* Every step but the second call of _record is quiet.                     *)
LEMMA QuietSteps ==
  ASSUME RunInv, [RunNext]_runVars, ~RecordStageEvidence
  PROVE  \/ journal' = journal
         \/ \E e \in RecordType : e.state \notin {"completed", "failed"} /\ journal' = Append(journal, e)
  <1>0. at \in Stage /\ Root \in Stage /\ {"needs_input", "human-decision-recorded"} \subseteq EvidenceState
    BY StageNumbers DEF RunInv, RunTypeOK, EvidenceState
  <1>1. CASE Recreates
    BY <1>1, RecreatesMoves DEF Restart
  <1>2. CASE Decides \/ UNCHANGED runVars
    BY <1>2, DecidesMoves DEF vars, runVars
  <1>3. CASE ReportWorkerResult
    <2>1. journal' = Append(journal, Entry(NoCursor, "reported"))
      BY <1>3 DEF ReportWorkerResult, AppendOther
    <2> QED BY <2>1, DriverLines DEF Entry
  <1>4. CASE ConsumeHumanDecision \/ AskHuman
    <2>1. PICK state \in {"needs_input", "human-decision-recorded"} : RecordStage(Root, state)
      BY <1>4 DEF ConsumeHumanDecision, AskHuman
    <2>2. journal' = Append(journal, Entry(mem.cursors[Root], state))
      BY <2>1 DEF RecordStage, Append1
    <2>3. Entry(mem.cursors[Root], state) \in RecordType /\ Entry(mem.cursors[Root], state).state = state
      BY <1>0, DriverLines DEF Entry
    <2> QED BY <2>2, <2>3
  <1>5. CASE BeginRetry \/ EnterRun
    BY <1>5 DEF BeginRetry, BeginAttempt, EnterRun, BeginRevisionFirst, vars
  <1>6. CASE ReviseStage
    <2>1. journal' = journal \/ journal' = Append(journal, Entry(RevisedCursor(mem, at), CursorOpened))
      BY <1>6 DEF ReviseStage, Append1
    <2>2. /\ Entry(RevisedCursor(mem, at), CursorOpened) \in RecordType
          /\ Entry(RevisedCursor(mem, at), CursorOpened).state = CursorOpened
      BY <1>0, DriverLines DEF Entry
    <2> QED BY <2>1, <2>2 DEF CursorOpened
  <1> QED BY <1>1, <1>2, <1>3, <1>4, <1>5, <1>6, StepKinds

(* Where the driver goes when its stage's work is done: on, back to DEV    *)
(* after a fixer, to the human, or out of run().                           *)
LEMMA DecidesWhere ==
  ASSUME RunInv, PassLocals, Decides
  PROVE  \/ /\ step' = "idle" /\ at' = Root /\ passes' = 0 /\ finding' # "failed"
            /\ result' = "completed" => at = Handoff /\ step = "act"
         \/ /\ step = "act" /\ step' = "ask" /\ at \in {1, 5, 6, 10} /\ result' = result
            /\ at' = at /\ passes' = passes /\ finding' = finding
         \/ /\ step = "act" /\ step' = "revise" /\ result' = result
            /\ \/ at' = at + 1 /\ at \in (1..13) \ {11, 13}
               \/ at = 10 /\ at' = 12
               \/ at = 11 /\ at' = 5
            /\ passes' = IF at = 11 THEN passes + 1 ELSE passes
            /\ at' # 12 => finding' # "failed"
            /\ at' = 13 => finding' = finding
  <1>0. /\ at \in 1..13 /\ finding \in {"clean", "unclean", "failed"} /\ passes \in Nat
        /\ at < 12 => finding # "failed"
        /\ step = "defer" => at = Root /\ passes = 0
    BY StageNumbers DEF RunInv, RunTypeOK, PassLocals
  <1>1. CASE WriteDeferral
    BY <1>0, <1>1, StageNumbers DEF WriteDeferral, loop
  <1>2. CASE Proceed \/ PassOrAsk
    BY <1>0, <1>2, StageNumbers DEF Proceed, PassOrAsk, Goto
  <1>3. CASE EvaluateCampaign \/ ReviewSwarm \/ RunCanonicalGates
    BY <1>0, <1>3, StageNumbers DEF EvaluateCampaign, ReviewSwarm, RunCanonicalGates, Goto
  <1>4. CASE SpendFixerPass \/ StartFixer
    BY <1>0, <1>4, StageNumbers DEF SpendFixerPass, StartFixer, Goto
  <1>5. CASE AfterGates \/ Complete
    BY <1>0, <1>5, StageNumbers DEF AfterGates, Complete, Goto, Return
  <1> QED BY <1>1, <1>2, <1>3, <1>4, <1>5 DEF Decides

(* The driver's locals.                                                    *)
LEMMA LocalsKept ==
  ASSUME RunInv, PassLocals, [RunNext]_runVars
  PROVE  PassLocals'
  <1>0. at \in 1..13 /\ passes \in Nat
    BY StageNumbers DEF RunInv, RunTypeOK
  <1>1. CASE Recreates
    BY <1>0, <1>1, StageNumbers DEF Recreates, DispatchTask, ResolveHuman, Crash, Return, loop, human, PassLocals
  <1>2. CASE Decides
    BY <1>0, <1>2, DecidesWhere, StageNumbers DEF PassLocals
  <1>3. CASE ReportWorkerResult \/ UNCHANGED runVars
    BY <1>3 DEF ReportWorkerResult, runVars, loop, PassLocals
  <1>4. CASE ConsumeHumanDecision \/ AskHuman \/ BeginRetry
    BY <1>0, <1>4, StageNumbers DEF ConsumeHumanDecision, AskHuman, BeginRetry, Return, loop, PassLocals
  <1>5. CASE EnterRun
    BY <1>0, <1>5, StageNumbers DEF EnterRun, Goto, PassLocals
  <1>6. CASE ReviseStage \/ RecordStageEvidence
    BY <1>0, <1>6, StageNumbers DEF ReviseStage, RecordStageEvidence, loop, PassLocals
  <1> QED BY <1>1, <1>2, <1>3, <1>4, <1>5, <1>6, StepKinds

(* Where the driver stands in its pass after a step that records nothing.  *)
LEMMA QuietWhere ==
  ASSUME RunInv, PassLocals, [RunNext]_runVars, ~RecordStageEvidence, InPass'
  PROVE  /\ Done' \subseteq Done
         /\ Done' # {} => InPass
         /\ Dev \in Done' /\ ~(at' = Fixer /\ step' = "act") => ~(at = Fixer /\ step = "act")
         /\ CanonicalGates \in Done' /\ finding' # "failed" => finding # "failed"
         /\ ~(at' = Root /\ step' \in {"revise", "record"}) =>
              /\ InPass /\ ~(at = Root /\ step \in {"revise", "record"})
              /\ (IF at = Fixer /\ step = "act" THEN passes + 1 ELSE passes)
                   = (IF at' = Fixer /\ step' = "act" THEN passes' + 1 ELSE passes')
  <1>0. at \in 1..13 /\ passes \in Nat /\ PassStages = (1..13) \ {11}
    BY StageNumbers DEF RunInv, RunTypeOK, PassStages
  <1>1. CASE Decides
    BY <1>0, <1>1, DecidesWhere, StageNumbers DEF InPass, Done
  <1>2. CASE ReportWorkerResult \/ UNCHANGED runVars
    <2>1. UNCHANGED <<step, at, passes, finding>>
      BY <1>2 DEF ReportWorkerResult, runVars, loop
    <2> QED BY <2>1 DEF InPass, Done
  <1>3. CASE EnterRun
    <2>1. step' = "revise" /\ at' = 1
      BY <1>3, StageNumbers DEF EnterRun, Goto
    <2>2. Done' = {}
      BY <1>0, <2>1 DEF Done
    <2> QED BY <2>1, <2>2, StageNumbers
  <1>4. CASE ReviseStage
    <2>1. step = "revise" /\ step' = "record" /\ UNCHANGED <<at, passes, finding>>
      BY <1>4 DEF ReviseStage, loop
    <2>2. Done' = Done
      BY <2>1 DEF Done
    <2> QED BY <2>1, <2>2 DEF InPass
  <1>5. ~Recreates /\ ~ConsumeHumanDecision /\ ~AskHuman /\ ~BeginRetry
    BY RecreatesMoves DEF InPass, ConsumeHumanDecision, AskHuman, BeginRetry, Return
  <1> QED BY <1>1, <1>2, <1>3, <1>4, <1>5, StepKinds

(* A result is reported, and kept, as long as nothing else is journalled.  *)
LEMMA ResultKept ==
  ASSUME RunInv, PassLocals, ResultEarned, [RunNext]_runVars, ~RecordStageEvidence
  PROVE  ResultEarned'
  <1> SUFFICES ASSUME result' = "completed" \/ (at' = Handoff /\ step' = "act")
               PROVE  \E h \in Lines(Handoff, "completed")' :
                        \A i \in (h + 1)..Len(journal') : journal'[i].state = "reported"
    BY DEF ResultEarned
  <1>1. /\ Len(journal) \in Nat /\ journal \in Seq(RecordType)
        /\ Lines(Handoff, "completed") \subseteq 1..Len(journal) /\ at \in 1..13
    BY EvidenceFacts, StageNumbers DEF Lines, RunInv, RunTypeOK
  <1>2. CASE UNCHANGED <<journal, step, at, result>>
    BY <1>2 DEF ResultEarned, Lines
  <1>3. CASE ReportWorkerResult
    <2>1. UNCHANGED <<step, at, result>> /\ journal' = Append(journal, Entry(NoCursor, "reported"))
      BY <1>3 DEF ReportWorkerResult, AppendOther, loop
    <2>2. PICK h \in Lines(Handoff, "completed") :
            \A i \in (h + 1)..Len(journal) : journal[i].state = "reported"
      BY <2>1 DEF ResultEarned
    <2>3. h \in Lines(Handoff, "completed")'
      BY <1>3, QuietSteps, QuietLines, StageNumbers
    <2>4. /\ Len(journal') = Len(journal) + 1 /\ journal'[Len(journal) + 1].state = "reported"
          /\ \A i \in 1..Len(journal) : journal'[i] = journal[i]
      BY <2>1, LinesAfter, DriverLines DEF Entry
    <2>5. \A i \in (h + 1)..Len(journal') : journal'[i].state = "reported"
      BY <1>1, <2>2, <2>4
    <2> QED BY <2>3, <2>5
  <1>4. CASE Decides
    <2>1. at = Handoff /\ step = "act" /\ journal' = journal
      BY <1>4, DecidesWhere, DecidesMoves, StageNumbers DEF PassLocals, vars
    <2> QED BY <2>1 DEF ResultEarned, Lines
  <1>5. ~Recreates /\ ~ConsumeHumanDecision /\ ~AskHuman /\ ~BeginRetry /\ ~EnterRun /\ ~ReviseStage
    BY StageNumbers DEF Recreates, DispatchTask, ResolveHuman, Crash, ConsumeHumanDecision, AskHuman,
       BeginRetry, EnterRun, ReviseStage, Return, Goto, loop, human, PassLocals
  <1>6. CASE UNCHANGED runVars
    BY <1>2, <1>6 DEF runVars, vars, loop
  <1> QED BY <1>3, <1>4, <1>5, <1>6, StepKinds

(* What is known of the evidence outlives every quiet step.                *)
LEMMA QuietKept ==
  ASSUME EvidenceInv, [RunNext]_runVars, ~RecordStageEvidence
  PROVE  PassOrdered' /\ ResultEarned' /\ FixersCounted' /\ HandoffsEarned'
  <1>1. /\ RunInv /\ PassLocals /\ Len(journal) \in Nat
        /\ \A s \in Stage : Evidence(s)' = Evidence(s)
        /\ \A i \in 1..Len(journal) : journal'[i] = journal[i]
        /\ FixersSinceRoot' = FixersSinceRoot
        /\ HandoffsEarned'
    BY QuietSteps, QuietLines, EvidenceFacts DEF EvidenceInv
  <1>2. ResultEarned'
    BY ResultKept DEF EvidenceInv
  <1>3. FixersCounted'
    BY <1>1, QuietWhere DEF EvidenceInv, FixersCounted
  <1>4. PassOrdered'
    <2>1. SUFFICES ASSUME InPass'
                   PROVE  /\ \A s \in Done' : Evidence(s)' # {}
                          /\ \A s, t \in Done' : s < t => Latest(Evidence(s)') < Latest(Evidence(t)')
                          /\ Dev \in Done' /\ ~(at' = Fixer /\ step' = "act") =>
                               \A f \in Evidence(Fixer)' : f < Latest(Evidence(Dev)')
                          /\ CanonicalGates \in Done' /\ finding' # "failed" =>
                               journal'[Latest(Evidence(CanonicalGates)')].state = "completed"
      BY DEF PassOrdered
    <2>2. /\ Done' \subseteq Done /\ Done \subseteq Stage /\ (Done' # {} => InPass)
          /\ Fixer \in Stage /\ Dev \in Stage /\ CanonicalGates \in Stage
      BY <1>1, <2>1, QuietWhere, StageNumbers DEF Done, PassStages
    <2>3. /\ \A s \in Done' : Evidence(s)' # {}
          /\ \A s, t \in Done' : s < t => Latest(Evidence(s)') < Latest(Evidence(t)')
      BY <1>1, <2>2 DEF EvidenceInv, PassOrdered
    <2>4. Dev \in Done' /\ ~(at' = Fixer /\ step' = "act") =>
            \A f \in Evidence(Fixer)' : f < Latest(Evidence(Dev)')
      BY <1>1, <2>1, <2>2, QuietWhere DEF EvidenceInv, PassOrdered
    <2>5. CanonicalGates \in Done' /\ finding' # "failed" =>
            journal'[Latest(Evidence(CanonicalGates)')].state = "completed"
      <3>1. CanonicalGates \in Done' =>
              Latest(Evidence(CanonicalGates)) \in 1..Len(journal)
        BY <1>1, <2>2, EvidenceFacts DEF EvidenceInv, PassOrdered
      <3> QED BY <1>1, <2>1, <2>2, <3>1, QuietWhere DEF EvidenceInv, PassOrdered
    <2> QED BY <2>3, <2>4, <2>5
  <1> QED BY <1>1, <1>2, <1>3, <1>4

-----------------------------------------------------------------------------
(* The record of a stage's evidence.                                       *)

(* What _record's second call leaves on disk, and where.                   *)
LEMMA RecordLines ==
  ASSUME EvidenceInv, RecordStageEvidence
  PROVE  LET n == Len(journal) + 1
         IN  /\ at \in 1..13 /\ step = "record" /\ step' = "act" /\ UNCHANGED <<at, passes, finding, result>>
             /\ Len(journal) \in Nat /\ Len(journal)' = n
             /\ journal'[n].state = StageState /\ \A i \in 1..Len(journal) : journal'[i] = journal[i]
             /\ \A s \in Stage, b \in 1..Len(journal) : EvidenceLines(s, b)' = EvidenceLines(s, b)
             /\ \A s \in Stage : s # at => Evidence(s)' = Evidence(s)
             /\ \A s \in Stage : s = at => Evidence(s)' = Evidence(s) \cup {n} /\ Latest(Evidence(s)') = n
             /\ \A s \in Stage : Lines(s, "completed")' =
                  IF StageState = "completed" /\ s = at THEN Lines(s, "completed") \cup {n}
                  ELSE Lines(s, "completed")
  <1> DEFINE n == Len(journal) + 1
             e == Entry(mem.cursors[at], StageState)
  <1>1. /\ at \in 1..13 /\ at \in Stage /\ step = "record" /\ step' = "act"
        /\ UNCHANGED <<at, passes, finding, result>> /\ journal' = Append(journal, e) /\ RunInv
    BY StageNumbers DEF EvidenceInv, RunInv, RunTypeOK, RecordStageEvidence, loop, Append1
  <1>2. e \in RecordType /\ e.state = StageState /\ StageState \in {"completed", "failed"}
    BY <1>1, DriverLines, StageStateType DEF Entry, StageState
  <1>3. e.cursor.stage = at
    <2>1. Live(mem.cursors[at]) /\ Chained(mem)
      BY <1>1 DEF RunInv, OpeningSettled, Inv
    <2> QED BY <1>1, <2>1 DEF Chained, Entry
  <1> HIDE DEF e
  <1>4. /\ Len(journal) \in Nat /\ Len(journal)' = n
        /\ journal'[n] = e /\ \A i \in 1..Len(journal) : journal'[i] = journal[i]
        /\ \A s \in Stage, b \in 1..Len(journal) : EvidenceLines(s, b)' = EvidenceLines(s, b)
        /\ \A s \in Stage : Evidence(s)' = IF s = at THEN Evidence(s) \cup {n} ELSE Evidence(s)
        /\ \A s \in Stage : Lines(s, "completed")' =
             IF StageState = "completed" /\ s = at THEN Lines(s, "completed") \cup {n}
             ELSE Lines(s, "completed")
    BY <1>1, <1>2, <1>3, LinesAfter, EvidenceFacts
  <1>5. ASSUME NEW s \in Stage, s = at
        PROVE  Evidence(s)' = Evidence(s) \cup {n} /\ Latest(Evidence(s)') = n
    <2> DEFINE S == Evidence(s) \cup {n}
    <2>1. Evidence(s)' = S
      BY <1>4, <1>5
    <2>2. Evidence(s) \in SUBSET (1..Len(journal))
      BY <1>1, EvidenceFacts
    <2>3. S \in SUBSET (1..n) /\ n \in S /\ n \in Nat
      BY <1>4, <2>2
    <2> HIDE DEF S
    <2>4. Latest(S) \in S /\ n <= Latest(S)
      BY <2>3, LatestOf
    <2>5. Latest(S) = n
      <3>1. Latest(S) \in 1..n
        BY <2>3, <2>4
      <3> QED BY <1>4, <2>4, <3>1
    <2> QED BY <2>1, <2>5 DEF S
  <1> QED BY <1>1, <1>2, <1>4, <1>5

(* The line of a stage comes behind all that its pass recorded.            *)
LEMMA RecordOrdered ==
  ASSUME EvidenceInv, RecordStageEvidence
  PROVE  PassOrdered' /\ ResultEarned' /\ HandoffsEarned'
  <1> DEFINE n == Len(journal) + 1
  <1>1. /\ at \in 1..13 /\ step = "record" /\ step' = "act" /\ UNCHANGED <<at, passes, finding, result>>
        /\ Len(journal) \in Nat /\ Len(journal)' = n
        /\ journal'[n].state = StageState /\ \A i \in 1..Len(journal) : journal'[i] = journal[i]
        /\ \A s \in Stage, b \in 1..Len(journal) : EvidenceLines(s, b)' = EvidenceLines(s, b)
        /\ \A s \in Stage : s # at => Evidence(s)' = Evidence(s)
        /\ \A s \in Stage : s = at => Evidence(s)' = Evidence(s) \cup {n} /\ Latest(Evidence(s)') = n
        /\ \A s \in Stage : Lines(s, "completed")' =
             IF StageState = "completed" /\ s = at THEN Lines(s, "completed") \cup {n}
             ELSE Lines(s, "completed")
    BY RecordLines
  <1>2. /\ PassStages = (1..13) \ {11} /\ Stage = 1..13
        /\ Done = {s \in PassStages : s < at} /\ Done' = {s \in PassStages : s <= at}
        /\ \A s \in Stage : Evidence(s) \in SUBSET (1..Len(journal))
        /\ \A s \in Stage : Evidence(s) # {} =>
             Latest(Evidence(s)) \in Evidence(s) /\ Latest(Evidence(s)) \in 1..Len(journal)
    <2>1. PassStages = (1..13) \ {11} /\ Stage = 1..13
      BY StageNumbers DEF PassStages
    <2>2. \A s \in PassStages : s \in Int /\ s \in Stage
      BY <2>1
    <2>3. Done = {s \in PassStages : s < at}
      BY <1>1, <2>2 DEF Done
    <2>4. Done' = {s \in PassStages : s <= at}
      <3>1. Done' = {s \in PassStages : s < at \/ s = at}
        BY <1>1 DEF Done, PassStages
      <3> QED BY <1>1, <2>2, <3>1
    <2>5. RunInv
      BY DEF EvidenceInv
    <2> QED BY <2>1, <2>3, <2>4, <2>5, EvidenceFacts
  <1>3. /\ \A s \in Done : Evidence(s) # {} /\ s # at /\ s \in Stage
        /\ \A s, t \in Done : s < t => Latest(Evidence(s)) < Latest(Evidence(t))
        /\ 5 \in Done => \A f \in Evidence(11) : f < Latest(Evidence(5))
        /\ 12 \in Done /\ finding # "failed" => journal[Latest(Evidence(12))].state = "completed"
    <2>1. /\ \A s \in Done : Evidence(s) # {}
          /\ \A s, t \in Done : s < t => Latest(Evidence(s)) < Latest(Evidence(t))
          /\ Dev \in Done => \A f \in Evidence(Fixer) : f < Latest(Evidence(Dev))
          /\ CanonicalGates \in Done /\ finding # "failed" =>
               journal[Latest(Evidence(CanonicalGates))].state = "completed"
      BY <1>1 DEF EvidenceInv, PassOrdered, InPass
    <2>2. Dev = 5 /\ Fixer = 11 /\ CanonicalGates = 12
      BY StageNumbers
    <2>3. \A s \in Done : s # at /\ s \in Stage
      BY <1>1, <1>2
    <2> QED BY <2>1, <2>2, <2>3
  <1>4. /\ \A s \in Done' : s = at \/ s \in Done
        /\ \A s \in Done' : Evidence(s)' # {}
    <2>1. \A s \in Done' : s \in Stage /\ (s = at \/ s \in Done)
      BY <1>1, <1>2
    <2> QED BY <1>1, <1>3, <2>1
  <1>5. ASSUME NEW s \in Done', NEW t \in Done', s < t
        PROVE  Latest(Evidence(s)') < Latest(Evidence(t)')
    <2>1. s \in Done /\ Evidence(s)' = Evidence(s) /\ Latest(Evidence(s)) \in 1..Len(journal)
      <3>1. s \in Done /\ s \in Stage
        BY <1>1, <1>2, <1>3, <1>5
      <3> QED BY <1>1, <1>2, <1>3, <3>1
    <2>2. CASE t = at
      <3>1. t \in Stage /\ Latest(Evidence(t)') = n
        BY <1>1, <1>2, <2>2
      <3> QED BY <1>1, <2>1, <3>1
    <2>3. CASE t # at
      <3>1. t \in Done /\ Evidence(t)' = Evidence(t)
        BY <1>1, <1>3, <1>4, <2>3
      <3> QED BY <1>3, <1>5, <2>1, <3>1
    <2> QED BY <2>2, <2>3
  <1>6. ASSUME 5 \in Done', at # 11, NEW f \in Evidence(11)'
        PROVE  f < Latest(Evidence(5)')
    <2>1. f \in Evidence(11) /\ f \in 1..Len(journal)
      BY <1>1, <1>2, <1>6
    <2>2. CASE at = 5
      <3>1. Latest(Evidence(5)') = n
        BY <1>1, <1>2, <2>2
      <3> QED BY <1>1, <2>1, <3>1
    <2>3. CASE at # 5
      <3>1. 5 \in Done /\ Evidence(5)' = Evidence(5)
        BY <1>1, <1>2, <1>4, <1>6, <2>3
      <3> QED BY <1>3, <2>1, <3>1
    <2> QED BY <2>2, <2>3
  <1>7. ASSUME 12 \in Done', finding # "failed"
        PROVE  journal'[Latest(Evidence(12)')].state = "completed"
    <2>1. CASE at = 12
      <3>1. Latest(Evidence(12)') = n /\ StageState = "completed"
        BY <1>1, <1>2, <1>7, <2>1, StageNumbers DEF StageState
      <3> QED BY <1>1, <3>1
    <2>2. CASE at # 12
      <3>1. 12 \in Done /\ Evidence(12)' = Evidence(12) /\ Latest(Evidence(12)) \in 1..Len(journal)
        BY <1>1, <1>2, <1>3, <1>4, <1>7, <2>2
      <3> QED BY <1>1, <1>3, <1>7, <3>1
    <2> QED BY <2>1, <2>2
  <1>8. PassOrdered'
    BY <1>1, <1>4, <1>5, <1>6, <1>7, StageNumbers DEF PassOrdered
  <1>9. ResultEarned'
    <2>1. result # "completed"
      BY <1>1 DEF EvidenceInv, PassLocals
    <2>2. at = 13 => n \in Lines(13, "completed")'
      BY <1>1, <1>2, StageNumbers DEF StageState
    <2>3. \A i \in (n + 1)..Len(journal') : journal'[i].state = "reported"
      BY <1>1
    <2> QED BY <1>1, <2>1, <2>2, <2>3, StageNumbers DEF ResultEarned
  <1>10. HandoffsEarned'
    <2>1. SUFFICES ASSUME NEW h \in Lines(13, "completed")'
                   PROVE  /\ \A s \in PassStages : EvidenceLines(s, h)' # {}
                          /\ \A s, t \in PassStages :
                               s < t => Latest(EvidenceLines(s, h)') < Latest(EvidenceLines(t, h)')
                          /\ Latest(EvidenceLines(12, h)') \in Lines(12, "completed")'
                          /\ \A f \in EvidenceLines(11, h)' : f < Latest(EvidenceLines(5, h)')
      BY StageNumbers DEF HandoffsEarned, PassStages
    <2>2. Lines(12, "completed") \subseteq Lines(12, "completed")'
      BY <1>1, <1>2
    <2>3. CASE h \in Lines(13, "completed")
      <3>1. h \in 1..Len(journal)
        BY <2>3, EvidenceFacts DEF Lines, EvidenceInv
      <3>2. \A s \in Stage : EvidenceLines(s, h)' = EvidenceLines(s, h)
        BY <1>1, <3>1
      <3> QED BY <1>2, <2>2, <2>3, <3>2, StageNumbers DEF EvidenceInv, HandoffsEarned
    <2>4. CASE h \notin Lines(13, "completed")
      <3>1. at = 13 /\ h = n
        BY <1>1, <1>2, <2>1, <2>4
      <3>2. \A s \in Stage : EvidenceLines(s, h)' = Evidence(s)'
        BY <1>1, <3>1 DEF Evidence, EvidenceLines
      <3>3. Done' = PassStages
        BY <1>2, <3>1
      <3>4. /\ \A s \in PassStages : Evidence(s)' # {}
            /\ \A s, t \in PassStages : s < t => Latest(Evidence(s)') < Latest(Evidence(t)')
        BY <1>4, <1>5, <3>3
      <3>5. \A f \in Evidence(11)' : f < Latest(Evidence(5)')
        BY <1>2, <1>6, <3>1, <3>3
      <3>6. Latest(Evidence(12)') \in Lines(12, "completed")'
        <4>1. finding # "failed" /\ 12 \in Done' /\ 12 \in Done
          BY <1>1, <1>2, <3>1, StageNumbers DEF EvidenceInv, PassLocals
        <4>2. journal[Latest(Evidence(12))].state = "completed" /\ Latest(Evidence(12)) \in Evidence(12)
          BY <1>2, <1>3, <4>1
        <4>3. Latest(Evidence(12)) \in Lines(12, "completed")
          BY <4>2, EvidenceFacts DEF Lines, Evidence, EvidenceLines, EvidenceInv
        <4> QED BY <1>1, <1>2, <2>2, <3>1, <4>3
      <3>7. PassStages \subseteq Stage /\ {5, 11, 12} \subseteq Stage
        BY <1>2
      <3> QED BY <3>2, <3>4, <3>5, <3>6, <3>7
    <2> QED BY <2>3, <2>4
  <1> QED BY <1>8, <1>9, <1>10

(* A fixer's line is one of those its pass pays for; a root's line starts  *)
(* the count anew.                                                         *)
LEMMA RecordCounted ==
  ASSUME EvidenceInv, RecordStageEvidence
  PROVE  FixersCounted'
  <1> DEFINE n == Len(journal) + 1
  <1>1. /\ at \in 1..13 /\ step = "record" /\ step' = "act" /\ UNCHANGED <<at, passes>>
        /\ Len(journal) \in Nat
        /\ \A s \in Stage : Lines(s, "completed")' =
             IF StageState = "completed" /\ s = at THEN Lines(s, "completed") \cup {n}
             ELSE Lines(s, "completed")
    BY RecordLines
  <1>2. /\ Lines(Root, "completed") \in SUBSET (1..Len(journal))
        /\ Lines(Fixer, "completed") \in SUBSET (1..Len(journal))
        /\ LastLine(Lines(Root, "completed")) \in 0..Len(journal) /\ IsFiniteSet(FixersSinceRoot)
        /\ passes \in 0..MaxFixerIterations /\ MaxFixerIterations \in Nat
        /\ Stage = 1..13 /\ Root = 1 /\ Fixer = 11
        /\ Cardinality(FixersSinceRoot) \in Nat
    BY EvidenceFacts, BudgetAssumption, StageNumbers, FS_CardinalityType
       DEF EvidenceInv, RunInv, RunTypeOK, Lines
  <1>3. CASE at = Root
    <2>1. Lines(Root, "completed")' = Lines(Root, "completed") \cup {n}
          /\ Lines(Fixer, "completed")' = Lines(Fixer, "completed")
      BY <1>1, <1>2, <1>3, StageNumbers DEF StageState
    <2> DEFINE S == Lines(Root, "completed") \cup {n}
    <2>2. LastLine(S) = n
      <3>1. S \in SUBSET (1..n) /\ n \in S /\ n \in Nat /\ S # {}
        BY <1>1, <1>2
      <3> HIDE DEF S
      <3>2. Latest(S) \in S /\ n <= Latest(S)
        BY <3>1, LatestOf
      <3>3. Latest(S) = n
        <4>1. Latest(S) \in 1..n
          BY <3>1, <3>2
        <4> QED BY <1>1, <3>2, <4>1
      <3> QED BY <3>1, <3>3 DEF LastLine
    <2>3. FixersSinceRoot' = {}
      <3>1. FixersSinceRoot' = {i \in Lines(Fixer, "completed") : i > LastLine(S)}
        BY <2>1 DEF FixersSinceRoot, FixerLinesSince
      <3>2. \A i \in Lines(Fixer, "completed") : ~(i > n)
        BY <1>1, <1>2
      <3> HIDE DEF S
      <3> QED BY <2>2, <3>1, <3>2
    <2>4. Cardinality(FixersSinceRoot') = 0
      BY <2>3, FS_EmptySet
    <2> QED BY <1>1, <1>2, <1>3, <2>4 DEF FixersCounted
  <1>4. CASE at = Fixer
    <2>1. Lines(Root, "completed")' = Lines(Root, "completed")
          /\ Lines(Fixer, "completed")' = Lines(Fixer, "completed") \cup {n}
      BY <1>1, <1>2, <1>4, StageNumbers DEF StageState
    <2>2. FixersSinceRoot' = FixersSinceRoot \cup {n}
      BY <1>1, <1>2, <2>1 DEF FixersSinceRoot, FixerLinesSince
    <2>3. Cardinality(FixersSinceRoot') <= Cardinality(FixersSinceRoot) + 1
          /\ Cardinality(FixersSinceRoot') \in Nat
      <3> DEFINE F == FixersSinceRoot
      <3>1. /\ IsFiniteSet(F \cup {n})
            /\ Cardinality(F \cup {n}) = IF n \in F THEN Cardinality(F) ELSE Cardinality(F) + 1
        BY <1>2, FS_AddElement
      <3>2. Cardinality(F \cup {n}) \in Nat
        BY <3>1, FS_CardinalityType
      <3>3. Cardinality(F \cup {n}) <= Cardinality(F) + 1
        BY <1>2, <3>1
      <3> QED BY <2>2, <3>2, <3>3
    <2>4. Cardinality(FixersSinceRoot) <= passes /\ passes < MaxFixerIterations
      BY <1>1, <1>2, <1>4 DEF EvidenceInv, FixersCounted, InPass, RunInv, FixerFunded
    <2> QED BY <1>1, <1>2, <1>4, <2>3, <2>4 DEF FixersCounted
  <1>5. CASE at # Root /\ at # Fixer
    <2>1. FixersSinceRoot' = FixersSinceRoot
      BY <1>1, <1>2, <1>5 DEF FixersSinceRoot, FixerLinesSince
    <2> QED BY <1>1, <1>2, <1>5, <2>1 DEF EvidenceInv, FixersCounted, InPass
  <1> QED BY <1>3, <1>4, <1>5

-----------------------------------------------------------------------------
(* The invariant, and what follows from it.                                *)

(* A run starts without evidence.                                          *)
LEMMA EvidenceInit == RunInit => EvidenceInv
  <1> SUFFICES ASSUME RunInit PROVE EvidenceInv
    OBVIOUS
  <1>1. /\ RunInv /\ journal = << >> /\ step = "idle" /\ at = Root /\ passes = 0 /\ finding = "clean"
        /\ result = "none"
    BY RunInitInv DEF RunInit, Init
  <1>2. PassLocals /\ PassOrdered /\ ResultEarned
    BY <1>1, StageNumbers DEF PassLocals, PassOrdered, ResultEarned, InPass
  <1>3. \A s \in Stage : Lines(s, "completed") = {}
    BY <1>1 DEF Lines
  <1>4. HandoffsEarned
    BY <1>3, StageNumbers DEF HandoffsEarned
  <1>5. FixersCounted
    <2>1. FixersSinceRoot = {}
      BY <1>3, StageNumbers DEF FixersSinceRoot, FixerLinesSince
    <2> QED BY <1>1, <2>1, FS_EmptySet, BudgetAssumption DEF FixersCounted, InPass
  <1> QED BY <1>1, <1>2, <1>4, <1>5 DEF EvidenceInv

(* EvidenceInv holds in every reachable state.                             *)
THEOREM EvidenceInvariance == RunSpec => []EvidenceInv
  <1>1. EvidenceInv /\ [RunNext]_runVars => EvidenceInv'
    <2> SUFFICES ASSUME EvidenceInv, [RunNext]_runVars PROVE EvidenceInv'
      OBVIOUS
    <2>1. RunInv' /\ PassLocals'
      BY RunNextInv, LocalsKept DEF EvidenceInv
    <2>2. PassOrdered' /\ ResultEarned' /\ FixersCounted' /\ HandoffsEarned'
      BY QuietKept, RecordOrdered, RecordCounted
    <2> QED BY <2>1, <2>2 DEF EvidenceInv
  <1> QED BY <1>1, EvidenceInit, PTL DEF RunSpec

(* RunTypeOK of the runs: the driver's locals and counters keep their      *)
(* types, its fixer passes their budget.                                   *)
THEOREM RunTypeCorrect == RunSpec => []RunTypeOK
  <1>1. RunInv => RunTypeOK
    BY DEF RunInv
  <1> QED BY <1>1, RunInvariance, PTL

(* HandoffEarned: a handoff on disk rests on one uninterrupted pass of the *)
(* stages with green canonical gates last, and a completed result on the   *)
(* last handoff.                                                           *)
THEOREM HandoffsAreEarned == RunSpec => []HandoffEarned
  <1>1. EvidenceInv => HandoffEarned
    BY DEF EvidenceInv, HandoffsEarned, ResultEarned, HandoffEarned
  <1> QED BY <1>1, EvidenceInvariance, PTL

(* FixerBudget: no run() records more fixer passes than the project's      *)
(* max_fixer_iterations.                                                   *)
THEOREM FixersWithinBudget == RunSpec => []FixerBudget
  <1>1. EvidenceInv => FixerBudget
    BY DEF EvidenceInv, FixersCounted, FixersSinceRoot, FixerBudget
  <1> QED BY <1>1, EvidenceInvariance, PTL
=============================================================================
