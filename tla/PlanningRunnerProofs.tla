------------------------ MODULE PlanningRunnerProofs ------------------------
(***************************************************************************)
(* Proofs about the planning runner, for any number of processes, stages   *)
(* and attempts, and any contents.                                         *)
(*                                                                         *)
(* What makes the replay accept every transaction is spread over the whole *)
(* history: the inductive invariant StoreInv says of it which attempts are *)
(* settled, how they are numbered and which stages they passed.            *)
(***************************************************************************)
EXTENDS MCPlanningRunner, FiniteSetTheorems, SequenceTheorems, WellFoundedInduction, TLAPS

Contents == Inputs \cup Outputs \cup {"none"}
Attempts == Stages \X Nat \X Nat
EventType == [action : Actions, stage : Stages, rev : Nat, att : Nat, ok : BOOLEAN, data : Contents]
StoreType == [events : Seq(EventType), accepted : BOOLEAN, blocked : {"none", "retry", "final"}]

\* Every event is of an attempt that has begun, which it does once.
OfAttempts(ev) ==
  /\ \A n \in DOMAIN ev : Id(ev[n]) \in Begun(ev)
  /\ \A m, n \in At(ev, "begin") : Id(ev[m]) = Id(ev[n]) => m = n

\* The attempts of a stage are numbered from <<1, 1>> up to its latest one,
\* and no further than the attempts there are.
Numbered(ev) ==
  \A id \in Begun(ev) :
    LET last == Latest(ev, id[1])
    IN /\ <<id[1], 1, 1>> \in Begun(ev)
       /\ \/ id[2] < last.rev
          \/ id[2] = last.rev /\ id[3] <= last.att
       /\ id[2] >= 1 /\ id[3] >= 1 /\ id[2] + id[3] <= Cardinality(At(ev, "begin")) + 1

\* An attempt that is no longer its stage's latest was blocked.
Superseded(ev) == \A id \in Begun(ev) : IsLatest(ev, id) \/ Has(ev, id, "block")

\* The stages passed in order, and none after the current one has begun.
InOrder(ev) ==
  /\ PassedIn(ev) = 1..(CurrentStage(ev) - 1)
  /\ \A id \in Begun(ev) : id[1] <= CurrentStage(ev)

\* A stage passed by the attempt that is still its latest, and a block of an
\* attempt that advanced came after the advance.
PassedByLatest(ev) ==
  /\ \A s \in PassedIn(ev) : Begins(ev, s) # {} /\ Has(ev, Id(Latest(ev, s)), "advance")
  /\ \A id \in Begun(ev) : Has(ev, id, "advance") /\ Has(ev, id, "block") => Terminal(ev)

HistoryInv(ev) ==
  OfAttempts(ev) /\ Numbered(ev) /\ Superseded(ev) /\ InOrder(ev) /\ PassedByLatest(ev)

\* What the metadata and the verdict of the replay say of the history.
MetadataInv(st) ==
  /\ st.accepted \/ Terminal(st.events)
  /\ Terminal(st.events) => st.blocked # "none"
  /\ st.blocked = "none" =>
       \A s \in Stages : Begins(st.events, s) # {} =>
         ~Has(st.events, Id(Latest(st.events, s)), "block")

StoreInv(st) ==
  /\ st \in StoreType /\ (st.accepted <=> HistoryOk(st.events))
  /\ HistoryInv(st.events) /\ MetadataInv(st)

-----------------------------------------------------------------------------
(* Extremes of sets of numbers.                                            *)

(* A nonempty set of natural numbers has a least element: the oldest       *)
(* unprojected event, the first name the recovery anchor finds.            *)
LEMMA Least ==
  ASSUME NEW S \in SUBSET Nat, S # {}
  PROVE  \E n \in S : \A m \in S : n <= m
  <1> DEFINE R == OpToRel(<, Nat)
  <1>1. \E x \in S : \A y \in S : ~(<<y, x>> \in R)
    BY NatLessThanWellFounded, WFMin, Zenon
  <1>2. \A x, y \in Nat : y < x => <<y, x>> \in R
    BY DEF OpToRel
  <1> HIDE DEF R
  <1>3. PICK x \in S : \A y \in S : ~(<<y, x>> \in R)
    BY <1>1
  <1>4. \A y \in S : ~(y < x)
    BY <1>2, <1>3
  <1> QED BY <1>4

(* A nonempty set of positions has a greatest: the last begin of a stage.  *)
LEMMA Greatest ==
  ASSUME NEW k \in Nat, NEW S \in SUBSET (1..k), S # {}
  PROVE  \E n \in S : \A m \in S : m <= n
  <1> DEFINE T == {k - n : n \in S}
  <1>1. T \in SUBSET Nat /\ T # {}
    <2>1. \A n \in S : n \in Int /\ n <= k
      OBVIOUS
    <2>2. \A n \in S : k - n \in Nat
      BY <2>1
    <2> QED BY <2>2
  <1>2. PICK t \in T : \A u \in T : t <= u
    BY <1>1, Least
  <1>3. PICK n \in S : t = k - n
    BY <1>2
  <1>4. ASSUME NEW m \in S PROVE m <= n
    <2>1. k - m \in T
      OBVIOUS
    <2>2. t <= k - m /\ m \in Int /\ n \in Int
      BY <1>2, <2>1
    <2> QED BY <1>3, <2>2
  <1> QED BY <1>4

-----------------------------------------------------------------------------
(* The operators that read a history.                                      *)

(* The positions and the attempts of a history.                            *)
LEMMA HistoryFacts ==
  ASSUME NEW ev \in Seq(EventType)
  PROVE  /\ Len(ev) \in Nat /\ DOMAIN ev = 1..Len(ev)
         /\ \A n \in DOMAIN ev : ev[n] \in EventType /\ Id(ev[n]) \in Attempts
         /\ \A a : At(ev, a) \subseteq 1..Len(ev) /\ IsFiniteSet(At(ev, a))
                  /\ Cardinality(At(ev, a)) \in Nat
         /\ Begun(ev) \subseteq Attempts
         /\ \A s : Begins(ev, s) \subseteq At(ev, "begin")
         /\ PassedIn(ev) \subseteq Stages /\ IsFiniteSet(PassedIn(ev)) /\ CurrentStage(ev) \in Nat \ {0}
  <1>1. Len(ev) \in Nat /\ DOMAIN ev = 1..Len(ev) /\ \A n \in DOMAIN ev : ev[n] \in EventType
    OBVIOUS
  <1>2. \A n \in DOMAIN ev : Id(ev[n]) \in Attempts
    BY <1>1 DEF Id, EventType, Attempts
  <1>3. \A a : At(ev, a) \subseteq 1..Len(ev)
    BY <1>1 DEF At
  <1>4. ASSUME NEW a PROVE IsFiniteSet(At(ev, a)) /\ Cardinality(At(ev, a)) \in Nat
    <2>1. IsFiniteSet(1..Len(ev))
      BY <1>1, FS_Interval
    <2>2. IsFiniteSet(At(ev, a))
      BY <1>3, <2>1, FS_Subset
    <2> QED BY <2>2, FS_CardinalityType
  <1>5. Begun(ev) \subseteq Attempts
    BY <1>1, <1>2, <1>3 DEF Begun
  <1>6. PassedIn(ev) \subseteq Stages
    BY <1>1, <1>3 DEF PassedIn, EventType
  <1>7. IsFiniteSet(Stages) /\ Stages = 1..NStages
    BY RunnerAssumption, FS_Interval DEF Stages
  <1>8. IsFiniteSet(PassedIn(ev)) /\ Cardinality(PassedIn(ev)) \in Nat
    BY <1>6, <1>7, FS_Subset, FS_CardinalityType
  <1> QED BY <1>1, <1>2, <1>3, <1>4, <1>5, <1>6, <1>8 DEF Begins, CurrentStage

(* The latest attempt of a stage is its last begin.                        *)
LEMMA LatestFacts ==
  ASSUME NEW ev \in Seq(EventType), NEW s, Begins(ev, s) # {}
  PROVE  \E n \in Begins(ev, s) : Latest(ev, s) = ev[n] /\ \A m \in Begins(ev, s) : m <= n
  <1>1. Begins(ev, s) \in SUBSET (1..Len(ev)) /\ Len(ev) \in Nat
    BY HistoryFacts
  <1>2. \E n \in Begins(ev, s) : \A m \in Begins(ev, s) : m <= n
    BY <1>1, Greatest
  <1> QED BY <1>2 DEF Latest

(* The last begin of a stage is its latest attempt.                        *)
LEMMA LatestIs ==
  ASSUME NEW ev \in Seq(EventType), NEW s, NEW n \in Begins(ev, s), \A m \in Begins(ev, s) : m <= n
  PROVE  Latest(ev, s) = ev[n]
  <1>1. PICK l \in Begins(ev, s) : Latest(ev, s) = ev[l] /\ \A m \in Begins(ev, s) : m <= l
    BY LatestFacts
  <1>2. l <= n /\ n <= l /\ l \in Int /\ n \in Int
    BY <1>1, HistoryFacts
  <1> QED BY <1>1, <1>2

(* The latest attempt of a stage has begun, and is of that stage.          *)
LEMMA LatestBegun ==
  ASSUME NEW ev \in Seq(EventType), NEW s, Begins(ev, s) # {}
  PROVE  /\ Latest(ev, s) \in EventType /\ Latest(ev, s).stage = s
         /\ Id(Latest(ev, s)) \in Begun(ev) /\ Id(Latest(ev, s))[1] = s
         /\ IsLatest(ev, Id(Latest(ev, s)))
  <1>1. PICK n \in Begins(ev, s) : Latest(ev, s) = ev[n]
    BY LatestFacts
  <1>2. n \in DOMAIN ev /\ ev[n] \in EventType /\ ev[n].stage = s /\ n \in At(ev, "begin")
    BY <1>1, HistoryFacts DEF Begins
  <1> QED BY <1>1, <1>2 DEF Begun, Id, IsLatest

(* A stage has a latest attempt exactly if some attempt of it has begun.   *)
LEMMA BegunStage ==
  ASSUME NEW ev \in Seq(EventType), NEW id \in Begun(ev)
  PROVE  Begins(ev, id[1]) # {}
  BY DEF Begun, Begins, Id

(* A history with one event more, position by position.                    *)
LEMMA AppendFacts ==
  ASSUME NEW ev \in Seq(EventType), NEW e \in EventType
  PROVE  LET new == Append(ev, e)
             last == Len(ev) + 1
         IN /\ new \in Seq(EventType) /\ Len(new) = last /\ DOMAIN new = DOMAIN ev \cup {last}
            /\ last \in Nat /\ \A n \in DOMAIN ev : n \in Nat /\ n < last
            /\ new[last] = e /\ \A n \in DOMAIN ev : new[n] = ev[n]
            /\ \A a : At(new, a) = IF e.action = a THEN At(ev, a) \cup {last} ELSE At(ev, a)
            /\ \A id, a : Has(new, id, a) <=> Has(ev, id, a) \/ (e.action = a /\ Id(e) = id)
            /\ Begun(new) = IF e.action = "begin" THEN Begun(ev) \cup {Id(e)} ELSE Begun(ev)
            /\ PassedIn(new) = IF e.action = "advance" THEN PassedIn(ev) \cup {e.stage} ELSE PassedIn(ev)
            /\ \A s : Begins(new, s) = IF e.action = "begin" /\ e.stage = s
                                       THEN Begins(ev, s) \cup {last} ELSE Begins(ev, s)
            /\ Terminal(new) <=> Terminal(ev) \/ (e.action = "block" /\ Has(ev, Id(e), "advance"))
  <1> DEFINE new == Append(ev, e)
             last == Len(ev) + 1
  <1>1. /\ new \in Seq(EventType) /\ Len(new) = last /\ last \in Nat
        /\ DOMAIN new = 1..last /\ DOMAIN ev = 1..Len(ev) /\ Len(ev) \in Nat
        /\ new[last] = e /\ \A n \in DOMAIN ev : new[n] = ev[n]
    BY AppendProperties, LenProperties
  <1>2. DOMAIN new = DOMAIN ev \cup {last} /\ \A n \in DOMAIN ev : n \in Nat /\ n < last
    BY <1>1
  <1> HIDE DEF new, last
  <1>3. \A a : At(new, a) = IF e.action = a THEN At(ev, a) \cup {last} ELSE At(ev, a)
    BY <1>1, <1>2 DEF At
  <1>4. \A a : At(ev, a) \subseteq DOMAIN ev
    BY DEF At
  <1>5. ASSUME NEW id, NEW a
        PROVE  Has(new, id, a) <=> Has(ev, id, a) \/ (e.action = a /\ Id(e) = id)
    BY <1>1, <1>3, <1>4 DEF Has
  <1>6. Begun(new) = IF e.action = "begin" THEN Begun(ev) \cup {Id(e)} ELSE Begun(ev)
    BY <1>1, <1>3, <1>4 DEF Begun
  <1>7. PassedIn(new) = IF e.action = "advance" THEN PassedIn(ev) \cup {e.stage} ELSE PassedIn(ev)
    BY <1>1, <1>3, <1>4 DEF PassedIn
  <1>8. ASSUME NEW s
        PROVE  Begins(new, s) = IF e.action = "begin" /\ e.stage = s
                                THEN Begins(ev, s) \cup {last} ELSE Begins(ev, s)
    BY <1>1, <1>3, <1>4 DEF Begins
  <1>9. Terminal(new) <=> Terminal(ev) \/ (e.action = "block" /\ Has(ev, Id(e), "advance"))
    <2>1. ASSUME Terminal(ev) PROVE Terminal(new)
      BY <1>1, <1>3, <1>4, <2>1 DEF Terminal
    <2>2. ASSUME e.action = "block", Has(ev, Id(e), "advance") PROVE Terminal(new)
      <3>1. PICK m \in At(ev, "advance") : Id(ev[m]) = Id(e)
        BY <2>2 DEF Has
      <3>2. last \in At(new, "block") /\ m \in At(new, "advance") /\ m < last /\ Id(new[m]) = Id(new[last])
        BY <1>1, <1>2, <1>3, <1>4, <2>2, <3>1
      <3> QED BY <3>2 DEF Terminal
    <2>3. ASSUME Terminal(new), ~Terminal(ev)
          PROVE  e.action = "block" /\ Has(ev, Id(e), "advance")
      <3>1. PICK n \in At(new, "block"), m \in At(new, "advance") : m < n /\ Id(new[m]) = Id(new[n])
        BY <2>3 DEF Terminal
      <3>2. m \in At(ev, "advance")
        BY <1>1, <1>2, <1>3, <1>4, <3>1
      <3>3. n \notin At(ev, "block")
        BY <1>1, <1>4, <2>3, <3>1, <3>2 DEF Terminal
      <3> QED BY <1>1, <1>3, <1>4, <3>1, <3>2, <3>3 DEF Has
    <2> QED BY <2>1, <2>2, <2>3
  <1> QED BY <1>1, <1>2, <1>3, <1>5, <1>6, <1>7, <1>8, <1>9 DEF new, last

(* Only a begin changes the latest attempt, and only that of its stage.    *)
LEMMA AppendLatest ==
  ASSUME NEW ev \in Seq(EventType), NEW e \in EventType, NEW s
  PROVE  /\ e.action = "begin" /\ e.stage = s => Latest(Append(ev, e), s) = e
         /\ ~(e.action = "begin" /\ e.stage = s) /\ Begins(ev, s) # {}
              => Latest(Append(ev, e), s) = Latest(ev, s)
  <1> DEFINE new == Append(ev, e)
             last == Len(ev) + 1
  <1>0. /\ new \in Seq(EventType) /\ last \in Nat
        /\ new[last] = e /\ \A n \in DOMAIN ev : new[n] = ev[n] /\ n \in Nat /\ n < last
        /\ Begins(new, s) = IF e.action = "begin" /\ e.stage = s
                            THEN Begins(ev, s) \cup {last} ELSE Begins(ev, s)
        /\ Begins(ev, s) \subseteq DOMAIN ev
    BY AppendFacts, HistoryFacts
  <1> HIDE DEF new, last
  <1>1. CASE e.action = "begin" /\ e.stage = s
    <2>1. last \in Begins(new, s) /\ \A m \in Begins(new, s) : m <= last
      BY <1>0, <1>1
    <2> QED BY <1>0, <1>1, <2>1, LatestIs DEF new
  <1>2. CASE ~(e.action = "begin" /\ e.stage = s) /\ Begins(ev, s) # {}
    <2>1. PICK n \in Begins(ev, s) : Latest(ev, s) = ev[n] /\ \A m \in Begins(ev, s) : m <= n
      BY <1>2, LatestFacts
    <2>2. Latest(new, s) = new[n]
      BY <1>0, <1>2, <2>1, LatestIs
    <2> QED BY <1>0, <1>2, <2>1, <2>2 DEF new
  <1> QED BY <1>1, <1>2

(* The replay reads a history event by event.                              *)
LEMMA AppendRead ==
  ASSUME NEW ev \in Seq(EventType), NEW e \in EventType
  PROVE  HistoryOk(Append(ev, e)) <=> HistoryOk(ev) /\ Follows(ev, e)
  <1> DEFINE new == Append(ev, e)
             last == Len(ev) + 1
  <1>0. /\ new \in Seq(EventType) /\ last \in Nat /\ Len(ev) \in Nat /\ Len(new) = last
        /\ DOMAIN new = DOMAIN ev \cup {last} /\ DOMAIN ev = 1..Len(ev)
        /\ new[last] = e /\ \A n \in DOMAIN ev : new[n] = ev[n]
    BY AppendFacts, HistoryFacts
  <1> HIDE DEF new, last
  <1>1. ASSUME NEW n \in 1..last
        PROVE  SubSeq(new, 1, n - 1) = SubSeq(ev, 1, n - 1)
    <2>1. /\ n - 1 \in Int /\ 1 \in Int
          /\ \A i \in 1..(n - 1) : i \in DOMAIN ev
          /\ \A i \in 1..(n - 1) : new[i] = ev[i] /\ new[i] \in EventType /\ ev[i] \in EventType
      BY <1>0 DEF last
    <2> DEFINE a == SubSeq(new, 1, n - 1)
               b == SubSeq(ev, 1, n - 1)
    <2>2. /\ a \in Seq(EventType) /\ Len(a) = IF 1 <= n - 1 THEN n - 1 ELSE 0
          /\ \A i \in 1..(n - 1) : a[i] = new[i]
      <3>1. /\ a \in Seq(EventType) /\ Len(a) = IF 1 <= n - 1 THEN n - 1 - 1 + 1 ELSE 0
            /\ \A i \in 1..(n - 1 - 1 + 1) : a[i] = new[1 + i - 1]
        BY <2>1, SubSeqProperties
      <3> HIDE DEF a
      <3> QED BY <1>0, <3>1
    <2>3. /\ b \in Seq(EventType) /\ Len(b) = IF 1 <= n - 1 THEN n - 1 ELSE 0
          /\ \A i \in 1..(n - 1) : b[i] = ev[i]
      <3>1. /\ b \in Seq(EventType) /\ Len(b) = IF 1 <= n - 1 THEN n - 1 - 1 + 1 ELSE 0
            /\ \A i \in 1..(n - 1 - 1 + 1) : b[i] = ev[1 + i - 1]
        BY <2>1, SubSeqProperties
      <3> HIDE DEF b
      <3> QED BY <1>0, <3>1
    <2> HIDE DEF a, b
    <2>4. Len(a) = Len(b) /\ \A i \in 1..Len(a) : a[i] = b[i]
      BY <1>0, <2>1, <2>2, <2>3
    <2>5. a = b
      BY <2>2, <2>3, <2>4, SeqEqual
    <2> QED BY <2>5 DEF a, b
  <1>2. SubSeq(ev, 1, last - 1) = ev
    BY <1>0, SubSeqFull DEF last
  <1>3. \A n \in DOMAIN ev : n \in 1..last
    BY <1>0 DEF last
  <1>4. ASSUME NEW n \in DOMAIN ev
        PROVE  Follows(SubSeq(new, 1, n - 1), new[n]) <=> Follows(SubSeq(ev, 1, n - 1), ev[n])
    BY <1>0, <1>1, <1>3
  <1>5. SubSeq(new, 1, last - 1) = ev /\ last \in 1..last
    BY <1>0, <1>1, <1>2 DEF last
  <1>6. HistoryOk(new) <=> (\A n \in DOMAIN ev : Follows(SubSeq(new, 1, n - 1), new[n]))
                          /\ Follows(ev, e)
    BY <1>0, <1>5 DEF HistoryOk
  <1> QED BY <1>4, <1>6 DEF HistoryOk, new

-----------------------------------------------------------------------------
(* What each kind of event makes of the history.                           *)

(* A result, a gate or a block of an attempt leaves the attempts, their    *)
(* numbers and the passed stages as they were.                             *)
LEMMA AddOther ==
  ASSUME NEW ev \in Seq(EventType), HistoryInv(ev),
         NEW e \in EventType, e.action \in {"result", "gate", "block"}, Id(e) \in Begun(ev)
  PROVE  LET new == Append(ev, e)
         IN /\ HistoryInv(new)
            /\ Begun(new) = Begun(ev) /\ PassedIn(new) = PassedIn(ev)
            /\ CurrentStage(new) = CurrentStage(ev)
            /\ \A s : /\ Begins(new, s) = Begins(ev, s)
                      /\ Begins(ev, s) # {} => Latest(new, s) = Latest(ev, s)
            /\ \A id : IsLatest(new, id) <=> IsLatest(ev, id)
  <1> DEFINE new == Append(ev, e)
  <1>1. /\ new \in Seq(EventType) /\ DOMAIN new = DOMAIN ev \cup {Len(ev) + 1}
        /\ new[Len(ev) + 1] = e /\ \A n \in DOMAIN ev : new[n] = ev[n]
        /\ At(new, "begin") = At(ev, "begin") /\ At(ev, "begin") \subseteq DOMAIN ev
        /\ \A id, a : Has(new, id, a) <=> Has(ev, id, a) \/ (e.action = a /\ Id(e) = id)
        /\ Begun(new) = Begun(ev) /\ PassedIn(new) = PassedIn(ev)
        /\ \A s : Begins(new, s) = Begins(ev, s)
        /\ Terminal(new) <=> Terminal(ev) \/ (e.action = "block" /\ Has(ev, Id(e), "advance"))
    BY AppendFacts, HistoryFacts
  <1>2. \A s : Begins(ev, s) # {} => Latest(new, s) = Latest(ev, s)
    BY AppendLatest
  <1> HIDE DEF new
  <1>3. CurrentStage(new) = CurrentStage(ev)
    BY <1>1 DEF CurrentStage
  <1>4. \A id : IsLatest(new, id) <=> IsLatest(ev, id)
    BY <1>1, <1>2 DEF IsLatest
  <1>5. OfAttempts(new)
    BY <1>1 DEF HistoryInv, OfAttempts
  <1>6. Numbered(new)
    BY <1>1, <1>2, BegunStage DEF HistoryInv, Numbered
  <1>7. Superseded(new)
    BY <1>1, <1>4 DEF HistoryInv, Superseded
  <1>8. InOrder(new)
    BY <1>1, <1>3 DEF HistoryInv, InOrder
  <1>9. PassedByLatest(new)
    <2>1. \A s \in PassedIn(new) : Begins(new, s) # {} /\ Has(new, Id(Latest(new, s)), "advance")
      BY <1>1, <1>2 DEF HistoryInv, PassedByLatest
    <2>2. ASSUME NEW id \in Begun(new), Has(new, id, "advance"), Has(new, id, "block")
          PROVE  Terminal(new)
      BY <1>1, <2>2 DEF HistoryInv, PassedByLatest
    <2> QED BY <2>1, <2>2 DEF PassedByLatest
  <1> QED BY <1>1, <1>2, <1>3, <1>4, <1>5, <1>6, <1>7, <1>8, <1>9 DEF HistoryInv, new

(* An advance of the current stage's latest attempt, which is not blocked, *)
(* passes that stage.                                                      *)
LEMMA AddAdvance ==
  ASSUME NEW ev \in Seq(EventType), HistoryInv(ev),
         NEW e \in EventType, e.action = "advance", Id(e) \in Begun(ev),
         IsLatest(ev, Id(e)), e.stage = CurrentStage(ev), ~Has(ev, Id(e), "block")
  PROVE  LET new == Append(ev, e)
         IN /\ HistoryInv(new)
            /\ Begun(new) = Begun(ev) /\ PassedIn(new) = PassedIn(ev) \cup {e.stage}
            /\ CurrentStage(new) = CurrentStage(ev) + 1
            /\ \A s : /\ Begins(new, s) = Begins(ev, s)
                      /\ Begins(ev, s) # {} => Latest(new, s) = Latest(ev, s)
  <1> DEFINE new == Append(ev, e)
             k == CurrentStage(ev)
  <1>1. /\ new \in Seq(EventType) /\ DOMAIN new = DOMAIN ev \cup {Len(ev) + 1}
        /\ new[Len(ev) + 1] = e /\ \A n \in DOMAIN ev : new[n] = ev[n]
        /\ At(new, "begin") = At(ev, "begin") /\ At(ev, "begin") \subseteq DOMAIN ev
        /\ \A id, a : Has(new, id, a) <=> Has(ev, id, a) \/ (e.action = a /\ Id(e) = id)
        /\ Begun(new) = Begun(ev) /\ PassedIn(new) = PassedIn(ev) \cup {e.stage}
        /\ \A s : Begins(new, s) = Begins(ev, s)
        /\ Terminal(new) <=> Terminal(ev)
    BY AppendFacts, HistoryFacts
  <1>2. \A s : Begins(ev, s) # {} => Latest(new, s) = Latest(ev, s)
    BY AppendLatest
  <1>a. k \in Nat \ {0} /\ PassedIn(ev) = 1..(k - 1) /\ Begun(ev) \subseteq Attempts
    BY HistoryFacts DEF HistoryInv, InOrder
  <1> HIDE DEF new
  <1>3. CurrentStage(new) = k + 1 /\ PassedIn(new) = 1..k
    <2> HIDE DEF k
    <2>1. PassedIn(new) = 1..k
      BY <1>1, <1>a DEF k
    <2>2. Cardinality(1..k) = k
      BY <1>a, FS_Interval
    <2> QED BY <1>a, <2>1, <2>2 DEF CurrentStage
  <1>4. \A id : IsLatest(new, id) <=> IsLatest(ev, id)
    BY <1>1, <1>2 DEF IsLatest
  <1>5. OfAttempts(new)
    BY <1>1 DEF HistoryInv, OfAttempts
  <1>6. Numbered(new)
    BY <1>1, <1>2, BegunStage DEF HistoryInv, Numbered
  <1>7. Superseded(new)
    BY <1>1, <1>4 DEF HistoryInv, Superseded
  <1>8. InOrder(new)
    <2>1. \A id \in Begun(ev) : id[1] <= k /\ id[1] \in Nat
      BY <1>a DEF HistoryInv, InOrder, Attempts, Stages
    <2> HIDE DEF k
    <2>2. \A id \in Begun(new) : id[1] <= k + 1
      BY <1>1, <1>a, <2>1
    <2>3. PassedIn(new) = 1..((k + 1) - 1)
      BY <1>3, <1>a
    <2> QED BY <1>3, <2>2, <2>3 DEF InOrder
  <1>9. PassedByLatest(new)
    <2>0. Begins(ev, e.stage) # {} /\ Id(Latest(ev, e.stage)) = Id(e)
      BY DEF IsLatest, Id
    <2>1. \A s \in PassedIn(new) : Begins(new, s) # {} /\ Has(new, Id(Latest(new, s)), "advance")
      BY <1>1, <1>2, <2>0 DEF HistoryInv, PassedByLatest
    <2>2. ASSUME NEW id \in Begun(new), Has(new, id, "advance"), Has(new, id, "block")
          PROVE  Terminal(new)
      BY <1>1, <2>2 DEF HistoryInv, PassedByLatest
    <2> QED BY <2>1, <2>2 DEF PassedByLatest
  <1> QED BY <1>1, <1>2, <1>3, <1>5, <1>6, <1>7, <1>8, <1>9 DEF HistoryInv, new

(* The next attempt of a stage is new: it is numbered after all of them.   *)
LEMMA NextFacts ==
  ASSUME NEW ev \in Seq(EventType), HistoryInv(ev), NEW s \in Stages, NEW input
  PROVE  LET id == NextId(ev, s, input)
             count == Cardinality(At(ev, "begin"))
         IN /\ id \in Attempts /\ id[1] = s /\ id \notin Begun(ev)
            /\ id[2] >= 1 /\ id[3] >= 1 /\ id[2] + id[3] <= count + 2
            /\ \A old \in Begun(ev) : old[1] = s =>
                 old[2] < id[2] \/ (old[2] = id[2] /\ old[3] <= id[3])
            /\ Begins(ev, s) = {} => id = <<s, 1, 1>>
  <1> DEFINE id == NextId(ev, s, input)
             count == Cardinality(At(ev, "begin"))
             last == Latest(ev, s)
  <1>0. count \in Nat /\ Begun(ev) \subseteq Attempts
    BY HistoryFacts
  <1>1. CASE Begins(ev, s) = {}
    <2>1. id = <<s, 1, 1>> /\ \A old \in Begun(ev) : old[1] # s
      BY <1>1, BegunStage DEF NextId
    <2> HIDE DEF id
    <2> QED BY <1>0, <1>1, <2>1 DEF Attempts, id
  <1>2. CASE Begins(ev, s) # {}
    <2>1. last \in EventType /\ last.stage = s /\ Id(last) \in Begun(ev)
      BY <1>2, LatestBegun
    <2>2. /\ last.rev \in Nat /\ last.att \in Nat /\ last.rev >= 1 /\ last.att >= 1
          /\ last.rev + last.att <= count + 1
      BY <2>1 DEF HistoryInv, Numbered, Id, EventType
    <2>3. ASSUME NEW old \in Begun(ev), old[1] = s
          PROVE  /\ old[2] < last.rev \/ (old[2] = last.rev /\ old[3] <= last.att)
                 /\ old[2] \in Nat /\ old[3] \in Nat
      BY <1>0, <2>3 DEF HistoryInv, Numbered, Attempts
    <2>4. id = IF last.data = input THEN <<s, last.rev, last.att + 1>> ELSE <<s, last.rev + 1, 1>>
      BY <1>2 DEF NextId
    <2> HIDE DEF id, last, count
    <2>5. /\ id \in Attempts /\ id[1] = s
          /\ id[2] >= 1 /\ id[3] >= 1 /\ id[2] + id[3] <= count + 2
      <3>1. CASE last.data = input
        <4>1. id = <<s, last.rev, last.att + 1>>
          BY <2>4, <3>1
        <4>2. last.att + 1 \in Nat /\ last.att + 1 >= 1 /\ last.rev + (last.att + 1) <= count + 2
          BY <1>0, <2>2
        <4> QED BY <2>2, <4>1, <4>2 DEF Attempts
      <3>2. CASE last.data # input
        <4>1. id = <<s, last.rev + 1, 1>>
          BY <2>4, <3>2
        <4>2. last.rev + 1 \in Nat /\ last.rev + 1 >= 1 /\ (last.rev + 1) + 1 <= count + 2
          BY <1>0, <2>2
        <4> QED BY <4>1, <4>2 DEF Attempts
      <3> QED BY <3>1, <3>2
    <2>6. ASSUME NEW old \in Begun(ev), old[1] = s
          PROVE  (old[2] < id[2] \/ (old[2] = id[2] /\ old[3] <= id[3])) /\ old # id
      <3>1. CASE last.data = input
        <4>1. id[2] = last.rev /\ id[3] = last.att + 1
          BY <2>4, <3>1
        <4> QED BY <2>2, <2>3, <2>6, <4>1
      <3>2. CASE last.data # input
        <4>1. id[2] = last.rev + 1 /\ id[3] = 1
          BY <2>4, <3>2
        <4> QED BY <2>2, <2>3, <2>6, <4>1
      <3> QED BY <3>1, <3>2
    <2> QED BY <1>2, <2>5, <2>6 DEF id, count
  <1> QED BY <1>1, <1>2

(* A begin of the current stage over a blocked attempt is a new attempt    *)
(* with nothing recorded of it, and its stage's latest.                    *)
LEMMA AddBegin ==
  ASSUME NEW ev \in Seq(EventType), HistoryInv(ev),
         NEW e \in EventType, e.action = "begin", e.stage = CurrentStage(ev),
         Id(e) = NextId(ev, e.stage, e.data), Retryable(ev, e.stage)
  PROVE  LET new == Append(ev, e)
         IN /\ HistoryInv(new)
            /\ Begun(new) = Begun(ev) \cup {Id(e)} /\ PassedIn(new) = PassedIn(ev)
            /\ CurrentStage(new) = CurrentStage(ev)
            /\ Id(e) \notin Begun(ev) /\ \A a : ~Has(ev, Id(e), a)
            /\ \A s : IF s = e.stage THEN Latest(new, s) = e
                     ELSE /\ Begins(new, s) = Begins(ev, s)
                          /\ Begins(ev, s) # {} => Latest(new, s) = Latest(ev, s)
  <1> DEFINE new == Append(ev, e)
             k == CurrentStage(ev)
             last == Len(ev) + 1
             count == Cardinality(At(ev, "begin"))
  <1>1. /\ new \in Seq(EventType) /\ DOMAIN new = DOMAIN ev \cup {last}
        /\ last \notin DOMAIN ev
        /\ new[last] = e /\ \A n \in DOMAIN ev : new[n] = ev[n]
        /\ At(new, "begin") = At(ev, "begin") \cup {last} /\ At(ev, "begin") \subseteq DOMAIN ev
        /\ \A id, a : Has(new, id, a) <=> Has(ev, id, a) \/ (e.action = a /\ Id(e) = id)
        /\ Begun(new) = Begun(ev) \cup {Id(e)} /\ PassedIn(new) = PassedIn(ev)
        /\ \A s : Begins(new, s) = IF s = e.stage THEN Begins(ev, s) \cup {last} ELSE Begins(ev, s)
        /\ Terminal(new) <=> Terminal(ev)
    <2>1. \A n \in DOMAIN ev : n < last /\ n \in Nat /\ last \in Nat
      BY AppendFacts
    <2>2. last \notin DOMAIN ev
      BY <2>1
    <2> QED BY <2>2, AppendFacts, HistoryFacts
  <1>2. \A s : /\ s = e.stage => Latest(new, s) = e
               /\ s # e.stage /\ Begins(ev, s) # {} => Latest(new, s) = Latest(ev, s)
    BY AppendLatest
  <1>3. /\ k \in Nat \ {0} /\ PassedIn(ev) = 1..(k - 1) /\ Begun(ev) \subseteq Attempts
        /\ e.stage \in Stages /\ k \notin PassedIn(ev)
        /\ count \in Nat /\ IsFiniteSet(At(ev, "begin"))
    <2>1. /\ k \in Nat \ {0} /\ PassedIn(ev) = 1..(k - 1) /\ Begun(ev) \subseteq Attempts
          /\ e.stage \in Stages /\ count \in Nat /\ IsFiniteSet(At(ev, "begin"))
      BY HistoryFacts DEF HistoryInv, InOrder, EventType
    <2> HIDE DEF k
    <2> QED BY <2>1
  <1>4. Cardinality(At(new, "begin")) = count + 1
    BY <1>1, <1>3, FS_AddElement
  <1> HIDE DEF new, last
  <1>5. CurrentStage(new) = k
    BY <1>1 DEF CurrentStage
  <1>6. /\ Id(e) \in Attempts /\ Id(e)[1] = e.stage /\ Id(e) \notin Begun(ev)
        /\ Id(e)[2] >= 1 /\ Id(e)[3] >= 1 /\ Id(e)[2] + Id(e)[3] <= count + 2
        /\ \A old \in Begun(ev) : old[1] = e.stage =>
             old[2] < Id(e)[2] \/ (old[2] = Id(e)[2] /\ old[3] <= Id(e)[3])
        /\ Begins(ev, e.stage) = {} => Id(e) = <<e.stage, 1, 1>>
    BY <1>3, NextFacts
  <1>7. \A a : ~Has(ev, Id(e), a)
    BY <1>6 DEF HistoryInv, OfAttempts, Has, At
  <1>8. OfAttempts(new)
    <2>1. \A n \in DOMAIN new : Id(new[n]) \in Begun(new)
      BY <1>1 DEF HistoryInv, OfAttempts
    <2>2. \A n \in At(ev, "begin") : Id(new[n]) \in Begun(ev)
      BY <1>1 DEF Begun
    <2>3. \A m, n \in At(new, "begin") : Id(new[m]) = Id(new[n]) => m = n
      BY <1>1, <1>6, <2>2 DEF HistoryInv, OfAttempts
    <2> QED BY <2>1, <2>3 DEF OfAttempts
  <1>9. Numbered(new)
    <2>1. ASSUME NEW id \in Begun(ev), id[1] # e.stage
          PROVE  Latest(new, id[1]) = Latest(ev, id[1])
      BY <1>2, <2>1, BegunStage
    <2>2. ASSUME NEW id \in Begun(new)
          PROVE  /\ <<id[1], 1, 1>> \in Begun(new)
                 /\ id[2] >= 1 /\ id[3] >= 1 /\ id[2] + id[3] <= count + 2
      <3>1. CASE id \in Begun(ev)
        <4>1. /\ <<id[1], 1, 1>> \in Begun(ev)
              /\ id[2] >= 1 /\ id[3] >= 1 /\ id[2] + id[3] <= count + 1
              /\ id[2] \in Nat /\ id[3] \in Nat
          BY <1>3, <3>1 DEF HistoryInv, Numbered, Attempts
        <4> HIDE DEF count
        <4> QED BY <1>1, <1>3, <4>1
      <3>2. CASE id = Id(e)
        <4>1. CASE Begins(ev, e.stage) = {}
          <5> HIDE DEF count
          <5>1. id = <<e.stage, 1, 1>> /\ id[1] = e.stage
            BY <1>6, <3>2, <4>1
          <5> QED BY <1>1, <1>6, <3>2, <5>1
        <4>2. CASE Begins(ev, e.stage) # {}
          <5>1. Id(Latest(ev, e.stage)) \in Begun(ev) /\ Id(Latest(ev, e.stage))[1] = e.stage
            BY <4>2, LatestBegun
          <5>2. <<e.stage, 1, 1>> \in Begun(ev)
            BY <5>1 DEF HistoryInv, Numbered
          <5> QED BY <1>1, <1>6, <3>2, <5>2
        <4> QED BY <4>1, <4>2
      <3> QED BY <1>1, <2>2, <3>1, <3>2
    <2>3. ASSUME NEW id \in Begun(new)
          PROVE  \/ id[2] < Latest(new, id[1]).rev
                 \/ id[2] = Latest(new, id[1]).rev /\ id[3] <= Latest(new, id[1]).att
      <3>1. CASE id[1] = e.stage
        <4>1. Latest(new, id[1]) = e /\ Id(e)[2] = e.rev /\ Id(e)[3] = e.att
          BY <1>2, <3>1 DEF Id
        <4>2. CASE id \in Begun(ev)
          BY <1>6, <3>1, <4>1, <4>2
        <4>3. CASE id = Id(e)
          BY <1>6, <4>1, <4>3 DEF Attempts
        <4> QED BY <1>1, <2>3, <4>2, <4>3
      <3>2. CASE id[1] # e.stage
        <4>1. id \in Begun(ev)
          BY <1>1, <1>6, <2>3, <3>2
        <4> QED BY <2>1, <3>2, <4>1 DEF HistoryInv, Numbered
      <3> QED BY <3>1, <3>2
    <2>4. count + 2 = Cardinality(At(new, "begin")) + 1
      <3> HIDE DEF count
      <3> QED BY <1>3, <1>4
    <2> HIDE DEF count
    <2> QED BY <2>2, <2>3, <2>4 DEF Numbered
  <1>10. Superseded(new)
    <2> SUFFICES ASSUME NEW id \in Begun(new), ~Has(new, id, "block")
                 PROVE  IsLatest(new, id)
      BY DEF Superseded
    <2>1. CASE id = Id(e)
      BY <1>1, <1>2, <1>6, <2>1 DEF IsLatest
    <2>2. CASE id \in Begun(ev)
      <3>1. IsLatest(ev, id) /\ ~Has(ev, id, "block")
        BY <1>1, <2>2 DEF HistoryInv, Superseded
      <3>2. id[1] # e.stage
        BY <3>1 DEF Retryable, IsLatest
      <3> QED BY <1>1, <1>2, <3>1, <3>2 DEF IsLatest
    <2> QED BY <1>1, <2>1, <2>2
  <1>11. InOrder(new)
    BY <1>1, <1>3, <1>5, <1>6 DEF HistoryInv, InOrder
  <1>12. PassedByLatest(new)
    <2>1. \A s \in PassedIn(new) : Begins(new, s) # {} /\ Has(new, Id(Latest(new, s)), "advance")
      BY <1>1, <1>2, <1>3 DEF HistoryInv, PassedByLatest
    <2>2. \A id \in Begun(new) : Has(new, id, "advance") /\ Has(new, id, "block") => Terminal(new)
      BY <1>1, <1>7 DEF HistoryInv, PassedByLatest
    <2> QED BY <2>1, <2>2 DEF PassedByLatest
  <1> QED BY <1>1, <1>2, <1>5, <1>6, <1>7, <1>8, <1>9, <1>10, <1>11, <1>12 DEF HistoryInv, new

-----------------------------------------------------------------------------
(* What the writes make of the store.                                      *)

(* _append_event: one event more, and the verdict brought up to date.      *)
LEMMA AddFacts ==
  ASSUME NEW st \in StoreType, st.accepted <=> HistoryOk(st.events), NEW e \in EventType
  PROVE  LET new == Add(st, e)
         IN /\ new \in StoreType /\ new.events = Append(st.events, e) /\ new.blocked = st.blocked
            /\ (new.accepted <=> st.accepted /\ Follows(st.events, e))
            /\ (new.accepted <=> HistoryOk(new.events))
  <1> DEFINE new == Add(st, e)
  <1>1. st.events \in Seq(EventType) /\ Append(st.events, e) \in Seq(EventType)
    BY AppendFacts DEF StoreType
  <1>2. new \in StoreType
    BY <1>1 DEF Add, StoreType
  <1>3. new.events = Append(st.events, e) /\ new.blocked = st.blocked
    BY DEF Add, StoreType
  <1>4. new.accepted <=> st.accepted /\ Follows(st.events, e)
    <2>1. new.accepted = (st.accepted /\ Follows(st.events, e))
      BY Zenon DEF Add, StoreType
    <2> QED BY <2>1, Zenon
  <1>5. HistoryOk(Append(st.events, e)) <=> HistoryOk(st.events) /\ Follows(st.events, e)
    BY <1>1, AppendRead
  <1> QED BY <1>2, <1>3, <1>4, <1>5

\* A write that adds neither an attempt nor a passed stage.
Kept(old, new) ==
  /\ At(new.events, "begin") = At(old.events, "begin")
  /\ Begun(new.events) = Begun(old.events) /\ PassedIn(new.events) = PassedIn(old.events)
  /\ Len(old.events) \in Nat /\ Len(new.events) \in Nat /\ Len(old.events) <= Len(new.events)
  /\ Terminal(old.events) => Terminal(new.events)

(* _insert_block: blocking an attempt that has begun, at any time and      *)
(* whether or not it is its stage's latest, keeps the invariant, the       *)
(* attempts and the passed stages.                                         *)
LEMMA BlockFacts ==
  ASSUME NEW st, StoreInv(st), NEW id \in Begun(st.events), NEW reason \in {"retry", "final"}
  PROVE  LET new == InsertBlock(st, id, reason)
         IN StoreInv(new) /\ Kept(st, new)
  <1> DEFINE ev == st.events
             e == Event("block", id, FALSE, "none")
             new == InsertBlock(st, id, reason)
             added == Add(st, e)
  <1>1. ev \in Seq(EventType) /\ Len(ev) \in Nat /\ Begun(ev) \subseteq Attempts
    BY HistoryFacts DEF StoreInv, StoreType
  <1>2. CASE Has(ev, id, "block")
    BY <1>1, <1>2 DEF InsertBlock, Kept
  <1>3. CASE ~Has(ev, id, "block")
    <2>0. id \in Attempts /\ "block" \in Actions /\ FALSE \in BOOLEAN /\ "none" \in Contents
      BY <1>1 DEF Actions, Contents
    <2>1. e \in EventType /\ Id(e) = id /\ e.action = "block"
      BY <2>0 DEF Attempts, Event, EventType, Id
    <2> HIDE DEF e
    <2>2. /\ added \in StoreType /\ added.events = Append(ev, e)
          /\ (added.accepted <=> st.accepted /\ Follows(ev, e))
          /\ (added.accepted <=> HistoryOk(added.events))
      BY <2>1, AddFacts DEF StoreInv
    <2>3. new = [added EXCEPT !.blocked = reason]
      BY <1>3 DEF InsertBlock, e
    <2> HIDE DEF added, new
    <2>4. /\ new \in StoreType /\ new.events = Append(ev, e) /\ new.accepted = added.accepted
          /\ new.blocked = reason
      BY <2>2, <2>3 DEF StoreType
    <2>5. /\ HistoryInv(new.events) /\ Begun(new.events) = Begun(ev)
          /\ PassedIn(new.events) = PassedIn(ev)
      BY <1>1, <2>1, <2>4, AddOther DEF StoreInv
    <2>6. /\ Terminal(ev) => Terminal(new.events)
          /\ Len(new.events) = Len(ev) + 1 /\ At(new.events, "begin") = At(ev, "begin")
      BY <1>1, <2>1, <2>4, AppendFacts
    <2>7. ~Terminal(ev) => Follows(ev, e)
      <3>1. IsLatest(ev, id)
        BY <1>3 DEF StoreInv, HistoryInv, Superseded
      <3> QED BY <1>3, <2>1, <3>1 DEF Follows
    <2>8. MetadataInv(new)
      BY <2>2, <2>4, <2>6, <2>7 DEF StoreInv, MetadataInv
    <2>9. StoreInv(new)
      BY <2>2, <2>4, <2>5, <2>8 DEF StoreInv
    <2>10. Kept(st, new)
      BY <1>1, <2>5, <2>6 DEF Kept
    <2> QED BY <2>9, <2>10 DEF new
  <1> QED BY <1>2, <1>3

\* What an admitted call finds: a live run whose current attempt it is about.
Live(st, id) ==
  /\ st.accepted /\ st.blocked = "none" /\ id \in Begun(st.events)
  /\ IsLatest(st.events, id) /\ id[1] = CurrentStage(st.events) /\ ~Has(st.events, id, "block")

(* The current attempt of a live run has not advanced, and the run has not *)
(* ended.                                                                  *)
LEMMA LiveFacts ==
  ASSUME NEW st, StoreInv(st), NEW id, Live(st, id)
  PROVE  ~Terminal(st.events) /\ ~Has(st.events, id, "advance")
  <1>1. st.events \in Seq(EventType)
    BY DEF StoreInv, StoreType
  <1>2. ~Terminal(st.events)
    BY DEF StoreInv, MetadataInv, Live
  <1>3. ASSUME Has(st.events, id, "advance") PROVE FALSE
    <2>1. id[1] \in PassedIn(st.events)
      BY <1>3 DEF Has, PassedIn, Id
    <2>2. CurrentStage(st.events) \in Nat /\ PassedIn(st.events) = 1..(CurrentStage(st.events) - 1)
      BY <1>1, HistoryFacts DEF StoreInv, HistoryInv, InOrder
    <2> QED BY <2>1, <2>2 DEF Live
  <1> QED BY <1>2, <1>3

(* A result or a gate of the current attempt, the first of its kind, is    *)
(* accepted by the replay.                                                 *)
LEMMA RecordFacts ==
  ASSUME NEW st, StoreInv(st), NEW id, Live(st, id),
         NEW e \in EventType, Id(e) = id, e.action \in {"result", "gate"},
         ~Has(st.events, id, e.action), e.action = "gate" => Has(st.events, id, "result")
  PROVE  LET new == Add(st, e)
         IN StoreInv(new) /\ Kept(st, new) /\ new.events = Append(st.events, e)
  <1> DEFINE ev == st.events
             new == Add(st, e)
  <1>1. ev \in Seq(EventType) /\ Len(ev) \in Nat /\ id \in Begun(ev)
    BY HistoryFacts DEF StoreInv, StoreType, Live
  <1>2. ~Terminal(ev) /\ ~Has(ev, id, "advance")
    BY LiveFacts
  <1>3. Follows(ev, e)
    BY <1>2 DEF Follows, Live
  <1>4. /\ new \in StoreType /\ new.events = Append(ev, e) /\ new.blocked = st.blocked
        /\ (new.accepted <=> st.accepted /\ Follows(ev, e))
        /\ (new.accepted <=> HistoryOk(new.events))
    BY AddFacts DEF StoreInv
  <1> HIDE DEF new
  <1>5. /\ HistoryInv(new.events) /\ Begun(new.events) = Begun(ev)
        /\ PassedIn(new.events) = PassedIn(ev)
        /\ \A s : /\ Begins(new.events, s) = Begins(ev, s)
                  /\ Begins(ev, s) # {} => Latest(new.events, s) = Latest(ev, s)
    BY <1>1, <1>4, AddOther DEF StoreInv
  <1>6. /\ Terminal(new.events) <=> Terminal(ev)
        /\ Len(new.events) = Len(ev) + 1
        /\ e.action # "begin" => At(new.events, "begin") = At(ev, "begin")
        /\ \A other : Has(new.events, other, "block") <=> Has(ev, other, "block")
    BY <1>1, <1>4, AppendFacts
  <1>7. MetadataInv(new)
    <2>1. new.accepted /\ new.blocked = "none"
      BY <1>3, <1>4 DEF Live
    <2>2. ~Terminal(new.events)
      BY <1>2, <1>6
    <2>3. ASSUME NEW s \in Stages, Begins(new.events, s) # {}
          PROVE  ~Has(new.events, Id(Latest(new.events, s)), "block")
      <3>1. Begins(ev, s) # {} /\ Latest(new.events, s) = Latest(ev, s)
        BY <1>5, <2>3
      <3>2. ~Has(ev, Id(Latest(ev, s)), "block")
        BY <3>1 DEF StoreInv, MetadataInv, Live
      <3> QED BY <1>6, <3>1, <3>2
    <2> QED BY <2>1, <2>2, <2>3 DEF MetadataInv
  <1>8. StoreInv(new)
    BY <1>4, <1>5, <1>7 DEF StoreInv
  <1>9. Kept(st, new)
    BY <1>1, <1>5, <1>6 DEF Kept
  <1> QED BY <1>4, <1>8, <1>9 DEF new

(* An advance of the current attempt over a passing gate is accepted by    *)
(* the replay, and passes the stage.                                       *)
LEMMA AdvanceFacts ==
  ASSUME NEW st, StoreInv(st), NEW id, Live(st, id),
         NEW e \in EventType, Id(e) = id, e.action = "advance",
         Has(st.events, id, "gate"), GateOf(st.events, id).ok
  PROVE  LET new == Add(st, e)
         IN /\ StoreInv(new) /\ new.events = Append(st.events, e)
            /\ Begun(new.events) = Begun(st.events)
            /\ PassedIn(new.events) = PassedIn(st.events) \cup {id[1]}
            /\ CurrentStage(new.events) = CurrentStage(st.events) + 1
            /\ At(new.events, "begin") = At(st.events, "begin")
            /\ Len(st.events) <= Len(new.events) /\ Len(st.events) \in Nat /\ Len(new.events) \in Nat
            /\ Begins(new.events, id[1]) # {} /\ Id(Latest(new.events, id[1])) = id
  <1> DEFINE ev == st.events
             new == Add(st, e)
  <1>1. ev \in Seq(EventType) /\ Len(ev) \in Nat /\ id \in Begun(ev) /\ e.stage = id[1]
    BY HistoryFacts DEF StoreInv, StoreType, Live, Id
  <1>2. ~Terminal(ev) /\ ~Has(ev, id, "advance")
    BY LiveFacts
  <1>3. Follows(ev, e)
    BY <1>1, <1>2 DEF Follows, Live
  <1>4. /\ new \in StoreType /\ new.events = Append(ev, e) /\ new.blocked = st.blocked
        /\ (new.accepted <=> st.accepted /\ Follows(ev, e))
        /\ (new.accepted <=> HistoryOk(new.events))
    BY AddFacts DEF StoreInv
  <1> HIDE DEF new
  <1>5. /\ HistoryInv(new.events) /\ Begun(new.events) = Begun(ev)
        /\ PassedIn(new.events) = PassedIn(ev) \cup {id[1]}
        /\ CurrentStage(new.events) = CurrentStage(ev) + 1
        /\ \A s : /\ Begins(new.events, s) = Begins(ev, s)
                  /\ Begins(ev, s) # {} => Latest(new.events, s) = Latest(ev, s)
    BY <1>1, <1>4, AddAdvance DEF StoreInv, Live
  <1>6. /\ Terminal(new.events) <=> Terminal(ev)
        /\ Len(new.events) = Len(ev) + 1
        /\ e.action # "begin" => At(new.events, "begin") = At(ev, "begin")
        /\ \A other : Has(new.events, other, "block") <=> Has(ev, other, "block")
    BY <1>1, <1>4, AppendFacts
  <1>7. MetadataInv(new)
    <2>1. new.accepted /\ new.blocked = "none"
      BY <1>3, <1>4 DEF Live
    <2>2. ~Terminal(new.events)
      BY <1>2, <1>6
    <2>3. ASSUME NEW s \in Stages, Begins(new.events, s) # {}
          PROVE  ~Has(new.events, Id(Latest(new.events, s)), "block")
      <3>1. Begins(ev, s) # {} /\ Latest(new.events, s) = Latest(ev, s)
        BY <1>5, <2>3
      <3>2. ~Has(ev, Id(Latest(ev, s)), "block")
        BY <3>1 DEF StoreInv, MetadataInv, Live
      <3> QED BY <1>6, <3>1, <3>2
    <2> QED BY <2>1, <2>2, <2>3 DEF MetadataInv
  <1>8. Begins(ev, id[1]) # {} /\ Id(Latest(ev, id[1])) = id
    BY DEF Live, IsLatest
  <1>9. StoreInv(new)
    BY <1>4, <1>5, <1>7 DEF StoreInv
  <1>10. /\ Begins(new.events, id[1]) # {} /\ Id(Latest(new.events, id[1])) = id
         /\ Len(ev) <= Len(new.events) /\ Len(new.events) \in Nat
         /\ At(new.events, "begin") = At(ev, "begin")
    BY <1>1, <1>5, <1>6, <1>8
  <1> QED BY <1>1, <1>4, <1>5, <1>9, <1>10 DEF new

(* A begin of the current stage over a blocked attempt of a run that has   *)
(* not ended is accepted by the replay, also where it clears the metadata: *)
(* the latest attempts of the stages before it advanced and were not       *)
(* blocked since.                                                          *)
LEMMA BeginFacts ==
  ASSUME NEW st, StoreInv(st), st.accepted, ~Terminal(st.events), CurrentStage(st.events) \in Stages,
         NEW e \in EventType, e.action = "begin", e.stage = CurrentStage(st.events),
         Id(e) = NextId(st.events, e.stage, e.data), Retryable(st.events, e.stage)
  PROVE  LET new == [Add(st, e) EXCEPT !.blocked = "none"]
         IN /\ StoreInv(new) /\ new.events = Append(st.events, e)
            /\ PassedIn(new.events) = PassedIn(st.events)
            /\ Begun(new.events) = Begun(st.events) \cup {Id(e)}
            /\ Cardinality(At(new.events, "begin")) = Cardinality(At(st.events, "begin")) + 1
            /\ Len(st.events) <= Len(new.events) /\ Len(st.events) \in Nat /\ Len(new.events) \in Nat
  <1> DEFINE ev == st.events
             added == Add(st, e)
             new == [added EXCEPT !.blocked = "none"]
  <1>1. ev \in Seq(EventType) /\ Len(ev) \in Nat
    BY HistoryFacts DEF StoreInv, StoreType
  <1>2. /\ added \in StoreType /\ added.events = Append(ev, e)
        /\ (added.accepted <=> st.accepted /\ Follows(ev, e))
        /\ (added.accepted <=> HistoryOk(added.events))
    BY AddFacts DEF StoreInv
  <1> HIDE DEF added
  <1>3. /\ new \in StoreType /\ new.events = Append(ev, e) /\ new.accepted = added.accepted
        /\ new.blocked = "none"
    BY <1>2 DEF StoreType
  <1> HIDE DEF new
  <1>4. /\ HistoryInv(new.events) /\ Begun(new.events) = Begun(ev) \cup {Id(e)}
        /\ PassedIn(new.events) = PassedIn(ev)
        /\ Id(e) \notin Begun(ev) /\ \A a : ~Has(ev, Id(e), a)
        /\ \A s : IF s = e.stage THEN Latest(new.events, s) = e
                 ELSE /\ Begins(new.events, s) = Begins(ev, s)
                      /\ Begins(ev, s) # {} => Latest(new.events, s) = Latest(ev, s)
    BY <1>1, <1>3, AddBegin DEF StoreInv
  <1>5. /\ Terminal(new.events) <=> Terminal(ev)
        /\ Len(new.events) = Len(ev) + 1
        /\ \A other : Has(new.events, other, "block") <=> Has(ev, other, "block")
    BY <1>1, <1>3, AppendFacts
  <1>6. Follows(ev, e)
    BY <1>4 DEF Follows
  <1>7. ASSUME NEW s \in Stages, Begins(new.events, s) # {}
        PROVE  ~Has(new.events, Id(Latest(new.events, s)), "block")
    <2>1. CASE s = e.stage
      BY <1>4, <1>5, <2>1
    <2>2. CASE s # e.stage
      <3>1. Begins(ev, s) # {} /\ Latest(new.events, s) = Latest(ev, s)
        BY <1>4, <1>7, <2>2
      <3>2. Id(Latest(ev, s)) \in Begun(ev) /\ Id(Latest(ev, s))[1] = s
        BY <1>1, <3>1, LatestBegun
      <3>3. s <= CurrentStage(ev) /\ CurrentStage(ev) \in Nat /\ PassedIn(ev) = 1..(CurrentStage(ev) - 1)
        BY <1>1, <3>2, HistoryFacts DEF StoreInv, HistoryInv, InOrder
      <3>4. s \in PassedIn(ev)
        BY <2>2, <3>3, RunnerAssumption DEF Stages
      <3>5. ~Has(ev, Id(Latest(ev, s)), "block")
        BY <3>2, <3>4 DEF StoreInv, HistoryInv, PassedByLatest
      <3> QED BY <1>5, <3>1, <3>5
    <2> QED BY <2>1, <2>2
  <1>8. MetadataInv(new)
    BY <1>2, <1>3, <1>5, <1>6, <1>7 DEF MetadataInv
  <1>9. StoreInv(new)
    BY <1>2, <1>3, <1>4, <1>8 DEF StoreInv
  <1>10. Cardinality(At(new.events, "begin")) = Cardinality(At(ev, "begin")) + 1
    <2>1. /\ At(new.events, "begin") = At(ev, "begin") \cup {Len(ev) + 1}
          /\ \A n \in DOMAIN ev : n \in Nat /\ n < Len(ev) + 1
      BY <1>1, <1>3, AppendFacts
    <2>2. At(ev, "begin") \subseteq DOMAIN ev /\ IsFiniteSet(At(ev, "begin"))
      BY <1>1, HistoryFacts
    <2>3. Len(ev) + 1 \notin At(ev, "begin")
      BY <1>1, <2>1, <2>2
    <2> QED BY <2>1, <2>2, <2>3, FS_AddElement
  <1> QED BY <1>1, <1>3, <1>4, <1>5, <1>9, <1>10 DEF new, added

-----------------------------------------------------------------------------
(* The runners.                                                            *)

ObjectType ==
  [ver : [id : IdType, passed : BOOLEAN, output : Outputs \cup {"none"}],
   todo : [kind : {"none", "safely", "orBlock"}, id : IdType]]

\* Objects of the right type; what a projection may block has begun.
ObjectsOk(objects, ev) ==
  /\ objects \in [Procs -> ObjectType]
  /\ \A p \in Procs : objects[p].todo.kind = "orBlock" => objects[p].todo.id \in Begun(ev)

ShownOk(s, ev) == s \in [store : BOOLEAN, records : Nat] /\ s.records <= Len(ev)

\* The inductive invariant of the runner.
RunnerInv ==
  /\ StoreInv(store)
  /\ Cardinality(At(store.events, "begin")) <= MaxAttempts
  /\ ShownOk(shown, store.events)
  /\ source \in Inputs /\ files \in [Stages -> Outputs \cup {"none"}]
  /\ ObjectsOk(inst, store.events)

\* What the advance of an attempt rests on, and what it passes.
Passes(id) ==
  LET ev == store'.events
  IN /\ ~Terminal(store.events) /\ Begun(ev) = Begun(store.events)
     /\ id[1] = CurrentStage(store.events) /\ id[1] \in Stages
     /\ PassedIn(ev) = Passed \cup {id[1]}
     /\ Begins(ev, id[1]) # {} /\ Id(Latest(ev, id[1])) = id
     /\ RestsOnEvidence(ev, id)

\* What a step may do to the attempts and the passed stages: nothing, begin
\* an attempt of a run that has not ended, or pass the current stage.
StoreStep ==
  \/ Begun(store'.events) = Begun(store.events) /\ PassedIn(store'.events) = Passed
  \/ ~Terminal(store.events) /\ PassedIn(store'.events) = Passed
  \/ \E id \in Begun(store.events) : Passes(id)

(* An attempt that has begun has a bounded identity.                       *)
LEMMA BegunTyped ==
  ASSUME RunnerInv, NEW id \in Begun(store.events)
  PROVE  /\ id \in Attempts /\ id \in IdType /\ id[1] \in Stages
         /\ id[2] + id[3] <= Cardinality(At(store.events, "begin")) + 1
  <1>1. id \in Attempts /\ Cardinality(At(store.events, "begin")) \in Nat
    BY HistoryFacts DEF RunnerInv, StoreInv, StoreType
  <1>2. /\ id[2] >= 1 /\ id[3] >= 1
        /\ id[2] + id[3] <= Cardinality(At(store.events, "begin")) + 1
        /\ Cardinality(At(store.events, "begin")) <= MaxAttempts /\ MaxAttempts \in Nat
    BY RunnerAssumption DEF RunnerInv, StoreInv, HistoryInv, Numbered
  <1> HIDE DEF RunnerInv
  <1>3. id[1] \in 1..NStages /\ NStages \in Nat /\ id[2] \in 0..MaxAttempts /\ id[3] \in 0..MaxAttempts
    BY <1>1, <1>2, RunnerAssumption DEF Attempts, Stages
  <1> QED BY <1>1, <1>2, <1>3 DEF IdType, Attempts

(* Nothing to do yet.                                                      *)
LEMMA NewObjectTyped ==
  /\ NewObject \in ObjectType /\ NewObject.todo.kind = "none" /\ NoTodo.id \in IdType
  BY RunnerAssumption DEF NewObject, ObjectType, NoVerification, NoTodo, IdType

(* An object that takes a projection on, has done it, or is replaced.      *)
LEMMA ObjectFacts ==
  ASSUME NEW ev, NEW new, Begun(ev) \subseteq Begun(new), ObjectsOk(inst, ev), NEW p \in Procs
  PROVE  /\ \A kind \in {"none", "safely", "orBlock"}, id \in IdType :
              Todo(p, kind, id) /\ (kind = "orBlock" => id \in Begun(new)) => ObjectsOk(inst', new)
         /\ Settle(p) => ObjectsOk(inst', new)
         /\ inst' = [inst EXCEPT ![p] = NewObject] => ObjectsOk(inst', new)
         /\ UNCHANGED inst => ObjectsOk(inst', new)
  <1>1. ASSUME NEW kind \in {"none", "safely", "orBlock"}, NEW id \in IdType,
               Todo(p, kind, id), kind = "orBlock" => id \in Begun(new)
        PROVE  ObjectsOk(inst', new)
    <2> DEFINE o == [NewObject EXCEPT !.todo = [kind |-> kind, id |-> id]]
    <2>1. o \in ObjectType /\ o.todo.kind = kind /\ o.todo.id = id
      BY NewObjectTyped DEF ObjectType
    <2>2. inst' = [inst EXCEPT ![p] = o]
      BY <1>1 DEF Todo
    <2> HIDE DEF o
    <2> QED BY <1>1, <2>1, <2>2 DEF ObjectsOk
  <1>2. ASSUME Settle(p) PROVE ObjectsOk(inst', new)
    <2> DEFINE o == [inst[p] EXCEPT !.todo = NoTodo]
    <2>1. inst' = [inst EXCEPT ![p] = o]
      BY <1>2 DEF Settle, ObjectsOk
    <2>2. o \in ObjectType /\ o.todo.kind = "none"
      BY RunnerAssumption DEF ObjectsOk, ObjectType, NoTodo, IdType
    <2> HIDE DEF o
    <2> QED BY <2>1, <2>2 DEF ObjectsOk
  <1>3. inst' = [inst EXCEPT ![p] = NewObject] => ObjectsOk(inst', new)
    BY NewObjectTyped DEF ObjectsOk
  <1>4. UNCHANGED inst => ObjectsOk(inst', new)
    BY DEF ObjectsOk
  <1> QED BY <1>1, <1>2, <1>3, <1>4

(* A commit leaves the projections behind.                                 *)
LEMMA WriteFacts ==
  ASSUME NEW st, Write(st), ShownOk(shown, store.events),
         Len(store.events) \in Nat, Len(st.events) \in Nat, Len(store.events) <= Len(st.events)
  PROVE  store' = st /\ ShownOk(shown', store'.events)
  <1>1. store' = st /\ shown' = [shown EXCEPT !.store = shown.store /\ st.events = store.events]
    BY DEF Write, ShownOk
  <1>2. shown'.records = shown.records /\ shown' \in [store : BOOLEAN, records : Nat]
    BY <1>1 DEF ShownOk
  <1> QED BY <1>1, <1>2 DEF ShownOk

(* A write that adds neither an attempt nor a passed stage.                *)
LEMMA KeptStep ==
  ASSUME RunnerInv, NEW st, StoreInv(st), Kept(store, st), Write(st), UNCHANGED disk,
         ObjectsOk(inst', st.events)
  PROVE  RunnerInv' /\ StoreStep
  <1>1. store' = st /\ ShownOk(shown', store'.events)
    BY WriteFacts DEF RunnerInv, Kept
  <1>2. source' = source /\ files' = files
    BY DEF disk
  <1> QED BY <1>1, <1>2 DEF RunnerInv, Kept, StoreStep, Passed

(* The attempt a call was about is blocked, and the call ends or goes on   *)
(* to the projections.                                                     *)
LEMMA BlockStep ==
  ASSUME RunnerInv, NEW p \in Procs, NEW id \in Begun(store.events), Reject(p, id) \/ Block(p, id)
  PROVE  RunnerInv' /\ StoreStep
  <1> DEFINE st == InsertBlock(store, id, "retry")
  <1>1. StoreInv(st) /\ Kept(store, st)
    BY BlockFacts DEF RunnerInv
  <1>2. Write(st) /\ UNCHANGED disk /\ (Todo(p, "none", NoTodo.id) \/ Todo(p, "safely", id))
    BY DEF Reject, Block
  <1> HIDE DEF st
  <1>3. ObjectsOk(inst', st.events)
    BY <1>1, <1>2, BegunTyped, NewObjectTyped, ObjectFacts DEF RunnerInv, Kept
  <1> QED BY <1>1, <1>2, <1>3, KeptStep

(* A commit of a write that adds neither an attempt nor a passed stage.    *)
LEMMA CommitStep ==
  ASSUME RunnerInv, NEW p \in Procs, NEW id \in Begun(store.events),
         NEW st, StoreInv(st), Kept(store, st), Commit(p, id, st)
  PROVE  RunnerInv' /\ StoreStep
  <1>1. Write(st) /\ UNCHANGED disk /\ Todo(p, "orBlock", id)
    BY DEF Commit
  <1>2. ObjectsOk(inst', st.events)
    BY <1>1, BegunTyped, ObjectFacts DEF RunnerInv, Kept
  <1> QED BY <1>1, <1>2, KeptStep

(* What an admitted call about an attempt still open finds.                *)
LEMMA AdmittedFacts ==
  ASSUME NEW id \in Unblocked(store.events), Admitted(id)
  PROVE  Live(store, id) /\ Valid(store) /\ id \in Begun(store.events)
  BY DEF Unblocked, Admitted, IsCurrent, Live, Valid

-----------------------------------------------------------------------------
(* The calls, one by one.                                                  *)

(* begin_attempt                                                           *)
LEMMA BeginStep ==
  ASSUME RunnerInv, NEW p \in Procs, Begin(p)
  PROVE  RunnerInv' /\ StoreStep
  <1> DEFINE ev == store.events
             s == CurrentStage(ev)
             id == NextId(ev, s, source)
             e == Event("begin", id, TRUE, source)
             st == [Add(store, e) EXCEPT !.blocked = "none"]
             count == Cardinality(At(ev, "begin"))
  <1>1. /\ count < MaxAttempts /\ s \in Stages /\ store.accepted /\ ~Terminal(ev)
        /\ Retryable(ev, s) /\ Write(st) /\ Todo(p, "orBlock", id) /\ UNCHANGED disk
    BY DEF Begin, Commit, Valid, MayBegin
  <1>2. ev \in Seq(EventType) /\ count \in Nat
    BY HistoryFacts DEF RunnerInv, StoreInv, StoreType
  <1>3. /\ id \in Attempts /\ id[1] = s
        /\ id[2] >= 1 /\ id[3] >= 1 /\ id[2] + id[3] <= count + 2
    BY <1>1, <1>2, NextFacts DEF RunnerInv, StoreInv
  <1> HIDE DEF id, s
  <1>4. e \in EventType /\ Id(e) = id /\ e.action = "begin" /\ e.stage = s /\ e.data = source
    <2>1. source \in Contents
      BY DEF RunnerInv, Contents
    <2> QED BY <1>3, <2>1 DEF Attempts, Event, EventType, Id, Actions
  <1> HIDE DEF e
  <1>5. /\ StoreInv(st)
        /\ PassedIn(st.events) = PassedIn(ev) /\ Begun(st.events) = Begun(ev) \cup {id}
        /\ Cardinality(At(st.events, "begin")) = count + 1
        /\ Len(ev) <= Len(st.events) /\ Len(ev) \in Nat /\ Len(st.events) \in Nat
    BY <1>1, <1>4, BeginFacts DEF RunnerInv, s, id
  <1> HIDE DEF st
  <1>6. id \in IdType
    <2> HIDE DEF count
    <2>1. /\ id[1] \in 1..NStages /\ NStages \in Nat
          /\ id[2] \in 0..MaxAttempts /\ id[3] \in 0..MaxAttempts
      BY <1>1, <1>2, <1>3, RunnerAssumption DEF Attempts, Stages
    <2> QED BY <1>3, <2>1 DEF IdType, Attempts
  <1>7. ObjectsOk(inst', st.events)
    BY <1>1, <1>5, <1>6, ObjectFacts DEF RunnerInv
  <1>8. store' = st /\ ShownOk(shown', store'.events)
    BY <1>1, <1>5, WriteFacts DEF RunnerInv
  <1>9. source' = source /\ files' = files
    BY <1>1 DEF disk
  <1>10. Cardinality(At(st.events, "begin")) <= MaxAttempts
    <2> HIDE DEF count
    <2> QED BY <1>1, <1>2, <1>5, RunnerAssumption
  <1>11. RunnerInv'
    BY <1>5, <1>7, <1>8, <1>9, <1>10 DEF RunnerInv
  <1> QED BY <1>1, <1>5, <1>8, <1>11 DEF StoreStep, Passed

(* record_result                                                           *)
LEMMA ResultStep ==
  ASSUME RunnerInv, NEW p \in Procs, NEW id \in Unblocked(store.events),
         NEW outcome \in {"ok", "failed", "malformed"}, RecordResult(p, id, outcome)
  PROVE  RunnerInv' /\ StoreStep
  <1>1. Live(store, id) /\ id \in Begun(store.events) /\ id \in Attempts /\ id \in IdType
    BY AdmittedFacts, BegunTyped DEF RecordResult
  <1>2. CASE Reject(p, id) \/ Block(p, id)
    BY <1>1, <1>2, BlockStep
  <1>3. CASE ~(Reject(p, id) \/ Block(p, id))
    <2> DEFINE good == Event("result", id, TRUE, "none")
               bad == Event("result", id, FALSE, "none")
    <2>1. /\ ~Has(store.events, id, "result")
          /\ \/ Commit(p, id, Add(store, good))
             \/ /\ Write(InsertBlock(Add(store, bad), id, "retry"))
                /\ Todo(p, "safely", id) /\ UNCHANGED disk
      BY <1>3 DEF RecordResult
    <2>2. /\ good \in EventType /\ Id(good) = id /\ good.action = "result"
          /\ bad \in EventType /\ Id(bad) = id /\ bad.action = "result"
      BY <1>1 DEF Attempts, Event, EventType, Id, Actions, Contents
    <2> HIDE DEF good, bad
    <2>3. /\ StoreInv(Add(store, good)) /\ Kept(store, Add(store, good))
          /\ StoreInv(Add(store, bad)) /\ Kept(store, Add(store, bad))
      BY <1>1, <2>1, <2>2, RecordFacts DEF RunnerInv
    <2>4. CASE Commit(p, id, Add(store, good))
      BY <1>1, <2>3, <2>4, CommitStep
    <2>5. CASE /\ Write(InsertBlock(Add(store, bad), id, "retry"))
               /\ Todo(p, "safely", id) /\ UNCHANGED disk
      <3> DEFINE added == Add(store, bad)
                 st == InsertBlock(added, id, "retry")
      <3> HIDE DEF added
      <3>1. id \in Begun(added.events) /\ StoreInv(added) /\ Kept(store, added)
        BY <1>1, <2>3 DEF Kept, added
      <3>2. StoreInv(st) /\ Kept(added, st)
        BY <3>1, BlockFacts
      <3>3. Write(st)
        BY <2>5 DEF added
      <3> HIDE DEF st
      <3>4. Kept(store, st)
        BY <3>1, <3>2 DEF Kept
      <3>5. ObjectsOk(inst', st.events)
        BY <1>1, <2>5, <3>4, ObjectFacts DEF RunnerInv, Kept
      <3> QED BY <2>5, <3>2, <3>3, <3>4, <3>5, KeptStep
    <2> QED BY <2>1, <2>4, <2>5
  <1> QED BY <1>2, <1>3

(* attest writes nothing, or blocks.                                       *)
LEMMA AttestStep ==
  ASSUME RunnerInv, NEW p \in Procs, NEW id \in Unblocked(store.events), NEW passed \in BOOLEAN,
         Attest(p, id, passed)
  PROVE  RunnerInv' /\ StoreStep
  <1>1. id \in Begun(store.events) /\ id \in IdType /\ id[1] \in Stages
    BY AdmittedFacts, BegunTyped DEF Attest
  <1>2. CASE Reject(p, id)
    BY <1>1, <1>2, BlockStep
  <1>3. CASE ~Reject(p, id)
    <2> DEFINE v == [id |-> id, passed |-> passed, output |-> files[id[1]]]
               o == [inst[p] EXCEPT !.ver = v]
    <2>1. inst' = [inst EXCEPT ![p].ver = v] /\ UNCHANGED <<store, shown, disk>>
      BY <1>3 DEF Attest
    <2>2. inst' = [inst EXCEPT ![p] = o]
      BY <2>1
    <2>3. v \in [id : IdType, passed : BOOLEAN, output : Outputs \cup {"none"}]
      BY <1>1 DEF RunnerInv
    <2> HIDE DEF v
    <2>4. o \in ObjectType /\ o.todo = inst[p].todo
      BY <2>3 DEF RunnerInv, ObjectsOk, ObjectType
    <2> HIDE DEF o
    <2>5. ObjectsOk(inst', store.events)
      BY <2>2, <2>4 DEF RunnerInv, ObjectsOk
    <2> QED BY <2>1, <2>5 DEF RunnerInv, StoreStep, Passed, disk
  <1> QED BY <1>2, <1>3

(* record_gate                                                             *)
LEMMA GateStep ==
  ASSUME RunnerInv, NEW p \in Procs, NEW id \in Unblocked(store.events), RecordGate(p, id)
  PROVE  RunnerInv' /\ StoreStep
  <1>1. Live(store, id) /\ id \in Begun(store.events) /\ id \in Attempts
    BY AdmittedFacts, BegunTyped DEF RecordGate
  <1>2. CASE Reject(p, id) \/ Block(p, id)
    BY <1>1, <1>2, BlockStep
  <1>3. CASE ~(Reject(p, id) \/ Block(p, id))
    <2> DEFINE v == inst[p].ver
               gate == Event("gate", id, v.passed, v.output)
               added == Add(store, gate)
               st == IF v.passed THEN added ELSE InsertBlock(added, id, "retry")
    <2>1. /\ Has(store.events, id, "result") /\ ~Has(store.events, id, "gate")
          /\ Commit(p, id, st)
      BY <1>3 DEF RecordGate
    <2>2. v.passed \in BOOLEAN /\ v.output \in Contents
      BY DEF RunnerInv, ObjectsOk, ObjectType, Contents
    <2>3. gate \in EventType /\ Id(gate) = id /\ gate.action = "gate"
      BY <1>1, <2>2 DEF Attempts, Event, EventType, Id, Actions
    <2> HIDE DEF gate
    <2>4. StoreInv(added) /\ Kept(store, added)
      BY <1>1, <2>1, <2>3, RecordFacts DEF RunnerInv
    <2> HIDE DEF added
    <2>5. StoreInv(st) /\ Kept(added, st)
      <3>1. id \in Begun(added.events)
        BY <1>1, <2>4 DEF Kept
      <3>2. CASE v.passed
        BY <2>4, <3>2 DEF Kept
      <3>3. CASE ~v.passed
        BY <2>4, <3>1, <3>3, BlockFacts
      <3> QED BY <3>2, <3>3
    <2> HIDE DEF st
    <2>6. Kept(store, st)
      BY <2>4, <2>5 DEF Kept
    <2> QED BY <1>1, <2>1, <2>5, <2>6, CommitStep
  <1> QED BY <1>2, <1>3

(* advance: the only call by which a stage passes.                         *)
LEMMA AdvanceStep ==
  ASSUME RunnerInv, NEW p \in Procs, NEW id \in Unblocked(store.events), Advance(p, id)
  PROVE  RunnerInv' /\ StoreStep
  <1> DEFINE ev == store.events
             e == Event("advance", id, TRUE, "none")
             st == Add(store, e)
             new == st.events
  <1>1. Live(store, id) /\ Valid(store) /\ id \in Begun(ev) /\ id \in Attempts /\ id \in IdType
    BY AdmittedFacts, BegunTyped DEF Advance
  <1>2. CASE Block(p, id)
    BY <1>1, <1>2, BlockStep
  <1>3. CASE ~Block(p, id)
    <2>1. source = InputOf(ev, id) /\ Has(ev, id, "gate") /\ Commit(p, id, st)
      BY <1>3 DEF Advance, Stale
    <2>2. e \in EventType /\ Id(e) = id /\ e.action = "advance"
      BY <1>1 DEF Attempts, Event, EventType, Id, Actions, Contents
    <2> HIDE DEF e
    <2>3. \A n \in At(ev, "gate") : Id(ev[n]) = id => ev[n].ok
      BY <1>1 DEF Valid, Live
    <2>4. GateOf(ev, id).ok
      BY <2>1, <2>3 DEF GateOf, Has
    <2>5. /\ StoreInv(st) /\ new = Append(ev, e)
          /\ Begun(new) = Begun(ev) /\ PassedIn(new) = PassedIn(ev) \cup {id[1]}
          /\ At(new, "begin") = At(ev, "begin")
          /\ Len(ev) <= Len(new) /\ Len(ev) \in Nat /\ Len(new) \in Nat
          /\ Begins(new, id[1]) # {} /\ Id(Latest(new, id[1])) = id
      BY <1>1, <2>1, <2>2, <2>4, AdvanceFacts DEF RunnerInv
    <2>6. Write(st) /\ UNCHANGED disk /\ Todo(p, "orBlock", id)
      BY <2>1 DEF Commit
    <2> HIDE DEF st
    <2>7. store' = st /\ ShownOk(shown', store'.events) /\ source' = source /\ files' = files
      BY <2>5, <2>6, WriteFacts DEF RunnerInv, disk
    <2>8. ObjectsOk(inst', new)
      BY <1>1, <2>5, <2>6, ObjectFacts DEF RunnerInv
    <2>9. RunnerInv'
      BY <2>5, <2>7, <2>8 DEF RunnerInv
    <2>10. /\ ev \in Seq(EventType) /\ DOMAIN new = DOMAIN ev \cup {Len(ev) + 1}
           /\ \A n \in DOMAIN ev : new[n] = ev[n]
           /\ At(new, "gate") = At(ev, "gate") /\ At(ev, "gate") \subseteq DOMAIN ev
           /\ At(ev, "begin") \subseteq DOMAIN ev
           /\ \A other, a : Has(new, other, a) <=> Has(ev, other, a) \/ (a = "advance" /\ other = id)
      <3>1. ev \in Seq(EventType)
        BY DEF RunnerInv, StoreInv, StoreType
      <3> HIDE DEF new
      <3> QED BY <2>2, <2>5, <3>1, AppendFacts, HistoryFacts
    <2> HIDE DEF new
    <2>11. Has(new, id, "gate") /\ GateOf(new, id).ok
      <3>1. \A n \in At(new, "gate") : Id(new[n]) = id => new[n].ok
        BY <2>3, <2>10
      <3>2. Has(new, id, "gate")
        BY <2>1, <2>10
      <3> QED BY <3>1, <3>2 DEF GateOf, Has
    <2>12. InputOf(new, id) = source
      <3>1. PICK n \in At(ev, "begin") : Id(ev[n]) = id
        BY <1>1 DEF Begun
      <3>2. \A m \in At(ev, "begin") : Id(ev[m]) = id => m = n
        BY <3>1 DEF RunnerInv, StoreInv, HistoryInv, OfAttempts
      <3>3. InputOf(ev, id) = ev[n].data
        BY <3>1, <3>2 DEF InputOf
      <3>4. InputOf(new, id) = new[n].data
        <4>1. n \in At(new, "begin") /\ Id(new[n]) = id
          BY <2>5, <2>10, <3>1
        <4>2. \A m \in At(new, "begin") : Id(new[m]) = id => m = n
          BY <2>5, <2>10, <3>2
        <4> QED BY <4>1, <4>2 DEF InputOf
      <3> QED BY <2>1, <2>10, <3>1, <3>3, <3>4
    <2>13. \A n \in At(new, "gate") : files[new[n].stage] = new[n].data
      BY <1>1, <2>10 DEF Valid
    <2>14. ~Has(new, id, "block") /\ ~Terminal(ev) /\ id[1] = CurrentStage(ev) /\ id[1] \in Stages
      BY <1>1, <2>10, LiveFacts, BegunTyped DEF Live, RunnerInv
    <2>15. Passes(id)
      BY <2>5, <2>7, <2>11, <2>12, <2>13, <2>14 DEF Passes, Passed, RestsOnEvidence, new
    <2> QED BY <1>1, <2>9, <2>15 DEF StoreStep
  <1> QED BY <1>2, <1>3

(* A step that leaves the store and the files alone.                       *)
LEMMA QuietStep ==
  ASSUME RunnerInv, UNCHANGED <<store, disk>>,
         ShownOk(shown', store.events), ObjectsOk(inst', store.events)
  PROVE  RunnerInv' /\ StoreStep
  BY DEF RunnerInv, StoreStep, Passed, disk

(* _refresh_projections, whether it succeeds or not.                       *)
LEMMA RefreshStep ==
  ASSUME RunnerInv, NEW p \in Procs, Refresh(p) \/ RefreshFails(p)
  PROVE  RunnerInv' /\ StoreStep
  <1> DEFINE todo == inst[p].todo
  <1>1. CASE todo.kind = "orBlock" /\ Reject(p, todo.id)
    <2>1. todo.id \in Begun(store.events)
      BY <1>1 DEF RunnerInv, ObjectsOk
    <2> QED BY <1>1, <2>1, BlockStep
  <1>2. CASE ~(todo.kind = "orBlock" /\ Reject(p, todo.id))
    <2>1. /\ Settle(p) /\ UNCHANGED <<store, disk>>
          /\ (UNCHANGED shown) \/ shown' = [store |-> TRUE, records |-> Len(store.events)]
      BY <1>2 DEF Refresh, RefreshFails
    <2>2. ObjectsOk(inst', store.events)
      BY <2>1, ObjectFacts DEF RunnerInv
    <2>3. Len(store.events) \in Nat
      BY HistoryFacts DEF RunnerInv, StoreInv, StoreType
    <2>4. ShownOk(shown', store.events)
      <3>1. CASE UNCHANGED shown
        BY <3>1 DEF RunnerInv, ShownOk
      <3>2. CASE shown' = [store |-> TRUE, records |-> Len(store.events)]
        <4> DEFINE full == [store |-> TRUE, records |-> Len(store.events)]
        <4>1. full \in [store : BOOLEAN, records : Nat] /\ full.records = Len(store.events)
          BY <2>3
        <4> QED BY <2>3, <3>2, <4>1 DEF ShownOk
      <3> QED BY <2>1, <3>1, <3>2
    <2> QED BY <2>1, <2>2, <2>4, QuietStep
  <1> QED BY <1>1, <1>2

(* A process dies, perhaps in the middle of a projection.                  *)
LEMMA CrashStep ==
  ASSUME RunnerInv, NEW p \in Procs, Crash(p)
  PROVE  RunnerInv' /\ StoreStep
  <1>1. /\ inst' = [inst EXCEPT ![p] = NewObject] /\ UNCHANGED <<store, disk>>
        /\ (UNCHANGED shown) \/ shown' = [shown EXCEPT !.records = Len(store.events)]
    BY DEF Crash
  <1>2. ObjectsOk(inst', store.events)
    BY <1>1, ObjectFacts DEF RunnerInv
  <1>3. Len(store.events) \in Nat
    BY HistoryFacts DEF RunnerInv, StoreInv, StoreType
  <1>4. ShownOk(shown', store.events)
    BY <1>1, <1>3 DEF RunnerInv, ShownOk
  <1> QED BY <1>1, <1>2, <1>4, QuietStep

(* Somebody changes the input, or an output.                               *)
LEMMA EditStep ==
  ASSUME RunnerInv,
         \/ \E content \in Inputs : EditSource(content)
         \/ \E s \in Stages, content \in Outputs : Edit(s, content)
  PROVE  RunnerInv' /\ StoreStep
  <1>1. source' \in Inputs /\ files' \in [Stages -> Outputs \cup {"none"}] /\ UNCHANGED <<store, shown, inst>>
    BY DEF RunnerInv, EditSource, Edit
  <1> QED BY <1>1 DEF RunnerInv, StoreStep, Passed

-----------------------------------------------------------------------------
(* Recovery.                                                               *)

(* The recovery anchor is an attempt that has begun: the first of a stage, *)
(* of which every stage that has begun has one.                            *)
LEMMA AnchorBegun ==
  ASSUME NEW ev \in Seq(EventType), HistoryInv(ev), ev # << >>
  PROVE  Anchor(ev) \in Begun(ev)
  <1> DEFINE Named(n) == \E id \in Begun(ev) : id[1] = NameOrder[n]
             S == {n \in 1..10 : Named(n)}
             First(n) == /\ \E id \in Begun(ev) : id[1] = NameOrder[n]
                         /\ \A m \in 1..(n - 1) : \A id \in Begun(ev) : id[1] # NameOrder[m]
  <1>1. DOMAIN NameOrder = 1..10
    BY DEF NameOrder
  <1>2. PICK old \in Begun(ev) : old[1] \in Stages
    <2>1. Id(ev[1]) \in Begun(ev) /\ Begun(ev) \subseteq Attempts
      BY HistoryFacts, EmptySeq DEF HistoryInv, OfAttempts
    <2> QED BY <2>1 DEF Attempts
  <1>3. \A s \in 1..10 : \E n \in 1..10 : NameOrder[n] = s
    <2>1. ASSUME NEW s \in 1..10 PROVE \E n \in 1..10 : NameOrder[n] = s
      <3>1. s \in {1, 2, 3, 4, 5, 6, 7, 8, 9, 10}
        OBVIOUS
      <3>2. /\ NameOrder[1] = 4 /\ NameOrder[2] = 1 /\ NameOrder[3] = 9 /\ NameOrder[4] = 10
            /\ NameOrder[5] = 8 /\ NameOrder[6] = 5 /\ NameOrder[7] = 7 /\ NameOrder[8] = 2
            /\ NameOrder[9] = 3 /\ NameOrder[10] = 6
        BY DEF NameOrder
      <3> QED BY <3>1, <3>2
    <2> QED BY <2>1
  <1>4. S \in SUBSET Nat /\ S # {}
    <2>1. old[1] \in 1..10
      BY <1>2, RunnerAssumption DEF Stages
    <2>2. PICK n \in 1..10 : NameOrder[n] = old[1]
      BY <1>3, <2>1
    <2>3. Named(n)
      BY <2>2
    <2>4. n \in S
      BY <2>3
    <2> QED BY <2>4
  <1>5. PICK n \in S : \A m \in S : n <= m
    <2> HIDE DEF S
    <2> QED BY <1>4, Least
  <1>6. n \in DOMAIN NameOrder /\ First(n)
    BY <1>1, <1>5
  <1>7. PICK k \in DOMAIN NameOrder : First(k) /\ Anchor(ev) = <<NameOrder[k], 1, 1>>
    BY <1>6 DEF Anchor
  <1>8. PICK id \in Begun(ev) : id[1] = NameOrder[k]
    BY <1>7
  <1> QED BY <1>7, <1>8 DEF HistoryInv, Numbered

(* What recovery makes of a store: blocks of attempts that have begun.     *)
LEMMA RecoveredFacts ==
  ASSUME RunnerInv
  PROVE  StoreInv(Recovered) /\ Kept(store, Recovered)
  <1> DEFINE ev == store.events
             first == IF Interrupted THEN InsertBlock(store, Candidate, "retry") ELSE store
             id == IF Interrupted THEN Candidate ELSE Anchor(ev)
             second == IF Unprojected THEN InsertBlock(first, id, "final") ELSE first
             oldest == CHOOSE n \in Missing : \A m \in Missing : n <= m
             third == IF Missing = {} THEN second ELSE InsertBlock(second, Id(ev[oldest]), "final")
  <1>1. ev \in Seq(EventType) /\ StoreInv(store) /\ HistoryInv(ev) /\ Kept(store, store)
    BY HistoryFacts DEF RunnerInv, StoreInv, StoreType, Kept
  <1>2. Interrupted => Candidate \in Begun(ev)
    BY DEF Interrupted, Candidate, BeginOnly
  <1>3. StoreInv(first) /\ Kept(store, first)
    BY <1>1, <1>2, BlockFacts
  <1> HIDE DEF first
  <1>4. StoreInv(second) /\ Kept(store, second)
    <2>1. Unprojected => id \in Begun(ev)
      BY <1>1, <1>2, AnchorBegun DEF Unprojected
    <2> HIDE DEF id
    <2>2. Unprojected => StoreInv(second) /\ Kept(first, second)
      BY <1>3, <2>1, BlockFacts DEF Kept
    <2> QED BY <1>3, <2>2 DEF Kept
  <1> HIDE DEF second
  <1>5. StoreInv(third) /\ Kept(store, third)
    <2>1. CASE Missing = {}
      BY <1>4, <2>1
    <2>2. CASE Missing # {}
      <3>1. Missing \in SUBSET Nat /\ Missing \subseteq DOMAIN ev
        BY <1>1, HistoryFacts DEF Missing
      <3>2. oldest \in Missing
        <4>1. \E n \in Missing : \A m \in Missing : n <= m
          BY <2>2, <3>1, Least
        <4> QED BY <4>1
      <3>3. Id(ev[oldest]) \in Begun(ev)
        BY <1>1, <3>1, <3>2 DEF HistoryInv, OfAttempts
      <3> HIDE DEF oldest
      <3>4. StoreInv(third) /\ Kept(second, third)
        BY <1>4, <2>2, <3>3, BlockFacts DEF Kept
      <3> QED BY <1>4, <3>4 DEF Kept
    <2> QED BY <2>1, <2>2
  <1>6. Recovered = third
    BY DEF Recovered, first, second
  <1> HIDE DEF third
  <1> QED BY <1>5, <1>6

(* A new object with recover.                                              *)
LEMMA RecoverStep ==
  ASSUME RunnerInv, NEW p \in Procs, OpenRecovering(p)
  PROVE  RunnerInv' /\ StoreStep
  <1>1. CASE Valid(store)
    <2>1. /\ Write(Recovered) /\ UNCHANGED disk
          /\ Todo(p, "safely", NoTodo.id) \/ UNCHANGED inst
      BY <1>1 DEF OpenRecovering
    <2>2. StoreInv(Recovered) /\ Kept(store, Recovered)
      BY RecoveredFacts
    <2>3. ObjectsOk(inst', Recovered.events)
      BY <2>1, <2>2, NewObjectTyped, ObjectFacts DEF RunnerInv, Kept
    <2> QED BY <2>1, <2>2, <2>3, KeptStep
  <1>2. CASE ~Valid(store)
    <2>1. store' = [store EXCEPT !.blocked = "final"] /\ UNCHANGED <<shown, inst, disk>>
      BY <1>2 DEF OpenRecovering
    <2>2. /\ store' \in StoreType /\ store'.events = store.events
          /\ store'.accepted = store.accepted /\ store'.blocked = "final"
      BY <2>1 DEF RunnerInv, StoreInv, StoreType
    <2>3. StoreInv(store')
      BY <2>2 DEF RunnerInv, StoreInv, MetadataInv
    <2> QED BY <2>1, <2>2, <2>3 DEF RunnerInv, StoreStep, Passed, disk
  <1> QED BY <1>1, <1>2

-----------------------------------------------------------------------------
(* The runner.                                                             *)

(* At the start nothing has begun.                                         *)
LEMMA RunnerInit == Init => RunnerInv
  <1> SUFFICES ASSUME Init PROVE RunnerInv
    OBVIOUS
  <1>1. /\ store = [events |-> << >>, accepted |-> TRUE, blocked |-> "none"]
        /\ shown = [store |-> TRUE, records |-> 0]
        /\ source \in Inputs /\ files = [s \in Stages |-> "none"]
        /\ inst = [p \in Procs |-> NewObject]
    BY DEF Init
  <1>2. << >> \in Seq(EventType) /\ Len(<< >>) = 0
    BY EmptySeq
  <1>3. store \in StoreType /\ store.events = << >> /\ store.accepted /\ store.blocked = "none"
    BY <1>1, <1>2 DEF StoreType
  <1> DEFINE ev == store.events
  <1>4. DOMAIN ev = {}
    BY <1>2, <1>3
  <1>5. /\ \A a : At(ev, a) = {}
        /\ Begun(ev) = {} /\ PassedIn(ev) = {} /\ ~Terminal(ev)
        /\ \A s : Begins(ev, s) = {}
    <2>1. \A a : At(ev, a) = {}
      BY <1>4 DEF At
    <2> HIDE DEF ev
    <2> QED BY <2>1 DEF Begun, PassedIn, Terminal, Begins
  <1>6. HistoryOk(ev)
    BY <1>4 DEF HistoryOk
  <1>7. Cardinality({}) = 0
    BY FS_EmptySet
  <1> HIDE DEF ev
  <1>8. HistoryInv(ev)
    <2>1. CurrentStage(ev) = 1
      BY <1>5, <1>7 DEF CurrentStage
    <2>2. PassedIn(ev) = 1..(CurrentStage(ev) - 1)
      BY <1>5, <2>1
    <2> QED BY <1>4, <1>5, <2>2
        DEF HistoryInv, OfAttempts, Numbered, Superseded, InOrder, PassedByLatest
  <1>9. StoreInv(store)
    BY <1>3, <1>5, <1>6, <1>8 DEF StoreInv, MetadataInv, ev
  <1>10. Cardinality(At(ev, "begin")) <= MaxAttempts
    BY <1>5, <1>7, RunnerAssumption
  <1>11. ShownOk(shown, ev)
    BY <1>1, <1>2, <1>3 DEF ShownOk, ev
  <1>12. ObjectsOk(inst, ev)
    BY <1>1, NewObjectTyped DEF ObjectsOk
  <1> QED BY <1>1, <1>9, <1>10, <1>11, <1>12 DEF RunnerInv, ev

(* Every step of every process keeps the invariant, and does to the        *)
(* attempts and the passed stages only what StoreStep allows.              *)
LEMMA RunnerStep == RunnerInv /\ [Next]_vars => RunnerInv' /\ (StoreStep \/ UNCHANGED store)
  <1> SUFFICES ASSUME RunnerInv, [Next]_vars PROVE RunnerInv' /\ (StoreStep \/ UNCHANGED store)
    OBVIOUS
  <1>1. CASE UNCHANGED vars
    BY <1>1 DEF vars, RunnerInv, StoreInv, HistoryInv, MetadataInv, ShownOk, ObjectsOk
  <1>2. ASSUME NEW p \in Procs, Begin(p) PROVE RunnerInv' /\ StoreStep
    BY <1>2, BeginStep
  <1>3. ASSUME NEW p \in Procs, Refresh(p) \/ RefreshFails(p) PROVE RunnerInv' /\ StoreStep
    BY <1>3, RefreshStep
  <1>4. ASSUME NEW p \in Procs, OpenRecovering(p) PROVE RunnerInv' /\ StoreStep
    BY <1>4, RecoverStep
  <1>5. ASSUME NEW p \in Procs, Crash(p) PROVE RunnerInv' /\ StoreStep
    BY <1>5, CrashStep
  <1>6. ASSUME NEW p \in Procs, NEW id \in Unblocked(store.events),
               Misplaced(p, id) \/ RecordGateUnattested(p, id)
        PROVE  RunnerInv' /\ StoreStep
    <2>1. Reject(p, id) /\ id \in Begun(store.events)
      BY <1>6 DEF Misplaced, RecordGateUnattested, Unblocked
    <2> QED BY <2>1, BlockStep
  <1>7. ASSUME NEW p \in Procs, NEW id \in Unblocked(store.events),
               NEW outcome \in {"ok", "failed", "malformed"}, RecordResult(p, id, outcome)
        PROVE  RunnerInv' /\ StoreStep
    BY <1>7, ResultStep
  <1>8. ASSUME NEW p \in Procs, NEW id \in Unblocked(store.events), NEW passed \in BOOLEAN,
               Attest(p, id, passed)
        PROVE  RunnerInv' /\ StoreStep
    BY <1>8, AttestStep
  <1>9. ASSUME NEW p \in Procs, NEW id \in Unblocked(store.events), RecordGate(p, id)
        PROVE  RunnerInv' /\ StoreStep
    BY <1>9, GateStep
  <1>10. ASSUME NEW p \in Procs, NEW id \in Unblocked(store.events), Advance(p, id)
         PROVE  RunnerInv' /\ StoreStep
    BY <1>10, AdvanceStep
  <1>11. ASSUME \/ \E content \in Inputs : EditSource(content)
                \/ \E s \in Stages, content \in Outputs : Edit(s, content)
         PROVE  RunnerInv' /\ StoreStep
    BY <1>11, EditStep
  <1> QED BY <1>1, <1>2, <1>3, <1>4, <1>5, <1>6, <1>7, <1>8, <1>9, <1>10, <1>11, Zenon DEF Next

(* The invariant holds in every reachable state: the events of all         *)
(* processes together form the history StoreInv describes.                 *)
THEOREM RunnerInvariance == Spec => []RunnerInv
  BY RunnerInit, RunnerStep, PTL DEF Spec

(* Every event is of an attempt within the bounds, a begin raises the      *)
(* revision or the attempt by one, the stored verdict is the one the       *)
(* replay of the whole history gives, and the projections never run ahead  *)
(* of the store.                                                           *)
THEOREM RunnerTypeCorrect == Spec => []TypeOK
  <1>1. RunnerInv => TypeOK
    <2> SUFFICES ASSUME RunnerInv PROVE TypeOK
      OBVIOUS
    <2>1. /\ store \in StoreType /\ DOMAIN store = {"events", "accepted", "blocked"}
          /\ store.events \in Seq(EventType) /\ store.blocked \in {"none", "retry", "final"}
      BY DEF RunnerInv, StoreInv, StoreType
    <2>2. \A n \in DOMAIN store.events :
            /\ store.events[n].action \in Actions /\ Id(store.events[n]) \in IdType
            /\ store.events[n].rev + store.events[n].att <= Cardinality(At(store.events, "begin")) + 1
            /\ store.events[n].ok \in BOOLEAN
            /\ store.events[n].data \in Inputs \cup Outputs \cup {"none"}
      <3>1. \A n \in DOMAIN store.events : Id(store.events[n]) \in Begun(store.events)
        BY DEF RunnerInv, StoreInv, HistoryInv, OfAttempts
      <3>2. \A n \in DOMAIN store.events : store.events[n] \in EventType
        BY <2>1, HistoryFacts
      <3> QED BY <3>1, <3>2, BegunTyped DEF EventType, Contents, Id
    <2>3. store.accepted = HistoryOk(store.events)
      <3>1. store.accepted \in BOOLEAN /\ (store.accepted <=> HistoryOk(store.events))
        BY <2>1 DEF RunnerInv, StoreInv, StoreType
      <3>2. CASE HistoryOk(store.events)
        BY <3>1, <3>2 DEF HistoryOk
      <3>3. CASE ~HistoryOk(store.events)
        BY <3>1, <3>3 DEF HistoryOk
      <3> QED BY <3>2, <3>3
    <2>4. shown.store \in BOOLEAN /\ shown.records \in 0..Len(store.events)
      <3>1. Len(store.events) \in Nat
        BY <2>1, HistoryFacts
      <3> QED BY <3>1 DEF RunnerInv, ShownOk
    <2>5. \A p \in Procs : /\ inst[p].ver.id \in IdType /\ inst[p].todo.id \in IdType
                           /\ inst[p].todo.kind \in {"none", "safely", "orBlock"}
      BY DEF RunnerInv, ObjectsOk, ObjectType
    <2> QED BY <2>1, <2>2, <2>3, <2>4, <2>5 DEF RunnerInv, TypeOK
  <1> QED BY <1>1, RunnerInvariance, PTL

(* Whatever calls the processes make, and in whatever order, the replay    *)
(* accepts the events they wrote, up to the block that ended the run.      *)
THEOREM HistoryStaysAccepted == Spec => []LiveHistoryAccepted
  <1>1. RunnerInv => LiveHistoryAccepted
    BY DEF RunnerInv, StoreInv, MetadataInv, LiveHistoryAccepted
  <1> QED BY <1>1, RunnerInvariance, PTL

(* Metadata without a block stands over stages none of whose latest        *)
(* attempts is blocked.                                                    *)
THEOREM BlocksAreReflected == Spec => []BlockReflected
  <1>1. RunnerInv => BlockReflected
    BY DEF RunnerInv, StoreInv, MetadataInv, BlockReflected
  <1> QED BY <1>1, RunnerInvariance, PTL

(* No two attempts of the run are open: one that is neither blocked nor    *)
(* advanced is the latest of the current stage.                            *)
THEOREM AttemptsAreSettled == Spec => []OneOpenAttempt
  <1>1. RunnerInv => OneOpenAttempt
    <2> SUFFICES ASSUME RunnerInv PROVE OneOpenAttempt
      OBVIOUS
    <2> DEFINE ev == store.events
               k == CurrentStage(ev)
               U == Unsettled(ev)
    <2>1. ev \in Seq(EventType) /\ HistoryInv(ev)
      BY DEF RunnerInv, StoreInv, StoreType
    <2>2. k \in Nat \ {0} /\ PassedIn(ev) = 1..(k - 1)
      BY <2>1, HistoryFacts DEF HistoryInv, InOrder
    <2>3. ASSUME NEW id \in U PROVE id = Id(Latest(ev, k))
      <3>1. id \in Begun(ev) /\ ~Has(ev, id, "block") /\ ~Has(ev, id, "advance")
        BY DEF Unsettled
      <3>2. Id(Latest(ev, id[1])) = id
        BY <2>1, <3>1 DEF HistoryInv, Superseded, IsLatest
      <3>3. id[1] \notin PassedIn(ev)
        BY <2>1, <3>1, <3>2 DEF HistoryInv, PassedByLatest
      <3>4. id[1] <= k /\ id[1] \in Nat \ {0}
        BY <2>1, <3>1, BegunTyped, RunnerAssumption DEF HistoryInv, InOrder, Stages
      <3> HIDE DEF k
      <3>5. id[1] = k
        BY <2>2, <3>3, <3>4
      <3> QED BY <3>2, <3>5
    <2> HIDE DEF U, ev, k
    <2>4. U = {} \/ U = {Id(Latest(ev, k))}
      BY <2>3
    <2>5. Cardinality(U) <= 1
      <3>1. Cardinality({}) = 0 /\ \A x : Cardinality({x}) = 1
        BY FS_EmptySet, FS_Singleton, Zenon
      <3>2. Cardinality(U) = 0 \/ Cardinality(U) = 1
        BY <2>4, <3>1, Zenon
      <3> QED BY <3>2
    <2> QED BY <2>5 DEF OneOpenAttempt, U, ev
  <1> QED BY <1>1, RunnerInvariance, PTL

(* A stage passes only by an advance over the passing gate of its latest,  *)
(* unblocked attempt, on the inputs that attempt began with and over       *)
(* gated outputs that stand as their gates saw them.                       *)
THEOREM PassesRestOnEvidence == Spec => PassRestsOnEvidence
  <1>1. RunnerInv /\ [Next]_vars =>
          [\A s \in PassedIn(store'.events) \ Passed :
             RestsOnEvidence(store'.events, Id(Latest(store'.events, s)))]_store
    BY RunnerStep DEF StoreStep, Passes, RestsOnEvidence
  <1> QED BY <1>1, RunnerInvariance, PTL DEF Spec, PassRestsOnEvidence

(* Once an attempt is blocked after its advance, no attempt begins and no  *)
(* stage passes any more, whoever holds an object over the store.          *)
THEOREM BlockedPassEndsTheRun == Spec => TerminalIsFinal
  <1>1. RunnerInv /\ [Next]_vars =>
          [Terminal(store.events) =>
             Begun(store'.events) = Begun(store.events) /\ PassedIn(store'.events) = Passed]_store
    BY RunnerStep DEF StoreStep, Passes
  <1> QED BY <1>1, RunnerInvariance, PTL DEF Spec, TerminalIsFinal

(* The runner implements the stage gates of the planning package, without  *)
(* revocation.                                                             *)
THEOREM RunnerRefinesGates == Spec => ImplementsGates
  <1>1. Init => Gates!Init
    BY DEF Init, Gates!Init, Passed, PassedIn, At
  <1>2. RunnerInv /\ [Next]_vars => [Gates!Next]_Passed
    <2> SUFFICES ASSUME RunnerInv, [Next]_vars, Passed' # Passed PROVE Gates!Next
      BY DEF Passed
    <2>1. PICK id \in Begun(store.events) : Passes(id)
      BY RunnerStep DEF StoreStep, Passed
    <2> DEFINE k == CurrentStage(store.events)
    <2>2. k \in Nat \ {0} /\ Passed = 1..(k - 1)
      BY HistoryFacts DEF RunnerInv, StoreInv, StoreType, HistoryInv, InOrder, Passed
    <2>3. k \in Stages /\ Passed' = Passed \cup {k}
      BY <2>1 DEF Passes, Passed
    <2> HIDE DEF k
    <2>4. k \notin Passed
      BY <2>2
    <2>5. Gates!Pass(k)
      BY <2>2, <2>3, <2>4 DEF Gates!Pass
    <2> QED BY <2>3, <2>5 DEF Gates!Next, Gates!Stages, Stages
  <1> QED BY <1>1, <1>2, RunnerInvariance, PTL DEF Spec, ImplementsGates, Gates!Spec
=============================================================================
