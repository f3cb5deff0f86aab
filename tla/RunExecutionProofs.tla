-------------------------- MODULE RunExecutionProofs -------------------------
(* Proofs about RunExecution under free use: its callers keep no           *)
(* discipline, hosts start, die and start again, and any cursor ever       *)
(* handed out is offered again.                                            *)
EXTENDS RunExecution, StageCursorProofs

Image == Restored(journal).image

(* A live cursor sits in the slot of its stage.                            *)
Slotted(m) == \A s \in Stage : Live(m.cursors[s]) => m.cursors[s].stage = s

(* A decision between its check and its line stands where the check left   *)
(* it: the host's own memory has not moved since.                          *)
StandsWhereAsked(h) ==
  consuming[h] # NoDecision =>
    /\ Running(h)
    /\ consuming[h].request \in Requests
    /\ consuming[h].decision \in Decisions
    /\ LET asked == journal[consuming[h].request].cursor IN
       /\ Live(mem[h].cursors[asked.stage])
       /\ mem[h].cursors[asked.stage].rev = asked.rev
       /\ mem[h].cursors[asked.stage].att = asked.att

(* What every host and the disk satisfy, whoever else writes.              *)
FreeInv ==
  /\ TypeOK
  /\ Image \in MemoryType /\ Slotted(Image)
  /\ \A h \in Hosts : Running(h) => Slotted(mem[h])
  /\ \A i \in DOMAIN journal : journal[i].cursor.stage \in Stage
  /\ \A h \in Hosts : \A c \in held[h] : c.stage \in Stage
  /\ \A h \in Hosts : StandsWhereAsked(h)

(* One object has written whatever there is.                               *)
OneWriter ==
  /\ starts = 0 => /\ journal = << >> /\ minted = << >>
                   /\ \A h \in Hosts : ~Running(h)
  /\ starts <= 1 => \A g, h \in Hosts : Running(g) /\ Running(h) => g = h

(* No serial in use is above the counter of m, and no live cursor of m is  *)
(* one that a revision on disk invalidated.                                *)
Ahead(m) ==
  /\ \A t \in Stage, i \in DOMAIN journal :
       Live(m.cursors[t]) /\ journal[i].state = CursorOpened /\ journal[i].cursor.stage < t
         => journal[i].cursor.serial < m.cursors[t].serial
  /\ \A i \in DOMAIN journal : journal[i].state = CursorOpened => journal[i].cursor.serial <= m.serial
  /\ \A i \in DOMAIN minted : minted[i].serial <= m.serial

FenceInv ==
  /\ OneWriter
  /\ LiveFence
  /\ LiveSerials
  /\ starts <= 1 => \A h \in Hosts : Running(h) => Ahead(mem[h])

(* One process at a time uses the run, and none of its records goes to a   *)
(* blob.                                                                   *)
OneHost    == \A g, h \in Hosts : g = h
InlineOnly == Payloads \subseteq {"inline"}

(* m knows every position on disk and has used every serial there.         *)
Covers(m) ==
  /\ \A i \in DOMAIN journal :
       /\ PositionKey(journal[i].cursor, journal[i].state) \in m.positions
       /\ journal[i].cursor.serial <= m.serial
  /\ \A t \in Stage : m.cursors[t].serial <= m.serial

RepeatInv ==
  /\ OneHost /\ InlineOnly
  /\ PositionsJournalledOnce
  /\ \A i \in DOMAIN journal : journal[i].payload = "inline"
  /\ Covers(Image)
  /\ \A h \in Hosts : Running(h) => Covers(mem[h])

(* Requests and decisions of a run one host uses.                          *)
AskInv ==
  /\ OneHost
  /\ \A i \in DOMAIN journal : journal[i].request # 0 => journal[i].request \in Requests
  /\ \A i, j \in Pending : i = j
  /\ DecisionsBound
  /\ \A h \in Hosts : consuming[h] # NoDecision => consuming[h].request \notin Consumed

------------------------------------------------------------------------------
(* The memories and the journal.                                           *)

(* An object that runs has a memory.                                       *)
LEMMA RunningMemory ==
  ASSUME TypeOK, NEW h \in Hosts
  PROVE  Running(h) <=> mem[h] \in MemoryType
  <1>1. mem[h] \in MemoryType \cup {NotRunning}
    BY DEF TypeOK
  <1>2. mem[h] \in MemoryType => mem[h].serial \in Nat
    BY MemoryFields
  <1>3. -1 \notin Nat /\ NotRunning.serial = -1
    BY DEF NotRunning
  <1> QED BY <1>1, <1>2, <1>3 DEF Running

(* An empty memory has no cursor, no position and no serial.               *)
LEMMA EmptyFacts ==
  /\ EmptyMemory \in MemoryType /\ Slotted(EmptyMemory)
  /\ \A s \in Stage : ~Live(EmptyMemory.cursors[s]) /\ EmptyMemory.cursors[s].serial = 0
  /\ EmptyMemory.serial = 0
  <1>1. [s \in Stage |-> NoCursor] \in [Stage -> CursorType]
    BY CursorFields
  <1>2. EmptyMemory \in MemoryType
    BY <1>1 DEF EmptyMemory, MemoryType, NoDigest
  <1>3. \A s \in Stage : EmptyMemory.cursors[s] = NoCursor
    BY DEF EmptyMemory
  <1> QED BY <1>2, <1>3, CursorFields DEF EmptyMemory, Slotted

(* begin_revision of a stage without a cursor, begin_attempt, begin_revision *)
(* of a live stage and record_stage, as far as cursors and serials go.     *)
LEMMA OpenFacts ==
  ASSUME NEW m \in MemoryType, NEW s \in Stage, Slotted(m),
         NEW m2 \in {FirstOpen(m, s), NextAttempt(m, s), Bump(m, s)}
  PROVE  /\ m2 \in MemoryType /\ Slotted(m2)
         /\ m2.serial = m.serial + 1 /\ m2.cursors[s].serial = m.serial + 1
         /\ m2.cursors[s] \in CursorType /\ m2.cursors[s].stage = s
         /\ \A t \in Stage \ {s} : m2.cursors[t] = m.cursors[t] \/ m2.cursors[t] = NoCursor
         /\ m.positions \subseteq m2.positions
  <1>1. /\ m.cursors \in [Stage -> CursorType] /\ m.serial \in Nat
        /\ DropLater(m.cursors, s) \in [Stage -> CursorType]
        /\ \A t \in Stage : DropLater(m.cursors, s)[t] \in {m.cursors[t], NoCursor}
    BY MemoryFields, DropLaterType
  <1>2. CASE m2 = FirstOpen(m, s)
    <2>1. m2 \in MemoryType
      BY <1>2, FirstOpenType
    <2>2. /\ m2.cursors = [m.cursors EXCEPT ![s] = RevisedCursor(m, s)]
          /\ m2.serial = m.serial + 1 /\ m2.positions = m.positions
      BY <1>2 DEF FirstOpen
    <2> QED BY <1>1, <2>1, <2>2, RevisedCursorType DEF Slotted
  <1>3. CASE m2 = NextAttempt(m, s)
    <2> DEFINE c == NewCursor(m, s, m.cursors[s].rev, m.cursors[s].att + 1)
    <2>1. m2 \in MemoryType
      BY <1>3, NextAttemptType
    <2>2. /\ m2.cursors = [m.cursors EXCEPT ![s] = c]
          /\ m2.serial = m.serial + 1 /\ m2.positions = m.positions
      BY <1>3 DEF NextAttempt
    <2>3. c.stage = s /\ c.serial = m.serial + 1
      BY DEF NewCursor
    <2> HIDE DEF c
    <2>4. m2.cursors[s] = c /\ m2.cursors[s] \in CursorType
      BY <1>1, <2>1, <2>2, MemoryFields
    <2> QED BY <1>1, <2>1, <2>2, <2>3, <2>4 DEF Slotted
  <1>4. CASE m2 = Bump(m, s)
    <2>1. m2 \in MemoryType
      BY <1>4, BumpType
    <2>2. /\ m2.cursors = [DropLater(m.cursors, s) EXCEPT ![s] = RevisedCursor(m, s)]
          /\ m2.serial = m.serial + 1 /\ m.positions \subseteq m2.positions
      BY <1>4 DEF Bump
    <2> QED BY <1>1, <2>1, <2>2, RevisedCursorType, CursorFields DEF Slotted
  <1> QED BY <1>2, <1>3, <1>4

(* record_stage moves one cursor along and gives it no other serial.       *)
LEMMA RecordFacts ==
  ASSUME NEW m \in MemoryType, NEW c \in CursorType, c.stage \in Stage, Slotted(m),
         NEW state \in EvidenceState, NEW n \in Nat, Recordable(m, c, state)
  PROVE  /\ Recorded(m, c, state, n) \in MemoryType /\ Slotted(Recorded(m, c, state, n))
         /\ Recorded(m, c, state, n).serial = m.serial
         /\ Recorded(m, c, state, n).positions = m.positions \cup {PositionKey(c, state)}
         /\ \A t \in Stage :
              /\ Live(Recorded(m, c, state, n).cursors[t]) <=> Live(m.cursors[t])
              /\ Recorded(m, c, state, n).cursors[t].serial = m.cursors[t].serial
         /\ Live(m.cursors[c.stage]) /\ c.serial = m.cursors[c.stage].serial
         /\ PositionKey(c, state) \notin m.positions
  <1> DEFINE m2 == Recorded(m, c, state, n)
  <1>1. m2 \in MemoryType
    BY RecordedType
  <1>2. /\ m2.cursors = [m.cursors EXCEPT ![c.stage] = Advance(c, n)] /\ m2.serial = m.serial
        /\ m2.positions = m.positions \cup {PositionKey(c, state)}
    BY DEF Recorded
  <1>3. m.cursors \in [Stage -> CursorType]
    BY MemoryFields
  <1>4. Advance(c, n).stage = c.stage /\ Advance(c, n).serial = c.serial /\ Advance(c, n).rev = c.rev
    BY DEF Advance
  <1>5. Live(m.cursors[c.stage]) /\ c.serial = m.cursors[c.stage].serial /\ c.rev = m.cursors[c.stage].rev
        /\ PositionKey(c, state) \notin m.positions
    BY DEF Recordable
  <1> HIDE DEF m2
  <1>6. Slotted(m2) /\ \A t \in Stage : /\ Live(m2.cursors[t]) <=> Live(m.cursors[t])
                                        /\ m2.cursors[t].serial = m.cursors[t].serial
    BY <1>2, <1>3, <1>4, <1>5 DEF Slotted, Live
  <1> QED BY <1>1, <1>2, <1>5, <1>6 DEF m2

(* A line replayed: the image stays a memory, takes the position in and    *)
(* the serial over.                                                        *)
LEMMA ReplayFacts ==
  ASSUME NEW m \in MemoryType, NEW c \in CursorType, c.stage \in Stage, Slotted(m),
         NEW state \in EvidenceState \cup {CursorOpened}, NEW n \in Nat
  PROVE  /\ Replay(m, c, state, n) \in MemoryType /\ Slotted(Replay(m, c, state, n))
         /\ Replay(m, c, state, n).serial >= m.serial
         /\ Replay(m, c, state, n).serial >= c.serial
         /\ Replay(m, c, state, n).positions = m.positions \cup {PositionKey(c, state)}
         /\ \A t \in Stage : Replay(m, c, state, n).cursors[t].serial
                               \in {m.cursors[t].serial, c.serial, 0}
  <1> DEFINE r == Replay(m, c, state, n)
             live == IF state = CursorOpened THEN c ELSE Advance(c, n)
  <1>1. r \in MemoryType
    BY ReplayType
  <1>2. /\ m.cursors \in [Stage -> CursorType] /\ m.serial \in Nat /\ c.serial \in Nat
        /\ DropLater(m.cursors, c.stage) \in [Stage -> CursorType]
        /\ \A t \in Stage : DropLater(m.cursors, c.stage)[t] \in {m.cursors[t], NoCursor}
    BY MemoryFields, DropLaterType, CursorFields
  <1>3. live.stage = c.stage /\ live.serial = c.serial
    BY DEF Advance
  <1>4. /\ r.serial = IF c.serial > m.serial THEN c.serial ELSE m.serial
        /\ r.positions = m.positions \cup {PositionKey(c, state)}
    BY DEF Replay
  <1>5. r.cursors \in {m.cursors, [m.cursors EXCEPT ![c.stage] = live],
                       [DropLater(m.cursors, c.stage) EXCEPT ![c.stage] = live]}
    BY DEF Replay
  <1> HIDE DEF r, live
  <1>6. \A t \in Stage : r.cursors[t] \in {m.cursors[t], NoCursor} \/ (t = c.stage /\ r.cursors[t] = live)
    BY <1>2, <1>5
  <1>7. Slotted(r) /\ \A t \in Stage : r.cursors[t].serial \in {m.cursors[t].serial, c.serial, 0}
    BY <1>3, <1>6, CursorFields DEF Slotted
  <1>8. r.serial >= m.serial /\ r.serial >= c.serial
    BY <1>2, <1>4
  <1> QED BY <1>1, <1>4, <1>7, <1>8 DEF r

(* Records keep their place when one is added.                             *)
LEMMA AppendRecord ==
  ASSUME NEW q \in Seq(RecordType), NEW e \in RecordType
  PROVE  /\ Append(q, e) \in Seq(RecordType)
         /\ Len(Append(q, e)) = Len(q) + 1 /\ Len(q) \in Nat /\ Len(q) + 1 \in Nat
         /\ DOMAIN q = 1..Len(q) /\ DOMAIN Append(q, e) = DOMAIN q \cup {Len(q) + 1}
         /\ Len(q) + 1 \notin DOMAIN q /\ \A i \in DOMAIN q : i < Len(q) + 1 /\ i \in Nat \ {0}
         /\ \A i \in DOMAIN q : Append(q, e)[i] = q[i]
         /\ Append(q, e)[Len(q) + 1] = e
  OBVIOUS

(* A record has a cursor and a state.                                      *)
LEMMA RecordFields ==
  ASSUME NEW e \in RecordType
  PROVE  /\ e.cursor \in CursorType /\ e.state \in EvidenceState \cup {CursorOpened}
         /\ e.request \in Nat /\ e.payload \in {"inline", "oversized"}
         /\ e.cursor.serial \in Nat /\ e.cursor.rev \in Nat /\ e.cursor.att \in Nat
         /\ e.cursor.stage \in Nat
  BY CursorFields DEF RecordType

(* What restore_cursors makes of a journal with one more line.             *)
LEMMA RestoredAppend ==
  ASSUME NEW q \in Seq(RecordType), NEW e \in RecordType
  PROVE  Restored(Append(q, e)) = IF e.payload = "oversized" THEN Restored(q)
                                  ELSE RestoreLine(Restored(q), e, Len(q) + 1)
  <1> DEFINE p == Append(q, e)
             C(log) == {i \in DOMAIN log : log[i].payload # "oversized"}
  <1>1. /\ Len(p) = Len(q) + 1 /\ Len(q) \in Nat /\ p[Len(q) + 1] = e
        /\ \A i \in 1..Len(q) : p[i] = q[i]
        /\ DOMAIN p = 1..(Len(q) + 1) /\ DOMAIN q = 1..Len(q)
    OBVIOUS
  <1> HIDE DEF p
  <1>2. \A n \in 1..Len(q) : n \in C(p) <=> n \in C(q)
    BY <1>1
  <1>3. Len(q) + 1 \in C(p) <=> e.payload # "oversized"
    BY <1>1
  <1>4. Restored(p) = RestoreCursors(p, C(p)) /\ Restored(q) = RestoreCursors(q, C(q))
    BY DEF Restored
  <1> HIDE DEF C
  <1>5. Restored(p) = AfterLine(Restored(q), p, C(p), Len(q) + 1)
    BY <1>1, <1>2, <1>4, RestoreAppend
  <1>6. Restored(p) = IF e.payload = "oversized" THEN Restored(q)
                      ELSE RestoreLine(Restored(q), e, Len(q) + 1)
    BY <1>1, <1>3, <1>5 DEF AfterLine
  <1> QED BY <1>6 DEF p

(* Of an empty journal it makes an empty memory.                           *)
LEMMA RestoredNothing == Restored(<< >>).image = EmptyMemory
  BY RestoreNothing DEF Restored, Blank

------------------------------------------------------------------------------
(* FreeInv: what holds whoever calls what.                                 *)

(* The image after one more line.                                          *)
LEMMA ImageAppend ==
  ASSUME FreeInv, NEW e \in RecordType, e.cursor.stage \in Stage, journal' = Append(journal, e)
  PROVE  /\ Image' \in MemoryType /\ Slotted(Image')
         /\ e.payload = "oversized" => Image' = Image
         /\ e.payload = "inline" =>
              /\ Image'.serial >= Image.serial /\ Image'.serial >= e.cursor.serial
              /\ Image'.positions = Image.positions \cup {PositionKey(e.cursor, e.state)}
              /\ \A t \in Stage : Image'.cursors[t].serial
                                    \in {Image.cursors[t].serial, e.cursor.serial, 0}
  <1>1. journal \in Seq(RecordType) /\ Image \in MemoryType /\ Slotted(Image)
    BY DEF FreeInv, TypeOK
  <1>2. Restored(journal') = IF e.payload = "oversized" THEN Restored(journal)
                             ELSE RestoreLine(Restored(journal), e, Len(journal) + 1)
    BY <1>1, RestoredAppend
  <1>3. CASE e.payload = "oversized"
    BY <1>1, <1>2, <1>3 DEF Image
  <1>4. CASE e.payload = "inline"
    <2> DEFINE n == Len(journal) + 1
    <2>1. n \in Nat
      BY <1>1, AppendRecord
    <2>2. Image' = Replay(Image, e.cursor, e.state, n)
      BY <1>2, <1>4, RestoreLineFields DEF Image
    <2>3. e.cursor \in CursorType /\ e.state \in EvidenceState \cup {CursorOpened}
      BY RecordFields
    <2> HIDE DEF n
    <2> DEFINE r == Replay(Image, e.cursor, e.state, n)
    <2>4. /\ r \in MemoryType /\ Slotted(r)
          /\ r.serial >= Image.serial /\ r.serial >= e.cursor.serial
          /\ r.positions = Image.positions \cup {PositionKey(e.cursor, e.state)}
          /\ \A t \in Stage : r.cursors[t].serial \in {Image.cursors[t].serial, e.cursor.serial, 0}
      <3> DEFINE m == Image
                 c == e.cursor
                 state == e.state
      <3>1. /\ m \in MemoryType /\ Slotted(m) /\ c \in CursorType /\ c.stage \in Stage
            /\ state \in EvidenceState \cup {CursorOpened}
        BY <1>1, <2>3
      <3> HIDE DEF m, c, state
      <3>2. /\ Replay(m, c, state, n) \in MemoryType /\ Slotted(Replay(m, c, state, n))
            /\ Replay(m, c, state, n).serial >= m.serial
            /\ Replay(m, c, state, n).serial >= c.serial
            /\ Replay(m, c, state, n).positions = m.positions \cup {PositionKey(c, state)}
            /\ \A t \in Stage : Replay(m, c, state, n).cursors[t].serial
                                  \in {m.cursors[t].serial, c.serial, 0}
        BY <2>1, <3>1, ReplayFacts
      <3> QED BY <3>2 DEF m, c, state
    <2>5. Image' = r
      BY <2>2
    <2> HIDE DEF r
    <2> QED BY <1>4, <2>4, <2>5
  <1> QED BY <1>3, <1>4, RecordFields

(* A request stays a request, and the others' checked decisions stand.     *)
LEMMA OthersStand ==
  ASSUME FreeInv, NEW h \in Hosts, NEW m2, mem' = [mem EXCEPT ![h] = m2],
         NEW d, consuming' = [consuming EXCEPT ![h] = d],
         \/ journal' = journal
         \/ \E e \in RecordType : journal' = Append(journal, e)
  PROVE  /\ Requests \subseteq Requests'
         /\ \A i \in DOMAIN journal : i \in DOMAIN journal' /\ journal'[i] = journal[i]
         /\ \A g \in Hosts \ {h} : StandsWhereAsked(g)'
  <1>1. /\ journal \in Seq(RecordType)
        /\ mem \in [Hosts -> MemoryType \cup {NotRunning}] /\ DOMAIN consuming = Hosts
    BY DEF FreeInv, TypeOK
  <1>2. \A i \in DOMAIN journal : i \in DOMAIN journal' /\ journal'[i] = journal[i]
    BY <1>1, AppendRecord
  <1>3. Requests \subseteq Requests'
    BY <1>2 DEF Requests
  <1>4. ASSUME NEW g \in Hosts \ {h} PROVE StandsWhereAsked(g)'
    <2>1. mem'[g] = mem[g] /\ consuming'[g] = consuming[g]
      BY <1>1
    <2>2. StandsWhereAsked(g)
      BY DEF FreeInv
    <2>3. ASSUME consuming[g] # NoDecision
          PROVE  journal'[consuming[g].request] = journal[consuming[g].request]
      BY <1>2, <2>2, <2>3 DEF StandsWhereAsked, Requests
    <2> QED BY <1>3, <2>1, <2>2, <2>3 DEF StandsWhereAsked, Running
  <1> QED BY <1>2, <1>3, <1>4

(* An operation that leaves its host a memory, hands at most one cursor    *)
(* out and writes at most one line, keeps FreeInv.                         *)
LEMMA OperationKeepsFree ==
  ASSUME FreeInv, NEW h \in Hosts,
         NEW m2 \in MemoryType, Slotted(m2), mem' = [mem EXCEPT ![h] = m2],
         NEW c \in CursorType, c.stage \in Stage, HandOut(h, c) \/ held' = held,
         \/ journal' = journal
         \/ \E e \in RecordType : e.cursor.stage \in Stage /\ journal' = Append(journal, e),
         minted' = minted \/ minted' = Append(minted, c),
         consuming' = [consuming EXCEPT ![h] = NoDecision],
         starts' = starts
  PROVE  FreeInv'
  <1>1. /\ journal \in Seq(RecordType)
        /\ mem \in [Hosts -> MemoryType \cup {NotRunning}]
        /\ held \in [Hosts -> SUBSET CursorType]
        /\ consuming \in [Hosts -> [request : Nat, decision : Decisions \cup {"none"}]]
        /\ minted \in Seq(CursorType) /\ starts \in 0..MaxStarts
    BY DEF FreeInv, TypeOK
  <1>2. NoDecision \in [request : Nat, decision : Decisions \cup {"none"}]
    BY DEF NoDecision
  <1>3. /\ journal' \in Seq(RecordType)
        /\ mem' \in [Hosts -> MemoryType \cup {NotRunning}]
        /\ held' \in [Hosts -> SUBSET CursorType]
        /\ consuming' \in [Hosts -> [request : Nat, decision : Decisions \cup {"none"}]]
        /\ minted' \in Seq(CursorType)
    <2>1. journal' \in Seq(RecordType)
      <3>1. CASE \E e \in RecordType : e.cursor.stage \in Stage /\ journal' = Append(journal, e)
        <4>1. PICK e \in RecordType : journal' = Append(journal, e)
          BY <3>1
        <4> QED BY <1>1, <4>1, AppendRecord
      <3> QED BY <1>1, <3>1
    <2>2. held' \in [Hosts -> SUBSET CursorType]
      <3>1. CASE HandOut(h, c)
        BY <1>1, <3>1 DEF HandOut
      <3> QED BY <1>1, <3>1
    <2>3. minted' \in Seq(CursorType)
      <3>1. Append(minted, c) \in Seq(CursorType)
        BY <1>1
      <3> QED BY <1>1, <3>1
    <2>4. consuming' \in [Hosts -> [request : Nat, decision : Decisions \cup {"none"}]]
      BY <1>1, <1>2
    <2> QED BY <1>1, <2>1, <2>2, <2>3, <2>4
  <1>4. TypeOK'
    BY <1>1, <1>3 DEF TypeOK
  <1>5. Image' \in MemoryType /\ Slotted(Image')
    <2>1. CASE journal' = journal
      BY <2>1 DEF FreeInv, Image
    <2>2. CASE \E e \in RecordType : e.cursor.stage \in Stage /\ journal' = Append(journal, e)
      BY <2>2, ImageAppend
    <2> QED BY <2>1, <2>2
  <1>6. \A g \in Hosts : Running(g)' => Slotted(mem'[g])
    <2>1. \A g \in Hosts : g = h \/ mem'[g] = mem[g]
      BY <1>1
    <2> QED BY <1>1, <2>1 DEF FreeInv, Running
  <1>7. \A i \in DOMAIN journal' : journal'[i].cursor.stage \in Stage
    <2>1. CASE journal' = journal
      BY <2>1 DEF FreeInv
    <2>2. CASE \E e \in RecordType : e.cursor.stage \in Stage /\ journal' = Append(journal, e)
      <3>1. PICK e \in RecordType : e.cursor.stage \in Stage /\ journal' = Append(journal, e)
        BY <2>2
      <3> QED BY <1>1, <3>1, AppendRecord DEF FreeInv
    <2> QED BY <2>1, <2>2
  <1>8. \A g \in Hosts : \A d \in held'[g] : d.stage \in Stage
    BY <1>1 DEF FreeInv, HandOut
  <1>9. \A g \in Hosts : StandsWhereAsked(g)'
    <2>1. \A g \in Hosts \ {h} : StandsWhereAsked(g)'
      BY OthersStand
    <2>2. StandsWhereAsked(h)'
      BY <1>1 DEF StandsWhereAsked
    <2> QED BY <2>1, <2>2
  <1> QED BY <1>4, <1>5, <1>6, <1>7, <1>8, <1>9 DEF FreeInv

(* begin_revision and begin_attempt: host h mints cursor c, which leaves   *)
(* it the memory m2; only a begin_revision that fails does not install c.  *)
Opens(h, c, m2) ==
  /\ mem[h] \in MemoryType /\ Slotted(mem[h]) /\ consuming[h] = NoDecision
  /\ m2 \in MemoryType /\ Slotted(m2)
  /\ c \in CursorType /\ c.stage \in Stage /\ c.serial = mem[h].serial + 1
  /\ m2.serial = mem[h].serial + 1
  /\ \A t \in Stage : \/ m2.cursors[t] \in {mem[h].cursors[t], NoCursor}
                      \/ t = c.stage /\ m2.cursors[t] = c
  /\ mem[h].positions \subseteq m2.positions
  /\ mem' = [mem EXCEPT ![h] = m2]
  /\ minted' = Append(minted, c)
  /\ HandOut(h, c) \/ held' = held
  /\ UNCHANGED <<consuming, starts>>
  /\ \/ journal' = journal
     \/ /\ journal' = Append(journal, Entry(c, CursorOpened, "inline"))
        /\ \A t \in Stage : t > c.stage => m2.cursors[t] = NoCursor
        /\ PositionKey(c, CursorOpened) \in m2.positions

(* The calls of record_stage: host h writes record e.                      *)
Writes(h, e) ==
  /\ mem[h] \in MemoryType /\ Slotted(mem[h])
  /\ e \in RecordType /\ e.state \in EvidenceState /\ e.cursor.stage \in Stage
  /\ Recordable(mem[h], e.cursor, e.state)
  /\ journal' = Append(journal, e)
  /\ mem' = [mem EXCEPT ![h] = Recorded(mem[h], e.cursor, e.state, Len(journal) + 1)]
  /\ HandOut(h, Advance(e.cursor, Len(journal) + 1))
  /\ consuming' = [consuming EXCEPT ![h] = NoDecision]
  /\ UNCHANGED <<minted, starts>>

(* Each operation is one of the two.                                       *)
LEMMA BeginRevisionOpens ==
  ASSUME FreeInv, NEW h \in Hosts, NEW s \in Stage, BeginRevision(h, s)
  PROVE  \E c, m2 : Opens(h, c, m2)
  <1> DEFINE m == mem[h]
             c == RevisedCursor(m, s)
             m2 == IF Live(m.cursors[s]) THEN Bump(m, s) ELSE FirstOpen(m, s)
  <1>1. m \in MemoryType /\ Slotted(m) /\ consuming[h] = NoDecision
    BY RunningMemory DEF BeginRevision, Idle, FreeInv
  <1>2. /\ c \in CursorType /\ c.stage = s /\ c.serial = m.serial + 1
    BY <1>1, RevisedCursorType
  <1>3. /\ m2 \in MemoryType /\ Slotted(m2) /\ m2.serial = m.serial + 1
        /\ \A t \in Stage \ {s} : m2.cursors[t] = m.cursors[t] \/ m2.cursors[t] = NoCursor
        /\ m.positions \subseteq m2.positions
    BY <1>1, OpenFacts
  <1>4. m2.cursors[s] = c
    BY <1>1, MemoryFields, DropLaterType DEF FirstOpen, Bump
  <1>5. ASSUME Live(m.cursors[s])
        PROVE  /\ \A t \in Stage : t > s => m2.cursors[t] = NoCursor
               /\ PositionKey(c, CursorOpened) \in m2.positions
    <2>1. /\ m2.cursors = [DropLater(m.cursors, s) EXCEPT ![s] = c]
          /\ PositionKey(c, CursorOpened) \in m2.positions
      BY <1>5 DEF Bump
    <2>2. \A t \in Stage : t > s => t # s /\ DropLater(m.cursors, s)[t] = NoCursor
      BY <1>1, MemoryFields, DropLaterType, CursorFields
    <2> HIDE DEF c, m2
    <2> QED BY <2>1, <2>2
  <1>6. /\ mem' = [mem EXCEPT ![h] = m2]
        /\ journal' = IF Live(m.cursors[s]) THEN Append(journal, Entry(c, CursorOpened, "inline"))
                                            ELSE journal
        /\ minted' = Append(minted, c) /\ HandOut(h, c) /\ UNCHANGED <<consuming, starts>>
    BY DEF BeginRevision
  <1> HIDE DEF c, m2
  <1>7. Opens(h, c, m2)
    BY <1>1, <1>2, <1>3, <1>4, <1>5, <1>6 DEF Opens
  <1> QED BY <1>7

(* begin_attempt opens the next attempt of the same revision.              *)
LEMMA BeginAttemptOpens ==
  ASSUME FreeInv, NEW h \in Hosts, NEW s \in Stage, BeginAttempt(h, s)
  PROVE  \E c, m2 : Opens(h, c, m2)
  <1> DEFINE m == mem[h]
             m2 == NextAttempt(m, s)
             c == m2.cursors[s]
  <1>1. m \in MemoryType /\ Slotted(m) /\ consuming[h] = NoDecision
    BY RunningMemory DEF BeginAttempt, Idle, FreeInv
  <1>2. /\ m2 \in MemoryType /\ Slotted(m2) /\ m2.serial = m.serial + 1
        /\ c.serial = m.serial + 1 /\ c \in CursorType /\ c.stage = s
        /\ \A t \in Stage \ {s} : m2.cursors[t] = m.cursors[t] \/ m2.cursors[t] = NoCursor
        /\ m.positions \subseteq m2.positions
    BY <1>1, OpenFacts
  <1>3. mem' = [mem EXCEPT ![h] = m2] /\ mem \in [Hosts -> MemoryType \cup {NotRunning}]
    BY DEF BeginAttempt, FreeInv, TypeOK
  <1>4. mem'[h] = m2
    BY <1>3
  <1>5. /\ journal' = journal /\ minted' = Append(minted, c) /\ HandOut(h, c)
        /\ UNCHANGED <<consuming, starts>>
    BY <1>4 DEF BeginAttempt
  <1> HIDE DEF m2
  <1>6. Opens(h, c, m2)
    BY <1>1, <1>2, <1>3, <1>5 DEF Opens
  <1> QED BY <1>6

(* A begin_revision that fails mints a cursor nobody gets.                 *)
LEMMA OpeningFailsOpens ==
  ASSUME FreeInv, NEW h \in Hosts, NEW s \in Stage, OpeningFails(h, s)
  PROVE  \E c, m2 : Opens(h, c, m2)
  <1> DEFINE m == mem[h]
             c == RevisedCursor(m, s)
             m2 == OpeningFailed(m, s)
  <1>1. m \in MemoryType /\ Slotted(m) /\ consuming[h] = NoDecision
    BY RunningMemory DEF OpeningFails, Idle, FreeInv
  <1>2. c \in CursorType /\ c.stage = s /\ c.serial = m.serial + 1
    BY <1>1, RevisedCursorType
  <1>3. /\ m2.cursors = DropLater(m.cursors, s) /\ m2.serial = m.serial + 1
        /\ m2.positions = m.positions
    BY DEF OpeningFailed
  <1>4. m2 \in MemoryType
    BY <1>1, OpeningFailedType
  <1>5. /\ mem' = [mem EXCEPT ![h] = m2] /\ journal' = journal /\ held' = held
        /\ minted' = Append(minted, c) /\ UNCHANGED <<consuming, starts>>
    BY DEF OpeningFails
  <1> HIDE DEF c, m2
  <1>6. \A t \in Stage : m2.cursors[t] \in {m.cursors[t], NoCursor}
    BY <1>1, <1>3, MemoryFields, DropLaterType
  <1>7. Slotted(m2)
    BY <1>1, <1>6, CursorFields DEF Slotted
  <1>8. Opens(h, c, m2)
    BY <1>1, <1>2, <1>3, <1>4, <1>5, <1>6, <1>7 DEF Opens
  <1> QED BY <1>8

(* record_stage, and the request and the decision that are recorded        *)
(* through it.                                                             *)
LEMMA RecordStageWrites ==
  ASSUME FreeInv, NEW h \in Hosts, NEW c \in held[h], NEW payload \in Payloads,
         RecordStage(h, c, payload)
  PROVE  Writes(h, Entry(c, "completed", payload))
  <1> DEFINE e == Entry(c, "completed", payload)
  <1>1. /\ mem[h] \in MemoryType /\ Slotted(mem[h]) /\ consuming[h] = NoDecision
        /\ c \in CursorType /\ c.stage \in Stage /\ DOMAIN consuming = Hosts
        /\ consuming = [consuming EXCEPT ![h] = NoDecision]
    BY RunningMemory DEF RecordStage, Idle, FreeInv, TypeOK
  <1>2. /\ e \in RecordType /\ e.state = "completed" /\ e.cursor = c
    BY <1>1, RunExecutionAssumption DEF Entry, RecordType, EvidenceState
  <1>3. /\ Recordable(mem[h], c, "completed") /\ Write(h, e)
        /\ UNCHANGED <<consuming, minted, starts>>
    BY DEF RecordStage
  <1> HIDE DEF e
  <1> QED BY <1>1, <1>2, <1>3 DEF Write, Writes, EvidenceState, e

(* A request is evidence of the cursor that asks.                          *)
LEMMA RequestWrites ==
  ASSUME FreeInv, NEW h \in Hosts, NEW c \in held[h], OpenHumanDecisionRequest(h, c)
  PROVE  Writes(h, Entry(c, "needs_input", "inline"))
  <1> DEFINE e == Entry(c, "needs_input", "inline")
  <1>1. /\ mem[h] \in MemoryType /\ Slotted(mem[h]) /\ consuming[h] = NoDecision
        /\ c \in CursorType /\ c.stage \in Stage /\ DOMAIN consuming = Hosts
        /\ consuming = [consuming EXCEPT ![h] = NoDecision]
    BY RunningMemory DEF OpenHumanDecisionRequest, Idle, FreeInv, TypeOK
  <1>2. /\ e \in RecordType /\ e.state = "needs_input" /\ e.cursor = c
    BY <1>1 DEF Entry, RecordType, EvidenceState
  <1>3. /\ Recordable(mem[h], c, "needs_input") /\ Write(h, e)
        /\ UNCHANGED <<consuming, minted, starts>>
    BY DEF OpenHumanDecisionRequest
  <1> HIDE DEF e
  <1> QED BY <1>1, <1>2, <1>3 DEF Write, Writes, EvidenceState, e

(* The cursor a decision is journalled with is that of the stage that      *)
(* asked, where it stands now.                                             *)
Answering(h) == mem[h].cursors[journal[consuming[h].request].cursor.stage]

(* A decision's second call writes one line, at a cursor of its memory.     *)
LEMMA DecisionWrites ==
  ASSUME FreeInv, NEW h \in Hosts, JournalDecision(h)
  PROVE  /\ Writes(h, DecisionEntry(Answering(h), consuming[h]))
         /\ consuming[h] # NoDecision /\ consuming[h].request \in Requests
         /\ Answering(h).stage = journal[consuming[h].request].cursor.stage
         /\ Answering(h).rev = journal[consuming[h].request].cursor.rev
         /\ Answering(h).att = journal[consuming[h].request].cursor.att
  <1> DEFINE d == consuming[h]
             c == Answering(h)
             e == DecisionEntry(c, d)
             s == journal[d.request].cursor.stage
  <1>1. /\ mem[h] \in MemoryType /\ Slotted(mem[h]) /\ d # NoDecision
        /\ d \in [request : Nat, decision : Decisions \cup {"none"}]
    BY RunningMemory DEF JournalDecision, FreeInv, TypeOK
  <1>2. /\ d.request \in Requests /\ Live(c)
        /\ c.rev = journal[d.request].cursor.rev
        /\ c.att = journal[d.request].cursor.att
    BY <1>1 DEF FreeInv, StandsWhereAsked, Answering
  <1>3. s \in Stage
    BY <1>2 DEF FreeInv, Requests
  <1>4. c \in CursorType /\ c.stage = s
    BY <1>1, <1>2, <1>3, MemoryFields DEF Slotted, Answering
  <1>5. /\ e \in RecordType /\ e.state = "human-decision-recorded" /\ e.cursor = c
    BY <1>1, <1>4 DEF DecisionEntry, RecordType, EvidenceState
  <1>6. /\ Recordable(mem[h], c, "human-decision-recorded") /\ Write(h, e)
        /\ consuming' = [consuming EXCEPT ![h] = NoDecision] /\ UNCHANGED <<minted, starts>>
    BY DEF JournalDecision, Answering
  <1> HIDE DEF e, c
  <1>7. Writes(h, e)
    BY <1>1, <1>3, <1>4, <1>5, <1>6 DEF Write, Writes, EvidenceState
  <1> QED BY <1>1, <1>2, <1>4, <1>7 DEF c, e

(* Each of them keeps FreeInv, and so do the steps that write nothing.     *)
LEMMA OpensKeepsFree ==
  ASSUME FreeInv, NEW h \in Hosts, NEW c, NEW m2, Opens(h, c, m2)
  PROVE  FreeInv'
  <1>1. Entry(c, CursorOpened, "inline") \in RecordType /\ Entry(c, CursorOpened, "inline").cursor = c
    BY DEF Opens, Entry, RecordType
  <1>2. consuming' = [consuming EXCEPT ![h] = NoDecision]
    BY DEF Opens, FreeInv, TypeOK
  <1>3. \/ journal' = journal
        \/ \E e \in RecordType : e.cursor.stage \in Stage /\ journal' = Append(journal, e)
    BY <1>1 DEF Opens
  <1> QED BY <1>2, <1>3, OperationKeepsFree DEF Opens

(* A record.                                                               *)
LEMMA WritesKeepsFree ==
  ASSUME FreeInv, NEW h \in Hosts, NEW e, Writes(h, e)
  PROVE  FreeInv'
  <1> DEFINE n == Len(journal) + 1
             m2 == Recorded(mem[h], e.cursor, e.state, n)
             c == Advance(e.cursor, n)
  <1>1. n \in Nat /\ e.cursor \in CursorType /\ e.cursor.stage \in Stage /\ e.state \in EvidenceState
    BY AppendRecord, RecordFields DEF Writes, FreeInv, TypeOK
  <1>2. m2 \in MemoryType /\ Slotted(m2)
    BY <1>1, RecordFacts DEF Writes
  <1>3. c \in CursorType /\ c.stage \in Stage
    BY <1>1, AdvanceType DEF Advance
  <1>4. /\ mem' = [mem EXCEPT ![h] = m2] /\ HandOut(h, c)
        /\ consuming' = [consuming EXCEPT ![h] = NoDecision]
        /\ minted' = minted /\ starts' = starts
        /\ \E r \in RecordType : r.cursor.stage \in Stage /\ journal' = Append(journal, r)
    BY DEF Writes
  <1> HIDE DEF m2, c
  <1> QED BY <1>2, <1>3, <1>4, OperationKeepsFree

(* open_cursor hands out a live cursor.                                    *)
LEMMA OpenCursorKeepsFree ==
  ASSUME FreeInv, NEW h \in Hosts, NEW s \in Stage, OpenCursor(h, s)
  PROVE  FreeInv'
  <1> DEFINE c == mem[h].cursors[s]
  <1>1. /\ mem[h] \in MemoryType /\ Slotted(mem[h]) /\ consuming[h] = NoDecision
        /\ DOMAIN consuming = Hosts /\ DOMAIN mem = Hosts
    BY RunningMemory DEF OpenCursor, Idle, FreeInv, TypeOK
  <1>2. c \in CursorType /\ c.stage \in Stage
    BY <1>1, MemoryFields DEF OpenCursor, Slotted
  <1>3. /\ mem' = [mem EXCEPT ![h] = mem[h]] /\ HandOut(h, c)
        /\ consuming' = [consuming EXCEPT ![h] = NoDecision]
        /\ journal' = journal /\ minted' = minted /\ starts' = starts
    BY <1>1 DEF OpenCursor, FreeInv, TypeOK
  <1> HIDE DEF c
  <1> QED BY <1>1, <1>2, <1>3, OperationKeepsFree

(* The checks of consume_human_decision put the decision where it stands.  *)
LEMMA ConsumeKeepsFree ==
  ASSUME FreeInv, NEW h \in Hosts, NEW i \in Requests, NEW answer \in Decisions,
         ConsumeHumanDecision(h, [request |-> i, decision |-> answer])
  PROVE  FreeInv'
  <1> DEFINE d == [request |-> i, decision |-> answer]
  <1>1. i \in Nat /\ i \in Requests /\ answer \in Decisions
    BY AppendRecord DEF FreeInv, TypeOK, Requests
  <1>2. d \in [request : Nat, decision : Decisions \cup {"none"}] /\ d.request = i /\ d.decision = answer
    BY <1>1
  <1>3. /\ Running(h) /\ UNCHANGED <<journal, mem, held, minted, starts>>
        /\ consuming' = [consuming EXCEPT ![h] = d]
        /\ Live(mem[h].cursors[journal[i].cursor.stage])
        /\ mem[h].cursors[journal[i].cursor.stage].rev = journal[i].cursor.rev
        /\ mem[h].cursors[journal[i].cursor.stage].att = journal[i].cursor.att
    BY <1>2 DEF ConsumeHumanDecision, Idle
  <1> HIDE DEF d
  <1>4. consuming' \in [Hosts -> [request : Nat, decision : Decisions \cup {"none"}]] /\ consuming'[h] = d
    BY <1>2, <1>3 DEF FreeInv, TypeOK
  <1>5. TypeOK'
    BY <1>3, <1>4 DEF FreeInv, TypeOK
  <1>6. StandsWhereAsked(h)'
    BY <1>1, <1>2, <1>3, <1>4 DEF StandsWhereAsked, Requests, Running
  <1>7. \A g \in Hosts \ {h} : StandsWhereAsked(g)'
    BY <1>3 DEF FreeInv, TypeOK, StandsWhereAsked, Requests, Running
  <1> QED BY <1>3, <1>5, <1>6, <1>7 DEF FreeInv, Image, Running

(* A host that starts or dies hands nothing out and checks nothing.        *)
LEMMA CreateKeepsFree ==
  ASSUME FreeInv, NEW h \in Hosts, Create(h)
  PROVE  FreeInv'
  <1>1. /\ mem' = [mem EXCEPT ![h] = Image] /\ Image \in MemoryType /\ Slotted(Image)
        /\ UNCHANGED <<journal, held, consuming, minted>> /\ starts' = starts + 1 /\ ~Running(h)
    BY DEF Create, Image, FreeInv
  <1>2. starts' \in 0..MaxStarts
    BY RunExecutionAssumption DEF FreeInv, TypeOK, Create
  <1>3. mem' \in [Hosts -> MemoryType \cup {NotRunning}] /\ mem'[h] = Image
        /\ \A g \in Hosts \ {h} : mem'[g] = mem[g]
    BY <1>1 DEF FreeInv, TypeOK
  <1>4. TypeOK'
    BY <1>1, <1>2, <1>3 DEF FreeInv, TypeOK
  <1>5. \A g \in Hosts : StandsWhereAsked(g)'
    BY <1>1, <1>3 DEF FreeInv, StandsWhereAsked, Requests, Running
  <1>6. \A g \in Hosts : Running(g)' => Slotted(mem'[g])
    BY <1>1, <1>3 DEF FreeInv, Running
  <1>7. Image' = Image
    BY <1>1 DEF Image
  <1> QED BY <1>1, <1>4, <1>5, <1>6, <1>7 DEF FreeInv

(* A crash.                                                                *)
LEMMA CrashKeepsFree ==
  ASSUME FreeInv, NEW h \in Hosts, Crash(h)
  PROVE  FreeInv'
  <1>1. /\ mem' = [mem EXCEPT ![h] = NotRunning] /\ held' = [held EXCEPT ![h] = {}]
        /\ consuming' = [consuming EXCEPT ![h] = NoDecision] /\ UNCHANGED <<journal, minted, starts>>
    BY DEF Crash
  <1>2. NoDecision \in [request : Nat, decision : Decisions \cup {"none"}]
    BY DEF NoDecision
  <1>3. TypeOK'
    BY <1>1, <1>2 DEF FreeInv, TypeOK
  <1>4. /\ mem'[h] = NotRunning /\ consuming'[h] = NoDecision /\ held'[h] = {}
        /\ \A g \in Hosts \ {h} : mem'[g] = mem[g] /\ consuming'[g] = consuming[g] /\ held'[g] = held[g]
    BY <1>1 DEF FreeInv, TypeOK
  <1>5. \A g \in Hosts : StandsWhereAsked(g)'
    <2>1. \A g \in Hosts \ {h} : StandsWhereAsked(g)'
      BY <1>1, OthersStand
    <2>2. StandsWhereAsked(h)'
      BY <1>4 DEF StandsWhereAsked
    <2> QED BY <2>1, <2>2
  <1>6. ~Running(h)'
    BY <1>4 DEF Running, NotRunning
  <1>7. \A g \in Hosts : Running(g)' => Slotted(mem'[g])
    BY <1>4, <1>6 DEF FreeInv, Running
  <1>8. Image' = Image /\ \A i \in DOMAIN journal' : journal'[i].cursor.stage \in Stage
    BY <1>1 DEF FreeInv, Image
  <1>9. \A g \in Hosts : \A c \in held'[g] : c.stage \in Stage
    BY <1>4 DEF FreeInv
  <1> QED BY <1>3, <1>5, <1>7, <1>8, <1>9 DEF FreeInv

(* What a step can be.                                                     *)
LEMMA StepCases ==
  ASSUME FreeInv, [Next]_vars
  PROVE  \/ \E h \in Hosts : \E c, m2 : Opens(h, c, m2)
         \/ \E h \in Hosts : \E s \in Stage : OpenCursor(h, s)
         \/ \E h \in Hosts, c \in CursorType, payload \in Payloads :
              RecordStage(h, c, payload) /\ Writes(h, Entry(c, "completed", payload))
         \/ \E h \in Hosts, c \in CursorType :
              /\ OpenHumanDecisionRequest(h, c)
              /\ Writes(h, Entry(c, "needs_input", "inline"))
         \/ \E h \in Hosts : JournalDecision(h)
         \/ \E h \in Hosts, i \in Requests, answer \in Decisions :
              ConsumeHumanDecision(h, [request |-> i, decision |-> answer])
         \/ \E h \in Hosts : Create(h) \/ Crash(h)
         \/ UNCHANGED vars
  <1>1. ASSUME NEW h \in Hosts, NEW s \in Stage,
               BeginRevision(h, s) \/ OpeningFails(h, s) \/ BeginAttempt(h, s)
        PROVE  \E c, m2 : Opens(h, c, m2)
    BY <1>1, BeginRevisionOpens, OpeningFailsOpens, BeginAttemptOpens
  <1>2. ASSUME NEW h \in Hosts, NEW c \in held[h], NEW payload \in Payloads, RecordStage(h, c, payload)
        PROVE  c \in CursorType /\ Writes(h, Entry(c, "completed", payload))
    BY <1>2, RecordStageWrites DEF FreeInv, TypeOK
  <1>3. ASSUME NEW h \in Hosts, NEW c \in held[h], OpenHumanDecisionRequest(h, c)
        PROVE  c \in CursorType /\ Writes(h, Entry(c, "needs_input", "inline"))
    BY <1>3, RequestWrites DEF FreeInv, TypeOK
  <1>4. CASE Next
    <2>1. PICK h \in Hosts :
            \/ Create(h)
            \/ Crash(h)
            \/ \E s \in Stage : \/ BeginRevision(h, s) \/ OpeningFails(h, s)
                               \/ BeginAttempt(h, s) \/ OpenCursor(h, s)
            \/ \E c \in held[h] : \/ \E payload \in Payloads : RecordStage(h, c, payload)
                                  \/ OpenHumanDecisionRequest(h, c)
            \/ \E i \in Requests, d \in Decisions :
                 ConsumeHumanDecision(h, [request |-> i, decision |-> d])
            \/ JournalDecision(h)
      BY <1>4 DEF Next
    <2> QED BY <1>1, <1>2, <1>3, <2>1
  <1> QED BY <1>4

(* Every step keeps FreeInv ...                                            *)
LEMMA FreeNext == FreeInv /\ [Next]_vars => FreeInv'
  <1> SUFFICES ASSUME FreeInv, [Next]_vars PROVE FreeInv'
    OBVIOUS
  <1>1. CASE UNCHANGED vars
    BY <1>1 DEF vars, FreeInv, TypeOK, Image, Running, StandsWhereAsked, Requests
  <1>2. ASSUME NEW h \in Hosts, JournalDecision(h) PROVE FreeInv'
    BY <1>2, DecisionWrites, WritesKeepsFree
  <1>3. ASSUME NEW h \in Hosts, NEW c, NEW m2, Opens(h, c, m2) PROVE FreeInv'
    BY <1>3, OpensKeepsFree
  <1>4. ASSUME NEW h \in Hosts, NEW e, Writes(h, e) PROVE FreeInv'
    BY <1>4, WritesKeepsFree
  <1>5. ASSUME NEW h \in Hosts, NEW s \in Stage, OpenCursor(h, s) PROVE FreeInv'
    BY <1>5, OpenCursorKeepsFree
  <1>6. ASSUME NEW h \in Hosts, NEW i \in Requests, NEW answer \in Decisions,
               ConsumeHumanDecision(h, [request |-> i, decision |-> answer])
        PROVE  FreeInv'
    BY <1>6, ConsumeKeepsFree
  <1>7. ASSUME NEW h \in Hosts, Create(h) \/ Crash(h) PROVE FreeInv'
    BY <1>7, CreateKeepsFree, CrashKeepsFree
  <1> QED BY <1>1, <1>2, <1>3, <1>4, <1>5, <1>6, <1>7, StepCases

(* ... and the empty run has it.                                           *)
LEMMA FreeInit == Init => FreeInv
  <1> SUFFICES ASSUME Init PROVE FreeInv
    OBVIOUS
  <1>1. /\ journal = << >> /\ minted = << >> /\ starts = 0
        /\ \A h \in Hosts : mem[h] = NotRunning /\ held[h] = {} /\ consuming[h] = NoDecision
    BY DEF Init
  <1>2. TypeOK
    BY RunExecutionAssumption DEF Init, TypeOK, NoDecision
  <1>3. Image \in MemoryType /\ Slotted(Image)
    BY <1>1, RestoredNothing, EmptyFacts DEF Image
  <1>4. \A h \in Hosts : ~Running(h)
    BY <1>1 DEF Running, NotRunning
  <1> QED BY <1>1, <1>2, <1>3, <1>4 DEF FreeInv, StandsWhereAsked

(* Whatever its callers do, RunExecution keeps its types: a cursor stays   *)
(* in the slot of its stage, and a restart finds a memory on disk.         *)
THEOREM FreeInvariance == Spec => []FreeInv
  BY FreeInit, FreeNext, PTL DEF Spec

(* Memories, journal and cursors keep their types, for any hosts.          *)
THEOREM ExecutionTypeCorrect == Spec => []TypeOK
  <1>1. FreeInv => TypeOK
    BY DEF FreeInv
  <1> QED BY <1>1, FreeInvariance, PTL

------------------------------------------------------------------------------
(* FenceInv: what one object refuses while it is the only one.             *)

(* The serials in use are numbers, and so are the lines.                   *)
LEMMA SerialsTyped ==
  ASSUME FreeInv
  PROVE  /\ \A i \in DOMAIN minted : minted[i].serial \in Nat
         /\ \A i \in DOMAIN journal : /\ journal[i].cursor.serial \in Nat
                                      /\ journal[i].cursor.stage \in Nat
                                      /\ i \in Nat
         /\ \A s \in Stage : s \in Nat
         /\ \A m \in MemoryType : m.serial \in Nat /\ \A s \in Stage : m.cursors[s].serial \in Nat
         /\ starts \in Nat
  <1>1. journal \in Seq(RecordType) /\ minted \in Seq(CursorType) /\ starts \in 0..MaxStarts
    BY DEF FreeInv, TypeOK
  <1>2. /\ \A i \in DOMAIN minted : minted[i] \in CursorType
        /\ \A i \in DOMAIN journal : journal[i] \in RecordType
    BY <1>1
  <1>3. \A m \in MemoryType : m.serial \in Nat /\ \A s \in Stage : m.cursors[s] \in CursorType
    BY MemoryFields
  <1> QED BY <1>1, <1>2, <1>3, RecordFields, CursorFields, AppendRecord, RunExecutionAssumption

(* While h holds the only object, a step that keeps it running as m2 keeps *)
(* FenceInv if m2 stays ahead of the journal and no line or cursor breaks  *)
(* the order.                                                              *)
LEMMA SameWriter ==
  ASSUME FreeInv, FenceInv, NEW h \in Hosts, Running(h),
         NEW m2 \in MemoryType, mem' = [mem EXCEPT ![h] = m2], starts' = starts,
         starts <= 1 => LiveFence' /\ LiveSerials' /\ Ahead(m2)'
  PROVE  FenceInv'
  <1>1. /\ \A g \in Hosts \ {h} : mem'[g] = mem[g]
        /\ mem'[h] = m2 /\ m2.serial \in Nat
    BY MemoryFields DEF FreeInv, TypeOK
  <1>2. starts # 0
    BY DEF FenceInv, OneWriter
  <1>3. \A g \in Hosts : Running(g)' <=> Running(g)
    BY <1>1 DEF Running
  <1>4. OneWriter'
    BY <1>2, <1>3 DEF FenceInv, OneWriter
  <1>5. starts <= 1 => \A g \in Hosts : Running(g)' => g = h
    BY <1>3 DEF FenceInv, OneWriter
  <1>6. starts' <= 1 => \A g \in Hosts : Running(g)' => Ahead(mem[g])'
    BY <1>1, <1>5 DEF Ahead
  <1>7. LiveFence' /\ LiveSerials'
    BY DEF LiveFence, LiveSerials
  <1> QED BY <1>4, <1>6, <1>7 DEF FenceInv

(* A cursor opened has a serial above all others.                          *)
LEMMA OpensKeepsFence ==
  ASSUME FreeInv, FenceInv, NEW h \in Hosts, NEW c, NEW m2, Opens(h, c, m2)
  PROVE  FenceInv'
  <1> DEFINE m == mem[h]
             n == Len(journal) + 1
             e == Entry(c, CursorOpened, "inline")
  <1>1. /\ Running(h) /\ m \in MemoryType /\ m2 \in MemoryType /\ c \in CursorType
        /\ c.stage \in Stage /\ c.serial = m.serial + 1 /\ m2.serial = m.serial + 1
        /\ \A t \in Stage : \/ m2.cursors[t] \in {m.cursors[t], NoCursor}
                            \/ t = c.stage /\ m2.cursors[t] = c
        /\ minted' = Append(minted, c) /\ mem' = [mem EXCEPT ![h] = m2] /\ starts' = starts
    BY RunningMemory DEF Opens, FreeInv
  <1>2. /\ e \in RecordType /\ e.cursor = c /\ e.state = CursorOpened
    BY <1>1 DEF Entry, RecordType
  <1>3. journal \in Seq(RecordType) /\ minted \in Seq(CursorType)
    BY DEF FreeInv, TypeOK
  <1>4. ASSUME starts <= 1 PROVE Ahead(m)
    BY <1>1, <1>4 DEF FenceInv
  <1> HIDE DEF e
  <1>5. ASSUME starts <= 1 PROVE LiveSerials'
    <2>1. /\ \A i \in DOMAIN minted' : i \in DOMAIN minted \/ i = Len(minted) + 1
          /\ \A i \in DOMAIN minted : minted'[i] = minted[i]
          /\ minted'[Len(minted) + 1] = c
      BY <1>1, <1>3
    <2>2. \A i \in DOMAIN minted : minted[i].serial < c.serial
      BY <1>1, <1>4, <1>5, SerialsTyped DEF Ahead
    <2>3. \A i, j \in DOMAIN minted : i # j => minted[i].serial # minted[j].serial
      BY <1>5 DEF FenceInv, LiveSerials
    <2>4. \A i \in DOMAIN minted : minted[i].serial \in Nat /\ c.serial \in Nat
      BY <1>1, SerialsTyped
    <2>5. \A i, j \in DOMAIN minted' : i # j => minted'[i].serial # minted'[j].serial
      BY <2>1, <2>2, <2>3, <2>4
    <2> QED BY <2>5 DEF LiveSerials
  <1>6. ASSUME starts <= 1 PROVE LiveFence' /\ Ahead(m2)'
    <2>1. /\ \A i \in DOMAIN journal : journal[i].state = CursorOpened
                                         => journal[i].cursor.serial < c.serial
          /\ m.serial \in Nat
      BY <1>1, <1>4, <1>6, SerialsTyped DEF Ahead
    <2>2. \A i \in DOMAIN minted' : minted'[i].serial <= m2.serial
      <3>1. \A i \in DOMAIN minted' : minted'[i] = c \/ \E j \in DOMAIN minted : minted'[i] = minted[j]
        BY <1>1, <1>3
      <3>2. \A j \in DOMAIN minted : minted[j].serial <= m2.serial
        BY <1>1, <1>4, <1>6, <2>1, SerialsTyped DEF Ahead
      <3> QED BY <1>1, <2>1, <3>1, <3>2
    <2>3. ASSUME NEW t \in Stage, NEW i \in DOMAIN journal, Live(m2.cursors[t]),
                 journal[i].state = CursorOpened, journal[i].cursor.stage < t
          PROVE  journal[i].cursor.serial < m2.cursors[t].serial
      <3>1. CASE m2.cursors[t] = c
        BY <1>1, <2>1, <2>3, <3>1
      <3>2. CASE m2.cursors[t] # c
        <4>1. m2.cursors[t] = m.cursors[t]
          BY <1>1, <2>3, <3>2, CursorFields
        <4> QED BY <1>4, <1>6, <2>3, <4>1 DEF Ahead
      <3> QED BY <3>1, <3>2
    <2>4. CASE journal' = journal
      <3>1. LiveFence'
        BY <1>1, <2>4 DEF FenceInv, LiveFence, StaleCursorRefused
      <3>2. Ahead(m2)'
        BY <1>1, <1>4, <1>6, <2>1, <2>2, <2>3, <2>4, SerialsTyped DEF Ahead
      <3> QED BY <3>1, <3>2
    <2>5. CASE /\ journal' = Append(journal, e)
               /\ \A t \in Stage : t > c.stage => m2.cursors[t] = NoCursor
      <3>1. /\ DOMAIN journal' = DOMAIN journal \cup {n} /\ n \notin DOMAIN journal
            /\ \A i \in DOMAIN journal : journal'[i] = journal[i] /\ i < n /\ i \in Nat
            /\ journal'[n] = e /\ n \in Nat
        BY <1>2, <1>3, <2>5, AppendRecord
      <3>2. StaleCursorRefused'
        <4>1. ASSUME NEW i \in DOMAIN journal', NEW j \in DOMAIN journal', i < j,
                     journal'[i].state = CursorOpened,
                     journal'[j].cursor.stage > journal'[i].cursor.stage
              PROVE  journal'[j].cursor.serial > journal'[i].cursor.serial
          <5>1. i \in DOMAIN journal
            BY <3>1, <4>1
          <5>2. CASE j \in DOMAIN journal
            BY <1>6, <3>1, <4>1, <5>1, <5>2 DEF FenceInv, LiveFence, StaleCursorRefused
          <5>3. CASE j = n
            BY <1>1, <1>2, <2>1, <3>1, <4>1, <5>1, <5>3, SerialsTyped
          <5> QED BY <3>1, <5>2, <5>3
        <4> QED BY <4>1 DEF StaleCursorRefused
      <3>3. \A i \in DOMAIN journal' : journal'[i].state = CursorOpened
                                         => journal'[i].cursor.serial <= m2.serial
        BY <1>1, <1>2, <2>1, <3>1, SerialsTyped
      <3>4. ASSUME NEW t \in Stage, NEW i \in DOMAIN journal', Live(m2.cursors[t]),
                   journal'[i].state = CursorOpened, journal'[i].cursor.stage < t
            PROVE  journal'[i].cursor.serial < m2.cursors[t].serial
        <4>1. CASE i \in DOMAIN journal
          BY <2>3, <3>1, <3>4, <4>1
        <4>2. CASE i = n
          BY <1>1, <1>2, <2>5, <3>1, <3>4, <4>2, CursorFields
        <4> QED BY <3>1, <4>1, <4>2
      <3> QED BY <2>2, <3>2, <3>3, <3>4 DEF LiveFence, Ahead
    <2> QED BY <2>4, <2>5 DEF Opens, e
  <1> QED BY <1>1, <1>5, <1>6, SameWriter

(* A record carries the serial of a live cursor, which is ahead of every   *)
(* revision of an earlier stage.                                           *)
LEMMA WritesKeepsFence ==
  ASSUME FreeInv, FenceInv, NEW h \in Hosts, NEW e, Writes(h, e)
  PROVE  FenceInv'
  <1> DEFINE m == mem[h]
             n == Len(journal) + 1
  <1>0. PICK m2 : m2 = Recorded(m, e.cursor, e.state, n)
    OBVIOUS
  <1>1. /\ Running(h) /\ m \in MemoryType /\ Slotted(m) /\ e \in RecordType
        /\ e.state \in EvidenceState /\ e.cursor.stage \in Stage /\ e.cursor \in CursorType
        /\ Recordable(m, e.cursor, e.state) /\ journal' = Append(journal, e)
        /\ mem' = [mem EXCEPT ![h] = m2] /\ minted' = minted /\ starts' = starts
    BY <1>0, RunningMemory, RecordFields DEF Writes, FreeInv
  <1>2. journal \in Seq(RecordType)
    BY DEF FreeInv, TypeOK
  <1>3. /\ DOMAIN journal' = DOMAIN journal \cup {n} /\ n \notin DOMAIN journal
        /\ \A i \in DOMAIN journal : journal'[i] = journal[i] /\ i < n /\ i \in Nat
        /\ journal'[n] = e /\ n \in Nat
    BY <1>1, <1>2, AppendRecord
  <1>4. /\ m2 \in MemoryType /\ m2.serial = m.serial
        /\ \A t \in Stage : /\ Live(m2.cursors[t]) <=> Live(m.cursors[t])
                            /\ m2.cursors[t].serial = m.cursors[t].serial
        /\ Live(m.cursors[e.cursor.stage]) /\ e.cursor.serial = m.cursors[e.cursor.stage].serial
    BY <1>0, <1>1, <1>3, RecordFacts
  <1>5. e.state # CursorOpened
    BY <1>1 DEF EvidenceState, CursorOpened
  <1>6. ASSUME starts <= 1 PROVE LiveFence' /\ LiveSerials' /\ Ahead(m2)'
    <2>1. Ahead(m)
      BY <1>1, <1>6 DEF FenceInv
    <2>2. StaleCursorRefused'
      <3>1. ASSUME NEW i \in DOMAIN journal', NEW j \in DOMAIN journal', i < j,
                   journal'[i].state = CursorOpened,
                   journal'[j].cursor.stage > journal'[i].cursor.stage
            PROVE  journal'[j].cursor.serial > journal'[i].cursor.serial
        <4>1. i \in DOMAIN journal
          BY <1>3, <1>5, <3>1
        <4>2. CASE j \in DOMAIN journal
          BY <1>3, <1>6, <3>1, <4>1, <4>2 DEF FenceInv, LiveFence, StaleCursorRefused
        <4>3. CASE j = n
          BY <1>1, <1>3, <1>4, <2>1, <3>1, <4>1, <4>3, SerialsTyped DEF Ahead
        <4> QED BY <1>3, <4>2, <4>3
      <3> QED BY <3>1 DEF StaleCursorRefused
    <2>3. LiveSerials'
      BY <1>1 DEF FenceInv, LiveSerials
    <2>4. Ahead(m2)'
      BY <1>1, <1>3, <1>4, <1>5, <2>1 DEF Ahead
    <2> QED BY <2>2, <2>3, <2>4 DEF LiveFence
  <1> QED BY <1>1, <1>4, <1>6, SameWriter

(* The first object starts on an empty journal; of a second one FenceInv   *)
(* says nothing.                                                           *)
LEMMA CreateKeepsFence ==
  ASSUME FreeInv, FenceInv, NEW h \in Hosts, Create(h)
  PROVE  FenceInv'
  <1>1. /\ mem' = [mem EXCEPT ![h] = Image]
        /\ journal' = journal /\ minted' = minted /\ starts' = starts + 1 /\ starts \in Nat
    BY SerialsTyped DEF Create, Image
  <1>2. CASE starts = 0
    <2>1. journal' = << >> /\ minted' = << >> /\ Image = EmptyMemory
          /\ \A g \in Hosts : ~Running(g)
      BY <1>1, <1>2, RestoredNothing DEF FenceInv, OneWriter, Image
    <2>2. \A g \in Hosts \ {h} : mem'[g] = mem[g]
      BY <1>1 DEF FreeInv, TypeOK
    <2>3. \A g \in Hosts : Running(g)' => g = h
      BY <2>1, <2>2 DEF Running
    <2>4. \A m : Ahead(m)'
      BY <2>1 DEF Ahead
    <2>5. OneWriter'
      BY <1>1, <1>2, <2>3 DEF OneWriter
    <2>6. LiveFence' /\ LiveSerials'
      BY <2>1 DEF LiveFence, LiveSerials, StaleCursorRefused
    <2>7. \A g \in Hosts : Ahead(mem[g])'
      BY <2>1 DEF Ahead
    <2> QED BY <2>5, <2>6, <2>7 DEF FenceInv
  <1>3. CASE starts # 0
    <2>1. ~(starts' <= 1) /\ starts' # 0
      BY <1>1, <1>3
    <2> QED BY <2>1 DEF FenceInv, OneWriter, LiveFence, LiveSerials
  <1> QED BY <1>2, <1>3

(* A crash leaves nobody running.                                          *)
LEMMA CrashKeepsFence ==
  ASSUME FreeInv, FenceInv, NEW h \in Hosts, Crash(h)
  PROVE  FenceInv'
  <1>1. /\ mem' = [mem EXCEPT ![h] = NotRunning]
        /\ journal' = journal /\ minted' = minted /\ starts' = starts
    BY DEF Crash
  <1>2. mem'[h] = NotRunning /\ \A g \in Hosts \ {h} : mem'[g] = mem[g]
    BY <1>1 DEF FreeInv, TypeOK
  <1>3. \A g \in Hosts : Running(g)' => Running(g) /\ g # h
    BY <1>2 DEF Running, NotRunning
  <1>4. OneWriter' /\ LiveFence' /\ LiveSerials'
    BY <1>1, <1>3 DEF FenceInv, OneWriter, LiveFence, LiveSerials, StaleCursorRefused
  <1>5. starts' <= 1 => \A g \in Hosts : Running(g)' => Ahead(mem[g])'
    BY <1>1, <1>2, <1>3 DEF FenceInv, Ahead
  <1> QED BY <1>4, <1>5 DEF FenceInv

(* Every step keeps FenceInv ...                                           *)
LEMMA FenceNext == FreeInv /\ FenceInv /\ [Next]_vars => FenceInv'
  <1> SUFFICES ASSUME FreeInv, FenceInv, [Next]_vars PROVE FenceInv'
    OBVIOUS
  <1>1. ASSUME UNCHANGED <<journal, mem, minted, starts>> PROVE FenceInv'
    BY <1>1 DEF FenceInv, OneWriter, LiveFence, LiveSerials, StaleCursorRefused, Running, Ahead
  <1>2. ASSUME NEW h \in Hosts, JournalDecision(h) PROVE FenceInv'
    BY <1>2, DecisionWrites, WritesKeepsFence
  <1>3. ASSUME NEW h \in Hosts, NEW c, NEW m2, Opens(h, c, m2) PROVE FenceInv'
    BY <1>3, OpensKeepsFence
  <1>4. ASSUME NEW h \in Hosts, NEW e, Writes(h, e) PROVE FenceInv'
    BY <1>4, WritesKeepsFence
  <1>5. ASSUME NEW h \in Hosts, NEW s \in Stage, OpenCursor(h, s) PROVE FenceInv'
    BY <1>1, <1>5 DEF OpenCursor
  <1>6. ASSUME NEW h \in Hosts, NEW d, ConsumeHumanDecision(h, d) PROVE FenceInv'
    BY <1>1, <1>6 DEF ConsumeHumanDecision
  <1>7. ASSUME NEW h \in Hosts, Create(h) \/ Crash(h) PROVE FenceInv'
    BY <1>7, CreateKeepsFence, CrashKeepsFence
  <1>8. CASE UNCHANGED vars
    BY <1>1, <1>8 DEF vars
  <1> QED BY <1>2, <1>3, <1>4, <1>5, <1>6, <1>7, <1>8, StepCases

(* ... and the empty run has it.                                           *)
LEMMA FenceInit == Init => FenceInv
  <1> SUFFICES ASSUME Init PROVE FenceInv
    OBVIOUS
  <1>1. journal = << >> /\ minted = << >> /\ \A h \in Hosts : ~Running(h)
    BY DEF Init, Running, NotRunning
  <1> QED BY <1>1 DEF FenceInv, OneWriter, LiveFence, LiveSerials, StaleCursorRefused

(* One object and its caller's old cursors, however many there are.        *)
THEOREM FenceInvariance == Spec => []FenceInv
  BY FenceInit, FenceNext, FreeInvariance, PTL DEF Spec

(* A live object accepts no cursor it has invalidated, whatever its caller *)
(* keeps and offers again.                                                 *)
THEOREM LiveAlwaysFenced == Spec => []LiveFence
  <1>1. FenceInv => LiveFence
    BY DEF FenceInv
  <1> QED BY <1>1, FenceInvariance, PTL

(* No two cursors it issues share an attempt_key.                          *)
THEOREM LiveSerialsDiffer == Spec => []LiveSerials
  <1>1. FenceInv => LiveSerials
    BY DEF FenceInv
  <1> QED BY <1>1, FenceInvariance, PTL

------------------------------------------------------------------------------
(* RepeatInv: one host at a time, and no record in a blob.                 *)

(* A step of the only host keeps RepeatInv if it leaves the host a memory  *)
(* that covers the journal, and the position it writes is a new one.       *)
LEMMA CoveringStep ==
  ASSUME FreeInv, RepeatInv, NEW h \in Hosts, NEW m2 \in MemoryType, mem' = [mem EXCEPT ![h] = m2],
         Covers(m2)',
         \/ journal' = journal
         \/ \E e \in RecordType :
              /\ e.cursor.stage \in Stage /\ e.payload = "inline" /\ journal' = Append(journal, e)
              /\ \A i \in DOMAIN journal : PositionKey(journal[i].cursor, journal[i].state)
                                             # PositionKey(e.cursor, e.state)
  PROVE  RepeatInv'
  <1>1. \A g \in Hosts : g = h /\ mem'[g] = m2
    BY DEF FreeInv, TypeOK, RepeatInv, OneHost
  <1>2. OneHost' /\ InlineOnly'
    BY DEF RepeatInv, OneHost, InlineOnly
  <1>3. \A g \in Hosts : Running(g)' => Covers(mem[g])'
    BY <1>1 DEF Covers
  <1>4. CASE journal' = journal
    BY <1>2, <1>3, <1>4 DEF RepeatInv, PositionsJournalledOnce, Covers, Image
  <1>5. CASE journal' # journal
    <2>1. PICK e \in RecordType :
            /\ e.cursor.stage \in Stage /\ e.payload = "inline" /\ journal' = Append(journal, e)
            /\ \A i \in DOMAIN journal : PositionKey(journal[i].cursor, journal[i].state)
                                           # PositionKey(e.cursor, e.state)
      BY <1>5
    <2> DEFINE n == Len(journal) + 1
    <2>2. /\ DOMAIN journal' = DOMAIN journal \cup {n} /\ n \notin DOMAIN journal
          /\ \A i \in DOMAIN journal : journal'[i] = journal[i]
          /\ journal'[n] = e
      BY <2>1, AppendRecord DEF FreeInv, TypeOK
    <2> HIDE DEF n
    <2>3. PositionsJournalledOnce'
      <3>1. ASSUME NEW i \in DOMAIN journal', NEW j \in DOMAIN journal', i # j
            PROVE  PositionKey(journal'[i].cursor, journal'[i].state)
                     # PositionKey(journal'[j].cursor, journal'[j].state)
        <4>1. CASE i \in DOMAIN journal /\ j \in DOMAIN journal
          BY <2>2, <3>1, <4>1 DEF RepeatInv, PositionsJournalledOnce
        <4>2. CASE i = n \/ j = n
          BY <2>1, <2>2, <3>1, <4>2
        <4> QED BY <2>2, <4>1, <4>2
      <3> QED BY <3>1 DEF PositionsJournalledOnce
    <2>4. \A i \in DOMAIN journal' : journal'[i].payload = "inline"
      BY <2>1, <2>2 DEF RepeatInv
    <2>5. PICK img : img = Image'
      OBVIOUS
    <2>6. /\ img \in MemoryType /\ Image \in MemoryType
          /\ img.serial >= Image.serial /\ img.serial >= e.cursor.serial
          /\ img.positions = Image.positions \cup {PositionKey(e.cursor, e.state)}
          /\ \A t \in Stage : img.cursors[t].serial \in {Image.cursors[t].serial, e.cursor.serial, 0}
      BY <2>1, <2>5, ImageAppend DEF FreeInv
    <2>7. Covers(Image)
      BY DEF RepeatInv
    <2>8. /\ e.cursor.serial \in Nat /\ img.serial \in Nat /\ Image.serial \in Nat
          /\ \A t \in Stage : Image.cursors[t].serial \in Nat
          /\ \A i \in DOMAIN journal : journal[i].cursor.serial \in Nat
      BY <2>6, SerialsTyped, RecordFields
    <2>9. \A i \in DOMAIN journal' :
            /\ PositionKey(journal'[i].cursor, journal'[i].state) \in img.positions
            /\ journal'[i].cursor.serial <= img.serial
      BY <2>2, <2>6, <2>7, <2>8 DEF Covers
    <2>10. \A t \in Stage : img.cursors[t].serial <= img.serial
      BY <2>6, <2>7, <2>8 DEF Covers
    <2>11. Covers(Image)'
      BY <2>5, <2>9, <2>10 DEF Covers
    <2> QED BY <1>2, <1>3, <2>3, <2>4, <2>11 DEF RepeatInv
  <1> QED BY <1>4, <1>5

(* A revision is journalled under a serial the journal has not seen.       *)
LEMMA OpensKeepsRepeat ==
  ASSUME FreeInv, RepeatInv, NEW h \in Hosts, NEW c, NEW m2, Opens(h, c, m2)
  PROVE  RepeatInv'
  <1> DEFINE m == mem[h]
             n == Len(journal) + 1
             e == Entry(c, CursorOpened, "inline")
  <1>1. /\ Running(h) /\ m \in MemoryType /\ m2 \in MemoryType /\ c \in CursorType
        /\ c.stage \in Stage /\ c.serial = m.serial + 1 /\ m2.serial = m.serial + 1
        /\ \A t \in Stage : \/ m2.cursors[t] \in {m.cursors[t], NoCursor}
                            \/ t = c.stage /\ m2.cursors[t] = c
        /\ m.positions \subseteq m2.positions /\ mem' = [mem EXCEPT ![h] = m2]
    BY RunningMemory DEF Opens, FreeInv
  <1>2. /\ e \in RecordType /\ e.cursor = c /\ e.state = CursorOpened /\ e.payload = "inline"
    BY <1>1 DEF Entry, RecordType
  <1>3. Covers(m)
    BY <1>1 DEF RepeatInv
  <1> HIDE DEF e
  <1>4. \A t \in Stage : m2.cursors[t].serial <= m2.serial
    BY <1>1, <1>3, SerialsTyped, CursorFields DEF Covers
  <1>5. \A i \in DOMAIN journal :
          /\ PositionKey(journal[i].cursor, journal[i].state) \in m2.positions
          /\ journal[i].cursor.serial <= m2.serial
          /\ journal[i].cursor.serial # c.serial
    BY <1>1, <1>3, SerialsTyped DEF Covers
  <1>6. CASE journal' = journal
    <2>1. Covers(m2)'
      BY <1>4, <1>5, <1>6 DEF Covers
    <2> QED BY <1>1, <1>6, <2>1, CoveringStep
  <1>7. CASE journal' = Append(journal, e) /\ PositionKey(c, CursorOpened) \in m2.positions
    <2>1. /\ DOMAIN journal' = DOMAIN journal \cup {n}
          /\ \A i \in DOMAIN journal : journal'[i] = journal[i]
          /\ journal'[n] = e
      BY <1>2, <1>7, AppendRecord DEF FreeInv, TypeOK
    <2>2. \A i \in DOMAIN journal : PositionKey(journal[i].cursor, journal[i].state)
                                      # PositionKey(e.cursor, e.state)
      BY <1>2, <1>5 DEF PositionKey
    <2>3. Covers(m2)'
      <3>1. c.serial <= m2.serial
        BY <1>1, SerialsTyped
      <3> QED BY <1>2, <1>4, <1>5, <1>7, <2>1, <3>1 DEF Covers
    <2> QED BY <1>1, <1>2, <1>7, <2>2, <2>3, CoveringStep
  <1> QED BY <1>6, <1>7 DEF Opens, e

(* record_stage refuses the positions its memory has, which are all there  *)
(* are.                                                                    *)
LEMMA WritesKeepsRepeat ==
  ASSUME FreeInv, RepeatInv, NEW h \in Hosts, NEW e, Writes(h, e), e.payload = "inline"
  PROVE  RepeatInv'
  <1> DEFINE m == mem[h]
             n == Len(journal) + 1
  <1>0. PICK m2 : m2 = Recorded(m, e.cursor, e.state, n)
    OBVIOUS
  <1>1. /\ Running(h) /\ m \in MemoryType /\ Slotted(m) /\ e \in RecordType
        /\ e.state \in EvidenceState /\ e.cursor.stage \in Stage /\ e.cursor \in CursorType
        /\ Recordable(m, e.cursor, e.state) /\ journal' = Append(journal, e)
        /\ mem' = [mem EXCEPT ![h] = m2]
    BY <1>0, RunningMemory, RecordFields DEF Writes, FreeInv
  <1>2. /\ DOMAIN journal' = DOMAIN journal \cup {n} /\ n \in Nat
        /\ \A i \in DOMAIN journal : journal'[i] = journal[i]
        /\ journal'[n] = e
    BY <1>1, AppendRecord DEF FreeInv, TypeOK
  <1>3. /\ m2 \in MemoryType /\ m2.serial = m.serial
        /\ m2.positions = m.positions \cup {PositionKey(e.cursor, e.state)}
        /\ \A t \in Stage : m2.cursors[t].serial = m.cursors[t].serial
        /\ e.cursor.serial = m.cursors[e.cursor.stage].serial
        /\ PositionKey(e.cursor, e.state) \notin m.positions
    BY <1>0, <1>1, <1>2, RecordFacts
  <1>4. Covers(m)
    BY <1>1 DEF RepeatInv
  <1>5. \A i \in DOMAIN journal' :
          /\ PositionKey(journal'[i].cursor, journal'[i].state) \in m2.positions
          /\ journal'[i].cursor.serial <= m2.serial
    BY <1>1, <1>2, <1>3, <1>4 DEF Covers
  <1>6. \A t \in Stage : m2.cursors[t].serial <= m2.serial
    BY <1>3, <1>4 DEF Covers
  <1>7. Covers(m2)'
    BY <1>5, <1>6 DEF Covers
  <1>8. \A i \in DOMAIN journal : PositionKey(journal[i].cursor, journal[i].state)
                                    # PositionKey(e.cursor, e.state)
    BY <1>3, <1>4 DEF Covers
  <1> QED BY <1>1, <1>3, <1>7, <1>8, CoveringStep

(* Every step keeps RepeatInv ...                                          *)
LEMMA RepeatNext == FreeInv /\ RepeatInv /\ [Next]_vars => RepeatInv'
  <1> SUFFICES ASSUME FreeInv, RepeatInv, [Next]_vars PROVE RepeatInv'
    OBVIOUS
  <1>1. ASSUME UNCHANGED <<journal, mem>> PROVE RepeatInv'
    BY <1>1 DEF RepeatInv, OneHost, InlineOnly, PositionsJournalledOnce, Covers, Image, Running
  <1>2. ASSUME NEW h \in Hosts, JournalDecision(h) PROVE RepeatInv'
    <2>1. DecisionEntry(Answering(h), consuming[h]).payload = "inline"
      BY DEF DecisionEntry
    <2> QED BY <1>2, <2>1, DecisionWrites, WritesKeepsRepeat
  <1>3. ASSUME NEW h \in Hosts, NEW c, NEW m2, Opens(h, c, m2) PROVE RepeatInv'
    BY <1>3, OpensKeepsRepeat
  <1>4. ASSUME NEW h \in Hosts, NEW c, NEW payload \in Payloads, Writes(h, Entry(c, "completed", payload))
        PROVE  RepeatInv'
    <2>1. Entry(c, "completed", payload).payload = "inline"
      BY DEF Entry, RepeatInv, InlineOnly
    <2> QED BY <1>4, <2>1, WritesKeepsRepeat
  <1>5. ASSUME NEW h \in Hosts, NEW c, Writes(h, Entry(c, "needs_input", "inline")) PROVE RepeatInv'
    <2>1. Entry(c, "needs_input", "inline").payload = "inline"
      BY DEF Entry
    <2> QED BY <1>5, <2>1, WritesKeepsRepeat
  <1>6. ASSUME NEW h \in Hosts, NEW s \in Stage, OpenCursor(h, s) PROVE RepeatInv'
    BY <1>1, <1>6 DEF OpenCursor
  <1>7. ASSUME NEW h \in Hosts, NEW d, ConsumeHumanDecision(h, d) PROVE RepeatInv'
    BY <1>1, <1>7 DEF ConsumeHumanDecision
  <1>8. ASSUME NEW h \in Hosts, Create(h) PROVE RepeatInv'
    <2>1. PICK img \in MemoryType : img = Image
      BY DEF FreeInv
    <2>2. mem' = [mem EXCEPT ![h] = img] /\ journal' = journal
      BY <1>8, <2>1 DEF Create, Image
    <2>3. Covers(img)'
      BY <2>1, <2>2 DEF RepeatInv, Covers
    <2> QED BY <2>2, <2>3, CoveringStep
  <1>9. ASSUME NEW h \in Hosts, Crash(h) PROVE RepeatInv'
    <2>1. mem'[h] = NotRunning /\ journal' = journal /\ \A g \in Hosts : g = h
      BY <1>9 DEF Crash, FreeInv, TypeOK, RepeatInv, OneHost
    <2>2. \A g \in Hosts : ~Running(g)'
      BY <2>1 DEF Running, NotRunning
    <2> QED BY <2>1, <2>2
            DEF RepeatInv, OneHost, InlineOnly, PositionsJournalledOnce, Covers, Image
  <1>10. CASE UNCHANGED vars
    BY <1>1, <1>10 DEF vars
  <1> QED BY <1>2, <1>3, <1>4, <1>5, <1>6, <1>7, <1>8, <1>9, <1>10, StepCases

(* ... and the empty run has it.                                           *)
LEMMA RepeatInit == OneHost /\ InlineOnly /\ Init => RepeatInv
  <1> SUFFICES ASSUME OneHost, InlineOnly, Init PROVE RepeatInv
    OBVIOUS
  <1>1. journal = << >> /\ \A h \in Hosts : ~Running(h)
    BY DEF Init, Running, NotRunning
  <1>2. Covers(Image)
    BY <1>1, RestoredNothing, EmptyFacts DEF Covers, Image
  <1> QED BY <1>1, <1>2 DEF RepeatInv, PositionsJournalledOnce

(* Across any number of restarts of one process, no position is journalled *)
(* twice: what restore_cursors reads back covers what was recorded.        *)
THEOREM EachPositionOnce == OneHost /\ InlineOnly /\ Spec => []PositionsJournalledOnce
  <1>1. RepeatInv => PositionsJournalledOnce
    BY DEF RepeatInv
  <1> QED BY <1>1, RepeatInit, RepeatNext, FreeInvariance, PTL DEF Spec

------------------------------------------------------------------------------
(* AskInv: questions and answers of a run one host uses.                   *)

(* What a line adds to the requests and to the consumed ones.              *)
LEMMA AskAppend ==
  ASSUME FreeInv, NEW e \in RecordType, journal' = Append(journal, e)
  PROVE  LET n == Len(journal) + 1 IN
         /\ DOMAIN journal' = DOMAIN journal \cup {n} /\ n \notin DOMAIN journal
         /\ journal'[n] = e /\ \A i \in DOMAIN journal : journal'[i] = journal[i]
         /\ Requests' = IF e.state = "needs_input" THEN Requests \cup {n} ELSE Requests
         /\ Consumed' = IF e.request = 0 THEN Consumed ELSE Consumed \cup {e.request}
  <1> DEFINE n == Len(journal) + 1
  <1>1. /\ DOMAIN journal' = DOMAIN journal \cup {n} /\ n \notin DOMAIN journal
        /\ journal'[n] = e /\ \A i \in DOMAIN journal : journal'[i] = journal[i]
    BY AppendRecord DEF FreeInv, TypeOK
  <1> HIDE DEF n
  <1>2. Requests' = IF e.state = "needs_input" THEN Requests \cup {n} ELSE Requests
    BY <1>1 DEF Requests
  <1>3. Consumed' = IF e.request = 0 THEN Consumed ELSE Consumed \cup {e.request}
    BY <1>1 DEF Consumed
  <1> QED BY <1>1, <1>2, <1>3 DEF n

(* A line that neither asks nor answers leaves all of it alone.            *)
LEMMA SilentKeepsAsk ==
  ASSUME FreeInv, AskInv, NEW e \in RecordType, e.request = 0, e.state # "needs_input",
         journal' = Append(journal, e), consuming' = consuming
  PROVE  AskInv'
  <1> DEFINE n == Len(journal) + 1
  <1>1. /\ DOMAIN journal' = DOMAIN journal \cup {n}
        /\ journal'[n] = e /\ \A i \in DOMAIN journal : journal'[i] = journal[i]
        /\ Requests' = Requests /\ Consumed' = Consumed
    BY AskAppend
  <1> HIDE DEF n
  <1>2. Pending' = Pending
    BY <1>1 DEF Pending
  <1>3. \A i \in DOMAIN journal' : journal'[i].request # 0 =>
          /\ i \in DOMAIN journal /\ journal[i].request = journal'[i].request
          /\ journal[i].request \in Requests /\ journal[i].request \in DOMAIN journal
    BY <1>1 DEF AskInv, Requests
  <1>4. DecisionsBound'
    <2>1. ASSUME NEW i \in DOMAIN journal', journal'[i].request # 0
          PROVE  LET asked == journal'[journal'[i].request].cursor IN
                 /\ journal'[i].cursor.stage = asked.stage
                 /\ journal'[i].cursor.rev = asked.rev
                 /\ journal'[i].cursor.att = asked.att
                 /\ \A j \in DOMAIN journal' : journal'[j].request = journal'[i].request => j = i
      BY <1>1, <1>3, <2>1 DEF AskInv, DecisionsBound
    <2> QED BY <2>1 DEF DecisionsBound
  <1> QED BY <1>1, <1>2, <1>3, <1>4 DEF AskInv, OneHost

(* A request is opened when nothing is pending.                            *)
LEMMA RequestKeepsAsk ==
  ASSUME FreeInv, AskInv, NEW h \in Hosts, NEW c, OpenHumanDecisionRequest(h, c),
         Writes(h, Entry(c, "needs_input", "inline"))
  PROVE  AskInv'
  <1> DEFINE n == Len(journal) + 1
             e == Entry(c, "needs_input", "inline")
  <1>1. /\ e \in RecordType /\ e.state = "needs_input" /\ e.request = 0
        /\ journal' = Append(journal, e)
    BY DEF Writes, Entry
  <1> HIDE DEF e
  <1>2. /\ DOMAIN journal' = DOMAIN journal \cup {n} /\ n \notin DOMAIN journal
        /\ journal'[n] = e /\ \A i \in DOMAIN journal : journal'[i] = journal[i]
        /\ Requests' = Requests \cup {n} /\ Consumed' = Consumed
    BY <1>1, AskAppend
  <1> HIDE DEF n
  <1>3. Pending = {} /\ consuming' = consuming /\ consuming[h] = NoDecision
    BY DEF OpenHumanDecisionRequest, Idle
  <1>4. \A i \in Pending' : i = n
    BY <1>2, <1>3 DEF Pending
  <1>5. \A i \in DOMAIN journal' : journal'[i].request # 0 =>
          /\ i \in DOMAIN journal /\ journal[i].request = journal'[i].request
          /\ journal[i].request \in Requests /\ journal[i].request \in DOMAIN journal
    BY <1>1, <1>2 DEF AskInv, Requests
  <1>6. DecisionsBound'
    <2>1. ASSUME NEW i \in DOMAIN journal', journal'[i].request # 0
          PROVE  LET asked == journal'[journal'[i].request].cursor IN
                 /\ journal'[i].cursor.stage = asked.stage
                 /\ journal'[i].cursor.rev = asked.rev
                 /\ journal'[i].cursor.att = asked.att
                 /\ \A j \in DOMAIN journal' : journal'[j].request = journal'[i].request => j = i
      BY <1>2, <1>5, <2>1 DEF AskInv, DecisionsBound
    <2> QED BY <2>1 DEF DecisionsBound
  <1>7. \A g \in Hosts : consuming'[g] = NoDecision
    BY <1>3 DEF AskInv, OneHost
  <1> QED BY <1>2, <1>4, <1>5, <1>6, <1>7 DEF AskInv, OneHost

(* A decision is journalled for a request nobody else has answered since   *)
(* the check.                                                              *)
LEMMA DecisionKeepsAsk ==
  ASSUME FreeInv, AskInv, NEW h \in Hosts, JournalDecision(h)
  PROVE  AskInv'
  <1> DEFINE n == Len(journal) + 1
             r == consuming[h].request
             e == DecisionEntry(Answering(h), consuming[h])
             asked == journal[r].cursor
  <1>1. /\ e \in RecordType /\ e.state # "needs_input" /\ e.request = r
        /\ journal' = Append(journal, e) /\ consuming' = [consuming EXCEPT ![h] = NoDecision]
        /\ r \in Requests /\ r \notin Consumed
        /\ e.cursor.stage = asked.stage /\ e.cursor.rev = asked.rev /\ e.cursor.att = asked.att
    BY DecisionWrites DEF Writes, DecisionEntry, AskInv
  <1>2. r \in DOMAIN journal /\ r # 0
    BY <1>1, AppendRecord DEF Requests, FreeInv, TypeOK
  <1>3. \A i \in DOMAIN journal : journal[i].request # r
    BY <1>1, <1>2 DEF Consumed
  <1> HIDE DEF e
  <1>4. /\ DOMAIN journal' = DOMAIN journal \cup {n} /\ n \notin DOMAIN journal
        /\ journal'[n] = e /\ \A i \in DOMAIN journal : journal'[i] = journal[i]
        /\ Requests' = Requests /\ Consumed' = Consumed \cup {r}
    BY <1>1, <1>2, AskAppend
  <1> HIDE DEF n
  <1>5. \A i, j \in Pending' : i = j
    BY <1>4 DEF Pending, AskInv
  <1>6. \A i \in DOMAIN journal' : journal'[i].request # 0 =>
          \/ i = n /\ journal'[i].request = r
          \/ /\ i \in DOMAIN journal /\ journal[i].request = journal'[i].request
             /\ journal[i].request \in Requests /\ journal[i].request \in DOMAIN journal
    BY <1>1, <1>4 DEF AskInv, Requests
  <1>7. DecisionsBound'
    <2>1. ASSUME NEW i \in DOMAIN journal', journal'[i].request # 0
          PROVE  LET q == journal'[journal'[i].request].cursor IN
                 /\ journal'[i].cursor.stage = q.stage
                 /\ journal'[i].cursor.rev = q.rev
                 /\ journal'[i].cursor.att = q.att
                 /\ \A j \in DOMAIN journal' : journal'[j].request = journal'[i].request => j = i
      <3>1. CASE i = n
        <4>1. journal'[journal'[i].request].cursor = asked
          BY <1>1, <1>2, <1>4, <3>1
        <4> QED BY <1>1, <1>3, <1>4, <3>1, <4>1
      <3>2. CASE i # n
        <4>1. /\ i \in DOMAIN journal /\ journal'[i] = journal[i] /\ journal[i].request # r
              /\ journal[i].request \in DOMAIN journal
          BY <1>3, <1>4, <1>6, <2>1, <3>2
        <4>2. journal'[journal'[i].request] = journal[journal[i].request]
          BY <1>4, <4>1
        <4>3. \A j \in DOMAIN journal' : journal'[j].request = journal[i].request => j = i
          BY <1>1, <1>4, <2>1, <4>1 DEF AskInv, DecisionsBound
        <4> QED BY <2>1, <4>1, <4>2, <4>3 DEF AskInv, DecisionsBound
      <3> QED BY <3>1, <3>2
    <2> QED BY <2>1 DEF DecisionsBound
  <1>8. \A g \in Hosts : consuming'[g] = NoDecision
    BY <1>1 DEF AskInv, OneHost, FreeInv, TypeOK
  <1>9. \A i \in DOMAIN journal' : journal'[i].request # 0 => journal'[i].request \in Requests'
    BY <1>1, <1>4, <1>6
  <1> QED BY <1>5, <1>7, <1>8, <1>9 DEF AskInv, OneHost

(* Every step keeps AskInv ...                                             *)
LEMMA AskNext == FreeInv /\ AskInv /\ [Next]_vars => AskInv'
  <1> SUFFICES ASSUME FreeInv, AskInv, [Next]_vars PROVE AskInv'
    OBVIOUS
  <1>1. ASSUME journal' = journal,
               \A h \in Hosts : consuming'[h] # NoDecision => consuming'[h].request \notin Consumed
        PROVE  AskInv'
    BY <1>1 DEF AskInv, OneHost, Requests, Consumed, Pending, DecisionsBound
  <1>2. ASSUME NEW h \in Hosts, JournalDecision(h) PROVE AskInv'
    BY <1>2, DecisionKeepsAsk
  <1>3. ASSUME NEW h \in Hosts, NEW c, NEW m2, Opens(h, c, m2) PROVE AskInv'
    <2>1. CASE journal' = journal
      BY <1>1, <1>3, <2>1 DEF Opens, AskInv
    <2>2. CASE journal' = Append(journal, Entry(c, CursorOpened, "inline"))
      <3>1. /\ Entry(c, CursorOpened, "inline") \in RecordType
            /\ Entry(c, CursorOpened, "inline").request = 0
            /\ Entry(c, CursorOpened, "inline").state # "needs_input"
        BY <1>3 DEF Opens, Entry, RecordType, CursorOpened
      <3> QED BY <1>3, <2>2, <3>1, SilentKeepsAsk DEF Opens
    <2> QED BY <1>3, <2>1, <2>2 DEF Opens
  <1>4. ASSUME NEW h \in Hosts, NEW c, NEW payload \in Payloads, RecordStage(h, c, payload),
               Writes(h, Entry(c, "completed", payload))
        PROVE  AskInv'
    <2>1. /\ Entry(c, "completed", payload) \in RecordType
          /\ Entry(c, "completed", payload).request = 0
          /\ Entry(c, "completed", payload).state # "needs_input"
      BY <1>4 DEF Writes, Entry
    <2> QED BY <1>4, <2>1, SilentKeepsAsk DEF Writes, RecordStage
  <1>5. ASSUME NEW h \in Hosts, NEW c, OpenHumanDecisionRequest(h, c),
               Writes(h, Entry(c, "needs_input", "inline"))
        PROVE  AskInv'
    BY <1>5, RequestKeepsAsk
  <1>6. ASSUME NEW h \in Hosts, NEW s \in Stage, OpenCursor(h, s) PROVE AskInv'
    BY <1>1, <1>6 DEF OpenCursor, AskInv
  <1>7. ASSUME NEW h \in Hosts, NEW d, ConsumeHumanDecision(h, d) PROVE AskInv'
    BY <1>1, <1>7 DEF ConsumeHumanDecision, FreeInv, TypeOK, AskInv
  <1>8. ASSUME NEW h \in Hosts, Create(h) PROVE AskInv'
    BY <1>1, <1>8 DEF Create, AskInv
  <1>9. ASSUME NEW h \in Hosts, Crash(h) PROVE AskInv'
    BY <1>1, <1>9 DEF Crash, FreeInv, TypeOK, AskInv
  <1>10. CASE UNCHANGED vars
    BY <1>1, <1>10 DEF vars, AskInv
  <1> QED BY <1>2, <1>3, <1>4, <1>5, <1>6, <1>7, <1>8, <1>9, <1>10, StepCases

(* ... and the empty run has it.                                           *)
LEMMA AskInit == OneHost /\ Init => AskInv
  BY DEF OneHost, Init, AskInv, DecisionsBound, Pending, Requests

(* Requests and decisions of one host, across any number of restarts.      *)
THEOREM AskInvariance == OneHost /\ Spec => []AskInv
  BY AskInit, AskNext, FreeInvariance, PTL DEF Spec

(* A request is decided at most once, by the position that asked.  With    *)
(* two hosts this is what the run two_hosts refutes.                       *)
THEOREM DecidedWhereAsked == OneHost /\ Spec => []DecisionsBound
  <1>1. AskInv => DecisionsBound
    BY DEF AskInv
  <1> QED BY <1>1, AskInvariance, PTL
==============================================================================
