------------------------- MODULE StageProtocolProofs -------------------------
(* Proofs that the recording discipline keeps the journal restorable, the  *)
(* attempt keys ordered and a restart in agreement with the live process.  *)
EXTENDS StageProtocol, StageCursorProofs, TLAPS

(* Appending to the journal keeps the records already in it.               *)
LEMMA AppendFacts ==
  ASSUME NEW q \in Seq(RecordType), NEW e \in RecordType
  PROVE  /\ Append(q, e) \in Seq(RecordType)
         /\ Len(Append(q, e)) = Len(q) + 1
         /\ \A i \in 1..Len(q) : Append(q, e)[i] = q[i]
         /\ Append(q, e)[Len(q) + 1] = e
         /\ Len(q) \in Nat
  OBVIOUS

(* The records of a journal carry cursors.                                 *)
LEMMA JournalFields ==
  ASSUME NEW q \in Seq(RecordType)
  PROVE  \A i \in 1..Len(q) : /\ q[i].cursor \in CursorType
                              /\ q[i].cursor.serial \in Nat
                              /\ q[i].cursor.stage \in Nat
  <1>1. \A i \in 1..Len(q) : q[i] \in RecordType
    OBVIOUS
  <1>2. \A e \in RecordType : e.cursor \in CursorType
    BY DEF RecordType
  <1> QED BY <1>1, <1>2, CursorFields

(* A first open changes the memory of one stage only, and nothing on disk. *)
LEMMA FirstStep ==
  ASSUME Inv, NEW s \in Stage, BeginRevisionFirst(s)
  PROVE  Inv'
  <1> DEFINE c == RevisedCursor(mem, s)
  <1>0. /\ mem \in MemoryType /\ image \in MemoryType /\ mem' \in MemoryType
        /\ image' = image /\ journal' = journal /\ verdict' = verdict
        /\ opening = NoStage /\ opening' = s
        /\ Len(journal) \in Nat /\ journal \in Seq(RecordType)
    BY FirstOpenType DEF Inv, TypeOK, BeginRevisionFirst
  <1>1. /\ mem'.cursors = [mem.cursors EXCEPT ![s] = c]
        /\ mem'.serial = mem.serial + 1
        /\ mem'.last = mem.last /\ mem'.positions = mem.positions
    BY DEF FirstOpen, BeginRevisionFirst
  <1>2. /\ mem.cursors \in [Stage -> CursorType] /\ image.cursors \in [Stage -> CursorType]
        /\ mem.serial \in Nat /\ image.serial \in Nat
        /\ \A t \in Stage : t # s => mem'.cursors[t] = mem.cursors[t]
        /\ mem'.cursors[s] = c
    BY <1>0, <1>1, MemoryFields
  <1>3. /\ c \in CursorType /\ c.stage = s /\ c.parent = mem.last[s]
        /\ c.serial = mem.serial + 1 /\ Live(c)
    BY <1>0, RevisedCursorType
  <1>4. image.cursors[s] = mem.cursors[s] /\ ~Live(image.cursors[s])
    BY <1>0, <1>2, CursorFields DEF Inv, RestartAgrees, Live, BeginRevisionFirst
  <1> HIDE DEF c
  <1>a. TypeOK'
    BY <1>0 DEF Inv, TypeOK
  <1>b. Restorable' /\ FencingOrder'
    BY <1>0 DEF Inv, Restorable, FencingOrder
  <1>c. RestartAgrees'
    BY <1>0, <1>2, <1>4, CursorFields DEF Inv, RestartAgrees
  <1>d. SerialsBounded'
    BY <1>0, <1>1, <1>2, <1>3, CursorFields DEF Inv, SerialsBounded
  <1>e. Chained(mem)' /\ Chained(image)'
    BY <1>0, <1>1, <1>2, <1>3 DEF Inv, Chained
  <1>f. EvidenceBehindTip'
    BY <1>0, <1>1 DEF Inv, EvidenceBehindTip
  <1>g. Fenced(mem)' /\ Fenced(image)'
    <2>1. \A i \in 1..Len(journal) : /\ journal[i].cursor.serial \in Nat
                                     /\ journal[i].cursor.serial < c.serial
      BY <1>0, <1>2, <1>3, JournalFields DEF Inv, SerialsBounded
    <2>2. Fenced(mem)'
      BY <1>0, <1>2, <2>1, <1>3 DEF Inv, Fenced
    <2>3. Fenced(image)'
      BY <1>0 DEF Inv, Fenced
    <2> QED BY <2>2, <2>3
  <1>h. OpeningPending'
    BY <1>0, <1>2, <1>3, <1>4 DEF OpeningPending
  <1> QED BY <1>a, <1>b, <1>c, <1>d, <1>e, <1>f, <1>g, <1>h DEF Inv

(* A new attempt likewise; the image falls one attempt behind.             *)
LEMMA AttemptStep ==
  ASSUME Inv, NEW s \in Stage, BeginAttempt(s)
  PROVE  Inv'
  <1> DEFINE c == NewCursor(mem, s, mem.cursors[s].rev, mem.cursors[s].att + 1)
  <1>0. /\ mem \in MemoryType /\ image \in MemoryType /\ mem' \in MemoryType
        /\ image' = image /\ journal' = journal /\ verdict' = verdict
        /\ opening = NoStage /\ opening' = opening
        /\ Len(journal) \in Nat /\ journal \in Seq(RecordType)
    BY NextAttemptType DEF Inv, TypeOK, BeginAttempt
  <1>1. /\ mem'.cursors = [mem.cursors EXCEPT ![s] = c]
        /\ mem'.serial = mem.serial + 1
        /\ mem'.last = mem.last /\ mem'.positions = mem.positions
    BY DEF NextAttempt, BeginAttempt
  <1>2. /\ mem.cursors \in [Stage -> CursorType] /\ image.cursors \in [Stage -> CursorType]
        /\ mem.serial \in Nat /\ image.serial \in Nat
        /\ \A t \in Stage : t # s => mem'.cursors[t] = mem.cursors[t]
        /\ mem'.cursors[s] = c
    BY <1>0, <1>1, MemoryFields
  <1>3. /\ c.stage = s /\ c.parent = mem.last[s] /\ c.serial = mem.serial + 1
        /\ c.rev = mem.cursors[s].rev /\ c.att = mem.cursors[s].att + 1
        /\ Live(c) /\ Live(mem.cursors[s])
        /\ mem.cursors[s].att \in Nat /\ image.cursors[s].att \in Nat
    BY <1>0, <1>2, CursorFields DEF NewCursor, BeginAttempt, Live
  <1> HIDE DEF c
  <1>4. Live(image.cursors[s]) /\ image.cursors[s].rev = c.rev /\ image.cursors[s].att < c.att
    <2>1. \/ image.cursors[s] = mem.cursors[s]
          \/ /\ Live(image.cursors[s])
             /\ image.cursors[s].rev = mem.cursors[s].rev
             /\ image.cursors[s].att < mem.cursors[s].att
      BY <1>0, CursorFields DEF Inv, RestartAgrees
    <2> QED BY <1>3, <2>1
  <1>a. TypeOK'
    BY <1>0 DEF Inv, TypeOK
  <1>b. Restorable' /\ FencingOrder'
    BY <1>0 DEF Inv, Restorable, FencingOrder
  <1>c. RestartAgrees'
    BY <1>0, <1>2, <1>4, CursorFields DEF Inv, RestartAgrees
  <1>d. SerialsBounded'
    BY <1>0, <1>1, <1>2, <1>3, CursorFields DEF Inv, SerialsBounded
  <1>e. Chained(mem)' /\ Chained(image)'
    BY <1>0, <1>1, <1>2, <1>3 DEF Inv, Chained
  <1>f. EvidenceBehindTip'
    BY <1>0, <1>1 DEF Inv, EvidenceBehindTip
  <1>g. Fenced(mem)' /\ Fenced(image)'
    <2>1. \A i \in 1..Len(journal) : /\ journal[i].cursor.serial \in Nat
                                     /\ journal[i].cursor.serial < c.serial
      BY <1>0, <1>2, <1>3, JournalFields DEF Inv, SerialsBounded
    <2>2. Fenced(mem)'
      BY <1>0, <1>2, <2>1, <1>3 DEF Inv, Fenced
    <2>3. Fenced(image)'
      BY <1>0 DEF Inv, Fenced
    <2> QED BY <2>2, <2>3
  <1>h. OpeningPending'
    BY <1>0 DEF OpeningPending
  <1> QED BY <1>a, <1>b, <1>c, <1>d, <1>e, <1>f, <1>g, <1>h DEF Inv

(* A bump reaches the journal with a serial above everything in it.        *)
LEMMA BumpStep ==
  ASSUME Inv, NEW s \in Stage, BeginRevisionBump(s)
  PROVE  Inv'
  <1> DEFINE c == RevisedCursor(mem, s)
             n == Len(journal) + 1
             k == PositionKey(c, CursorOpened)
  <1>0. /\ mem \in MemoryType /\ image \in MemoryType
        /\ mem' = Bump(mem, s) /\ mem' \in MemoryType
        /\ journal \in Seq(RecordType) /\ Len(journal) \in Nat
        /\ journal' = Append(journal, Entry(c, CursorOpened))
        /\ image' = Replay(image, c, CursorOpened, n)
        /\ verdict = "accepted" /\ opening' = NoStage
        /\ Live(mem.cursors[s])
    BY BumpType DEF Inv, TypeOK, Restorable, BeginRevisionBump, Append1
  <1>1. /\ c \in CursorType /\ c.stage = s /\ c.parent = mem.last[s]
        /\ c.rev = mem.cursors[s].rev + 1
        /\ c.serial = mem.serial + 1 /\ Live(c)
    BY <1>0, RevisedCursorType
  <1>2. /\ mem.cursors \in [Stage -> CursorType] /\ image.cursors \in [Stage -> CursorType]
        /\ mem.serial \in Nat /\ image.serial \in Nat
        /\ mem.cursors[s].rev \in Nat /\ image.cursors[s].rev \in Nat
    BY <1>0, MemoryFields, CursorFields
  <1>3. Entry(c, CursorOpened) \in RecordType
    BY <1>1 DEF Entry, RecordType
  <1>4. /\ journal' \in Seq(RecordType) /\ Len(journal') = n
        /\ \A i \in 1..Len(journal) : journal'[i] = journal[i]
        /\ journal'[n].cursor = c /\ journal'[n].state = CursorOpened
    BY <1>0, <1>3, AppendFacts DEF Entry
  <1>5. /\ mem'.serial = c.serial /\ mem'.last = mem.last
        /\ mem'.positions = mem.positions \cup {k}
        /\ \A t \in Stage : mem'.cursors[t] = IF t = s THEN c
                               ELSE IF t > s THEN NoCursor ELSE mem.cursors[t]
    <2>1. /\ mem'.serial = c.serial /\ mem'.last = mem.last
          /\ mem'.positions = mem.positions \cup {k}
          /\ mem'.cursors = [DropLater(mem.cursors, s) EXCEPT ![s] = c]
      BY <1>0, <1>1 DEF Bump
    <2> HIDE DEF c, k
    <2> QED BY <1>2, <2>1, DropLaterType
  <1>6. \A t \in Stage : image'.cursors[t] = IF t = s THEN c
                            ELSE IF t > s THEN NoCursor ELSE image.cursors[t]
    <2>1. CASE Live(image.cursors[s])
      <3>1. c.rev > image.cursors[s].rev
        BY <1>0, <1>1, <1>2, <2>1 DEF Inv, RestartAgrees
      <3>2. image'.cursors = [DropLater(image.cursors, s) EXCEPT ![s] = c]
        BY <1>0, <1>1, <2>1, <3>1 DEF Replay, NotOlder
      <3> QED BY <1>2, <3>2, DropLaterType
    <2>2. CASE ~Live(image.cursors[s])
      <3>1. image'.cursors = [image.cursors EXCEPT ![s] = c]
        BY <1>0, <1>1, <2>2 DEF Replay
      <3>2. opening = s /\ \A t \in Descendants(s) : ~Live(mem.cursors[t])
        BY <1>0, <1>2, <2>2, CursorFields
        DEF Inv, RestartAgrees, BeginRevisionBump, Live
      <3>3. \A t \in Stage : t > s => image.cursors[t] = NoCursor
        BY <1>2, <3>2, CursorFields DEF Inv, RestartAgrees, Chained, Descendants, Live
      <3> QED BY <1>2, <3>1, <3>3
    <2> QED BY <2>1, <2>2
  <1>7. /\ image'.serial = c.serial /\ image'.last = image.last
        /\ image'.positions = image.positions \cup {k}
    BY <1>0, <1>1, <1>2 DEF Replay, Inv, SerialsBounded
  <1>8. image' \in MemoryType
    <2>1. n \in Nat
      BY <1>0
    <2> HIDE DEF c, n
    <2> QED BY <1>0, <1>1, <2>1, ReplayType
  <1>9. \A i \in 1..Len(journal) : /\ journal[i].cursor.serial \in Nat
                                   /\ journal[i].cursor.stage \in Nat
                                   /\ journal[i].cursor.serial < c.serial
    BY <1>0, <1>1, <1>2, JournalFields DEF Inv, SerialsBounded
  <1>10. k.cursor = c /\ k.state = CursorOpened
    BY DEF PositionKey
  <1>11. c.serial \in Nat /\ s \in Nat
    BY <1>1, CursorFields
  <1> HIDE DEF c, k
  <1>a. TypeOK'
    BY <1>0, <1>4, <1>8, verdict' \in {"accepted", "refused"}
    DEF TypeOK, BeginRevisionBump, Append1
  <1>b. Restorable'
    <2>1. k \notin image.positions
      BY <1>0, <1>1, <1>2, <1>10, <1>11 DEF Inv, SerialsBounded
    <2>2. ReplayAccepts(image, c, CursorOpened)
      BY <1>1, <2>1 DEF ReplayAccepts, Inv, EvidenceBehindTip, k
    <2> QED BY <2>2 DEF Restorable, Inv, BeginRevisionBump, Append1, c
  <1>c. FencingOrder'
    BY <1>0, <1>1, <1>4, <1>9, <1>11 DEF Inv, FencingOrder
  <1>d. RestartAgrees'
    BY <1>0, <1>2, <1>5, <1>6, CursorFields DEF Inv, RestartAgrees, BeginRevisionBump
  <1>e. SerialsBounded'
    <2>1. ASSUME NEW t \in Stage
          PROVE  mem'.cursors[t].serial <= mem'.serial
                 /\ image'.cursors[t].serial <= image'.serial
      <3>1. /\ mem.cursors[t].serial \in Nat /\ image.cursors[t].serial \in Nat
            /\ mem.cursors[t].serial <= mem.serial /\ image.cursors[t].serial <= image.serial
            /\ image.serial <= mem.serial
        BY <1>2, CursorFields DEF Inv, SerialsBounded
      <3>2. mem'.cursors[t] \in {c, NoCursor, mem.cursors[t]}
            /\ image'.cursors[t] \in {c, NoCursor, image.cursors[t]}
        BY <1>5, <1>6
      <3> QED BY <1>1, <1>2, <1>5, <1>7, <1>11, <3>1, <3>2, CursorFields
    <2>2. \A p \in image'.positions : p.cursor.serial <= image'.serial
      <3>1. \A p \in image.positions : p.cursor.serial \in Nat
        BY <1>0, MemoryFields, CursorFields DEF Position
      <3> QED BY <1>1, <1>2, <1>7, <1>10, <1>11, <3>1 DEF Inv, SerialsBounded
    <2> QED BY <1>0, <1>4, <1>5, <1>7, <1>9, <1>11, <2>1, <2>2 DEF SerialsBounded
  <1>f. Chained(mem)' /\ Chained(image)'
    <2>1. mem'.last = mem.last /\ image'.last = mem.last /\ image.last = mem.last
      BY <1>5, <1>7 DEF Inv, EvidenceBehindTip
    <2>2. Chained(mem)'
      BY <1>1, <1>5, <2>1, CursorFields DEF Inv, Chained
    <2>3. Chained(image)'
      BY <1>1, <1>6, <2>1, CursorFields DEF Inv, Chained
    <2> QED BY <2>2, <2>3
  <1>g. EvidenceBehindTip'
    <2>1. \A t \in Stage : image.last[t] \in Nat
      BY <1>0, MemoryFields
    <2> QED BY <1>0, <1>1, <1>4, <1>5, <1>7, <1>10, <2>1 DEF Inv, EvidenceBehindTip
  <1>h. Fenced(mem)' /\ Fenced(image)'
    <2>1. ASSUME NEW t \in Stage, NEW i \in 1..n, Live(mem'.cursors[t])
          PROVE  /\ journal'[i].cursor.stage = t
                      => mem'.cursors[t].serial >= journal'[i].cursor.serial
                 /\ journal'[i].state = CursorOpened /\ t > journal'[i].cursor.stage
                      => mem'.cursors[t].serial > journal'[i].cursor.serial
      <3>1. t \in Nat /\ (t = s \/ (t < s /\ mem'.cursors[t] = mem.cursors[t]
                                            /\ Live(mem.cursors[t])))
        <4>1. t \in Nat
          BY CursorFields
        <4>2. ~(t > s)
          <5>1. t > s => mem'.cursors[t] = NoCursor
            BY <1>5, <1>11, <4>1
          <5> QED BY <5>1, <2>1, CursorFields
        <4>3. t < s => mem'.cursors[t] = mem.cursors[t]
          BY <1>5, <1>11, <4>1
        <4> QED BY <1>11, <2>1, <4>1, <4>2, <4>3
      <3>2. CASE i = n
        BY <1>1, <1>4, <1>11, <1>5, <3>1, <3>2
      <3>3. CASE i \in 1..Len(journal)
        <4>1. CASE t = s
          <5>1. mem'.cursors[t].serial = c.serial
            BY <1>5, <4>1
          <5>2. journal'[i] = journal[i] /\ journal[i].cursor.serial < c.serial
                /\ journal[i].cursor.serial \in Nat
            BY <1>4, <1>9, <3>3
          <5> QED BY <1>11, <5>1, <5>2
        <4>2. CASE t < s
          BY <1>4, <1>11, <3>1, <3>3, <4>2 DEF Inv, Fenced
        <4> QED BY <3>1, <4>1, <4>2
      <3> QED BY <1>0, <3>2, <3>3
    <2>2. ASSUME NEW t \in Stage, NEW i \in 1..n, Live(image'.cursors[t])
          PROVE  /\ journal'[i].cursor.stage = t
                      => image'.cursors[t].serial >= journal'[i].cursor.serial
                 /\ journal'[i].state = CursorOpened /\ t > journal'[i].cursor.stage
                      => image'.cursors[t].serial > journal'[i].cursor.serial
      <3>1. t \in Nat /\ (t = s \/ (t < s /\ image'.cursors[t] = image.cursors[t]
                                            /\ Live(image.cursors[t])))
        <4>1. t \in Nat
          BY CursorFields
        <4>2. ~(t > s)
          <5>1. t > s => image'.cursors[t] = NoCursor
            BY <1>6, <1>11, <4>1
          <5> QED BY <5>1, <2>2, CursorFields
        <4>3. t < s => image'.cursors[t] = image.cursors[t]
          BY <1>6, <1>11, <4>1
        <4> QED BY <1>11, <2>2, <4>1, <4>2, <4>3
      <3>2. CASE i = n
        BY <1>1, <1>4, <1>11, <1>6, <3>1, <3>2
      <3>3. CASE i \in 1..Len(journal)
        <4>1. CASE t = s
          <5>1. image'.cursors[t].serial = c.serial
            BY <1>6, <4>1
          <5>2. journal'[i] = journal[i] /\ journal[i].cursor.serial < c.serial
                /\ journal[i].cursor.serial \in Nat
            BY <1>4, <1>9, <3>3
          <5> QED BY <1>11, <5>1, <5>2
        <4>2. CASE t < s
          BY <1>4, <1>11, <3>1, <3>3, <4>2 DEF Inv, Fenced
        <4> QED BY <3>1, <4>1, <4>2
      <3> QED BY <1>0, <3>2, <3>3
    <2> QED BY <1>4, <2>1, <2>2 DEF Fenced
  <1>i. OpeningPending'
    BY <1>0 DEF OpeningPending
  <1> QED BY <1>a, <1>b, <1>c, <1>d, <1>e, <1>f, <1>g, <1>h, <1>i DEF Inv

(* Evidence chains to the tip both sides agree on and moves it.            *)
LEMMA RecordStep ==
  ASSUME Inv, NEW s \in Stage, NEW state \in EvidenceState, RecordStage(s, state)
  PROVE  Inv'
  <1> DEFINE c == mem.cursors[s]
             n == Len(journal) + 1
             k == PositionKey(c, state)
             a == Advance(c, n)
  <1>0. /\ mem \in MemoryType /\ image \in MemoryType
        /\ mem' = Recorded(mem, c, state, n)
        /\ journal \in Seq(RecordType) /\ Len(journal) \in Nat
        /\ journal' = Append(journal, Entry(c, state))
        /\ image' = Replay(image, c, state, n)
        /\ verdict = "accepted" /\ opening \in {NoStage, s} /\ opening' = NoStage
        /\ Live(c) /\ k \notin mem.positions /\ state # CursorOpened
    BY DEF Inv, TypeOK, Restorable, RecordStage, Append1, Recordable, EvidenceState, CursorOpened
  <1>1. /\ mem.cursors \in [Stage -> CursorType] /\ image.cursors \in [Stage -> CursorType]
        /\ mem.serial \in Nat /\ image.serial \in Nat
        /\ mem.last \in [Stage -> Nat] /\ image.last \in [Stage -> Nat]
    BY <1>0, MemoryFields
  <1>2. /\ c \in CursorType /\ c.stage = s /\ c.parent = mem.last[s]
        /\ c.serial \in Nat /\ c.serial <= mem.serial
        /\ c.rev \in Nat /\ c.att \in Nat /\ s \in Nat /\ n \in Nat
    BY <1>0, <1>1, CursorFields DEF Inv, Chained, SerialsBounded
  <1>3. /\ a \in CursorType /\ a.stage = s /\ a.rev = c.rev /\ a.att = c.att
        /\ a.parent = n /\ a.serial = c.serial /\ Live(a)
    <2>1. a \in CursorType
      <3> HIDE DEF c, n
      <3> QED BY <1>2, AdvanceType
    <2> QED BY <1>0, <1>2, <2>1 DEF Advance, Live
  <1>4. Entry(c, state) \in RecordType
    BY <1>2 DEF Entry, RecordType
  <1>5. /\ journal' \in Seq(RecordType) /\ Len(journal') = n
        /\ \A i \in 1..Len(journal) : journal'[i] = journal[i]
        /\ journal'[n].cursor = c /\ journal'[n].state = state
    BY <1>0, <1>4, AppendFacts DEF Entry
  <1>6. /\ mem'.serial = mem.serial
        /\ mem'.last = [mem.last EXCEPT ![s] = n]
        /\ mem'.positions = mem.positions \cup {k}
        /\ mem'.cursors = [mem.cursors EXCEPT ![s] = a]
    BY <1>0, <1>2 DEF Recorded
  <1>7. \/ ~Live(image.cursors[s])
        \/ /\ image.cursors[s].rev = c.rev /\ image.cursors[s].att <= c.att
    BY <1>0, <1>1, <1>2, CursorFields DEF Inv, RestartAgrees
  <1>8. image'.cursors = [image.cursors EXCEPT ![s] = a]
    <2>1. image.cursors[s].rev \in Nat /\ image.cursors[s].att \in Nat
      BY <1>1, CursorFields
    <2>2. ~(Live(image.cursors[s]) /\ c.rev > image.cursors[s].rev)
      BY <1>2, <1>7, <2>1
    <2>3. ~Live(image.cursors[s]) \/ NotOlder(c, image.cursors[s])
      BY <1>2, <1>7, <2>1 DEF NotOlder
    <2> QED BY <1>0, <1>2, <2>2, <2>3 DEF Replay
  <1>9. /\ image'.serial = IF c.serial > image.serial THEN c.serial ELSE image.serial
        /\ image'.last = [image.last EXCEPT ![s] = n]
        /\ image'.positions = image.positions \cup {k}
    BY <1>0, <1>2 DEF Replay
  <1>10. mem' \in MemoryType /\ image' \in MemoryType
    <2> HIDE DEF c, n
    <2> QED BY <1>0, <1>2, RecordedType, ReplayType
  <1>11. image'.serial \in Nat /\ image'.serial <= mem'.serial
         /\ image.serial <= image'.serial /\ c.serial <= image'.serial
    BY <1>1, <1>2, <1>6, <1>9 DEF Inv, SerialsBounded
  <1>12. k.cursor = c /\ k.state = state
    BY DEF PositionKey
  <1>13. \A t \in Stage : /\ mem'.cursors[t] = IF t = s THEN a ELSE mem.cursors[t]
                          /\ image'.cursors[t] = IF t = s THEN a ELSE image.cursors[t]
                          /\ mem'.last[t] = IF t = s THEN n ELSE mem.last[t]
                          /\ image'.last[t] = IF t = s THEN n ELSE image.last[t]
    BY <1>1, <1>6, <1>8, <1>9
  <1>14. mem.last = image.last /\ mem.positions = image.positions
    BY DEF Inv, EvidenceBehindTip
  <1>15. \A i \in 1..Len(journal) : /\ journal[i].cursor.serial \in Nat
                                    /\ journal[i].cursor.stage \in Nat
                                    /\ journal[i].cursor.serial <= image.serial
    BY <1>0, JournalFields DEF Inv, SerialsBounded
  <1>a. TypeOK'
    BY <1>0, <1>5, <1>10, verdict' \in {"accepted", "refused"}
    DEF TypeOK, RecordStage, Append1
  <1>b. Restorable'
    <2>1. ReplayAccepts(image, c, state)
      BY <1>0, <1>2, <1>14 DEF ReplayAccepts
    <2> QED BY <2>1 DEF Restorable, Inv, RecordStage, Append1
  <1> HIDE DEF c, k, a
  <1>c. FencingOrder'
    <2>1. \A i \in 1..Len(journal) :
             /\ journal[i].cursor.stage = s => c.serial >= journal[i].cursor.serial
             /\ journal[i].state = CursorOpened /\ s > journal[i].cursor.stage
                  => c.serial > journal[i].cursor.serial
      BY <1>0 DEF Inv, Fenced, c
    <2>2. ASSUME NEW i \in 1..n, NEW j \in 1..n, i < j, journal'[j].state # "reported"
          PROVE  /\ journal'[j].cursor.stage = journal'[i].cursor.stage
                      => journal'[j].cursor.serial >= journal'[i].cursor.serial
                 /\ journal'[i].state = CursorOpened
                    /\ journal'[j].cursor.stage > journal'[i].cursor.stage
                      => journal'[j].cursor.serial > journal'[i].cursor.serial
      <3>1. i \in 1..Len(journal) /\ journal'[i] = journal[i]
        BY <1>0, <1>5, <2>2
      <3>2. CASE j = n
        BY <1>2, <1>5, <2>1, <3>1, <3>2
      <3>3. CASE j \in 1..Len(journal)
        BY <1>5, <2>2, <3>1, <3>3 DEF Inv, FencingOrder
      <3> QED BY <1>0, <3>2, <3>3
    <2> QED BY <1>5, <2>2 DEF FencingOrder
  <1>d. RestartAgrees'
    BY <1>0, <1>13, CursorFields DEF Inv, RestartAgrees
  <1>e. SerialsBounded'
    <2>1. ASSUME NEW t \in Stage
          PROVE  mem'.cursors[t].serial <= mem'.serial
                 /\ image'.cursors[t].serial <= image'.serial
      <3>1. /\ mem.cursors[t].serial \in Nat /\ image.cursors[t].serial \in Nat
            /\ mem.cursors[t].serial <= mem.serial /\ image.cursors[t].serial <= image.serial
        BY <1>1, CursorFields DEF Inv, SerialsBounded
      <3> QED BY <1>1, <1>2, <1>3, <1>6, <1>11, <1>13, <3>1
    <2>2. \A p \in image'.positions : p.cursor.serial <= image'.serial
      <3>1. \A p \in image.positions : p.cursor.serial \in Nat
        BY <1>0, MemoryFields, CursorFields DEF Position
      <3> QED BY <1>1, <1>2, <1>9, <1>11, <1>12, <3>1 DEF Inv, SerialsBounded
    <2>3. \A i \in 1..n : journal'[i].cursor.serial <= image'.serial
      BY <1>0, <1>1, <1>5, <1>11, <1>15
    <2> QED BY <1>5, <1>11, <2>1, <2>2, <2>3 DEF SerialsBounded
  <1>f. Chained(mem)' /\ Chained(image)'
    BY <1>3, <1>13 DEF Inv, Chained
  <1>g. EvidenceBehindTip'
    <2>1. mem'.last = image'.last /\ mem'.positions = image'.positions
      BY <1>6, <1>9, <1>14
    <2>2. \A t \in Stage : image'.last[t] <= n /\ image.last[t] <= image'.last[t]
                          /\ image'.last[t] \in Nat /\ image.last[t] \in Nat
      BY <1>0, <1>1, <1>13 DEF Inv, EvidenceBehindTip
    <2>3. ASSUME NEW p \in image'.positions
          PROVE  /\ p.cursor.stage \in Stage
                 /\ p.state # CursorOpened => p.cursor.parent < image'.last[p.cursor.stage]
      <3>1. CASE p \in image.positions
        <4>1. p.cursor.parent \in Nat
          BY <1>0, <3>1, MemoryFields, CursorFields DEF Position
        <4>2. /\ p.cursor.stage \in Stage
              /\ p.state # CursorOpened => p.cursor.parent < image.last[p.cursor.stage]
          BY <3>1 DEF Inv, EvidenceBehindTip
        <4> QED BY <2>2, <4>1, <4>2
      <3>2. CASE p = k
        <4>1. c.parent <= Len(journal) /\ c.parent \in Nat
          BY <1>1, <1>2, <1>14 DEF Inv, EvidenceBehindTip
        <4>2. image'.last[s] = n
          BY <1>13
        <4> QED BY <1>0, <1>2, <1>12, <3>2, <4>1, <4>2
      <3> QED BY <1>9, <3>1, <3>2
    <2> QED BY <1>5, <2>1, <2>2, <2>3 DEF EvidenceBehindTip
  <1>h. Fenced(mem)' /\ Fenced(image)'
    <2>1. ASSUME NEW t \in Stage, NEW i \in 1..n, NEW m \in {mem, image},
                 t # s => Live(m.cursors[t]),
                 NEW v \in Nat, v = IF t = s THEN c.serial ELSE m.cursors[t].serial
          PROVE  /\ journal'[i].cursor.stage = t => v >= journal'[i].cursor.serial
                 /\ journal'[i].state = CursorOpened /\ t > journal'[i].cursor.stage
                      => v > journal'[i].cursor.serial
      <3>1. CASE i = n
        BY <1>0, <1>2, <1>5, <2>1, <3>1
      <3>2. CASE i \in 1..Len(journal)
        <4>1. journal'[i] = journal[i]
          BY <1>5, <3>2
        <4>2. CASE t = s
          BY <1>0, <2>1, <3>2, <4>1, <4>2 DEF Inv, Fenced, c
        <4>3. CASE t # s
          BY <2>1, <3>2, <4>1, <4>3 DEF Inv, Fenced
        <4> QED BY <4>2, <4>3
      <3> QED BY <1>0, <3>1, <3>2
    <2>2. \A t \in Stage : mem.cursors[t].serial \in Nat /\ image.cursors[t].serial \in Nat
      BY <1>1, CursorFields
    <2>3. Fenced(mem)'
      BY <1>2, <1>3, <1>5, <1>13, <2>1, <2>2 DEF Fenced
    <2>4. Fenced(image)'
      BY <1>2, <1>3, <1>5, <1>13, <2>1, <2>2 DEF Fenced
    <2> QED BY <2>3, <2>4
  <1>i. OpeningPending'
    BY <1>0 DEF OpeningPending
  <1> QED BY <1>a, <1>b, <1>c, <1>d, <1>e, <1>f, <1>g, <1>h, <1>i DEF Inv

(* A line that carries no cursor leaves both sides as they are.            *)
LEMMA OtherStep ==
  ASSUME Inv, AppendOther
  PROVE  Inv'
  <1> DEFINE e == Entry(NoCursor, "reported")
             n == Len(journal) + 1
  <1>1. /\ mem' = mem /\ image' = image /\ verdict' = verdict /\ opening' = opening
        /\ journal \in Seq(RecordType) /\ Len(journal) \in Nat
        /\ journal' = Append(journal, e)
        /\ image \in MemoryType /\ mem \in MemoryType
    BY DEF Inv, TypeOK, AppendOther
  <1>2. e \in RecordType /\ e.cursor = NoCursor /\ e.state = "reported" /\ e.state # CursorOpened
    BY CursorFields DEF Entry, RecordType, CursorOpened
  <1> HIDE DEF e
  <1>3. /\ journal' \in Seq(RecordType) /\ Len(journal') = n
        /\ \A i \in 1..Len(journal) : journal'[i] = journal[i]
        /\ journal'[n] = e
    BY <1>1, <1>2, AppendFacts
  <1>4. NoCursor.stage = 0 /\ NoCursor.serial = 0
    BY DEF NoCursor
  <1>5. image.serial \in Nat /\ \A i \in 1..Len(journal) : journal[i].cursor.serial \in Nat
                                                         /\ journal[i].cursor.stage \in Nat
    BY <1>1, MemoryFields, JournalFields
  <1>6. \A t \in Stage : t > 0 /\ t \in Nat
    BY DEF Stage
  <1>a. TypeOK' /\ Restorable' /\ RestartAgrees' /\ OpeningPending'
    BY <1>1, <1>3 DEF Inv, TypeOK, Restorable, RestartAgrees, OpeningPending
  <1>b. FencingOrder'
    <2>1. ASSUME NEW i \in 1..n, NEW j \in 1..n, i < j, journal'[j].state # "reported"
          PROVE  /\ journal'[j].cursor.stage = journal'[i].cursor.stage
                      => journal'[j].cursor.serial >= journal'[i].cursor.serial
                 /\ journal'[i].state = CursorOpened
                    /\ journal'[j].cursor.stage > journal'[i].cursor.stage
                      => journal'[j].cursor.serial > journal'[i].cursor.serial
      <3>1. i \in 1..Len(journal) /\ journal'[i] = journal[i]
        BY <1>1, <1>3, <2>1
      <3>2. CASE j = n
        BY <1>2, <1>3, <2>1, <3>2
      <3>3. CASE j \in 1..Len(journal)
        BY <1>3, <2>1, <3>1, <3>3 DEF Inv, FencingOrder
      <3> QED BY <1>1, <3>2, <3>3
    <2> QED BY <1>3, <2>1 DEF FencingOrder
  <1>c. SerialsBounded' /\ EvidenceBehindTip'
    <2>1. SerialsBounded'
      BY <1>1, <1>2, <1>3, <1>4, <1>5 DEF Inv, SerialsBounded
    <2>2. \A s \in Stage : image.last[s] \in Nat
      BY <1>1, MemoryFields
    <2>3. EvidenceBehindTip'
      BY <1>1, <1>3, <2>2 DEF Inv, EvidenceBehindTip
    <2> QED BY <2>1, <2>3
  <1>d. Chained(mem)' /\ Chained(image)'
    BY <1>1 DEF Inv, Chained
  <1>e. Fenced(mem)' /\ Fenced(image)'
    BY <1>1, <1>2, <1>3, <1>4, <1>6 DEF Inv, Fenced
  <1> QED BY <1>a, <1>b, <1>c, <1>d, <1>e DEF Inv

(* A restart gives up what was never on disk and nothing else.             *)
LEMMA RestartStep ==
  ASSUME Inv, Restart
  PROVE  Inv'
  <1>1. /\ mem' = image /\ image' = image /\ journal' = journal /\ verdict' = verdict
        /\ opening' = NoStage /\ image \in MemoryType
    BY DEF Inv, TypeOK, Restart
  <1>2. image.serial \in Nat
    BY <1>1, MemoryFields
  <1>3. TypeOK' /\ Restorable' /\ FencingOrder' /\ RestartAgrees' /\ OpeningPending'
    BY <1>1 DEF Inv, TypeOK, Restorable, FencingOrder, RestartAgrees, OpeningPending
  <1>4. SerialsBounded' /\ EvidenceBehindTip'
    BY <1>1, <1>2 DEF Inv, SerialsBounded, EvidenceBehindTip
  <1>5. Chained(mem)' /\ Chained(image)' /\ Fenced(mem)' /\ Fenced(image)'
    BY <1>1 DEF Inv, Chained, Fenced
  <1> QED BY <1>1, <1>3, <1>4, <1>5 DEF Inv

------------------------------------------------------------------------------
(* A run starts with an empty journal, of which all of Inv holds.          *)
LEMMA InitInv == Init => Inv
  <1> SUFFICES ASSUME Init PROVE Inv
    OBVIOUS
  <1>1. EmptyMemory \in MemoryType
    <2>1. [s \in Stage |-> NoCursor] \in [Stage -> CursorType]
      BY CursorFields
    <2> QED BY <2>1 DEF EmptyMemory, MemoryType, NoDigest
  <1>2. TypeOK
    BY <1>1 DEF Init, TypeOK, RecordType
  <1>3. journal = << >> /\ Len(journal) = 0 /\ 1..Len(journal) = {}
    BY DEF Init
  <1>4. /\ mem = image /\ image.serial = 0 /\ image.positions = {}
        /\ \A s \in Stage : image.cursors[s] = NoCursor /\ image.last[s] = 0
    BY DEF Init, EmptyMemory, NoDigest
  <1>5. Restorable /\ FencingOrder /\ RestartAgrees /\ OpeningPending
    BY <1>3, <1>4 DEF Init, Restorable, FencingOrder, RestartAgrees, OpeningPending
  <1>6. SerialsBounded /\ EvidenceBehindTip
    BY <1>3, <1>4, CursorFields DEF SerialsBounded, EvidenceBehindTip
  <1>7. Chained(mem) /\ Chained(image) /\ Fenced(mem) /\ Fenced(image)
    BY <1>3, <1>4, CursorFields DEF Chained, Fenced
  <1> QED BY <1>2, <1>5, <1>6, <1>7 DEF Inv

(* Every operation, and every restart, keeps Inv.                          *)
LEMMA NextInv == Inv /\ [Next]_vars => Inv'
  <1> SUFFICES ASSUME Inv, [Next]_vars PROVE Inv'
    OBVIOUS
  <1>1. ASSUME NEW s \in Stage, BeginRevisionFirst(s) PROVE Inv'
    BY <1>1, FirstStep
  <1>2. ASSUME NEW s \in Stage, BeginRevisionBump(s) PROVE Inv'
    BY <1>2, BumpStep
  <1>3. ASSUME NEW s \in Stage, BeginAttempt(s) PROVE Inv'
    BY <1>3, AttemptStep
  <1>4. ASSUME NEW s \in Stage, NEW state \in EvidenceState, RecordStage(s, state) PROVE Inv'
    BY <1>4, RecordStep
  <1>5. CASE AppendOther
    BY <1>5, OtherStep
  <1>6. CASE Restart
    BY <1>6, RestartStep
  <1>7. CASE UNCHANGED vars
    BY <1>7 DEF vars, Inv, TypeOK, Restorable, FencingOrder, RestartAgrees, SerialsBounded,
                Chained, EvidenceBehindTip, Fenced, OpeningPending
  <1> QED BY <1>1, <1>2, <1>3, <1>4, <1>5, <1>6, <1>7 DEF Next

(* The strengthened invariant holds in every reachable state, whatever the *)
(* number of stages.                                                       *)
THEOREM Invariance == Spec => []Inv
  BY InitInv, NextInv, PTL DEF Spec

(* The variables keep their types.                                         *)
THEOREM TypeCorrect == Spec => []TypeOK
  <1>1. Inv => TypeOK
    BY DEF Inv
  <1> QED BY <1>1, Invariance, PTL

(* restore_cursors never refuses the journal it is given to restore.       *)
THEOREM AlwaysRestorable == Spec => []Restorable
  <1>1. Inv => Restorable
    BY DEF Inv
  <1> QED BY <1>1, Invariance, PTL

(* The attempt keys fence stale evidence, across any number of restarts.   *)
THEOREM AlwaysFenced == Spec => []FencingOrder
  <1>1. Inv => FencingOrder
    BY DEF Inv
  <1> QED BY <1>1, Invariance, PTL

(* A restart resumes where the process that died had got to on disk.       *)
THEOREM AlwaysAgrees == Spec => []RestartAgrees
  <1>1. Inv => RestartAgrees
    BY DEF Inv
  <1> QED BY <1>1, Invariance, PTL

------------------------------------------------------------------------------
(* image and verdict are how the model follows restore_cursors line by     *)
(* line. That this is the pass over the whole journal which create() makes *)
(* is a fact about the model, not about the code: it lets RestartAgrees    *)
(* and Restorable be read as statements about restore_cursors.             *)

Carriers(log)  == {i \in DOMAIN log : log[i].state # "reported"}
ReplayOf(log)  == RestoreCursors(log, Carriers(log))

InStep == image = ReplayOf(journal).image /\ (Restorable <=> ReplayOf(journal).accepted)

(* One more line is one more turn of the loop, or none if restore does not *)
(* read it.                                                                *)
LEMMA ReplayOfAppend ==
  ASSUME NEW q \in Seq(RecordType), NEW e \in RecordType
  PROVE  ReplayOf(Append(q, e)) = IF e.state # "reported"
                                  THEN RestoreLine(ReplayOf(q), e, Len(q) + 1)
                                  ELSE ReplayOf(q)
  <1> DEFINE p == Append(q, e)
  <1>1. /\ Len(p) = Len(q) + 1 /\ Len(q) \in Nat /\ p[Len(q) + 1] = e
        /\ \A i \in 1..Len(q) : p[i] = q[i]
        /\ DOMAIN p = 1..(Len(q) + 1) /\ DOMAIN q = 1..Len(q)
    OBVIOUS
  <1> HIDE DEF p
  <1>2. \A n \in 1..Len(q) : n \in Carriers(p) <=> n \in Carriers(q)
    BY <1>1 DEF Carriers
  <1>3. Len(q) + 1 \in Carriers(p) <=> e.state # "reported"
    BY <1>1 DEF Carriers
  <1>4. ReplayOf(p) = AfterLine(ReplayOf(q), p, Carriers(p), Len(q) + 1)
    BY <1>1, <1>2, RestoreAppend DEF ReplayOf
  <1>5. ReplayOf(p) = IF e.state # "reported"
                      THEN RestoreLine(ReplayOf(q), e, Len(q) + 1)
                      ELSE ReplayOf(q)
    BY <1>1, <1>3, <1>4 DEF AfterLine
  <1> QED BY <1>5 DEF p

(* record() keeps image and verdict in step with the journal.              *)
LEMMA AppendReplays ==
  ASSUME Inv, InStep, NEW c \in CursorType,
         NEW state \in EvidenceState \cup {CursorOpened}, Append1(c, state)
  PROVE  InStep'
  <1> DEFINE e == Entry(c, state)
  <1>1. e \in RecordType /\ e.state # "reported" /\ e.cursor = c /\ e.state = state
    BY DEF Entry, RecordType, EvidenceState, CursorOpened
  <1>2. journal \in Seq(RecordType) /\ journal' = Append(journal, e)
    BY DEF Inv, TypeOK, Append1
  <1>3. ReplayOf(journal') = RestoreLine(ReplayOf(journal), e, Len(journal) + 1)
    BY <1>1, <1>2, ReplayOfAppend
  <1>4. image = ReplayOf(journal).image /\ (Restorable <=> ReplayOf(journal).accepted)
    BY DEF InStep
  <1> DEFINE r == ReplayOf(journal)
             n == Len(journal) + 1
  <1>5. /\ RestoreLine(r, e, n).image = Replay(image, c, state, n)
        /\ RestoreLine(r, e, n).accepted <=> Restorable /\ ReplayAccepts(image, c, state)
    <2> HIDE DEF r, n, e
    <2>1. /\ RestoreLine(r, e, n).image = Replay(r.image, e.cursor, e.state, n)
          /\ RestoreLine(r, e, n).accepted
               <=> r.accepted /\ ReplayAccepts(r.image, e.cursor, e.state)
      BY RestoreLineFields
    <2>2. image = r.image /\ (Restorable <=> r.accepted)
      BY <1>4 DEF r
    <2> QED BY <1>1, <2>1, <2>2
  <1>6. image' = ReplayOf(journal').image
    BY <1>3, <1>5 DEF Append1
  <1>7. Restorable' <=> ReplayOf(journal').accepted
    BY <1>3, <1>5 DEF Append1, Restorable
  <1> QED BY <1>6, <1>7 DEF InStep

(* The digest kept line by line is that of the journal read in one pass.   *)
LEMMA DigestInStep == Spec => []InStep
  <1>1. Init => InStep
    BY RestoreNothing DEF Init, InStep, ReplayOf, Carriers, Restorable, Blank
  <1>2. Inv /\ InStep /\ [Next]_vars => InStep'
    <2> SUFFICES ASSUME Inv, InStep, [Next]_vars PROVE InStep'
      OBVIOUS
    <2>1. ASSUME UNCHANGED <<journal, image, verdict>> PROVE InStep'
      BY <2>1 DEF InStep, Restorable
    <2>2. ASSUME NEW s \in Stage, BeginRevisionBump(s) PROVE InStep'
      <3>1. RevisedCursor(mem, s) \in CursorType
        BY RevisedCursorType DEF Inv, TypeOK
      <3> QED BY <2>2, <3>1, AppendReplays DEF BeginRevisionBump
    <2>3. ASSUME NEW s \in Stage, NEW state \in EvidenceState, RecordStage(s, state)
          PROVE  InStep'
      <3>1. mem.cursors[s] \in CursorType
        BY MemoryFields DEF Inv, TypeOK
      <3> QED BY <2>3, <3>1, AppendReplays DEF RecordStage
    <2>4. CASE AppendOther
      <3>1. Entry(NoCursor, "reported") \in RecordType /\ Entry(NoCursor, "reported").state = "reported"
        BY CursorFields DEF Entry, RecordType
      <3>2. journal \in Seq(RecordType) /\ journal' = Append(journal, Entry(NoCursor, "reported"))
        BY <2>4 DEF Inv, TypeOK, AppendOther
      <3>3. ReplayOf(journal') = ReplayOf(journal)
        BY <3>1, <3>2, ReplayOfAppend
      <3> QED BY <2>4, <3>3 DEF AppendOther, InStep, Restorable
    <2> QED BY <2>1, <2>2, <2>3, <2>4
             DEF Next, vars, BeginRevisionFirst, BeginAttempt, Restart
  <1> QED BY <1>1, <1>2, Invariance, PTL DEF Spec
==============================================================================
