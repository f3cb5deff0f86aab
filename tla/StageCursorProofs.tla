-------------------------- MODULE StageCursorProofs --------------------------
(* Lemmas about the cursor arithmetic: what the operations on a memory     *)
(* yield, and what restore_cursors makes of a journal one line longer.     *)
EXTENDS StageCursor, NaturalsInduction, WellFoundedInduction, TLAPS

(* The fields of a memory have their types.                                *)
LEMMA MemoryFields ==
  ASSUME NEW m \in MemoryType
  PROVE  /\ m.cursors \in [Stage -> CursorType]
         /\ m.invalidated \in SUBSET Stage
         /\ m.serial \in Nat
         /\ m.last \in [Stage -> Nat]
         /\ m.positions \in SUBSET Position
  BY DEF MemoryType

(* The fields of a cursor have theirs, and a stage is a number.            *)
LEMMA CursorFields ==
  /\ \A c \in CursorType : /\ c.stage \in Nat /\ c.rev \in Nat /\ c.att \in Nat
                           /\ c.parent \in Nat /\ c.serial \in Nat
  /\ \A s \in Stage : s \in Nat /\ s # NoStage
  /\ NoCursor \in CursorType /\ ~Live(NoCursor) /\ NoCursor.serial = 0
  BY NumStagesAssumption DEF CursorType, NoCursor, NoDigest, Stage, NoStage, Live

(* Cursors minted for stage s are cursors.                                 *)
LEMMA NewCursorType ==
  ASSUME NEW m \in MemoryType, NEW s \in Stage, NEW r \in Nat, NEW a \in Nat
  PROVE  NewCursor(m, s, r, a) \in CursorType
  <1>1. m.last[s] \in Nat /\ m.serial \in Nat
    BY MemoryFields
  <1>2. s \in Nat
    BY CursorFields
  <1> QED BY <1>1, <1>2 DEF NewCursor, CursorType

(* The next revision of a stage is a live cursor.                          *)
LEMMA RevisedCursorType ==
  ASSUME NEW m \in MemoryType, NEW s \in Stage
  PROVE  /\ RevisedCursor(m, s) \in CursorType
         /\ RevisedCursor(m, s).stage = s
         /\ RevisedCursor(m, s).rev = m.cursors[s].rev + 1
         /\ RevisedCursor(m, s).att = 1
         /\ RevisedCursor(m, s).parent = m.last[s]
         /\ RevisedCursor(m, s).serial = m.serial + 1
         /\ Live(RevisedCursor(m, s))
  <1>1. m.cursors[s].rev \in Nat /\ m.cursors[s].rev + 1 \in Nat
    BY MemoryFields, CursorFields
  <1>2. NewCursor(m, s, m.cursors[s].rev + 1, 1) \in CursorType
    BY <1>1, NewCursorType
  <1> QED BY <1>1, <1>2, CursorFields DEF RevisedCursor, NewCursor, Live

(* A cursor that advances stays a cursor.                                  *)
LEMMA AdvanceType ==
  ASSUME NEW c \in CursorType, NEW d \in Nat
  PROVE  Advance(c, d) \in CursorType
  BY DEF Advance, CursorType

(* The operations on a memory yield a memory.                              *)
LEMMA FirstOpenType ==
  ASSUME NEW m \in MemoryType, NEW s \in Stage
  PROVE  FirstOpen(m, s) \in MemoryType
  <1>1. [m.cursors EXCEPT ![s] = RevisedCursor(m, s)] \in [Stage -> CursorType]
    BY MemoryFields, RevisedCursorType
  <1> QED BY <1>1, MemoryFields DEF FirstOpen, MemoryType

(* begin_attempt yields a memory.                                          *)
LEMMA NextAttemptType ==
  ASSUME NEW m \in MemoryType, NEW s \in Stage
  PROVE  NextAttempt(m, s) \in MemoryType
  <1> DEFINE c == NewCursor(m, s, m.cursors[s].rev, m.cursors[s].att + 1)
  <1>1. c \in CursorType
    <2>1. m.cursors[s].rev \in Nat /\ m.cursors[s].att + 1 \in Nat
      BY MemoryFields, CursorFields
    <2> QED BY <2>1, NewCursorType
  <1>2. [m.cursors EXCEPT ![s] = c] \in [Stage -> CursorType]
    <2> HIDE DEF c
    <2> QED BY <1>1, MemoryFields
  <1> QED BY <1>2, MemoryFields DEF NextAttempt, MemoryType

(* Invalidation empties exactly the slots of the later stages.             *)
LEMMA DropLaterType ==
  ASSUME NEW cu \in [Stage -> CursorType], NEW s \in Stage
  PROVE  /\ DropLater(cu, s) \in [Stage -> CursorType]
         /\ \A t \in Stage : DropLater(cu, s)[t] = IF t > s THEN NoCursor ELSE cu[t]
  BY CursorFields DEF DropLater

(* The position of a cursor is a position.                                 *)
LEMMA PositionKeyType ==
  ASSUME NEW c \in CursorType, NEW state \in EvidenceState \cup {CursorOpened}
  PROVE  PositionKey(c, state) \in Position
  BY DEF PositionKey, Position

(* begin_revision of a live stage yields a memory.                         *)
LEMMA BumpType ==
  ASSUME NEW m \in MemoryType, NEW s \in Stage
  PROVE  Bump(m, s) \in MemoryType
  <1>1. [DropLater(m.cursors, s) EXCEPT ![s] = RevisedCursor(m, s)] \in [Stage -> CursorType]
    BY MemoryFields, RevisedCursorType, DropLaterType
  <1>2. PositionKey(RevisedCursor(m, s), CursorOpened) \in Position
    BY PositionKeyType, RevisedCursorType
  <1>3. (m.invalidated \cup Descendants(s)) \ {s} \in SUBSET Stage
    BY MemoryFields DEF Descendants
  <1> QED BY <1>1, <1>2, <1>3, MemoryFields DEF Bump, MemoryType

(* A begin_revision that fails leaves a memory.                            *)
LEMMA OpeningFailedType ==
  ASSUME NEW m \in MemoryType, NEW s \in Stage
  PROVE  OpeningFailed(m, s) \in MemoryType
  <1>1. DropLater(m.cursors, s) \in [Stage -> CursorType]
    BY MemoryFields, DropLaterType
  <1>2. m.invalidated \cup Descendants(s) \in SUBSET Stage
    BY MemoryFields DEF Descendants
  <1> QED BY <1>1, <1>2, MemoryFields DEF OpeningFailed, MemoryType

(* record_stage yields a memory.                                           *)
LEMMA RecordedType ==
  ASSUME NEW m \in MemoryType, NEW c \in CursorType, c.stage \in Stage,
         NEW state \in EvidenceState, NEW d \in Nat
  PROVE  Recorded(m, c, state, d) \in MemoryType
  <1>1. [m.cursors EXCEPT ![c.stage] = Advance(c, d)] \in [Stage -> CursorType]
    BY MemoryFields, AdvanceType
  <1>2. PositionKey(c, state) \in Position
    BY PositionKeyType
  <1>3. [m.last EXCEPT ![c.stage] = d] \in [Stage -> Nat]
    BY MemoryFields
  <1> QED BY <1>1, <1>2, <1>3, MemoryFields DEF Recorded, MemoryType

(* Replaying one journal record yields a memory.                           *)
LEMMA ReplayType ==
  ASSUME NEW m \in MemoryType, NEW c \in CursorType, c.stage \in Stage,
         NEW state \in EvidenceState \cup {CursorOpened}, NEW d \in Nat
  PROVE  Replay(m, c, state, d) \in MemoryType
  <1> DEFINE r == Replay(m, c, state, d)
             live == IF state = CursorOpened THEN c ELSE Advance(c, d)
  <1>1. live \in CursorType
    BY AdvanceType
  <1>2. /\ [m.cursors EXCEPT ![c.stage] = live] \in [Stage -> CursorType]
        /\ [DropLater(m.cursors, c.stage) EXCEPT ![c.stage] = live] \in [Stage -> CursorType]
    <2> HIDE DEF live
    <2> QED BY <1>1, MemoryFields, DropLaterType
  <1>3. r.cursors \in [Stage -> CursorType]
    BY <1>2, MemoryFields DEF Replay
  <1>4. r.invalidated \in SUBSET Stage
    BY MemoryFields DEF Replay, Descendants
  <1>5. r.serial \in Nat
    BY MemoryFields, CursorFields DEF Replay
  <1>6. r.last \in [Stage -> Nat]
    BY MemoryFields DEF Replay
  <1>7. r.positions \in SUBSET Position
    BY MemoryFields, PositionKeyType DEF Replay
  <1>8. r = [cursors |-> r.cursors, invalidated |-> r.invalidated, serial |-> r.serial,
             last |-> r.last, positions |-> r.positions]
    BY DEF Replay
  <1> HIDE DEF r
  <1>9. r \in MemoryType
    BY <1>3, <1>4, <1>5, <1>6, <1>7, <1>8 DEF MemoryType
  <1> QED BY <1>9 DEF r

------------------------------------------------------------------------------
(* The pass of restore_cursors over a journal.                             *)

(* A nonempty set of natural numbers has a least element.                  *)
LEMMA LeastLine ==
  ASSUME NEW S \in SUBSET Nat, S # {}
  PROVE  \E n \in S : \A m \in S : n <= m
  <1> DEFINE R == OpToRel(<, Nat)
  <1>1. \E x \in S : \A y \in S : ~(<<y, x>> \in R)
    BY NatLessThanWellFounded, WFMin, Zenon
  <1>2. \A x, y \in Nat : y < x => <<y, x>> \in R
    BY DEF OpToRel
  <1> HIDE DEF R
  <1>3. PICK x \in S : \A y \in S : ~(<<y, x>> \in R)
    BY <1>1
  <1>4. \A y \in S : ~(y < x)
    BY <1>2, <1>3
  <1> QED BY <1>4

(* The memory before the first line, and what one line makes of it.        *)
Blank == [accepted |-> TRUE, image |-> EmptyMemory]
AfterLine(r, log, carriers, n) ==
  IF n \in carriers THEN RestoreLine(r, log[n], n) ELSE r

(* What a line makes of the memory, and when it raises.                    *)
LEMMA RestoreLineFields ==
  ASSUME NEW r, NEW e, NEW digest
  PROVE  /\ RestoreLine(r, e, digest).image = Replay(r.image, e.cursor, e.state, digest)
         /\ RestoreLine(r, e, digest).accepted
              <=> r.accepted /\ ReplayAccepts(r.image, e.cursor, e.state)
  <1>1. RestoreLine(r, e, digest).image = Replay(r.image, e.cursor, e.state, digest)
    BY DEF RestoreLine
  <1>2. RestoreLine(r, e, digest).accepted = (r.accepted /\ ReplayAccepts(r.image, e.cursor, e.state))
    BY DEF RestoreLine
  <1> QED BY <1>1, <1>2, Zenon

(* f is what the loop of restore_cursors has after each of its first m     *)
(* lines.                                                                  *)
Passes(f, log, carriers, m) ==
  f = [n \in 0..m |-> IF n = 0 THEN Blank ELSE AfterLine(f[n - 1], log, carriers, n)]

(* Such a pass over any number of lines exists: if not, take the least     *)
(* number for which none does, and add its line to the pass before it.     *)
LEMMA PassExists ==
  ASSUME NEW log, NEW carriers
  PROVE  \A m \in Nat : \E f : Passes(f, log, carriers, m)
  <1> DEFINE Bad == {m \in Nat : ~ \E f : Passes(f, log, carriers, m)}
  <1> SUFFICES ASSUME Bad # {} PROVE FALSE
    OBVIOUS
  <1>1. PICK m \in Bad : \A k \in Bad : m <= k
    <2>1. Bad \in SUBSET Nat
      OBVIOUS
    <2> HIDE DEF Bad
    <2> QED BY <2>1, LeastLine
  <1>2. CASE m = 0
    <2> DEFINE f == [n \in 0..0 |-> Blank]
    <2>1. Passes(f, log, carriers, 0)
      BY DEF Passes
    <2> QED BY <1>1, <1>2, <2>1
  <1>3. CASE m # 0
    <2>1. m \in Nat /\ m - 1 \in Nat /\ ~(m <= m - 1)
      BY <1>3
    <2>2. m - 1 \notin Bad
      BY <1>1, <2>1
    <2>3. PICK g : Passes(g, log, carriers, m - 1)
      BY <2>1, <2>2
    <2> DEFINE f == [n \in 0..m |-> IF n = m THEN AfterLine(g[m - 1], log, carriers, m) ELSE g[n]]
    <2>4. Passes(f, log, carriers, m)
      <3>1. ASSUME NEW n \in 0..m
            PROVE  f[n] = IF n = 0 THEN Blank ELSE AfterLine(f[n - 1], log, carriers, n)
        <4>1. CASE n = m
          BY <1>3, <2>1, <4>1
        <4>2. CASE n # m
          <5>1. n \in 0..(m - 1)
            BY <2>1, <4>2
          <5>2. g[n] = IF n = 0 THEN Blank ELSE AfterLine(g[n - 1], log, carriers, n)
            BY <2>3, <5>1 DEF Passes
          <5>3. n # 0 => n - 1 \in 0..m /\ n - 1 # m
            BY <2>1, <5>1
          <5> QED BY <4>2, <5>2, <5>3
        <4> QED BY <4>1, <4>2
      <3> HIDE DEF AfterLine
      <3>2. f = [n \in 0..m |-> f[n]]
        OBVIOUS
      <3> HIDE DEF f
      <3> QED BY <3>1, <3>2 DEF Passes
    <2> QED BY <2>1, <2>4
  <1> QED BY <1>2, <1>3

(* What a pass has after one line depends on the lines up to it alone.     *)
LEMMA PassesAgree ==
  ASSUME NEW log, NEW longer, NEW carriers, NEW more, NEW m \in Nat, NEW k \in Nat, m <= k,
         \A n \in 1..m : longer[n] = log[n] /\ (n \in more <=> n \in carriers),
         NEW f, Passes(f, log, carriers, m), NEW g, Passes(g, longer, more, k)
  PROVE  f[m] = g[m]
  <1> DEFINE Bad == {n \in 0..m : f[n] # g[n]}
  <1> SUFFICES ASSUME Bad # {} PROVE FALSE
    OBVIOUS
  <1>1. PICK n \in Bad : \A i \in Bad : n <= i
    <2>1. Bad \in SUBSET Nat
      OBVIOUS
    <2> HIDE DEF Bad
    <2> QED BY <2>1, LeastLine
  <1>2. n \in 0..m /\ n \in 0..k /\ f[n] # g[n]
    BY <1>1
  <1>3. /\ f[n] = IF n = 0 THEN Blank ELSE AfterLine(f[n - 1], log, carriers, n)
        /\ g[n] = IF n = 0 THEN Blank ELSE AfterLine(g[n - 1], longer, more, n)
    BY <1>2 DEF Passes
  <1>4. n # 0
    BY <1>2, <1>3
  <1>5. f[n - 1] = g[n - 1]
    <2>1. n - 1 \in 0..m /\ ~(n <= n - 1)
      BY <1>2, <1>4
    <2> QED BY <1>1, <2>1
  <1>6. n \in 1..m
    BY <1>2, <1>4
  <1>7. AfterLine(f[n - 1], log, carriers, n) = AfterLine(g[n - 1], longer, more, n)
    BY <1>5, <1>6 DEF AfterLine
  <1> QED BY <1>2, <1>3, <1>4, <1>7

(* restore_cursors is the end of that pass.                                *)
LEMMA RestoreIsPass ==
  ASSUME NEW log, Len(log) \in Nat, NEW carriers
  PROVE  \E f : Passes(f, log, carriers, Len(log)) /\ RestoreCursors(log, carriers) = f[Len(log)]
  <1> DEFINE f == CHOOSE g : Passes(g, log, carriers, Len(log))
  <1>1. Passes(f, log, carriers, Len(log))
    BY PassExists
  <1>2. RestoreCursors(log, carriers) = f[Len(log)]
    BY DEF RestoreCursors, Passes, AfterLine, Blank
  <1> QED BY <1>1, <1>2

(* An empty journal restores to an empty memory.                           *)
LEMMA RestoreNothing ==
  ASSUME NEW carriers
  PROVE  RestoreCursors(<< >>, carriers) = Blank
  <1>1. PICK f : Passes(f, << >>, carriers, 0) /\ RestoreCursors(<< >>, carriers) = f[0]
    BY RestoreIsPass
  <1> QED BY <1>1 DEF Passes

(* One more line is one more turn of the loop.                             *)
LEMMA RestoreAppend ==
  ASSUME NEW log, NEW longer, NEW carriers, NEW more,
         Len(log) \in Nat, Len(longer) = Len(log) + 1,
         \A n \in 1..Len(log) : longer[n] = log[n] /\ (n \in more <=> n \in carriers)
  PROVE  RestoreCursors(longer, more) =
           AfterLine(RestoreCursors(log, carriers), longer, more, Len(log) + 1)
  <1> DEFINE l == Len(log)
  <1>1. PICK f : Passes(f, log, carriers, l) /\ RestoreCursors(log, carriers) = f[l]
    BY RestoreIsPass
  <1>2. PICK g : Passes(g, longer, more, l + 1) /\ RestoreCursors(longer, more) = g[l + 1]
    BY RestoreIsPass
  <1>3. f[l] = g[l]
    BY <1>1, <1>2, PassesAgree
  <1>4. g[l + 1] = AfterLine(g[l], longer, more, l + 1)
    BY <1>2 DEF Passes
  <1> QED BY <1>1, <1>2, <1>3, <1>4
==============================================================================
