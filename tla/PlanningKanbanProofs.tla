------------------------ MODULE PlanningKanbanProofs ------------------------
(***************************************************************************)
(* Proofs about the board, for any number of processes, cards and claims.  *)
(***************************************************************************)
EXTENDS MCPlanningKanban, TLAPS

CardType == [status : Statuses, fence : Nat, owner : Procs \cup {"none"}]

(* The cards are numbers, and what the empty values are.                   *)
LEMMA Basics ==
  /\ Cards \subseteq Nat \ {0} /\ NCards \in Nat \ {0} /\ 1 \in Cards
  /\ \A x \in {"free", "torn", "none"} : x \notin Procs
  BY KanbanAssumption DEF Cards

(* The empty object and the idle operation have their types.               *)
LEMMA EmptyTypes == NoInst \in InstType /\ IdleOp \in OpType
  BY Basics DEF NoInst, InstType, IdleOp, OpType, Kinds, Locks

(* A card whose lease ends is a card.                                      *)
LEMMA EndedType ==
  ASSUME NEW card \in CardType, NEW s \in Statuses
  PROVE  /\ Ended(card, s) \in CardType
         /\ Ended(card, s).status = s /\ Ended(card, s).fence = card.fence
         /\ Ended(card, s).owner = "none"
  BY DEF Ended, CardType

(* The status a card may get, by the operation, and what goes with it.      *)
Moves(p, k, c, d, old, new) ==
  \/ /\ new = old
     /\ d = c => k \in {"heartbeat", "passGate"}
     /\ k = "failGate" => d < c
  \/ k = "claim" /\ d = c /\ new.status = "running" /\ new.owner = p /\ new.fence = old.fence + 1
  \/ /\ new.owner = "none" /\ new.fence \in {old.fence, old.fence + 1}
     /\ \/ k = "complete" /\ d = c /\ new.status = "complete"
        \/ k = "failGate" /\ d >= c /\ new.status = "blocked"
        \/ k = "block" /\ d = c /\ new.status = "blocked"
        \/ k = "needInput" /\ d = c /\ new.status = "needs_input"
        \/ k \in {"reclaim", "recover"} /\ d = c /\ new.status = "ready"
  \/ /\ new.owner = old.owner /\ new.fence = old.fence
     /\ \/ k = "complete" /\ d = c + 1 /\ old.status = "pending" /\ new.status = "ready"
        \/ k = "resume" /\ d = c /\ new.status \in {"ready", "resumed"}

(* What an operation makes of the cards, card by card.                     *)
LEMMA AfterFacts ==
  ASSUME TypeOK, NEW p \in Procs, NEW k \in Kinds, NEW c \in Cards
  PROVE  /\ After(p, k, c) \in [Cards -> CardType]
         /\ \A d \in Cards : Moves(p, k, c, d, cards[d], After(p, k, c)[d])
  <1>1. /\ cards \in [Cards -> CardType]
        /\ \A d \in Cards : /\ cards[d] \in CardType /\ cards[d].fence \in Nat
                           /\ d \in Nat
        /\ c \in Nat
    BY Basics DEF TypeOK, CardType
  <1>2. CASE k = "claim"
    <2>1. After(p, k, c) = Claimed(p, c)
      BY <1>2 DEF After
    <2> QED BY <1>1, <1>2, <2>1 DEF Claimed, Moves, CardType, Statuses
  <1>3. CASE k \in {"heartbeat", "passGate"}
    BY <1>1, <1>3 DEF After, Moves
  <1>4. CASE k = "complete"
    <2>1. After(p, k, c) = Completed(c)
      BY <1>4 DEF After
    <2>2. ASSUME NEW d \in Cards
          PROVE  Completed(c)[d] \in CardType /\ Moves(p, k, c, d, cards[d], Completed(c)[d])
      <3>1. CASE d = c
        <4>1. Completed(c)[d] = Ended(cards[d], "complete")
          BY <1>1, <3>1 DEF Completed
        <4> QED BY <1>1, <1>4, <3>1, <4>1, EndedType DEF Moves, Statuses
      <3>2. CASE d # c /\ d = c + 1 /\ cards[d].status = "pending"
        <4> DEFINE new == [cards[d] EXCEPT !.status = "ready"]
        <4>1. Completed(c)[d] = new
          BY <1>1, <3>2 DEF Completed
        <4>2. /\ new \in CardType /\ new.status = "ready"
              /\ new.owner = cards[d].owner /\ new.fence = cards[d].fence
          BY <1>1 DEF CardType, Statuses
        <4> HIDE DEF new
        <4> QED BY <1>1, <1>4, <3>2, <4>1, <4>2 DEF Moves
      <3>3. CASE d # c /\ ~(d = c + 1 /\ cards[d].status = "pending")
        BY <1>1, <1>4, <3>3 DEF Completed, Moves
      <3> QED BY <3>1, <3>2, <3>3
    <2>3. Completed(c) = [d \in Cards |-> Completed(c)[d]]
      BY DEF Completed
    <2> QED BY <2>1, <2>2, <2>3
  <1>5. CASE k = "failGate"
    <2>1. After(p, k, c) = [d \in Cards |-> IF d >= c THEN Ended(cards[d], "blocked") ELSE cards[d]]
      BY <1>5 DEF After, Revoked
    <2>2. \A d \in Cards : /\ Ended(cards[d], "blocked") \in CardType
                          /\ Moves(p, k, c, d, cards[d], IF d >= c THEN Ended(cards[d], "blocked") ELSE cards[d])
      BY <1>1, <1>5, EndedType DEF Moves, Statuses
    <2> QED BY <1>1, <2>1, <2>2
  <1>6. CASE k \in {"block", "needInput"}
    <2> DEFINE s == IF k = "block" THEN "blocked" ELSE "needs_input"
    <2>1. After(p, k, c) = [cards EXCEPT ![c] = Ended(cards[c], s)]
      BY <1>1, <1>6 DEF After
    <2>2. s \in Statuses
      BY DEF Statuses
    <2>3. /\ Ended(cards[c], s) \in CardType /\ Ended(cards[c], s).owner = "none"
          /\ Ended(cards[c], s).status = s /\ Ended(cards[c], s).fence = cards[c].fence
      BY <1>1, <2>2, EndedType
    <2> QED BY <1>1, <1>6, <2>1, <2>3 DEF Moves
  <1>7. CASE k = "resume"
    <2> DEFINE s == IF cards[c].fence = 0 THEN "resumed" ELSE "ready"
               new == [cards[c] EXCEPT !.status = s]
    <2>1. s \in {"ready", "resumed"} /\ s \in Statuses
      BY DEF Statuses
    <2>2. After(p, k, c) = [cards EXCEPT ![c] = new]
      BY <1>1, <1>7 DEF After, Resumed
    <2> HIDE DEF s
    <2>3. /\ new \in CardType /\ new.status = s
          /\ new.owner = cards[c].owner /\ new.fence = cards[c].fence
      BY <1>1, <2>1 DEF CardType
    <2> HIDE DEF new
    <2> QED BY <1>1, <1>7, <2>1, <2>2, <2>3 DEF Moves
  <1>8. CASE k \in {"reclaim", "recover"}
    <2> DEFINE ended == Ended(cards[c], "ready")
    <2>1. /\ ended \in CardType /\ ended.owner = "none" /\ ended.status = "ready"
          /\ ended.fence = cards[c].fence
      BY <1>1, EndedType DEF Statuses
    <2>2. After(p, k, c) = [cards EXCEPT ![c] = Fenced(ended)]
      BY <1>1, <1>8 DEF After
    <2> HIDE DEF ended
    <2>3. /\ Fenced(ended) \in CardType /\ Fenced(ended).owner = "none"
          /\ Fenced(ended).status = "ready" /\ Fenced(ended).fence = cards[c].fence + 1
      BY <1>1, <2>1 DEF Fenced, CardType
    <2> QED BY <1>1, <1>8, <2>2, <2>3 DEF Moves
  <1> QED BY <1>2, <1>3, <1>4, <1>5, <1>6, <1>7, <1>8 DEF Kinds

-----------------------------------------------------------------------------
(* Types.                                                                  *)

(* Objects after a load, after an operation, and out of date, have types.  *)
LEMMA InstTypes ==
  ASSUME TypeOK, NEW p \in Procs
  PROVE  /\ Loaded \in InstType /\ Adopted(p) \in InstType
         /\ Outdated \in [Procs -> InstType]
  <1>1. Loaded \in InstType
    BY EmptyTypes DEF Loaded, InstType, Running
  <1>2. Outdated \in [Procs -> InstType]
    BY DEF TypeOK, Outdated, InstType
  <1>3. Adopted(p) \in InstType
    <2> DEFINE k == op[p].kind
               c == op[p].card
               cap == inst[p].cap
               cap2 == CASE k = "claim" -> [cap EXCEPT ![c] = cards[c].fence]
                         [] k \in {"complete", "reclaim", "recover"} \cup BlockKinds ->
                              [cap EXCEPT ![c] = 0]
                         [] k = "failGate" -> [d \in Cards |-> IF d >= c THEN 0 ELSE cap[d]]
                         [] OTHER -> cap
               handle2 == IF k = "claim" /\ c \in Writers THEN c
                          ELSE IF op[p].drop THEN 0 ELSE inst[p].handle
    <2>1. cap \in [Cards -> Nat] /\ c \in Cards /\ cards[c].fence \in Nat
          /\ inst[p].handle \in 0..NCards /\ c \in 0..NCards /\ 0 \in 0..NCards
          /\ inst[p].coordinator \in BOOLEAN
      BY Basics DEF TypeOK, InstType, OpType, Cards
    <2>2. cap2 \in [Cards -> Nat]
      BY <2>1 DEF BlockKinds
    <2>3. handle2 \in 0..NCards
      BY <2>1
    <2>4. Adopted(p) = [Loaded EXCEPT !.coordinator = inst[p].coordinator \/ k = "materialize",
                                      !.cap = cap2, !.handle = handle2]
      BY DEF Adopted
    <2> HIDE DEF cap2, handle2
    <2> QED BY <1>1, <2>1, <2>2, <2>3, <2>4 DEF InstType
  <1> QED BY <1>1, <1>2, <1>3

(* What an operation's record looks like on its way from the probe to the  *)
(* return.                                                                 *)
OpShaped(r) ==
  /\ r.at = "idle" => r = IdleOp
  /\ r.at # "idle" => r.kind # "none"
  /\ r.at = "saved" => r.lock = "state"
  /\ r.drop => r.at = "saved" /\ r.kind \notin {"claim", "materialize"}
  /\ r.took => r.lock = "state" /\ r.card \in Writers
  /\ r.lock = "writer" => r.card \in Writers
  /\ r.kind = "materialize" => r.lock = "state" /\ ~r.took

\* TypeOK with the shape of the operations, which makes it inductive.
TypeInv == TypeOK /\ \A p \in Procs : OpShaped(op[p])

(* Setting one operation keeps the types of all of them.                   *)
LEMMA OpUpdate ==
  ASSUME TypeInv, NEW p \in Procs, NEW r \in OpType, OpShaped(r), SetOp(p, r)
  PROVE  /\ op' \in [Procs -> OpType] /\ \A q \in Procs : OpShaped(op'[q])
         /\ op'[p] = r /\ \A q \in Procs \ {p} : op'[q] = op[q]
  BY DEF TypeInv, TypeOK, SetOp

(* The idle operation has the shape.                                       *)
LEMMA IdleShaped == OpShaped(IdleOp) /\ IdleOp \in OpType
  BY EmptyTypes DEF OpShaped, IdleOp

(* What Apply writes: cards of the right type, an operation of this board, *)
(* and a record on its way to the return.                                  *)
LEMMA ApplyFacts ==
  ASSUME TypeInv, NEW p \in Procs, Apply(p)
  PROVE  /\ op[p].kind \in Kinds /\ op[p].card \in Cards
         /\ op[p].at = "take" /\ op[p].lock = "state" /\ lock["state"] = "free"
         /\ Permitted(p, op[p].kind, op[p].card)
         /\ cards' = After(p, op[p].kind, op[p].card) /\ Savable(cards')
         /\ cards' \in [Cards -> CardType]
         /\ \A d \in Cards : Moves(p, op[p].kind, op[p].card, d, cards[d], cards'[d])
         /\ op'[p] = [op[p] EXCEPT !.at = "saved",
                        !.drop = DropsWriter(p, op[p].kind, op[p].card)]
         /\ op'[p].at = "saved" /\ op'[p].kind = op[p].kind /\ op'[p].card = op[p].card
         /\ op'[p].took = op[p].took
         /\ op'[p].drop = DropsWriter(p, op[p].kind, op[p].card)
         /\ op' \in [Procs -> OpType] /\ \A q \in Procs : OpShaped(op'[q])
         /\ \A q \in Procs \ {p} : op'[q] = op[q]
  <1> DEFINE k == op[p].kind
             c == op[p].card
             r == [op[p] EXCEPT !.at = "saved", !.drop = DropsWriter(p, k, c)]
  <1>1. k \in Kinds /\ c \in Cards /\ op[p] \in OpType /\ OpShaped(op[p])
    BY DEF Apply, TypeInv, TypeOK, OpType, OpShaped, AtStateLock
  <1>2. /\ op[p].at = "take" /\ op[p].lock = "state" /\ lock["state"] = "free"
        /\ Permitted(p, k, c) /\ cards' = After(p, k, c) /\ Savable(cards')
        /\ SetOp(p, r)
    BY DEF Apply, AtStateLock
  <1>3. cards' \in [Cards -> CardType] /\ \A d \in Cards : Moves(p, k, c, d, cards[d], cards'[d])
    BY <1>1, <1>2, AfterFacts DEF TypeInv
  <1>4. DropsWriter(p, k, c) \in BOOLEAN /\ (DropsWriter(p, k, c) => k # "claim")
    BY DEF DropsWriter, BlockKinds
  <1>5. /\ r \in OpType /\ r.at = "saved" /\ r.kind = k /\ r.card = c /\ r.took = op[p].took
        /\ r.lock = "state" /\ r.drop = DropsWriter(p, k, c)
    BY <1>1, <1>2, <1>4 DEF OpType
  <1>6. OpShaped(r)
    BY <1>1, <1>2, <1>4, <1>5 DEF OpShaped, Kinds
  <1>7. /\ op' \in [Procs -> OpType] /\ \A q \in Procs : OpShaped(op'[q])
        /\ op'[p] = r /\ \A q \in Procs \ {p} : op'[q] = op[q]
    BY <1>2, <1>5, <1>6, OpUpdate
  <1> QED BY <1>1, <1>2, <1>3, <1>5, <1>7

(* One step keeps the types.                                               *)
LEMMA TypeStep == TypeInv /\ [Next]_vars => TypeInv'
  <1> SUFFICES ASSUME TypeInv, [Next]_vars PROVE TypeInv'
    OBVIOUS
  <1> USE DEF TypeInv
  <1>1. CASE UNCHANGED vars
    BY <1>1 DEF vars, TypeOK, Running
  <1>2. ASSUME NEW p \in Procs, Load(p) PROVE TypeInv'
    BY <1>2, InstTypes DEF Load, TypeOK, Running
  <1>3. ASSUME NEW p \in Procs, Materialize(p) PROVE TypeInv'
    <2> DEFINE r == [IdleOp EXCEPT !.kind = "materialize", !.at = "take"]
    <2>1. r \in OpType /\ OpShaped(r)
      BY IdleShaped DEF OpType, OpShaped, IdleOp
    <2>2. op' \in [Procs -> OpType] /\ \A q \in Procs : OpShaped(op'[q])
      BY <1>3, <2>1, OpUpdate DEF Materialize
    <2> QED BY <1>3, <2>2 DEF Materialize, TypeOK, Running
  <1>4. ASSUME NEW p \in Procs, NEW k \in Kinds, NEW c \in Cards, Probe(p, k, c)
        PROVE  TypeInv'
    <2> DEFINE r == [IdleOp EXCEPT !.kind = k, !.card = c, !.at = "take",
                       !.lock = IF c \in Writers /\ inst[p].handle # c THEN "writer" ELSE "state"]
    <2>1. r \in OpType /\ OpShaped(r)
      BY IdleShaped DEF OpType, OpShaped, IdleOp, Kinds, Locks
    <2>2. op' \in [Procs -> OpType] /\ \A q \in Procs : OpShaped(op'[q])
      BY <1>4, <2>1, OpUpdate DEF Probe
    <2> QED BY <1>4, <2>2 DEF Probe, TypeOK, Running
  <1>5. ASSUME NEW p \in Procs, TakeWriter(p) PROVE TypeInv'
    <2> DEFINE r == [op[p] EXCEPT !.lock = "state", !.took = TRUE, !.retry = FALSE]
    <2>0. op[p] \in OpType /\ OpShaped(op[p]) /\ op[p].at = "take" /\ op[p].lock = "writer"
      BY <1>5 DEF TakeWriter, TypeOK
    <2>1. r \in OpType /\ OpShaped(r)
      <3>1. r \in OpType /\ op[p].lock \in Locks /\ r.at # "idle" /\ r.at # "saved"
            /\ r.card = op[p].card /\ r.kind = op[p].kind /\ r.drop = op[p].drop
            /\ r.lock = "state" /\ r.took
        BY <2>0 DEF OpType, Locks
      <3> QED BY <2>0, <3>1 DEF OpShaped
    <2>2. op' \in [Procs -> OpType] /\ \A q \in Procs : OpShaped(op'[q])
      BY <1>5, <2>1, OpUpdate DEF TakeWriter
    <2> QED BY <1>5, <2>2 DEF TakeWriter, TypeOK, Running, Locks
  <1>6. ASSUME NEW p \in Procs, RecoverLock(p) PROVE TypeInv'
    <2> DEFINE r == [op[p] EXCEPT !.at = "unlink"]
    <2>0. op[p] \in OpType /\ OpShaped(op[p]) /\ op[p].at = "take"
      BY <1>6 DEF RecoverLock, TypeOK
    <2>1. r \in OpType /\ OpShaped(r) /\ op[p].lock \in Locks
      <3>1. r \in OpType /\ op[p].lock \in Locks /\ r.at # "idle" /\ r.at # "saved"
            /\ r.card = op[p].card /\ r.kind = op[p].kind /\ r.drop = op[p].drop
            /\ r.lock = op[p].lock /\ r.took = op[p].took
        BY <2>0 DEF OpType, Locks
      <3> QED BY <2>0, <3>1 DEF OpShaped
    <2>2. op' \in [Procs -> OpType] /\ \A q \in Procs : OpShaped(op'[q])
      BY <1>6, <2>1, OpUpdate DEF RecoverLock
    <2> QED BY <1>6, <2>1, <2>2 DEF RecoverLock, TypeOK, Running
  <1>7. ASSUME NEW p \in Procs, UnlinkStale(p) PROVE TypeInv'
    <2> DEFINE r == [op[p] EXCEPT !.at = "take", !.retry = TRUE]
    <2>0. op[p] \in OpType /\ OpShaped(op[p]) /\ op[p].at = "unlink"
      BY <1>7 DEF UnlinkStale, TypeOK
    <2>1. r \in OpType /\ OpShaped(r) /\ op[p].lock \in Locks
      <3>1. r \in OpType /\ op[p].lock \in Locks /\ r.at # "idle" /\ r.at # "saved"
            /\ r.card = op[p].card /\ r.kind = op[p].kind /\ r.drop = op[p].drop
            /\ r.lock = op[p].lock /\ r.took = op[p].took
        BY <2>0 DEF OpType, Locks
      <3> QED BY <2>0, <3>1 DEF OpShaped
    <2>2. op' \in [Procs -> OpType] /\ \A q \in Procs : OpShaped(op'[q])
      BY <1>7, <2>1, OpUpdate DEF UnlinkStale
    <2> QED BY <1>7, <2>1, <2>2 DEF UnlinkStale, TypeOK, Running
  <1>8. ASSUME NEW p \in Procs, LockRefused(p) PROVE TypeInv'
    <2>1. op' \in [Procs -> OpType] /\ \A q \in Procs : OpShaped(op'[q])
      BY <1>8, IdleShaped, OpUpdate DEF LockRefused, Unwind
    <2> QED BY <1>8, <2>1 DEF LockRefused, Unwind, TypeOK, Running, Locks
  <1>9. ASSUME NEW p \in Procs, Apply(p) PROVE TypeInv'
    <2>1. /\ cards' \in [Cards -> CardType]
          /\ op' \in [Procs -> OpType] /\ \A q \in Procs : OpShaped(op'[q])
      BY <1>9, ApplyFacts
    <2>2. late' \subseteq Running' /\ inst' \in [Procs -> InstType]
      BY <1>9, InstTypes DEF Apply, Deadlines, Running, TypeOK
    <2> QED BY <1>9, <2>1, <2>2 DEF Apply, TypeOK, CardType, Locks
  <1>10. ASSUME NEW p \in Procs, Refused(p) PROVE TypeInv'
    <2>1. op' \in [Procs -> OpType] /\ \A q \in Procs : OpShaped(op'[q])
      BY <1>10, IdleShaped, OpUpdate DEF Refused, Unwind
    <2> QED BY <1>10, <2>1 DEF Refused, Unwind, TypeOK, Running, Locks
  <1>11. ASSUME NEW p \in Procs, Create(p) PROVE TypeInv'
    <2> DEFINE r == [op[p] EXCEPT !.at = "saved"]
    <2>1. r \in OpType /\ OpShaped(r)
      BY <1>11 DEF Create, AtStateLock, OpType, OpShaped, IdleOp, TypeOK
    <2>2. op' \in [Procs -> OpType] /\ \A q \in Procs : OpShaped(op'[q])
      BY <1>11, <2>1, OpUpdate DEF Create
    <2> QED BY <1>11, <2>2 DEF Create, TypeOK, Running, Locks
  <1>12. ASSUME NEW p \in Procs, CreateAgain(p) PROVE TypeInv'
    <2>1. op' \in [Procs -> OpType] /\ \A q \in Procs : OpShaped(op'[q])
      BY <1>12, IdleShaped, OpUpdate DEF CreateAgain, Unwind
    <2>2. inst' \in [Procs -> InstType]
      BY <1>12, InstTypes DEF CreateAgain, TypeOK
    <2> QED BY <1>12, <2>1, <2>2 DEF CreateAgain, Unwind, TypeOK, Running, Locks
  <1>13. ASSUME NEW p \in Procs, Return(p) PROVE TypeInv'
    <2>1. op' \in [Procs -> OpType] /\ \A q \in Procs : OpShaped(op'[q])
      BY <1>13, IdleShaped, OpUpdate DEF Return
    <2> QED BY <1>13, <2>1, InstTypes DEF Return, TypeOK, Running, Locks
  <1>14. ASSUME NEW p \in Procs, Crash(p) PROVE TypeInv'
    <2>1. op' \in [Procs -> OpType] /\ \A q \in Procs : OpShaped(op'[q])
      BY <1>14, IdleShaped, OpUpdate DEF Crash
    <2>2. lock' \in [Locks -> Procs \cup {"free", "torn"}]
      BY <1>14 DEF Crash, TypeOK, OpType
    <2> QED BY <1>14, <2>1, <2>2, EmptyTypes DEF Crash, TypeOK, Running
  <1>15. ASSUME NEW c \in Cards, Expire(c) PROVE TypeInv'
    BY <1>15 DEF Expire, TypeOK, Running
  <1> QED
    BY <1>1, <1>2, <1>3, <1>4, <1>5, <1>6, <1>7, <1>8, <1>9, <1>10, <1>11, <1>12,
       <1>13, <1>14, <1>15 DEF Next

(* The types hold at the start.                                            *)
LEMMA TypeInit == Init => TypeInv
  BY Basics, EmptyTypes, IdleShaped DEF Init, TypeInv, TypeOK, FreshCard, Statuses, Running

(* The board, the locks and the objects have their types in every state,   *)
(* for any processes, cards and bounds.                                    *)
THEOREM TypeCorrect == Spec => []TypeOK
  <1>1. TypeInv => TypeOK
    BY DEF TypeInv
  <1> QED BY <1>1, TypeInit, TypeStep, PTL DEF Spec

-----------------------------------------------------------------------------
(* The chain of gates.                                                     *)

(* Only Apply changes the cards.                                           *)
LEMMA CardsChange ==
  ASSUME [Next]_vars
  PROVE  cards' = cards \/ \E p \in Procs : Apply(p)
  BY DEF Next, vars, Load, Materialize, Probe, TakeWriter, RecoverLock, UnlinkStale,
     LockRefused, Refused, Create, CreateAgain, Return, Crash, Expire

(* What each operation asks of its card, as facts about statuses.          *)
LEMMA PermittedFacts ==
  ASSUME TypeInv, NEW p \in Procs, NEW k \in Kinds, NEW c \in Cards, Permitted(p, k, c)
  PROVE  /\ files = "whole" /\ OwnershipOk(p, k, c)
         /\ k = "claim" => /\ cards[c].status \in {"pending", "ready", "resumed"}
                           /\ c = 1 \/ (c - 1 \in Cards /\ cards[c - 1].status = "complete")
         /\ k \in {"heartbeat", "complete", "reclaim", "recover"} => cards[c].status = "running"
         /\ k = "passGate" => cards[c].status = "complete"
         /\ k \in {"block", "needInput"} => cards[c].status \notin {"complete", "blocked"}
         /\ k = "resume" => cards[c].status = "needs_input"
         /\ k = "recover" => c \in late \/ ~Alive(cards[c].owner)
  <1>1. files = "whole" /\ OwnershipOk(p, k, c) /\ HandlerAllows(k, c)
    BY DEF Permitted, Loadable
  <1> QED BY <1>1 DEF HandlerAllows, Recoverable, BlockKinds, Complete, Kinds

(* One write keeps every started card behind completed ones.               *)
LEMMA GatedStep ==
  ASSUME TypeInv, AncestorsGated, NEW p \in Procs, Apply(p)
  PROVE  AncestorsGated'
  <1> DEFINE k == op[p].kind
             c == op[p].card
             S == {"ready", "resumed", "running", "complete"}
  <1>1. k \in Kinds /\ c \in Cards /\ Permitted(p, k, c) /\ Savable(cards')
        /\ \A d \in Cards : Moves(p, k, c, d, cards[d], cards'[d])
    BY ApplyFacts
  <1>2. \A d \in Cards : cards[d].status \in S =>
          \A e \in Cards : e < d => cards[e].status = "complete"
    BY Basics DEF AncestorsGated, Complete, Cards
  <1> SUFFICES ASSUME NEW d \in Cards, cards'[d].status \in S, NEW e \in Cards, e < d
               PROVE  cards'[e].status = "complete"
    BY Basics DEF AncestorsGated, Complete, Cards
  <1> HIDE DEF k, c
  <1>3. c \in Nat /\ d \in Nat /\ e \in Nat /\ d - 1 \in Nat
    BY <1>1, Basics
  <1>4. /\ Moves(p, k, c, d, cards[d], cards'[d]) /\ Moves(p, k, c, e, cards[e], cards'[e])
    BY <1>1
  <1>5. /\ k = "claim" => /\ cards[c].status \in {"pending", "ready", "resumed"}
                          /\ c = 1 \/ (c - 1 \in Cards /\ cards[c - 1].status = "complete")
        /\ k \in {"complete", "reclaim", "recover"} => cards[c].status = "running"
        /\ k \in {"block", "needInput"} => cards[c].status \notin {"complete", "blocked"}
        /\ k = "resume" => cards[c].status = "needs_input"
    BY <1>1, PermittedFacts
  <1>6. CASE k = "claim"
    BY <1>1, <1>2, <1>3, <1>4, <1>5, <1>6, Basics DEF Moves
  <1>7. CASE k \in {"heartbeat", "passGate"}
    BY <1>2, <1>4, <1>7 DEF Moves
  <1>8. CASE k = "complete"
    BY <1>1, <1>2, <1>3, <1>4, <1>5, <1>8 DEF Moves
  <1>9. CASE k = "failGate"
    BY <1>2, <1>3, <1>4, <1>9 DEF Moves
  <1>10. CASE k \in {"block", "needInput"}
    BY <1>1, <1>2, <1>3, <1>4, <1>5, <1>10 DEF Moves
  <1>11. CASE k = "resume"
    <2>1. CASE d = c
      <3>1. d > 1 /\ d - 1 \in Cards
        BY <1>3, Basics DEF Cards
      <3>2. cards'[d].status \in {"ready", "resumed"}
        BY <1>4, <1>5, <1>11, <2>1 DEF Moves
      <3>3. cards'[d - 1].status = "complete"
        BY <1>1, <3>1, <3>2 DEF Savable
      <3>4. Moves(p, k, c, d - 1, cards[d - 1], cards'[d - 1])
        BY <1>1, <3>1
      <3>5. cards[d - 1].status = "complete"
        BY <1>3, <1>11, <2>1, <3>3, <3>4 DEF Moves
      <3> QED BY <1>2, <1>3, <1>4, <1>11, <2>1, <3>1, <3>3, <3>5 DEF Moves
    <2>2. CASE d # c
      BY <1>1, <1>2, <1>3, <1>4, <1>5, <1>11, <2>2 DEF Moves
    <2> QED BY <2>1, <2>2
  <1>12. CASE k \in {"reclaim", "recover"}
    BY <1>1, <1>2, <1>3, <1>4, <1>5, <1>12 DEF Moves
  <1> QED BY <1>1, <1>6, <1>7, <1>8, <1>9, <1>10, <1>11, <1>12 DEF Kinds

\* The types and the chain: the invariant of the board's content.
GateInv == TypeInv /\ AncestorsGated

(* The chain of gates holds at the start and is kept by every step.        *)
LEMMA GateInvariant == (Init => GateInv) /\ (GateInv /\ [Next]_vars => GateInv')
  <1>1. Init => AncestorsGated
    BY DEF Init, AncestorsGated, FreshCard
  <1>2. ASSUME GateInv, [Next]_vars PROVE AncestorsGated'
    <2>1. cards' = cards => AncestorsGated'
      BY <1>2 DEF GateInv, AncestorsGated, Complete
    <2>2. \A p \in Procs : Apply(p) => AncestorsGated'
      BY <1>2, GatedStep DEF GateInv
    <2> QED BY <1>2, <2>1, <2>2, CardsChange
  <1> QED BY <1>1, <1>2, TypeInit, TypeStep DEF GateInv

(* Work is handed out, under way or finished only behind an unbroken chain *)
(* of completed cards, through every revocation, resume and recovery.      *)
THEOREM AlwaysAncestorsGated == Spec => []AncestorsGated
  <1>1. GateInv => AncestorsGated
    BY DEF GateInv
  <1> QED BY <1>1, GateInvariant, PTL DEF Spec

(* A write completes one card behind completed ones, or takes a card with  *)
(* all later ones, or completes nothing.                                   *)
LEMMA CompleteStep ==
  ASSUME TypeInv, AncestorsGated, NEW p \in Procs, Apply(p)
  PROVE  \/ Complete' = Complete
         \/ \E c \in Cards : Gates!Pass(c) \/ Gates!Revoke(c)
  <1> DEFINE k == op[p].kind
             c == op[p].card
  <1>1. k \in Kinds /\ c \in Cards /\ Permitted(p, k, c) /\ c \in Nat \ {0} /\ Cards \subseteq Nat
        /\ \A d \in Cards : Moves(p, k, c, d, cards[d], cards'[d])
    BY ApplyFacts, Basics
  <1>2. /\ k = "claim" => cards[c].status \in {"pending", "ready", "resumed"}
        /\ k \in {"complete", "reclaim", "recover"} => cards[c].status = "running"
        /\ k \in {"block", "needInput"} => cards[c].status \notin {"complete", "blocked"}
        /\ k = "resume" => cards[c].status = "needs_input"
    BY <1>1, PermittedFacts
  <1> HIDE DEF k, c
  <1>3. CASE k = "complete"
    <2>1. \A d \in Cards : d \in Complete' <=> d \in Complete \/ d = c
      BY <1>1, <1>2, <1>3 DEF Moves, Complete
    <2>2. c \notin Complete /\ 1..(c - 1) \subseteq Complete
      BY <1>1, <1>2, <1>3 DEF AncestorsGated, Complete
    <2>3. Complete' = Complete \cup {c}
      BY <1>1, <2>1 DEF Complete
    <2> QED BY <1>1, <2>2, <2>3 DEF Gates!Pass
  <1>4. CASE k = "failGate"
    <2>1. \A d \in Cards : d \in Complete' <=> d \in Complete /\ d < c
      BY <1>1, <1>4 DEF Moves, Complete
    <2>2. CASE c \in Complete
      <3>1. Complete' = Complete \cap 1..(c - 1)
        BY <1>1, <2>1 DEF Complete, Cards
      <3> QED BY <1>1, <2>2, <3>1 DEF Gates!Revoke
    <2>3. CASE c \notin Complete
      <3>1. \A d \in Complete : d < c
        BY <1>1, <2>3 DEF AncestorsGated, Complete, Cards
      <3>2. Complete' = Complete
        BY <2>1, <3>1 DEF Complete
      <3> QED BY <3>2
    <2> QED BY <2>2, <2>3
  <1>5. CASE k \notin {"complete", "failGate"}
    <2>1. \A d \in Cards : d \in Complete' <=> d \in Complete
      BY <1>1, <1>2, <1>5 DEF Moves, Complete, Kinds
    <2> QED BY <2>1 DEF Complete
  <1> QED BY <1>3, <1>4, <1>5

(* The board implements the stage gates: cards complete in order, and a    *)
(* revocation takes every later card with it.                              *)
THEOREM BoardImplementsGates == Spec => ImplementsGates
  <1>1. Init => Gates!Init
    BY DEF Init, FreshCard, Complete, Gates!Init
  <1>2. GateInv /\ [Next]_vars => [Gates!Next]_Complete
    <2> SUFFICES ASSUME GateInv, [Next]_vars PROVE [Gates!Next]_Complete
      OBVIOUS
    <2>1. cards' = cards => [Gates!Next]_Complete
      BY DEF Complete
    <2>2. \A p \in Procs : Apply(p) => [Gates!Next]_Complete
      BY CompleteStep DEF GateInv, Gates!Next, Gates!Stages, Cards
    <2> QED BY <2>1, <2>2, CardsChange
  <1> QED BY <1>1, <1>2, GateInvariant, PTL DEF Spec, ImplementsGates, Gates!Spec

-----------------------------------------------------------------------------
(* Half a save.                                                            *)

(* A board changes only from a whole pair of files, and a save leaves them *)
(* split until its second half: half a save freezes the board.             *)
THEOREM HalfSaveFreezesAlways == Spec => HalfSaveFreezes
  <1>1. TypeInv /\ [Next]_vars => [cards' # cards => files = "whole" /\ files' = "split"]_vars
    <2> SUFFICES ASSUME TypeInv, [Next]_vars, cards' # cards
                 PROVE  files = "whole" /\ files' = "split"
      OBVIOUS
    <2>1. PICK p \in Procs : Apply(p)
      BY CardsChange
    <2>2. Permitted(p, op[p].kind, op[p].card) /\ files' = "split"
      BY <2>1 DEF Apply
    <2> QED BY <2>2 DEF Permitted, Loadable
  <1> QED BY <1>1, TypeInit, TypeStep, PTL DEF Spec, HalfSaveFreezes

-----------------------------------------------------------------------------
(* Locks.                                                                  *)

(* Who is inside an operation or holds an object is up; materialize() is   *)
(* called without an object.                                               *)
CallersUp ==
  \A p \in Procs :
    /\ op[p].at # "idle" \/ inst[p].open => proc[p] = "up"
    /\ ~inst[p].open => inst[p].handle = 0
    /\ op[p].kind = "materialize" => ~inst[p].open

(* A process named by a lock or a card has run.                            *)
NamedHaveRun ==
  /\ \A l \in Locks : lock[l] \in Procs => proc[lock[l]] # "new"
  /\ \A c \in Cards : cards[c].owner \in Procs => proc[cards[c].owner] # "new"

(* A stale lock about to go is marked by its remover and has a dead owner. *)
UnlinkGuarded ==
  \A p \in Procs : op[p].at = "unlink" =>
    LET l == op[p].lock
    IN  marker[l] = p /\ lock[l] \in Procs /\ proc[lock[l]] = "dead"

(* A handle, a lock taken and a lock about to go are the writer lock; an   *)
(* operation on a writing card past its first lock has one of the first two. *)
WriterHeld ==
  \A p \in Procs :
    /\ inst[p].handle # 0 \/ op[p].took \/ op[p].drop => lock["writer"] = p
    /\ op[p].took => inst[p].handle = 0
    /\ (op[p].at # "idle" /\ op[p].lock = "state" /\ op[p].card \in Writers
        /\ op[p].kind # "materialize") => op[p].took \/ inst[p].handle = op[p].card

(* A running writing card is covered by its owner's handle, or by the claim *)
(* it is returning from, and not by a handle about to go.                  *)
WriterCovered ==
  \A c \in Writers \cap Running : \A p \in Procs :
    cards[c].owner = p /\ proc[p] = "up" =>
      /\ \/ inst[p].handle = c
         \/ op[p].at = "saved" /\ op[p].kind = "claim" /\ op[p].card = c
      /\ ~op[p].drop

\* The invariant of the two lock files.
LockInv == /\ CallersUp /\ NamedHaveRun /\ UnlinkGuarded /\ StateLockHeld
           /\ WriterHeld /\ WriterCovered

(* A lease is held by the owner of the card: fences grow with every claim, *)
(* and no cards change while a save is between its files.                  *)
LeaseInv ==
  /\ \A p \in Procs, c \in Cards :
       /\ inst[p].cap[c] <= cards[c].fence
       /\ cards[c].status = "running" /\ inst[p].cap[c] = cards[c].fence => cards[c].owner = p
  /\ \A c \in Running : cards[c].fence > 0
  /\ \A p \in Procs : op[p].at = "saved" =>
       /\ files = "split"
       /\ op[p].kind = "claim" => /\ cards[op[p].card].status = "running"
                                  /\ cards[op[p].card].owner = p

(* When an operation drops the writer lock.                                *)
LEMMA DropsFacts ==
  ASSUME NEW p \in Procs, NEW k \in Kinds, NEW c \in Nat, inst[p].handle \in Nat,
         DropsWriter(p, k, c)
  PROVE  \/ op[p].took /\ k # "claim"
         \/ /\ inst[p].handle = c
            /\ k \in {"complete", "reclaim", "recover", "block", "needInput"}
         \/ k = "failGate" /\ inst[p].handle >= c
  <1>1. CASE op[p].took /\ k # "claim"
    BY <1>1
  <1>2. CASE inst[p].handle = c /\ k \in {"complete", "reclaim", "recover"} \cup BlockKinds
    BY <1>2 DEF BlockKinds
  <1>3. CASE k = "failGate" /\ (inst[p].handle = c \/ inst[p].handle > c)
    BY <1>3
  <1> QED BY <1>1, <1>2, <1>3 DEF DropsWriter

(* One step keeps the locks right.                                         *)
LEMMA LockStep == TypeInv /\ LockInv /\ [Next]_vars => LockInv'
  <1> SUFFICES ASSUME TypeInv, LockInv, [Next]_vars PROVE LockInv'
    OBVIOUS
  <1>0. /\ op \in [Procs -> OpType] /\ \A q \in Procs : OpShaped(op[q])
        /\ inst \in [Procs -> InstType] /\ proc \in [Procs -> {"new", "up", "dead"}]
        /\ lock \in [Locks -> Procs \cup {"free", "torn"}]
        /\ marker \in [Locks -> Procs \cup {"free"}]
        /\ cards \in [Cards -> CardType]
        /\ \A q \in Procs : op[q].lock \in Locks
        /\ "writer" \in Locks /\ "state" \in Locks /\ "writer" # "state"
        /\ "free" \notin Procs /\ "torn" \notin Procs
        /\ CallersUp /\ NamedHaveRun /\ UnlinkGuarded /\ StateLockHeld /\ WriterHeld /\ WriterCovered
    BY Basics DEF TypeInv, TypeOK, CardType, OpType, Locks, LockInv
  <1>1. CASE UNCHANGED vars
    BY <1>0, <1>1 DEF vars, LockInv, CallersUp, NamedHaveRun, UnlinkGuarded, StateLockHeld,
       WriterHeld, WriterCovered, Running
  <1>3. ASSUME NEW p \in Procs, Load(p) PROVE LockInv'
    <2>0. /\ proc' = [proc EXCEPT ![p] = "up"] /\ proc[p] # "dead"
          /\ inst'[p].handle = 0 /\ inst'[p].open /\ ~inst[p].open /\ inst[p].handle = 0
          /\ \A q \in Procs \ {p} : inst'[q] = inst[q]
          /\ op' = op /\ op[p] = IdleOp
          /\ cards' = cards /\ lock' = lock /\ marker' = marker
      BY <1>0, <1>3 DEF Load, MayOpen, Loaded, NoInst, CallersUp
    <2>1. CallersUp'
      BY <1>0, <2>0 DEF CallersUp, IdleOp
    <2>2. NamedHaveRun'
      BY <1>0, <2>0 DEF NamedHaveRun, CallersUp
    <2>3. UnlinkGuarded'
      BY <1>0, <2>0 DEF UnlinkGuarded, NamedHaveRun, IdleOp
    <2>4. StateLockHeld'
      BY <1>0, <2>0 DEF StateLockHeld, UnlinkGuarded, CallersUp, IdleOp
    <2>5. WriterHeld'
      BY <1>0, <2>0 DEF WriterHeld, CallersUp, UnlinkGuarded, IdleOp, OpShaped
    <2>6. WriterCovered'
      BY <1>0, <2>0 DEF WriterCovered, WriterHeld, NamedHaveRun, Running, IdleOp
    <2> QED BY <2>1, <2>2, <2>3, <2>4, <2>5, <2>6 DEF LockInv
  <1>4. ASSUME NEW p \in Procs, Materialize(p) PROVE LockInv'
    <2>0. /\ proc' = [proc EXCEPT ![p] = "up"] /\ proc[p] # "dead"
          /\ ~inst[p].open /\ inst[p].handle = 0 /\ inst' = inst
          /\ op'[p].at = "take" /\ op'[p].kind = "materialize" /\ op'[p].lock = "state"
          /\ ~op'[p].took /\ ~op'[p].drop /\ op[p] = IdleOp
          /\ \A q \in Procs \ {p} : op'[q] = op[q]
          /\ cards' = cards /\ lock' = lock /\ marker' = marker
      BY <1>0, <1>4 DEF Materialize, MayOpen, SetOp, IdleOp, CallersUp, OpType
    <2>1. CallersUp'
      BY <1>0, <2>0 DEF CallersUp, IdleOp
    <2>2. NamedHaveRun'
      BY <1>0, <2>0 DEF NamedHaveRun, CallersUp
    <2>3. UnlinkGuarded'
      BY <1>0, <2>0 DEF UnlinkGuarded, NamedHaveRun, IdleOp
    <2>4. StateLockHeld'
      BY <1>0, <2>0 DEF StateLockHeld, UnlinkGuarded, CallersUp, IdleOp
    <2>5. WriterHeld'
      BY <1>0, <2>0 DEF WriterHeld, CallersUp, UnlinkGuarded, IdleOp, OpShaped
    <2>6. WriterCovered'
      BY <1>0, <2>0 DEF WriterCovered, WriterHeld, NamedHaveRun, Running, IdleOp
    <2> QED BY <2>1, <2>2, <2>3, <2>4, <2>5, <2>6 DEF LockInv
  <1>5. ASSUME NEW p \in Procs, NEW k \in Kinds, NEW c \in Cards, Probe(p, k, c) PROVE LockInv'
    <2>0. /\ proc' = proc /\ proc[p] = "up" /\ inst' = inst
          /\ op'[p].at = "take" /\ op'[p].kind = k /\ op'[p].card = c
          /\ ~op'[p].took /\ ~op'[p].drop /\ op[p] = IdleOp /\ k # "materialize"
          /\ op'[p].lock = "state" /\ c \in Writers => inst[p].handle = c
          /\ \A q \in Procs \ {p} : op'[q] = op[q]
          /\ cards' = cards /\ lock' = lock /\ marker' = marker
      BY <1>0, <1>5 DEF Probe, SetOp, IdleOp, Kinds
    <2>1. CallersUp'
      BY <1>0, <2>0 DEF CallersUp, IdleOp
    <2>2. NamedHaveRun'
      BY <1>0, <2>0 DEF NamedHaveRun, CallersUp
    <2>3. UnlinkGuarded'
      BY <1>0, <2>0 DEF UnlinkGuarded, NamedHaveRun, IdleOp
    <2>4. StateLockHeld'
      BY <1>0, <2>0 DEF StateLockHeld, UnlinkGuarded, CallersUp, IdleOp
    <2>5. WriterHeld'
      BY <1>0, <2>0 DEF WriterHeld, CallersUp, UnlinkGuarded, IdleOp, OpShaped
    <2>6. WriterCovered'
      BY <1>0, <2>0 DEF WriterCovered, WriterHeld, NamedHaveRun, Running, IdleOp
    <2> QED BY <2>1, <2>2, <2>3, <2>4, <2>5, <2>6 DEF LockInv
  <1>6. ASSUME NEW p \in Procs, TakeWriter(p) PROVE LockInv'
    <2>0. /\ proc' = proc /\ inst' = inst /\ lock["writer"] = "free"
          /\ op[p].at = "take" /\ op[p].lock = "writer"
          /\ op'[p].at = "take" /\ op'[p].kind = op[p].kind /\ op'[p].card = op[p].card
          /\ op'[p].took /\ op'[p].drop = op[p].drop /\ op'[p].lock = "state"
          /\ \A q \in Procs \ {p} : op'[q] = op[q]
          /\ cards' = cards /\ lock' = [lock EXCEPT !["writer"] = p] /\ marker' = marker
      BY <1>0, <1>6 DEF TakeWriter, SetOp, OpType
    <2>1. CallersUp'
      BY <1>0, <2>0 DEF CallersUp, IdleOp
    <2>2. NamedHaveRun'
      BY <1>0, <2>0 DEF NamedHaveRun, CallersUp
    <2>3. UnlinkGuarded'
      BY <1>0, <2>0 DEF UnlinkGuarded, NamedHaveRun, IdleOp
    <2>4. StateLockHeld'
      BY <1>0, <2>0 DEF StateLockHeld, UnlinkGuarded, CallersUp, IdleOp
    <2>5. WriterHeld'
      BY <1>0, <2>0 DEF WriterHeld, CallersUp, UnlinkGuarded, IdleOp, OpShaped
    <2>6. WriterCovered'
      BY <1>0, <2>0 DEF WriterCovered, WriterHeld, NamedHaveRun, Running, IdleOp
    <2> QED BY <2>1, <2>2, <2>3, <2>4, <2>5, <2>6 DEF LockInv
  <1>7. ASSUME NEW p \in Procs, RecoverLock(p) PROVE LockInv'
    <2>0. /\ proc' = proc /\ inst' = inst /\ lock' = lock
          /\ op[p].at = "take" /\ op'[p].at = "unlink"
          /\ op'[p].kind = op[p].kind /\ op'[p].card = op[p].card
          /\ op'[p].took = op[p].took /\ op'[p].drop = op[p].drop /\ op'[p].lock = op[p].lock
          /\ \A q \in Procs \ {p} : op'[q] = op[q]
          /\ cards' = cards /\ marker' = [marker EXCEPT ![op[p].lock] = p]
          /\ marker[op[p].lock] = "free"
          /\ lock[op[p].lock] \in Procs /\ proc[lock[op[p].lock]] # "up"
      BY <1>0, <1>7 DEF RecoverLock, SetOp, OpType, MayRecover, Alive
    <2>1. CallersUp'
      BY <1>0, <2>0 DEF CallersUp, IdleOp
    <2>2. NamedHaveRun'
      BY <1>0, <2>0 DEF NamedHaveRun, CallersUp
    <2>3. UnlinkGuarded'
      BY <1>0, <2>0 DEF UnlinkGuarded, NamedHaveRun, IdleOp
    <2>4. StateLockHeld'
      BY <1>0, <2>0 DEF StateLockHeld, UnlinkGuarded, CallersUp, IdleOp
    <2>5. WriterHeld'
      BY <1>0, <2>0 DEF WriterHeld, CallersUp, UnlinkGuarded, IdleOp, OpShaped
    <2>6. WriterCovered'
      BY <1>0, <2>0 DEF WriterCovered, WriterHeld, NamedHaveRun, Running, IdleOp
    <2> QED BY <2>1, <2>2, <2>3, <2>4, <2>5, <2>6 DEF LockInv
  <1>8. ASSUME NEW p \in Procs, UnlinkStale(p) PROVE LockInv'
    <2>0. /\ proc' = proc /\ inst' = inst /\ lock' = [lock EXCEPT ![op[p].lock] = "free"]
          /\ op[p].at = "unlink" /\ op'[p].at = "take"
          /\ op'[p].kind = op[p].kind /\ op'[p].card = op[p].card
          /\ op'[p].took = op[p].took /\ op'[p].drop = op[p].drop /\ op'[p].lock = op[p].lock
          /\ \A q \in Procs \ {p} : op'[q] = op[q]
          /\ cards' = cards /\ marker' = [marker EXCEPT ![op[p].lock] = "free"]
          /\ marker[op[p].lock] = p
          /\ lock[op[p].lock] \in Procs /\ proc[lock[op[p].lock]] = "dead"
      BY <1>0, <1>8 DEF UnlinkStale, SetOp, OpType, UnlinkGuarded
    <2>1. CallersUp'
      BY <1>0, <2>0 DEF CallersUp, IdleOp
    <2>2. NamedHaveRun'
      BY <1>0, <2>0 DEF NamedHaveRun, CallersUp
    <2>3. UnlinkGuarded'
      BY <1>0, <2>0 DEF UnlinkGuarded, NamedHaveRun, IdleOp
    <2>4. StateLockHeld'
      BY <1>0, <2>0 DEF StateLockHeld, UnlinkGuarded, CallersUp, IdleOp
    <2>5. WriterHeld'
      BY <1>0, <2>0 DEF WriterHeld, CallersUp, UnlinkGuarded, IdleOp, OpShaped
    <2>6. WriterCovered'
      BY <1>0, <2>0 DEF WriterCovered, WriterHeld, NamedHaveRun, Running, IdleOp
    <2> QED BY <2>1, <2>2, <2>3, <2>4, <2>5, <2>6 DEF LockInv
  <1>9. ASSUME NEW p \in Procs, LockRefused(p) PROVE LockInv'
    <2>0. /\ proc' = proc /\ inst' = inst /\ op[p].at = "take" /\ op' = [op EXCEPT ![p] = IdleOp]
          /\ lock' = lock \/ (lock' = [lock EXCEPT !["writer"] = "free"] /\ op[p].took)
          /\ cards' = cards /\ marker' = marker
      BY <1>0, <1>9 DEF LockRefused, Unwind, SetOp
    <2>1. CallersUp'
      BY <1>0, <2>0 DEF CallersUp, IdleOp
    <2>2. NamedHaveRun'
      BY <1>0, <2>0 DEF NamedHaveRun, CallersUp
    <2>3. UnlinkGuarded'
      BY <1>0, <2>0 DEF UnlinkGuarded, NamedHaveRun, IdleOp, WriterHeld, CallersUp
    <2>4. StateLockHeld'
      BY <1>0, <2>0 DEF StateLockHeld, UnlinkGuarded, CallersUp, IdleOp
    <2>5. WriterHeld'
      BY <1>0, <2>0 DEF WriterHeld, CallersUp, UnlinkGuarded, IdleOp, OpShaped
    <2>6. WriterCovered'
      BY <1>0, <2>0 DEF WriterCovered, WriterHeld, NamedHaveRun, Running, IdleOp
    <2> QED BY <2>1, <2>2, <2>3, <2>4, <2>5, <2>6 DEF LockInv
  <1>10. ASSUME NEW p \in Procs, Refused(p) PROVE LockInv'
    <2>0. /\ proc' = proc /\ inst' = inst /\ op[p].at = "take" /\ op' = [op EXCEPT ![p] = IdleOp]
          /\ lock' = lock \/ (lock' = [lock EXCEPT !["writer"] = "free"] /\ op[p].took)
          /\ cards' = cards /\ marker' = marker
      BY <1>0, <1>10 DEF Refused, Unwind, SetOp, AtStateLock
    <2>1. CallersUp'
      BY <1>0, <2>0 DEF CallersUp, IdleOp
    <2>2. NamedHaveRun'
      BY <1>0, <2>0 DEF NamedHaveRun, CallersUp
    <2>3. UnlinkGuarded'
      BY <1>0, <2>0 DEF UnlinkGuarded, NamedHaveRun, IdleOp, WriterHeld, CallersUp
    <2>4. StateLockHeld'
      BY <1>0, <2>0 DEF StateLockHeld, UnlinkGuarded, CallersUp, IdleOp
    <2>5. WriterHeld'
      BY <1>0, <2>0 DEF WriterHeld, CallersUp, UnlinkGuarded, IdleOp, OpShaped
    <2>6. WriterCovered'
      BY <1>0, <2>0 DEF WriterCovered, WriterHeld, NamedHaveRun, Running, IdleOp
    <2> QED BY <2>1, <2>2, <2>3, <2>4, <2>5, <2>6 DEF LockInv
  <1>11. ASSUME NEW p \in Procs, CreateAgain(p) PROVE LockInv'
    <2>0. /\ proc' = proc /\ op[p].at = "take" /\ op' = [op EXCEPT ![p] = IdleOp]
          /\ lock' = lock /\ inst[p].handle = 0
          /\ inst'[p] = inst[p] \/ (inst'[p].open /\ inst'[p].handle = 0)
          /\ \A q \in Procs \ {p} : inst'[q] = inst[q]
          /\ cards' = cards /\ marker' = marker
      BY <1>0, <1>11 DEF CreateAgain, Unwind, SetOp, AtStateLock, Loaded, NoInst, OpShaped, CallersUp
    <2>1. CallersUp'
      BY <1>0, <2>0 DEF CallersUp, IdleOp
    <2>2. NamedHaveRun'
      BY <1>0, <2>0 DEF NamedHaveRun, CallersUp
    <2>3. UnlinkGuarded'
      BY <1>0, <2>0 DEF UnlinkGuarded, NamedHaveRun, IdleOp
    <2>4. StateLockHeld'
      BY <1>0, <2>0 DEF StateLockHeld, UnlinkGuarded, CallersUp, IdleOp
    <2>5. WriterHeld'
      BY <1>0, <2>0 DEF WriterHeld, CallersUp, UnlinkGuarded, IdleOp, OpShaped
    <2>6. WriterCovered'
      BY <1>0, <2>0 DEF WriterCovered, WriterHeld, NamedHaveRun, Running, IdleOp
    <2> QED BY <2>1, <2>2, <2>3, <2>4, <2>5, <2>6 DEF LockInv
  <1>12. ASSUME NEW p \in Procs, Create(p) PROVE LockInv'
    <2>0. /\ proc' = proc /\ inst' = inst /\ op[p].at = "take" /\ op[p].kind = "materialize"
          /\ op'[p].at = "saved" /\ op'[p].kind = op[p].kind /\ op'[p].card = op[p].card
          /\ ~op'[p].took /\ ~op'[p].drop /\ op'[p].lock = "state"
          /\ \A q \in Procs \ {p} : op'[q] = op[q]
          /\ lock' = [lock EXCEPT !["state"] = p] /\ lock["state"] = "free"
          /\ cards' = cards /\ marker' = marker
      BY <1>0, <1>12 DEF Create, AtStateLock, SetOp, OpType, OpShaped
    <2>1. CallersUp'
      BY <1>0, <2>0 DEF CallersUp, IdleOp
    <2>2. NamedHaveRun'
      BY <1>0, <2>0 DEF NamedHaveRun, CallersUp
    <2>3. UnlinkGuarded'
      BY <1>0, <2>0 DEF UnlinkGuarded, NamedHaveRun, IdleOp
    <2>4. StateLockHeld'
      BY <1>0, <2>0 DEF StateLockHeld, UnlinkGuarded, CallersUp, IdleOp
    <2>5. WriterHeld'
      BY <1>0, <2>0 DEF WriterHeld, CallersUp, UnlinkGuarded, IdleOp, OpShaped
    <2>6. WriterCovered'
      BY <1>0, <2>0 DEF WriterCovered, WriterHeld, NamedHaveRun, Running, IdleOp
    <2> QED BY <2>1, <2>2, <2>3, <2>4, <2>5, <2>6 DEF LockInv
  <1>13. ASSUME NEW p \in Procs, Apply(p) PROVE LockInv'
    <2> DEFINE k == op[p].kind
               c == op[p].card
    <2>00. /\ proc' = proc /\ marker' = marker
           /\ lock' = [lock EXCEPT !["state"] = p] /\ inst' = Outdated
      BY <1>13 DEF Apply
    <2>01. \A q \in Procs : inst'[q].handle = inst[q].handle /\ inst'[q].open = inst[q].open
      BY <1>0, <2>00 DEF Outdated, InstType
    <2>0. /\ proc' = proc /\ marker' = marker
          /\ \A q \in Procs : inst'[q].handle = inst[q].handle /\ inst'[q].open = inst[q].open
          /\ lock' = [lock EXCEPT !["state"] = p] /\ lock["state"] = "free"
          /\ op[p].at = "take" /\ op'[p].at = "saved" /\ op[p].lock = "state"
          /\ op'[p].kind = k /\ op'[p].card = c /\ op'[p].took = op[p].took
          /\ op'[p].lock = "state"
          /\ \A q \in Procs \ {p} : op'[q] = op[q]
      BY <2>00, <2>01, <1>13, ApplyFacts DEF OpShaped
    <2>1. /\ k \in Kinds /\ c \in Cards /\ c \in Nat \ {0} /\ Cards \subseteq Nat
          /\ k = op[p].kind /\ c = op[p].card
          /\ cards' \in [Cards -> CardType]
          /\ \A d \in Cards : Moves(p, k, c, d, cards[d], cards'[d])
          /\ op'[p].drop = DropsWriter(p, k, c) /\ OpShaped(op'[p])
      BY <1>13, ApplyFacts, Basics
    <2>02. inst[p].handle \in Nat
      BY <1>0, Basics DEF InstType
    <2> HIDE DEF k, c
    <2>2. op'[p].drop => \/ op[p].took /\ k # "claim"
                         \/ /\ inst[p].handle = c
                            /\ k \in {"complete", "reclaim", "recover", "block", "needInput"}
                         \/ k = "failGate" /\ inst[p].handle >= c
      <3>1. op'[p].drop => DropsWriter(p, k, c)
        BY <2>1
      <3>2. k \in Kinds /\ c \in Nat
        BY <2>1
      <3> QED BY <2>02, <3>1, <3>2, DropsFacts
    <2>3. op'[p].drop => lock["writer"] = p
      BY <1>0, <2>1, <2>2, <2>02 DEF WriterHeld
    <2>4. CallersUp'
      BY <1>0, <2>0, <2>1 DEF CallersUp, Kinds
    <2>5. NamedHaveRun'
      <3>1. proc[p] = "up" /\ NamedHaveRun /\ "none" \notin Procs
        BY <1>0, <2>0, Basics DEF CallersUp
      <3>2. \A l \in Locks : lock'[l] = p \/ lock'[l] = lock[l]
        BY <1>0, <2>0
      <3>3. \A d \in Cards : cards'[d].owner \in {p, "none", cards[d].owner}
        BY <2>1 DEF Moves
      <3> QED BY <2>0, <3>1, <3>2, <3>3 DEF NamedHaveRun
    <2>6. UnlinkGuarded'
      BY <1>0, <2>0 DEF UnlinkGuarded
    <2>7. StateLockHeld'
      BY <1>0, <2>0 DEF StateLockHeld
    <2>8. WriterHeld'
      BY <1>0, <2>0, <2>1, <2>3 DEF WriterHeld
    <2>9. WriterCovered'
      <3> SUFFICES ASSUME NEW d \in Writers \cap Running', NEW q \in Procs,
                          cards'[d].owner = q, proc[q] = "up"
                   PROVE  /\ \/ inst[q].handle = d
                             \/ op'[q].at = "saved" /\ op'[q].kind = "claim" /\ op'[q].card = d
                          /\ ~op'[q].drop
        BY <2>0 DEF WriterCovered
      <3>1. d \in Cards /\ cards'[d].status = "running" /\ q # "none"
            /\ Moves(p, k, c, d, cards[d], cards'[d])
        BY <2>1, Basics DEF Running
      <3>2. CASE k = "claim" /\ d = c
        BY <2>0, <2>1, <3>1, <3>2 DEF Moves, OpShaped
      <3>3. CASE ~(k = "claim" /\ d = c)
        <4>1. /\ cards'[d] = cards[d] /\ (d = c => k \in {"heartbeat", "passGate"})
              /\ (k = "failGate" => d < c)
          BY <3>1, <3>3 DEF Moves
        <4>2. /\ \/ inst[q].handle = d
                 \/ op[q].at = "saved" /\ op[q].kind = "claim" /\ op[q].card = d
              /\ ~op[q].drop
          BY <1>0, <3>1, <4>1 DEF WriterCovered, Running
        <4>3. CASE q # p
          BY <2>0, <4>2, <4>3
        <4>4. CASE q = p
          <5>1. inst[q].handle = d /\ d \in Nat \ {0} /\ ~op[p].took
            <6>1. inst[q].handle = d /\ d \in Nat \ {0}
              BY <2>0, <3>1, <4>2, <4>4, Basics
            <6>2. op[p].took => inst[p].handle = 0
              BY <1>0 DEF WriterHeld
            <6> QED BY <4>4, <6>1, <6>2
          <5> QED BY <2>1, <2>2, <4>1, <4>4, <5>1
        <4> QED BY <4>3, <4>4
      <3> QED BY <3>2, <3>3
    <2> QED BY <2>4, <2>5, <2>6, <2>7, <2>8, <2>9 DEF LockInv
  <1>14. ASSUME NEW p \in Procs, Return(p) PROVE LockInv'
    <2>0. /\ proc' = proc /\ marker' = marker /\ cards' = cards
          /\ \A q \in Procs \ {p} : inst'[q] = inst[q]
          /\ inst'[p] = Adopted(p)
          /\ lock' = [l \in Locks |-> IF l = "state" \/ op[p].drop THEN "free" ELSE lock[l]]
          /\ op[p].at = "saved" /\ op' = [op EXCEPT ![p] = IdleOp]
      BY <1>0, <1>14 DEF Return, SetOp
    <2>1. /\ op[p].lock = "state" /\ proc[p] = "up" /\ op[p].card \in Cards
          /\ op[p].card \in Nat \ {0}
          /\ lock["state"] = p /\ (op[p].drop => lock["writer"] = p /\ op[p].kind # "claim")
      BY <1>0, <2>0, Basics DEF OpShaped, CallersUp, StateLockHeld, WriterHeld, OpType
    <2>2. Adopted(p).open /\ Adopted(p).handle =
            IF op[p].kind = "claim" /\ op[p].card \in Writers THEN op[p].card
            ELSE IF op[p].drop THEN 0 ELSE inst[p].handle
      BY DEF Adopted, Loaded, NoInst
    <2>3. CallersUp'
      BY <1>0, <2>0, <2>1, <2>2 DEF CallersUp, IdleOp
    <2>4. NamedHaveRun'
      BY <1>0, <2>0 DEF NamedHaveRun
    <2>5. UnlinkGuarded'
      <3>1. \A q \in Procs : op'[q].at = "unlink" => q # p /\ op'[q] = op[q]
        BY <1>0, <2>0 DEF IdleOp
      <3>2. \A l \in Locks : lock[l] # p => lock'[l] = lock[l]
        BY <1>0, <2>0, <2>1 DEF Locks
      <3> QED BY <1>0, <2>0, <2>1, <3>1, <3>2 DEF UnlinkGuarded
    <2>6. StateLockHeld'
      BY <1>0, <2>0, <2>1 DEF StateLockHeld, IdleOp
    <2>7. WriterHeld'
      <3>1. op[p].kind = "claim" /\ op[p].card \in Writers => lock["writer"] = p
        BY <1>0, <2>0, <2>1 DEF WriterHeld
      <3> QED BY <1>0, <2>0, <2>1, <2>2, <3>1 DEF WriterHeld, IdleOp
    <2>8. WriterCovered'
      <3> SUFFICES ASSUME NEW d \in Writers \cap Running, NEW q \in Procs,
                          cards[d].owner = q, proc[q] = "up"
                   PROVE  /\ \/ inst'[q].handle = d
                             \/ op'[q].at = "saved" /\ op'[q].kind = "claim" /\ op'[q].card = d
                          /\ ~op'[q].drop
        BY <2>0 DEF WriterCovered, Running
      <3>1. /\ \/ inst[q].handle = d
               \/ op[q].at = "saved" /\ op[q].kind = "claim" /\ op[q].card = d
            /\ ~op[q].drop /\ d \in Nat \ {0}
        BY <1>0, Basics DEF WriterCovered, Running
      <3>2. CASE q # p
        BY <1>0, <2>0, <3>1, <3>2
      <3>3. CASE q = p
        <4>1. op[p].kind = "claim" /\ op[p].card \in Writers /\ inst[p].handle = d
                => op[p].card = d
          BY <1>0, <2>0, <2>1, <3>1, <3>3 DEF WriterHeld
        <4> QED BY <1>0, <2>0, <2>2, <3>1, <3>3, <4>1 DEF IdleOp
      <3> QED BY <3>2, <3>3
    <2> QED BY <2>3, <2>4, <2>5, <2>6, <2>7, <2>8 DEF LockInv
  <1>15. ASSUME NEW p \in Procs, Crash(p) PROVE LockInv'
    <2>0. /\ proc' = [proc EXCEPT ![p] = "dead"] /\ marker' = marker /\ cards' = cards
          /\ inst' = [inst EXCEPT ![p] = NoInst] /\ op' = [op EXCEPT ![p] = IdleOp]
          /\ proc[p] = "up"
          /\ \/ lock' = lock
             \/ /\ op[p].at = "take" /\ lock[op[p].lock] = "free"
                /\ \E left \in {p, "torn"} : lock' = [lock EXCEPT ![op[p].lock] = left]
             \/ op[p].at = "unlink" /\ lock' = [lock EXCEPT ![op[p].lock] = "free"]
      BY <1>15 DEF Crash, SetOp
    <2>1. CallersUp'
      BY <1>0, <2>0 DEF CallersUp, IdleOp, NoInst
    <2>2. NamedHaveRun'
      BY <1>0, <2>0 DEF NamedHaveRun
    <2>3. UnlinkGuarded'
      <3>1. \A q \in Procs \ {p} : op[q].at = "unlink" =>
              lock'[op[q].lock] = lock[op[q].lock] /\ lock[op[q].lock] # p
        BY <1>0, <2>0 DEF UnlinkGuarded
      <3>2. \A q \in Procs : op'[q].at = "unlink" => q # p /\ op'[q] = op[q]
        BY <1>0, <2>0 DEF IdleOp
      <3> QED BY <1>0, <2>0, <3>1, <3>2 DEF UnlinkGuarded
    <2>4. StateLockHeld'
      BY <1>0, <2>0 DEF StateLockHeld, UnlinkGuarded, CallersUp, IdleOp
    <2>5. WriterHeld'
      <3>1. \A q \in Procs \ {p} : lock["writer"] = q /\ (inst[q].handle # 0 \/ op[q].took \/ op[q].drop)
                                     => lock'["writer"] = q
        BY <1>0, <2>0 DEF UnlinkGuarded, CallersUp, OpShaped, IdleOp
      <3> QED BY <1>0, <2>0, <3>1 DEF WriterHeld, IdleOp, NoInst
    <2>6. WriterCovered'
      BY <1>0, <2>0 DEF WriterCovered, Running
    <2> QED BY <2>1, <2>2, <2>3, <2>4, <2>5, <2>6 DEF LockInv
  <1>16. ASSUME NEW c \in Cards, Expire(c) PROVE LockInv'
    BY <1>0, <1>16 DEF Expire, LockInv, CallersUp, NamedHaveRun, UnlinkGuarded, StateLockHeld,
       WriterHeld, WriterCovered, Running
  <1> QED
    BY <1>1, <1>3, <1>4, <1>5, <1>6, <1>7, <1>8, <1>9, <1>10, <1>11, <1>12, <1>13, <1>14,
       <1>15, <1>16 DEF Next

(* The locks are right at the start.                                       *)
LEMMA LockInit == Init => LockInv
  BY Basics DEF Init, LockInv, CallersUp, NamedHaveRun, UnlinkGuarded, StateLockHeld, WriterHeld,
     WriterCovered, NoInst, IdleOp, FreshCard, Locks, Running

(* Whoever is between the two files of a save is the owner the state lock  *)
(* names, however many stale locks were recovered and processes died.      *)
THEOREM AlwaysStateLockHeld == Spec => []StateLockHeld
  <1>1. LockInv => StateLockHeld
    BY DEF LockInv
  <1> QED BY <1>1, TypeInit, TypeStep, LockInit, LockStep, PTL DEF Spec

(* A running card that writes the shared workspace has the writer lock as  *)
(* long as its owner lives.                                                *)
THEOREM AlwaysWriterSerialised == Spec => []WriterSerialised
  <1>1. TypeInv /\ LockInv => WriterSerialised
    <2> SUFFICES ASSUME TypeInv, LockInv, NEW c \in Writers \cap Running, Alive(cards[c].owner)
                 PROVE  lock["writer"] = cards[c].owner
      BY DEF WriterSerialised
    <2> DEFINE p == cards[c].owner
    <2>1. p \in Procs /\ proc[p] = "up" /\ c \in Nat \ {0}
      BY Basics DEF Alive, Running
    <2>2. \/ inst[p].handle = c
          \/ op[p].at = "saved" /\ op[p].kind = "claim" /\ op[p].card = c
      BY <2>1 DEF LockInv, WriterCovered
    <2>3. OpShaped(op[p]) /\ WriterHeld
      BY <2>1 DEF TypeInv, LockInv
    <2>4. CASE inst[p].handle = c
      BY <2>1, <2>3, <2>4 DEF WriterHeld
    <2>5. CASE op[p].at = "saved" /\ op[p].kind = "claim" /\ op[p].card = c
      <3>1. op[p].lock = "state"
        BY <2>3, <2>5 DEF OpShaped
      <3>2. op[p].took \/ inst[p].handle = c
        BY <2>1, <2>3, <2>5, <3>1 DEF WriterHeld
      <3> QED BY <2>1, <2>3, <3>2 DEF WriterHeld
    <2> QED BY <2>2, <2>4, <2>5
  <1> QED BY <1>1, TypeInit, TypeStep, LockInit, LockStep, PTL DEF Spec

-----------------------------------------------------------------------------
(* Leases.                                                                 *)

(* A step that leaves the cards, the files and the claims alone, and sends *)
(* nobody into a save, keeps the leases right.                             *)
LEMMA LeaseQuiet ==
  ASSUME LeaseInv, cards' = cards, files' = files,
         \A q \in Procs : inst'[q].cap = inst[q].cap,
         \A q \in Procs : op'[q].at = "saved" => op'[q] = op[q]
  PROVE  LeaseInv'
  BY DEF LeaseInv, Running

(* The empty claims of a fresh object are nobody's lease.                  *)
LEMMA LeaseFresh ==
  ASSUME TypeInv, LeaseInv, NEW p \in Procs, cards' = cards, files' = files,
         \A q \in Procs \ {p} : inst'[q] = inst[q],
         inst'[p] = inst[p] \/ \A c \in Cards : inst'[p].cap[c] = 0,
         \A q \in Procs : op'[q].at = "saved" => op'[q] = op[q]
  PROVE  LeaseInv'
  <1>1. \A c \in Cards : cards[c].fence \in Nat /\ (cards[c].status = "running" => cards[c].fence > 0)
    BY DEF TypeInv, TypeOK, LeaseInv, Running
  <1> QED BY <1>1 DEF LeaseInv, Running

(* One step keeps the leases right.                                        *)
LEMMA LeaseStep == TypeInv /\ LockInv /\ LeaseInv /\ [Next]_vars => LeaseInv'
  <1> SUFFICES ASSUME TypeInv, LockInv, LeaseInv, [Next]_vars PROVE LeaseInv'
    OBVIOUS
  <1>0. /\ op \in [Procs -> OpType] /\ \A q \in Procs : OpShaped(op[q])
        /\ inst \in [Procs -> InstType] /\ cards \in [Cards -> CardType] /\ StateLockHeld
        /\ \A q \in Procs : inst[q].cap \in [Cards -> Nat]
        /\ \A c \in Cards : cards[c].fence \in Nat
    BY DEF TypeInv, TypeOK, CardType, LockInv, InstType
  <1>1. CASE UNCHANGED vars
    BY <1>1, LeaseQuiet DEF vars
  <1>2. ASSUME NEW p \in Procs, Load(p) \/ CreateAgain(p) PROVE LeaseInv'
    <2>1. \A c \in Cards : Loaded.cap[c] = 0
      BY DEF Loaded, NoInst
    <2>2. /\ cards' = cards /\ files' = files
          /\ \A q \in Procs \ {p} : inst'[q] = inst[q]
          /\ inst'[p] = inst[p] \/ inst'[p] = Loaded
          /\ \A q \in Procs : op'[q].at = "saved" => op'[q] = op[q]
      BY <1>0, <1>2 DEF Load, CreateAgain, Unwind, SetOp, IdleOp
    <2> QED BY <2>1, <2>2, LeaseFresh
  <1>3. ASSUME NEW p \in Procs, Crash(p) PROVE LeaseInv'
    <2>1. \A c \in Cards : NoInst.cap[c] = 0
      BY DEF NoInst
    <2>2. /\ cards' = cards /\ files' = files
          /\ \A q \in Procs \ {p} : inst'[q] = inst[q]
          /\ inst'[p] = NoInst
          /\ \A q \in Procs : op'[q].at = "saved" => op'[q] = op[q]
      BY <1>0, <1>3 DEF Crash, SetOp, IdleOp
    <2> QED BY <2>1, <2>2, LeaseFresh
  <1>4. ASSUME NEW p \in Procs,
               \/ Materialize(p) \/ TakeWriter(p) \/ RecoverLock(p) \/ UnlinkStale(p)
               \/ LockRefused(p) \/ Refused(p)
               \/ \E k \in Kinds, c \in Cards : Probe(p, k, c)
        PROVE  LeaseInv'
    <2>1. cards' = cards /\ files' = files /\ inst' = inst
      BY <1>4 DEF Materialize, TakeWriter, RecoverLock, UnlinkStale, LockRefused, Refused, Probe
    <2>2. /\ \A q \in Procs \ {p} : op'[q] = op[q]
          /\ op'[p].at # "saved"
      <3>0. CASE Materialize(p)
        BY <1>0, <3>0 DEF Materialize, SetOp, IdleOp
      <3>1. CASE LockRefused(p) \/ Refused(p)
        <4>1. op' = [op EXCEPT ![p] = IdleOp] /\ IdleOp.at # "saved"
          BY <3>1 DEF LockRefused, Refused, Unwind, SetOp, IdleOp
        <4> QED BY <1>0, <4>1
      <3>2. CASE TakeWriter(p)
        BY <1>0, <3>2 DEF TakeWriter, SetOp, OpType
      <3>3. CASE RecoverLock(p)
        BY <1>0, <3>3 DEF RecoverLock, SetOp, OpType
      <3>4. CASE UnlinkStale(p)
        BY <1>0, <3>4 DEF UnlinkStale, SetOp, OpType
      <3>5. ASSUME NEW k \in Kinds, NEW c \in Cards, Probe(p, k, c)
            PROVE  op' = [op EXCEPT ![p] = op'[p]] /\ op'[p].at # "saved"
        BY <1>0, <3>5 DEF Probe, SetOp, IdleOp
      <3>6. CASE \E k \in Kinds, c \in Cards : Probe(p, k, c)
        BY <1>0, <3>5, <3>6
      <3> QED BY <1>4, <3>0, <3>1, <3>2, <3>3, <3>4, <3>6
    <2> QED BY <2>1, <2>2, LeaseQuiet
  <1>5. ASSUME NEW p \in Procs, Create(p) PROVE LeaseInv'
    <2>1. /\ cards' = cards /\ files' = "split" /\ inst' = inst /\ lock["state"] = "free"
          /\ \A q \in Procs \ {p} : op'[q] = op[q]
          /\ op'[p].kind = "materialize"
      BY <1>0, <1>5 DEF Create, AtStateLock, SetOp, OpType
    <2> QED BY <1>0, <2>1 DEF LeaseInv, Running
  <1>6. ASSUME NEW p \in Procs, Apply(p) PROVE LeaseInv'
    <2> DEFINE k == op[p].kind
               c == op[p].card
    <2>1. /\ k \in Kinds /\ c \in Cards /\ k = op'[p].kind /\ c = op'[p].card
          /\ lock["state"] = "free" /\ files = "whole" /\ files' = "split"
          /\ \A d \in Cards : Moves(p, k, c, d, cards[d], cards'[d])
          /\ cards' \in [Cards -> CardType]
          /\ \A q \in Procs \ {p} : op'[q] = op[q]
      BY <1>6, ApplyFacts, PermittedFacts DEF Apply, Permitted, Loadable
    <2>2. \A q \in Procs : inst'[q].cap = inst[q].cap /\ op[q].at # "saved"
      BY <1>0, <1>6, <2>1, Basics DEF Apply, Outdated, InstType, LeaseInv
    <2> HIDE DEF k, c
    <2>3. \A d \in Cards :
            /\ cards'[d].fence \in Nat /\ cards'[d].fence >= cards[d].fence
            /\ cards'[d].status = "running" => \/ cards'[d] = cards[d]
                                              \/ cards'[d].fence = cards[d].fence + 1
      BY <1>0, <2>1 DEF Moves, CardType
    <2>4. ASSUME NEW q \in Procs, NEW d \in Cards
          PROVE  /\ inst'[q].cap[d] <= cards'[d].fence
                 /\ cards'[d].status = "running" /\ inst'[q].cap[d] = cards'[d].fence
                      => cards'[d].owner = q
      <3>1. inst[q].cap[d] \in Nat /\ cards[d].fence \in Nat /\ inst[q].cap[d] <= cards[d].fence
        BY <1>0 DEF LeaseInv
      <3>2. cards'[d] = cards[d] => (cards'[d].status = "running" /\ inst[q].cap[d] = cards'[d].fence
                                       => cards'[d].owner = q)
        BY DEF LeaseInv
      <3> QED BY <2>2, <2>3, <3>1, <3>2
    <2>5. \A d \in Running' : cards'[d].fence > 0
      BY <1>0, <2>3 DEF LeaseInv, Running
    <2>6. k = "claim" => cards'[c].status = "running" /\ cards'[c].owner = p
      BY <2>1 DEF Moves
    <2> QED BY <2>1, <2>2, <2>4, <2>5, <2>6 DEF LeaseInv
  <1>7. ASSUME NEW p \in Procs, Return(p) PROVE LeaseInv'
    <2>1. /\ cards' = cards /\ op[p].at = "saved" /\ op' = [op EXCEPT ![p] = IdleOp]
          /\ \A q \in Procs \ {p} : inst'[q] = inst[q]
          /\ inst'[p] = Adopted(p)
      BY <1>0, <1>7 DEF Return, SetOp
    <2>2. \A q \in Procs : op'[q].at # "saved"
      BY <1>0, <2>1 DEF StateLockHeld, IdleOp
    <2>3. \A d \in Cards :
            \/ Adopted(p).cap[d] = 0 \/ Adopted(p).cap[d] = inst[p].cap[d]
            \/ op[p].kind = "claim" /\ d = op[p].card /\ Adopted(p).cap[d] = cards[d].fence
      <3> DEFINE k == op[p].kind
                 c == op[p].card
                 cap == inst[p].cap
                 cap2 == CASE k = "claim" -> [cap EXCEPT ![c] = cards[c].fence]
                           [] k \in {"complete", "reclaim", "recover"} \cup BlockKinds ->
                                [cap EXCEPT ![c] = 0]
                           [] k = "failGate" -> [d \in Cards |-> IF d >= c THEN 0 ELSE cap[d]]
                           [] OTHER -> cap
      <3>1. Adopted(p).cap = cap2
        BY DEF Adopted, Loaded, NoInst
      <3>2. cap \in [Cards -> Nat] /\ c \in Cards
        BY <1>0 DEF OpType
      <3> QED BY <3>1, <3>2 DEF BlockKinds
    <2>4. ASSUME NEW d \in Cards
          PROVE  /\ Adopted(p).cap[d] <= cards[d].fence
                 /\ cards[d].status = "running" /\ Adopted(p).cap[d] = cards[d].fence
                      => cards[d].owner = p
      <3>1. /\ inst[p].cap[d] \in Nat /\ cards[d].fence \in Nat /\ inst[p].cap[d] <= cards[d].fence
            /\ cards[d].status = "running" /\ inst[p].cap[d] = cards[d].fence
                 => cards[d].owner = p
            /\ cards[d].status = "running" => cards[d].fence > 0
            /\ op[p].kind = "claim" /\ op[p].card = d => cards[d].owner = p
        BY <1>0, <2>1 DEF LeaseInv, Running
      <3> QED BY <2>3, <3>1
    <2> QED BY <2>1, <2>2, <2>4 DEF LeaseInv, Running
  <1>8. ASSUME NEW c \in Cards, Expire(c) PROVE LeaseInv'
    BY <1>8, LeaseQuiet DEF Expire
  <1> QED BY <1>1, <1>2, <1>3, <1>4, <1>5, <1>6, <1>7, <1>8 DEF Next

(* The leases are right at the start.                                      *)
LEMMA LeaseInit == Init => LeaseInv
  BY DEF Init, LeaseInv, NoInst, IdleOp, FreshCard, Running

(* The lease of a running card ends, or is extended, by its live owner, by *)
(* a recovery of a dead or late one, or because an earlier card lost its   *)
(* gate.                                                                   *)
THEOREM LeaseAlwaysEndsRightly == Spec => LeaseEndsRightly
  <1> DEFINE Rightly ==
        \A c \in Running : cards'[c] # cards[c] =>
          \E p \in Procs :
            /\ op[p].at = "take" /\ op'[p].at = "saved"
            /\ \/ cards[c].owner = p /\ c \notin late
               \/ op[p].kind = "recover" /\ (c \in late \/ ~Alive(cards[c].owner))
               \/ op[p].kind = "failGate" /\ op[p].card < c
  <1>1. TypeInv /\ LeaseInv /\ [Next]_vars => [Rightly]_vars
    <2> SUFFICES ASSUME TypeInv, LeaseInv, [Next]_vars, NEW d \in Running, cards'[d] # cards[d]
                 PROVE  \E p \in Procs :
                          /\ op[p].at = "take" /\ op'[p].at = "saved"
                          /\ \/ cards[d].owner = p /\ d \notin late
                             \/ op[p].kind = "recover" /\ (d \in late \/ ~Alive(cards[d].owner))
                             \/ op[p].kind = "failGate" /\ op[p].card < d
      OBVIOUS
    <2>1. PICK p \in Procs : Apply(p)
      BY CardsChange
    <2> DEFINE k == op[p].kind
               c == op[p].card
    <2>2. /\ k \in Kinds /\ c \in Cards /\ op[p].at = "take" /\ op'[p].at = "saved"
          /\ Permitted(p, k, c) /\ Moves(p, k, c, d, cards[d], cards'[d])
          /\ d \in Cards /\ cards[d].status = "running" /\ c \in Nat /\ d \in Nat
      BY <2>1, ApplyFacts, Basics DEF Running
    <2>3. /\ OwnershipOk(p, k, c)
          /\ k = "claim" => cards[c].status \in {"pending", "ready", "resumed"}
          /\ k = "resume" => cards[c].status = "needs_input"
          /\ k = "recover" => c \in late \/ ~Alive(cards[c].owner)
      BY <2>2, PermittedFacts
    <2> HIDE DEF k, c
    <2>4. /\ (k = "failGate" /\ c < d) \/ d = c
          /\ k \in {"complete", "failGate", "block", "needInput", "reclaim", "recover"}
      BY <2>2, <2>3 DEF Moves
    <2>5. CASE k = "failGate" /\ c < d
      BY <2>2, <2>5 DEF k, c
    <2>6. CASE d = c /\ k = "recover"
      BY <2>2, <2>3, <2>6 DEF k, c
    <2>7. CASE d = c /\ k # "recover"
      <3>1. k \in OwnerKinds \cup BlockKinds
        BY <2>4, <2>7 DEF OwnerKinds, BlockKinds
      <3>2. inst[p].cap[d] = cards[d].fence /\ d \notin late
        BY <2>2, <2>3, <2>7, <3>1 DEF OwnershipOk, OwnsLease
      <3>3. cards[d].owner = p
        BY <2>2, <3>2 DEF LeaseInv
      <3> QED BY <2>2, <3>2, <3>3
    <2> QED BY <2>4, <2>5, <2>6, <2>7
  <1> QED BY <1>1, TypeInit, TypeStep, LockInit, LockStep, LeaseInit, LeaseStep, PTL
      DEF Spec, LeaseEndsRightly

-----------------------------------------------------------------------------
(* The writer lock goes with the work.                                     *)

(* The card of a writer handle is still run by its object, or was blocked  *)
(* under it.                                                               *)
StillHeld(p) ==
  LET c == inst[p].handle
  IN  \/ cards[c].status = "running" /\ cards[c].owner = p
      \/ cards[c].status = "blocked"

(* A live process has the writer lock for its handle or for the call it is *)
(* inside; a call that took it and saved gives it back unless it claimed;  *)
(* a handle that stays is for a card still held.                           *)
FreedInv ==
  \A p \in Procs :
    /\ lock["writer"] = p /\ proc[p] = "up" => inst[p].handle # 0 \/ op[p].took
    /\ op[p].at = "saved" /\ op[p].took => op[p].drop \/ op[p].kind = "claim"
    /\ inst[p].handle # 0 =>
         inst[p].handle \in Writers \cap Cards /\ (op[p].drop \/ StillHeld(p))

(* A write leaves every other handle on a card still held, and the         *)
(* writer's own too unless its lock is about to go.                        *)
LEMMA ApplyHolds ==
  ASSUME TypeInv, LockInv, LeaseInv, FreedInv, NEW p \in Procs, Apply(p),
         NEW q \in Procs, inst[q].handle # 0
  PROVE  LET h == inst[q].handle
         IN \/ q = p /\ op'[p].drop
            \/ cards'[h].status = "running" /\ cards'[h].owner = q
            \/ cards'[h].status = "blocked"
  <1> DEFINE k == op[p].kind
             c == op[p].card
             h == inst[q].handle
  <1>1. /\ k \in Kinds /\ c \in Cards /\ op[p].at = "take" /\ op[p].lock = "state"
        /\ lock["state"] = "free" /\ Permitted(p, k, c) /\ op'[p].drop = DropsWriter(p, k, c)
        /\ \A d \in Cards : Moves(p, k, c, d, cards[d], cards'[d])
    BY ApplyFacts
  <1>2. /\ OwnershipOk(p, k, c)
        /\ k = "claim" => cards[c].status \in {"pending", "ready", "resumed"}
        /\ k \in {"complete", "reclaim", "recover"} => cards[c].status = "running"
        /\ k \in {"block", "needInput"} => cards[c].status # "blocked"
        /\ k = "resume" => cards[c].status = "needs_input"
    BY <1>1, PermittedFacts
  <1>3. /\ h \in Writers \cap Cards /\ op[q].at # "saved" /\ OpShaped(op[q])
        /\ WriterHeld /\ lock["writer"] = q
    BY <1>1, Basics DEF FreedInv, TypeInv, LockInv, StateLockHeld, WriterHeld
  <1>4. \/ cards[h].status = "running" /\ cards[h].owner = q
        \/ cards[h].status = "blocked"
    BY <1>3 DEF FreedInv, StillHeld, OpShaped
  <1>5. Moves(p, k, c, h, cards[h], cards'[h])
    BY <1>1, <1>3
  <1>6. k \in {"complete", "needInput", "reclaim"} /\ h = c /\ cards[h].status = "running"
          => cards[h].owner = p
    <2> SUFFICES ASSUME k \in {"complete", "needInput", "reclaim"}, cards[c].status = "running"
                 PROVE  cards[c].owner = p
      OBVIOUS
    <2>1. OwnsLease(p, c)
      BY <1>2 DEF OwnershipOk, OwnerKinds, BlockKinds
    <2> QED BY <1>1, <2>1 DEF OwnsLease, LeaseInv
  <1>7. k = "recover" /\ h = c => p = q /\ ~op[p].took
    <2> SUFFICES ASSUME k = "recover", c \in Writers, h = c PROVE p = q /\ ~op[p].took
      BY <1>3
    <2>1. op[p].took \/ inst[p].handle = c
      BY <1>1, <1>3 DEF WriterHeld
    <2>2. (op[p].took => inst[p].handle = 0) /\ (op[p].took \/ inst[p].handle # 0 => lock["writer"] = p)
      BY <1>3 DEF WriterHeld
    <2>3. c # 0
      BY <1>1, Basics
    <2> QED BY <1>3, <2>1, <2>2, <2>3
  <1>8. p = q /\ h = c /\ k \in {"complete", "needInput", "reclaim", "recover"} => op'[p].drop
    BY <1>1 DEF DropsWriter, BlockKinds
  <1> HIDE DEF k, c, h
  <1>9. CASE cards[h].status = "blocked"
    BY <1>2, <1>5, <1>9 DEF Moves, h
  <1>10. CASE cards[h].status = "running" /\ cards[h].owner = q
    BY <1>2, <1>5, <1>6, <1>7, <1>8, <1>10 DEF Moves, h
  <1> QED BY <1>4, <1>9, <1>10 DEF h

(* One step keeps the writer lock with the work.                           *)
LEMMA FreedStep == TypeInv /\ LockInv /\ LeaseInv /\ FreedInv /\ [Next]_vars => FreedInv'
  <1> SUFFICES ASSUME TypeInv, LockInv, LeaseInv, FreedInv, [Next]_vars PROVE FreedInv'
    OBVIOUS
  <1>0. /\ op \in [Procs -> OpType] /\ \A q \in Procs : OpShaped(op[q])
        /\ inst \in [Procs -> InstType] /\ proc \in [Procs -> {"new", "up", "dead"}]
        /\ lock \in [Locks -> Procs \cup {"free", "torn"}]
        /\ \A q \in Procs : op[q].lock \in Locks
        /\ "writer" \in Locks /\ "state" \in Locks /\ "writer" # "state"
        /\ "free" \notin Procs /\ "torn" \notin Procs
        /\ CallersUp /\ NamedHaveRun /\ StateLockHeld /\ WriterHeld
    BY Basics DEF TypeInv, TypeOK, OpType, Locks, LockInv
  <1>1. CASE UNCHANGED vars
    BY <1>1 DEF vars, FreedInv, StillHeld
  <1>2. ASSUME NEW p \in Procs, Load(p) PROVE FreedInv'
    <2>0. /\ proc' = [proc EXCEPT ![p] = "up"] /\ proc[p] # "dead"
          /\ inst'[p].handle = 0 /\ inst[p].handle = 0
          /\ \A q \in Procs \ {p} : inst'[q] = inst[q]
          /\ op' = op /\ op[p] = IdleOp
          /\ cards' = cards /\ lock' = lock
      BY <1>0, <1>2 DEF Load, MayOpen, Loaded, NoInst, CallersUp
    <2>1. lock["writer"] # p
      BY <1>0, <2>0 DEF NamedHaveRun, FreedInv, IdleOp
    <2> QED BY <1>0, <2>0, <2>1 DEF FreedInv, StillHeld, IdleOp
  <1>3. ASSUME NEW p \in Procs, Materialize(p) PROVE FreedInv'
    <2>0. /\ proc' = [proc EXCEPT ![p] = "up"] /\ proc[p] # "dead"
          /\ inst[p].handle = 0 /\ inst' = inst /\ op[p] = IdleOp
          /\ op'[p].at = "take" /\ ~op'[p].took
          /\ \A q \in Procs \ {p} : op'[q] = op[q]
          /\ cards' = cards /\ lock' = lock
      BY <1>0, <1>3 DEF Materialize, MayOpen, SetOp, IdleOp, CallersUp, OpType
    <2>1. lock["writer"] # p
      BY <1>0, <2>0 DEF NamedHaveRun, FreedInv, IdleOp
    <2> QED BY <1>0, <2>0, <2>1 DEF FreedInv, StillHeld
  <1>4. ASSUME NEW p \in Procs, NEW k \in Kinds, NEW c \in Cards, Probe(p, k, c) PROVE FreedInv'
    <2>0. /\ proc' = proc /\ inst' = inst /\ op[p] = IdleOp
          /\ op'[p].at = "take" /\ ~op'[p].took
          /\ \A q \in Procs \ {p} : op'[q] = op[q]
          /\ cards' = cards /\ lock' = lock
      BY <1>0, <1>4 DEF Probe, SetOp, IdleOp
    <2> QED BY <1>0, <2>0 DEF FreedInv, StillHeld, IdleOp
  <1>5. ASSUME NEW p \in Procs, TakeWriter(p) PROVE FreedInv'
    <2>0. /\ proc' = proc /\ inst' = inst /\ lock["writer"] = "free"
          /\ op'[p].at = "take" /\ op'[p].took /\ op'[p].drop = op[p].drop
          /\ \A q \in Procs \ {p} : op'[q] = op[q]
          /\ cards' = cards /\ lock' = [lock EXCEPT !["writer"] = p]
      BY <1>0, <1>5 DEF TakeWriter, SetOp, OpType
    <2> QED BY <1>0, <2>0 DEF FreedInv, StillHeld
  <1>6. ASSUME NEW p \in Procs, RecoverLock(p) \/ UnlinkStale(p) PROVE FreedInv'
    <2>0. /\ proc' = proc /\ inst' = inst
          /\ op'[p].at # "saved" /\ op'[p].took = op[p].took /\ op'[p].drop = op[p].drop
          /\ \A q \in Procs \ {p} : op'[q] = op[q]
          /\ cards' = cards
          /\ lock' = lock \/ lock' = [lock EXCEPT ![op[p].lock] = "free"]
      <3>1. CASE RecoverLock(p)
        BY <1>0, <3>1 DEF RecoverLock, SetOp, OpType
      <3>2. CASE UnlinkStale(p)
        BY <1>0, <3>2 DEF UnlinkStale, SetOp, OpType
      <3> QED BY <1>6, <3>1, <3>2
    <2> QED BY <1>0, <2>0 DEF FreedInv, StillHeld
  <1>7. ASSUME NEW p \in Procs, LockRefused(p) \/ Refused(p) PROVE FreedInv'
    <2>0. /\ proc' = proc /\ inst' = inst /\ op[p].at = "take" /\ op' = [op EXCEPT ![p] = IdleOp]
          /\ lock' = IF op[p].took THEN [lock EXCEPT !["writer"] = "free"] ELSE lock
          /\ cards' = cards
      BY <1>0, <1>7 DEF LockRefused, Refused, AtStateLock, Unwind, SetOp
    <2>1. ~op[p].drop
      BY <1>0, <2>0 DEF OpShaped
    <2> QED BY <1>0, <2>0, <2>1 DEF FreedInv, StillHeld, IdleOp
  <1>8. ASSUME NEW p \in Procs, CreateAgain(p) PROVE FreedInv'
    <2>0. /\ proc' = proc /\ op[p].at = "take" /\ op' = [op EXCEPT ![p] = IdleOp]
          /\ lock' = lock /\ inst[p].handle = 0 /\ inst'[p].handle = 0 /\ ~op[p].took
          /\ \A q \in Procs \ {p} : inst'[q] = inst[q]
          /\ cards' = cards
      BY <1>0, <1>8 DEF CreateAgain, Unwind, SetOp, AtStateLock, Loaded, NoInst, OpShaped, CallersUp
    <2> QED BY <1>0, <2>0 DEF FreedInv, StillHeld, IdleOp
  <1>9. ASSUME NEW p \in Procs, Create(p) PROVE FreedInv'
    <2>0. /\ proc' = proc /\ inst' = inst /\ inst[p].handle = 0
          /\ op'[p].took = op[p].took /\ ~op[p].took
          /\ \A q \in Procs \ {p} : op'[q] = op[q]
          /\ lock' = [lock EXCEPT !["state"] = p] /\ cards' = cards
      BY <1>0, <1>9 DEF Create, AtStateLock, SetOp, OpType, OpShaped, CallersUp
    <2> QED BY <1>0, <2>0 DEF FreedInv, StillHeld
  <1>10. ASSUME NEW p \in Procs, Apply(p) PROVE FreedInv'
    <2>0. /\ proc' = proc /\ lock' = [lock EXCEPT !["state"] = p]
          /\ \A q \in Procs : inst'[q].handle = inst[q].handle
      BY <1>0, <1>10 DEF Apply, Outdated, InstType
    <2>1. /\ op[p].kind \in Kinds /\ op'[p].kind = op[p].kind /\ op'[p].took = op[p].took
          /\ op'[p].drop = DropsWriter(p, op[p].kind, op[p].card)
          /\ \A q \in Procs \ {p} : op'[q] = op[q]
      BY <1>10, ApplyFacts
    <2>2. op'[p].took => op'[p].drop \/ op'[p].kind = "claim"
      BY <2>1 DEF DropsWriter
    <2>3. ASSUME NEW q \in Procs, inst[q].handle # 0
          PROVE  op'[q].drop \/ StillHeld(q)'
      <3>1. \/ q = p /\ op'[p].drop
            \/ cards'[inst[q].handle].status = "running" /\ cards'[inst[q].handle].owner = q
            \/ cards'[inst[q].handle].status = "blocked"
        BY <1>10, <2>3, ApplyHolds
      <3> QED BY <2>0, <3>1 DEF StillHeld
    <2> QED BY <1>0, <2>0, <2>1, <2>2, <2>3 DEF FreedInv
  <1>11. ASSUME NEW p \in Procs, Return(p) PROVE FreedInv'
    <2>0. /\ proc' = proc /\ cards' = cards
          /\ \A q \in Procs \ {p} : inst'[q] = inst[q]
          /\ inst'[p] = Adopted(p)
          /\ lock' = [l \in Locks |-> IF l = "state" \/ op[p].drop THEN "free" ELSE lock[l]]
          /\ op[p].at = "saved" /\ op' = [op EXCEPT ![p] = IdleOp]
      BY <1>0, <1>11 DEF Return, SetOp
    <2>1. Adopted(p).handle = IF op[p].kind = "claim" /\ op[p].card \in Writers THEN op[p].card
                              ELSE IF op[p].drop THEN 0 ELSE inst[p].handle
      BY DEF Adopted, Loaded, NoInst
    <2>2. /\ op[p].card \in Cards /\ op[p].card # 0
          /\ op[p].took => op[p].card \in Writers
          /\ op[p].took => op[p].drop \/ op[p].kind = "claim"
          /\ op[p].kind = "claim" => /\ cards[op[p].card].status = "running"
                                     /\ cards[op[p].card].owner = p
      BY <1>0, <2>0, Basics DEF OpType, OpShaped, FreedInv, LeaseInv
    <2>3. lock'["writer"] = p => Adopted(p).handle # 0 \/ proc[p] # "up"
      BY <1>0, <2>0, <2>1, <2>2 DEF FreedInv
    <2>4. Adopted(p).handle # 0 =>
            /\ Adopted(p).handle \in Writers \cap Cards
            /\ \/ /\ cards[Adopted(p).handle].status = "running"
                  /\ cards[Adopted(p).handle].owner = p
               \/ cards[Adopted(p).handle].status = "blocked"
      BY <2>1, <2>2 DEF FreedInv, StillHeld
    <2> QED BY <1>0, <2>0, <2>3, <2>4 DEF FreedInv, StillHeld, IdleOp
  <1>12. ASSUME NEW p \in Procs, Crash(p) PROVE FreedInv'
    <2>0. /\ proc' = [proc EXCEPT ![p] = "dead"] /\ cards' = cards
          /\ inst' = [inst EXCEPT ![p] = NoInst] /\ op' = [op EXCEPT ![p] = IdleOp]
          /\ \/ lock' = lock
             \/ \E left \in {p, "torn"} : lock' = [lock EXCEPT ![op[p].lock] = left]
             \/ lock' = [lock EXCEPT ![op[p].lock] = "free"]
      BY <1>12 DEF Crash, SetOp
    <2> QED BY <1>0, <2>0 DEF FreedInv, StillHeld, IdleOp, NoInst
  <1>13. ASSUME NEW c \in Cards, Expire(c) PROVE FreedInv'
    BY <1>13 DEF Expire, FreedInv, StillHeld
  <1> QED
    BY <1>1, <1>2, <1>3, <1>4, <1>5, <1>6, <1>7, <1>8, <1>9, <1>10, <1>11, <1>12, <1>13 DEF Next

(* A live process inside no call has the writer lock only for a card it    *)
(* runs, or for one that was blocked under it: whatever it called, refused *)
(* or not, gave back the lock the call took and that of the lease it ended. *)
THEOREM WriterAlwaysFreed == Spec => []WriterFreed
  <1>1. Init => FreedInv
    BY Basics DEF Init, FreedInv, StillHeld, NoInst, IdleOp, Locks
  <1>2. TypeInv /\ FreedInv => WriterFreed
    <2> SUFFICES ASSUME TypeInv, FreedInv, NEW p \in Procs,
                        lock["writer"] = p, Alive(p), op[p] = IdleOp
                 PROVE  inst[p].handle # 0 /\ StillHeld(p)
      BY DEF WriterFreed, StillHeld
    <2>1. ~op[p].took /\ ~op[p].drop
      BY DEF IdleOp
    <2> QED BY <2>1 DEF FreedInv, Alive
  <1> QED BY <1>1, <1>2, TypeInit, TypeStep, LockInit, LockStep, LeaseInit, LeaseStep, FreedStep,
             PTL DEF Spec
=============================================================================
