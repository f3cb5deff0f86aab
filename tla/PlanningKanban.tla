--------------------------- MODULE PlanningKanban ---------------------------
(***************************************************************************)
(* The durable stage board of one planning run                             *)
(* (src/coherence/planning/kanban.py): a chain of stage cards in a state   *)
(* file fenced by a generation file, changed by the PlanningRun objects of *)
(* several processes under two lock files.  Every operation probes the     *)
(* board without a lock, takes the writer lock when the card writes the    *)
(* shared workspace, takes the state lock, checks again, and then writes   *)
(* two files one after the other; a process may die between any two steps. *)
(*                                                                         *)
(* One process stands for one PlanningRun object.  The random lease token  *)
(* and the attempt number identify a claim as its fence does, so the fence *)
(* stands for all three; a lease deadline is a card in "late"; lock tokens *)
(* are the holder.  Generations are only ever compared for equality: the   *)
(* two files agree or the state file is one ahead, and an object's         *)
(* generation is current or not.  Evidence, contexts and the HMAC are      *)
(* data: a verifier that says no refuses the operation.                    *)
(***************************************************************************)
EXTENDS Integers, FiniteSets, Functions

CONSTANTS Procs,     \* the processes that may open the board
          NCards,    \* cards of the chain; card 1 is planning-run
          Writers,   \* the cards whose stage writes the shared workspace
          MaxFence,  \* bound: claims and recoveries of all cards together
          MaxUp      \* bound: processes alive at once

Cards == 1..NCards

ASSUME KanbanAssumption ==
  /\ NCards \in Nat \ {0} /\ MaxFence \in Nat /\ MaxUp \in Nat
  /\ Writers \subseteq Cards
  /\ Procs \cap {"free", "torn", "none"} = {}

VARIABLES cards,     \* kanban-run.json: the cards
          files,     \* "none"; "whole": both files name one generation; "split"
          late,      \* the cards whose lease deadline the clock has passed
          lock,      \* the owner in .planning-writer.lock and .kanban-state.lock
          marker,    \* the owner of each lock's .recovery file
          proc,      \* life of each process
          inst,      \* the PlanningRun object of each process
          op         \* the operation each process is inside

vars == <<cards, files, late, lock, marker, proc, inst, op>>

Locks == {"writer", "state"}
\* "resumed" is a ready card whose history begins before its first claim.
Statuses == {"pending", "ready", "resumed", "running", "complete", "blocked", "needs_input"}
Kinds == {"claim", "heartbeat", "complete", "passGate", "failGate", "block",
          "needInput", "resume", "reclaim", "recover"}
OwnerKinds == {"heartbeat", "complete", "passGate", "failGate", "reclaim"}
BlockKinds == {"block", "needInput"}

FreshCard == [status |-> "pending", fence |-> 0, owner |-> "none"]
NoInst == [open |-> FALSE, coordinator |-> FALSE, current |-> FALSE, running |-> {},
           cap |-> [c \in Cards |-> 0], handle |-> 0]
IdleOp == [kind |-> "none", card |-> 1, at |-> "idle", lock |-> "state",
           took |-> FALSE, retry |-> FALSE, drop |-> FALSE]

Running == {c \in Cards : cards[c].status = "running"}
Complete == {c \in Cards : cards[c].status = "complete"}
Alive(p) == p \in Procs /\ proc[p] = "up"

\* Mutant of Loadable: the generation file is not compared.
LoadableAnyGeneration == files # "none"

\* load() accepts the two files only when they name the same generation.
Loadable == files = "whole"

\* What load() gives: no authority, and the board as it is.
Loaded == [NoInst EXCEPT !.open = TRUE, !.current = TRUE, !.running = Running]

Init ==
  /\ cards = [c \in Cards |-> FreshCard]
  /\ files = "none" /\ late = {}
  /\ lock = [l \in Locks |-> "free"]
  /\ marker = [l \in Locks |-> "free"]
  /\ proc = [p \in Procs |-> "new"]
  /\ inst = [p \in Procs |-> NoInst]
  /\ op = [p \in Procs |-> IdleOp]

-----------------------------------------------------------------------------
(* Who may change a card.                                                  *)

\* _owns_lease: the capability of this object is the card's current lease.
OwnsLease(p, c) ==
  /\ cards[c].status = "running"
  /\ inst[p].cap[c] = cards[c].fence
  /\ c \notin late

\* The ownership check that _mutation makes before and again under the lock.
OwnershipOk(p, k, c) ==
  IF cards[c].status = "running"
  THEN k \in OwnerKinds \cup BlockKinds => OwnsLease(p, c)
  ELSE k \in OwnerKinds => c \notin inst[p].running

\* The authority a non-running card asks for; running is read from the
\* object's own copy of the card.
NeedsCoordinator(p, k, c) ==
  \/ k = "resume"
  \/ k \in BlockKinds \cup {"passGate", "failGate"} /\ c \notin inst[p].running

CoordinatorOk(p, k, c) ==
  NeedsCoordinator(p, k, c) => inst[p].coordinator /\ inst[p].current

\* _validate_recovery_candidate: the owner is gone or its lease ran out.
Recoverable(c) ==
  cards[c].status = "running" /\ (c \in late \/ ~Alive(cards[c].owner))

\* What the handler itself asks of the card, under the state lock.
HandlerAllows(k, c) ==
  CASE k = "claim" -> /\ cards[c].status \in {"pending", "ready", "resumed"}
                      /\ c = 1 \/ c - 1 \in Complete
    [] k \in {"heartbeat", "complete", "reclaim"} -> cards[c].status = "running"
    [] k = "passGate" -> cards[c].status = "complete"
    [] k = "failGate" -> TRUE
    [] k \in BlockKinds -> cards[c].status \notin {"complete", "blocked"}
    [] k = "resume" -> cards[c].status = "needs_input"
    [] k = "recover" -> Recoverable(c)

Ended(card, status) == [card EXCEPT !.status = status, !.owner = "none"]

\* Mutants of Revoked: only the next card falls with it; none does.
RevokedChild(c) ==
  [d \in Cards |-> IF d \in {c, c + 1} THEN Ended(cards[d], "blocked") ELSE cards[d]]
RevokedAlone(c) == [cards EXCEPT ![c] = Ended(@, "blocked")]

\* _revoke_descendants together with the card itself: in a chain the
\* descendants are the later cards.
Revoked(c) ==
  [d \in Cards |-> IF d >= c THEN Ended(cards[d], "blocked") ELSE cards[d]]

\* complete() readies the pending child.
Completed(c) ==
  [d \in Cards |->
     CASE d = c -> Ended(cards[d], "complete")
       [] d = c + 1 /\ cards[d].status = "pending" -> [cards[d] EXCEPT !.status = "ready"]
       [] OTHER -> cards[d]]

\* resume() of a card that was, or never was, claimed before.
Resumed(c) == [cards EXCEPT ![c].status = IF cards[c].fence = 0 THEN "resumed" ELSE "ready"]

Claimed(p, c) ==
  [cards EXCEPT ![c] = [status |-> "running", fence |-> @.fence + 1, owner |-> p]]

\* A recovery raises the fence, so that the old claim is no longer the lease.
Fenced(card) == [card EXCEPT !.fence = card.fence + 1]

\* The cards after operation k of process p on card c.
After(p, k, c) ==
  CASE k = "claim" -> Claimed(p, c)
    [] k \in {"heartbeat", "passGate"} -> cards
    [] k = "complete" -> Completed(c)
    [] k = "failGate" -> Revoked(c)
    [] k = "block" -> [cards EXCEPT ![c] = Ended(@, "blocked")]
    [] k = "needInput" -> [cards EXCEPT ![c] = Ended(@, "needs_input")]
    [] k = "resume" -> Resumed(c)
    [] k \in {"reclaim", "recover"} ->
         [cards EXCEPT ![c] = Fenced(Ended(@, "ready"))]

\* _validate_loaded_state, as far as an operation can fail it: a ready card
\* whose parent has no valid gate is never saved, nor is the first claim of a
\* card whose history holds events from before it.
Savable(cs) ==
  \A c \in Cards :
    /\ cs[c].status \in {"ready", "resumed"} /\ c > 1 => cs[c - 1].status = "complete"
    /\ cards[c].status = "resumed" => cs[c].status # "running"

-----------------------------------------------------------------------------
(* The steps of an operation.                                              *)

SetOp(p, r) == op' = [op EXCEPT ![p] = r]

\* A raised error unwinds through _mutation: the locks this call took, the
\* writer lock among them when it took it, are freed.
Unwind(p) ==
  /\ lock' = IF op[p].took THEN [lock EXCEPT !["writer"] = "free"] ELSE lock
  /\ SetOp(p, IdleOp)

\* A process without a PlanningRun object, and room for it to run.
MayOpen(p) ==
  /\ proc[p] # "dead" /\ op[p] = IdleOp /\ ~inst[p].open
  /\ Cardinality({q \in Procs \ {p} : proc[q] = "up"}) < MaxUp

\* PlanningKanban.load.
Load(p) ==
  /\ MayOpen(p) /\ Loadable
  /\ proc' = [proc EXCEPT ![p] = "up"]
  /\ inst' = [inst EXCEPT ![p] = Loaded]
  /\ UNCHANGED <<cards, files, late, lock, marker, op>>

\* PlanningKanban.materialize: the state lock first.
Materialize(p) ==
  /\ MayOpen(p)
  /\ proc' = [proc EXCEPT ![p] = "up"]
  /\ SetOp(p, [IdleOp EXCEPT !.kind = "materialize", !.at = "take"])
  /\ UNCHANGED <<cards, files, late, lock, marker, inst>>

\* The claims and recoveries so far.
Claims == FoldFunction(+, 0, [d \in Cards |-> cards[d].fence])

\* The unlocked probe of _mutation, up to the choice of the first lock.  A
\* writer handle of this object for this card is reused, not taken again.
\* Bound on the callers: a call the handler would refuse right now is not
\* started (what it is refused for may still change before the lock).
Probe(p, k, c) ==
  /\ proc[p] = "up" /\ op[p] = IdleOp /\ inst[p].open
  /\ k \in {"claim", "reclaim", "recover"} => Claims < MaxFence
  /\ Loadable
  /\ HandlerAllows(k, c)
  /\ CoordinatorOk(p, k, c)
  /\ OwnershipOk(p, k, c)
  /\ SetOp(p, [IdleOp EXCEPT !.kind = k, !.card = c, !.at = "take",
                 !.lock = IF c \in Writers /\ inst[p].handle # c THEN "writer" ELSE "state"])
  /\ UNCHANGED <<cards, files, late, lock, marker, proc, inst>>

\* _ExclusiveLock.acquire on the writer lock: the exclusive create succeeds.
TakeWriter(p) ==
  /\ op[p].at = "take" /\ op[p].lock = "writer" /\ lock["writer"] = "free"
  /\ lock' = [lock EXCEPT !["writer"] = p]
  /\ SetOp(p, [op[p] EXCEPT !.lock = "state", !.took = TRUE, !.retry = FALSE])
  /\ UNCHANGED <<cards, files, late, marker, proc, inst>>

\* Mutant of MayRecover: two recoveries of one lock are not kept apart.
MayRecoverUnmarked(p, l) == ~op[p].retry /\ lock[l] \in Procs /\ ~Alive(lock[l])

\* The recorded owner is dead and nobody else recovers this lock.
MayRecover(p, l) ==
  /\ ~op[p].retry
  /\ marker[l] = "free"
  /\ lock[l] \in Procs /\ ~Alive(lock[l])

\* _try_recover_stale_lock, first half: the marker is created and the record read.
RecoverLock(p) ==
  LET l == op[p].lock IN
  /\ op[p].at = "take" /\ MayRecover(p, l)
  /\ marker' = [marker EXCEPT ![l] = p]
  /\ SetOp(p, [op[p] EXCEPT !.at = "unlink"])
  /\ UNCHANGED <<cards, files, late, lock, proc, inst>>

\* _try_recover_stale_lock, second half: the lock file and the marker go.
UnlinkStale(p) ==
  LET l == op[p].lock IN
  /\ op[p].at = "unlink"
  /\ lock' = [lock EXCEPT ![l] = "free"]
  /\ marker' = [marker EXCEPT ![l] = "free"]
  /\ SetOp(p, [op[p] EXCEPT !.at = "take", !.retry = TRUE])
  /\ UNCHANGED <<cards, files, late, proc, inst>>

\* The lock is held, malformed, or already under recovery.
LockRefused(p) ==
  LET l == op[p].lock IN
  /\ op[p].at = "take" /\ lock[l] # "free" /\ ~MayRecover(p, l)
  /\ Unwind(p)
  /\ UNCHANGED <<cards, files, late, marker, proc, inst>>

\* The state lock is free for the taking.
AtStateLock(p) == op[p].at = "take" /\ op[p].lock = "state" /\ lock["state"] = "free"

\* Mutant of Permitted: the lease is checked before the locks only.
PermittedUnowned(p, k, c) == Loadable /\ HandlerAllows(k, c)

\* The second check under the state lock lets the handler write.
Permitted(p, k, c) == Loadable /\ OwnershipOk(p, k, c) /\ HandlerAllows(k, c)

\* Mutant of DropsWriter: every operation on the handle's card frees it.
DropsWriterAlways(p, k, c) == (op[p].took /\ k # "claim") \/ inst[p].handle = c

\* Mutant of DropsWriter: a lock the call itself took is not freed.
DropsWriterOfHandle(p, k, c) ==
  \/ inst[p].handle = c /\ k \in {"complete", "reclaim", "recover"} \cup BlockKinds
  \/ k = "failGate" /\ inst[p].handle >= c

\* Whether the writer lock goes with this operation: a claim keeps it, an
\* operation that ends the lease of its card frees it, and a revocation also
\* frees this object's handle on a later card.
DropsWriter(p, k, c) ==
  \/ op[p].took /\ k # "claim"
  \/ inst[p].handle = c /\ k \in {"complete", "reclaim", "recover"} \cup BlockKinds
  \/ k = "failGate" /\ inst[p].handle = c /\ cards[c].status = "running"
  \/ k = "failGate" /\ inst[p].handle > c

\* No object but the writer's is current once the state file is ahead.
Outdated == [q \in Procs |-> [inst[q] EXCEPT !.current = FALSE]]

\* Mutant of Deadlines: a revoked card keeps the deadline of its lease.
DeadlinesKept(cs, c) == late \ {c}

\* The deadlines that still run: of cards running, and renewed for card c.
Deadlines(cs, c) == {d \in late : cs[d].status = "running"} \ {c}

\* Under the state lock: the handler body and the state file of _save.
Apply(p) ==
  LET k == op[p].kind
      c == op[p].card
  IN /\ AtStateLock(p) /\ k # "materialize"
     /\ Permitted(p, k, c)
     /\ Savable(After(p, k, c))
     /\ lock' = [lock EXCEPT !["state"] = p]
     /\ cards' = After(p, k, c)
     /\ files' = "split"
     /\ inst' = Outdated
     /\ late' = Deadlines(cards', c)
     /\ SetOp(p, [op[p] EXCEPT !.at = "saved", !.drop = DropsWriter(p, k, c)])
     /\ UNCHANGED <<marker, proc>>

\* The second check, the handler, a verifier or the validation says no.
Refused(p) ==
  /\ AtStateLock(p) /\ op[p].kind # "materialize"
  /\ Unwind(p)
  /\ UNCHANGED <<cards, files, late, marker, proc, inst>>

\* materialize() finds no state file and writes the canonical graph.
Create(p) ==
  /\ AtStateLock(p) /\ op[p].kind = "materialize" /\ files = "none"
  /\ lock' = [lock EXCEPT !["state"] = p]
  /\ files' = "split"
  /\ SetOp(p, [op[p] EXCEPT !.at = "saved"])
  /\ UNCHANGED <<cards, late, marker, proc, inst>>

\* materialize() finds the file and loads it, if it can be loaded.
CreateAgain(p) ==
  /\ AtStateLock(p) /\ op[p].kind = "materialize" /\ files # "none"
  /\ inst' = IF Loadable THEN [inst EXCEPT ![p] = Loaded] ELSE inst
  /\ Unwind(p)
  /\ UNCHANGED <<cards, files, late, marker, proc>>

\* What the object keeps after its operation: _adopt, the capability of a
\* claim, the lost capabilities, and the writer handle.
Adopted(p) ==
  LET k == op[p].kind
      c == op[p].card
      cap == inst[p].cap
  IN [Loaded EXCEPT
        !.coordinator = inst[p].coordinator \/ k = "materialize",
        !.cap = CASE k = "claim" -> [cap EXCEPT ![c] = cards[c].fence]
                  [] k \in {"complete", "reclaim", "recover"} \cup BlockKinds ->
                       [cap EXCEPT ![c] = 0]
                  [] k = "failGate" -> [d \in Cards |-> IF d >= c THEN 0 ELSE cap[d]]
                  [] OTHER -> cap,
        !.handle = IF k = "claim" /\ c \in Writers THEN c
                   ELSE IF op[p].drop THEN 0 ELSE inst[p].handle]

\* The second half of _save, the generation file; then the locks are freed
\* and the result adopted.
Return(p) ==
  /\ op[p].at = "saved"
  /\ files' = "whole"
  /\ lock' = [l \in Locks |-> IF l = "state" \/ op[p].drop THEN "free" ELSE lock[l]]
  /\ inst' = [inst EXCEPT ![p] = Adopted(p)]
  /\ SetOp(p, IdleOp)
  /\ UNCHANGED <<cards, late, marker, proc>>

-----------------------------------------------------------------------------
(* The environment.                                                        *)

\* A process dies.  At a lock it may have created the file without content,
\* or with its record and nothing done yet; between unlinking a stale lock
\* and removing the marker it leaves the marker alone.
Crash(p) ==
  LET l == op[p].lock IN
  /\ proc[p] = "up"
  /\ proc' = [proc EXCEPT ![p] = "dead"]
  /\ inst' = [inst EXCEPT ![p] = NoInst]
  /\ SetOp(p, IdleOp)
  /\ \/ UNCHANGED lock
     \/ /\ op[p].at = "take" /\ lock[l] = "free"
        /\ \E left \in {p, "torn"} : lock' = [lock EXCEPT ![l] = left]
     \/ op[p].at = "unlink" /\ lock' = [lock EXCEPT ![l] = "free"]
  /\ UNCHANGED <<cards, files, late, marker>>

\* The clock passes the deadline of a lease.
Expire(c) ==
  /\ cards[c].status = "running" /\ c \notin late
  /\ late' = late \cup {c}
  /\ UNCHANGED <<cards, files, lock, marker, proc, inst, op>>

Next ==
  \/ \E p \in Procs :
       \/ Load(p) \/ Materialize(p)
       \/ \E k \in Kinds, c \in Cards : Probe(p, k, c)
       \/ TakeWriter(p) \/ RecoverLock(p) \/ UnlinkStale(p) \/ LockRefused(p)
       \/ Apply(p) \/ Refused(p) \/ Create(p) \/ CreateAgain(p) \/ Return(p)
       \/ Crash(p)
  \/ \E c \in Cards : Expire(c)

Spec == Init /\ [][Next]_vars
=============================================================================
