-------------------------- MODULE MCPlanningKanban --------------------------
(***************************************************************************)
(* PlanningKanban for TLC: three processes over a chain of three cards of  *)
(* which the second writes the shared workspace, and the properties that   *)
(* make the board a safe place to hand out work.                           *)
(***************************************************************************)
EXTENDS PlanningKanban, TLC

Symmetry == Permutations(Procs)

InstType == [open : BOOLEAN, coordinator : BOOLEAN, current : BOOLEAN,
             running : SUBSET Cards, cap : [Cards -> Nat], handle : 0..NCards]
OpType == [kind : Kinds \cup {"none", "materialize"}, card : Cards,
           at : {"idle", "take", "unlink", "saved"}, lock : Locks,
           took : BOOLEAN, retry : BOOLEAN, drop : BOOLEAN]

\* Types of the board's files, the locks and the objects.
TypeOK ==
  /\ cards \in [Cards -> [status : Statuses, fence : Nat, owner : Procs \cup {"none"}]]
  /\ files \in {"none", "split", "whole"}
  /\ late \subseteq Running
  /\ lock \in [Locks -> Procs \cup {"free", "torn"}]
  /\ marker \in [Locks -> Procs \cup {"free"}]
  /\ proc \in [Procs -> {"new", "up", "dead"}]
  /\ inst \in [Procs -> InstType]
  /\ op \in [Procs -> OpType]

\* Whoever is between the two files of a save is the owner the state lock
\* names, whatever stale locks were recovered meanwhile.
StateLockHeld == \A p \in Procs : op[p].at = "saved" => lock["state"] = p

\* A running card that writes the shared workspace has the project's writer
\* lock for as long as its owner lives, so no other run writes beside it.
WriterSerialised ==
  \A c \in Writers \cap Running :
    Alive(cards[c].owner) => lock["writer"] = cards[c].owner

\* Work is handed out, under way or finished only behind an unbroken chain of
\* gated cards, through revocations, resumes and recoveries.
AncestorsGated ==
  \A c \in Cards : cards[c].status \in {"ready", "resumed", "running", "complete"}
                     => 1..(c - 1) \subseteq Complete

\* A live process inside no call has the writer lock only for a card it runs,
\* or for one that was blocked under it: no path of claim .. recover, refused
\* or not, leaves the lock behind with its object.
WriterFreed ==
  \A p \in Procs : lock["writer"] = p /\ Alive(p) /\ op[p] = IdleOp =>
    LET c == inst[p].handle
    IN  /\ c # 0
        /\ \/ cards[c].status = "running" /\ cards[c].owner = p
           \/ cards[c].status = "blocked"

\* A board changes only from a whole pair of files, and never once a save
\* was cut between its two files: half a save freezes the board.
HalfSaveFreezes == [][cards' # cards => files = "whole" /\ files' = "split"]_vars

\* The lease of a running card ends, or is extended, by its live owner, by a
\* recovery of a dead or late one, or because an earlier card lost its gate.
LeaseEndsRightly ==
  [][\A c \in Running : cards'[c] # cards[c] =>
       \E p \in Procs :
         /\ op[p].at = "take" /\ op'[p].at = "saved"
         /\ \/ cards[c].owner = p /\ c \notin late
            \/ op[p].kind = "recover" /\ (c \in late \/ ~Alive(cards[c].owner))
            \/ op[p].kind = "failGate" /\ op[p].card < c]_vars

Gates == INSTANCE StageGates
           WITH NStages <- NCards, MayRevoke <- TRUE, passed <- Complete

\* The board implements the stage gates: cards complete in order, and a
\* revocation takes every later card with it.
ImplementsGates == Gates!Spec

\* A card nobody runs is blocked, paused, resumed or revoked only by the
\* coordinator's object (_require_coordinator).
NonRunningNeedsCoordinator ==
  [][\A p \in Procs :
       /\ op[p].at = "take" /\ op'[p].at = "saved"
       /\ op[p].kind \in {"block", "needInput", "failGate", "resume"}
       /\ op[p].card \notin Running
       => inst[p].coordinator]_vars
=============================================================================
