--------------------------- MODULE DurableOutbox ---------------------------
(***************************************************************************)
(* What the agent-side write-ahead queue promises its callers, without     *)
(* rows, ids, claims, files or processes: a write that was reported as     *)
(* queued is held until the daemon has it, unless an operator discards     *)
(* the queue.  WriteQueue.tla is shown to implement this specification.    *)
(***************************************************************************)
CONSTANT Keys       \* the identity (kind, sha) of a write

VARIABLES
    pending,        \* writes held in the queue
    delivered,      \* writes the daemon has accepted
    promised,       \* writes whose caller was told "Queued"
    discarded       \* writes an operator removed with `queue clear`

outboxVars == <<pending, delivered, promised, discarded>>

OutboxTypeOK ==
    /\ pending   \subseteq Keys
    /\ delivered \subseteq Keys
    /\ promised  \subseteq Keys
    /\ discarded \subseteq Keys

OutboxInit ==
    /\ pending   = {}
    /\ delivered = {}
    /\ promised  = {}
    /\ discarded = {}

(* A write becomes durable.                                                *)
Hold(k) ==
    /\ pending' = pending \cup {k}
    /\ UNCHANGED <<delivered, promised, discarded>>

(* The daemon accepts a write; the same write may be delivered again.      *)
Deliver(k) ==
    /\ delivered' = delivered \cup {k}
    /\ UNCHANGED <<pending, promised, discarded>>

(* The caller is told "Queued": only for a write that cannot be lost.      *)
Promise(k) ==
    /\ k \in pending \cup delivered \cup discarded
    /\ promised' = promised \cup {k}
    /\ UNCHANGED <<pending, delivered, discarded>>

(* A write leaves the queue: only once the daemon has it.                  *)
Retire(k) ==
    /\ k \in delivered
    /\ pending' = pending \ {k}
    /\ UNCHANGED <<delivered, promised, discarded>>

(* The operator's escape hatch.                                            *)
Discard ==
    /\ pending'   = {}
    /\ discarded' = discarded \cup pending
    /\ UNCHANGED <<delivered, promised>>

OutboxNext ==
    \/ \E k \in Keys : Hold(k) \/ Deliver(k) \/ Promise(k) \/ Retire(k)
    \/ Discard

OutboxSpec == OutboxInit /\ [][OutboxNext]_outboxVars

(* Every promised write is held, delivered, or was discarded on purpose.   *)
NoPromiseBroken == promised \subseteq pending \cup delivered \cup discarded
=============================================================================
