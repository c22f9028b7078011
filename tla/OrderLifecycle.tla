--------------------------- MODULE OrderLifecycle ---------------------------
(***************************************************************************)
(* What a strategy may rely on about its orders: an order is numbered once *)
(* (ids count up from 1), is then open, filled, cancelled or lost (refused *)
(* for its price, or sent to a market without a book), and once it is      *)
(* filled, cancelled or lost it stays so.                                  *)
(***************************************************************************)
EXTENDS Naturals, Sequences

VARIABLE status   \* the status of order i at position i

Statuses == {"open", "filled", "cancelled", "lost"}

LifecycleInit == status = <<>>

Submitted(s) == status' = Append(status, s)

\* Open orders end, any number of them in one step, in one common way.
Ended(s) ==
    \E ids \in SUBSET {i \in DOMAIN status : status[i] = "open"} :
        status' = [i \in DOMAIN status |-> IF i \in ids THEN s ELSE status[i]]

LifecycleNext ==
    \/ \E s \in {"open", "filled", "lost"} : Submitted(s)
    \/ \E s \in {"filled", "cancelled"} : Ended(s)

LifecycleSpec == LifecycleInit /\ [][LifecycleNext]_status
=============================================================================
