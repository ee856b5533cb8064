----------------------------- MODULE UsageLedger -----------------------------
(***************************************************************************)
(* What request metering promises, without flushes, transactions or        *)
(* restarts: a routed request is unwritten until it is written, it is      *)
(* written at most once, and what is written stays until its account goes. *)
(* RequestMetering implements this.                                        *)
(***************************************************************************)
EXTENDS Naturals

CONSTANTS Keys, Users, Owner

VARIABLES
    unwritten,  \* requests routed and not yet in the ledger
    written     \* requests in the ledger

vars == <<unwritten, written>>

Init == unwritten = [k \in Keys |-> 0] /\ written = [k \in Keys |-> 0]

Route(k) ==
    /\ unwritten' = [unwritten EXCEPT ![k] = @ + 1]
    /\ UNCHANGED written

\* Some of the unwritten requests leave: each is written or, at worst, lost;
\* none is written that was not waiting.
Settle ==
    /\ \A k \in Keys : /\ unwritten'[k] \in 0 .. unwritten[k]
                       /\ written'[k] \in written[k] .. (written[k] + unwritten[k] - unwritten'[k])
    /\ unwritten' = [k \in Keys |-> unwritten'[k]]
    /\ written' = [k \in Keys |-> written'[k]]

\* An account is deleted, and its part of the ledger with it.
Purge(u) ==
    /\ written' = [k \in Keys |-> IF Owner[k] = u THEN 0 ELSE written[k]]
    /\ UNCHANGED unwritten

Next ==
    \/ \E k \in Keys : Route(k)
    \/ Settle
    \/ \E u \in Users : Purge(u)

Spec == Init /\ [][Next]_vars
=============================================================================
