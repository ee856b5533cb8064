----------------------------- MODULE Selection -----------------------------
(***************************************************************************)
(* What a loop that filters a list keeps of it.                            *)
(***************************************************************************)
EXTENDS Naturals, FiniteSets

\* The members of a finite set of numbers, the least first.
InOrder(S) ==
    CHOOSE s \in [1 .. Cardinality(S) -> S] :
        /\ \A i, j \in 1 .. Cardinality(S) : i < j => s[i] < s[j]
        /\ \A x \in S : \E i \in 1 .. Cardinality(S) : s[i] = x

\* The entries of list s at the positions T, in their order.
Keep(s, T) == LET at == InOrder(T) IN [k \in 1 .. Cardinality(T) |-> s[at[k]]]
=============================================================================
