----------------------------- MODULE MCAccount -----------------------------
(* An instance of Account for TLC. *)
EXTENDS Account, TLC

CONSTANTS ann, tea, s1, s2, a1, a2, a3, d1, d2

\* Two sign-ups with one address; three requests to add the same product, one
\* of them more than the shelf holds after the first sale, and two to remove it.
Callers == [r \in {s1, s2, a1, a2, a3, d1, d2} |-> ann]
Wanted == [r \in {a1, a2, a3, d1, d2} |-> tea]
Units == (a1 :> 1) @@ (a2 :> 2) @@ (a3 :> 1)
Shelf == tea :> 2
=============================================================================
