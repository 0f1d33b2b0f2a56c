-------------------------- MODULE MCAdfsValidation --------------------------
(* Instances of AdfsValidation for TLC. *)
EXTENDS AdfsValidation, TLC

CONSTANTS c1, c2, c3, c4, d1, d2, a1, a2

\* Three callers of one domain, two of them with the same authority, and one of
\* another domain with that authority, too.
ThreeOfOneDomain == (c1 :> d1) @@ (c2 :> d1) @@ (c3 :> d2) @@ (c4 :> d1)
TwoAuthorities == (c1 :> a1) @@ (c2 :> a2) @@ (c3 :> a1) @@ (c4 :> a1)
=============================================================================
