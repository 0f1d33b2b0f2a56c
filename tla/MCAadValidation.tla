-------------------------- MODULE MCAadValidation ---------------------------
(* Instances of AadValidation for TLC. *)
EXTENDS AadValidation, TLC

CONSTANTS c1, c2, c3, h1, h2

\* Two callers share a host, a third asks about another one.
TwoShare == (c1 :> h1) @@ (c2 :> h1) @@ (c3 :> h2)
=============================================================================
