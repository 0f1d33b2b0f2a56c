--------------------------- MODULE SilentAttempt ---------------------------
(***************************************************************************)
(* What an attempt to get a token without the user promises whoever makes  *)
(* it: one outcome, and never nil when the caller brought a refresh token  *)
(* of its own.  ADAcquireTokenSilentHandler makes this promise, as         *)
(* SilentFlow.tla models it, and -acquireToken:completionBlock: counts on  *)
(* it: in AcquireToken.tla an attempt may come to any of these outcomes    *)
(* and to no other.  Each of the two is shown to implement this            *)
(* specification.                                                          *)
(***************************************************************************)
CONSTANT Attempts

VARIABLES
    stage,   \* how far each attempt is
    outcome  \* what it came to, or "none"

\* nil: there was nothing to try.  The errors with an OAuth code, the one of
\* the protection policy apart from the others; "other" are the rest.
Outcomes == {"nil", "SERVER_OAUTH", "SERVER_PROTECTION_POLICY_REQUIRED",
             "succeeded", "SERVER_WRONG_USER", "other"}

Init ==
    /\ stage = [a \in Attempts |-> "idle"]
    /\ outcome = [a \in Attempts |-> "none"]

Move(a, from, to) ==
    /\ stage[a] = from
    /\ stage' = [stage EXCEPT ![a] = to]

\* With what the cache has (getToken:), or with the caller's token
\* (tryRefreshToken:).
Start(a) == \E with \in {"cache", "token"} : Move(a, "idle", with) /\ UNCHANGED outcome

Finish(a, with, possible) ==
    /\ Move(a, with, "over")
    /\ \E res \in possible : outcome' = [outcome EXCEPT ![a] = res]

Next == \E a \in Attempts :
    Start(a) \/ Finish(a, "cache", Outcomes) \/ Finish(a, "token", Outcomes \ {"nil"})

Spec == Init /\ [][Next]_<<stage, outcome>>
=============================================================================
