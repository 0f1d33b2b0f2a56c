--------------------------- MODULE OneInteraction ---------------------------
(***************************************************************************)
(* What the interaction lock of ADAL promises: at any time at most one     *)
(* request owns the user's attention, and a request is turned away only    *)
(* while another one owns it.  InteractionLock.tla is shown to implement   *)
(* this specification.                                                     *)
(***************************************************************************)
CONSTANTS Requests, None

VARIABLES
    owner,      \* the request that owns the user's attention, or None
    turnedAway  \* requests that were refused

vars == <<owner, turnedAway>>

Init ==
    /\ owner = None
    /\ turnedAway = {}

Own(r) ==
    /\ owner = None
    /\ owner' = r
    /\ UNCHANGED turnedAway

TurnAway(r) ==
    /\ owner # None
    /\ owner # r
    /\ turnedAway' = turnedAway \union {r}
    /\ UNCHANGED owner

GiveUp(r) ==
    /\ owner = r
    /\ owner' = None
    /\ UNCHANGED turnedAway

Next == \E r \in Requests : Own(r) \/ TurnAway(r) \/ GiveUp(r)

Spec == Init /\ [][Next]_vars
=============================================================================
