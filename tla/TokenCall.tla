----------------------------- MODULE TokenCall ------------------------------
(***************************************************************************)
(* What a call of acquireToken promises its caller, whatever happens       *)
(* inside: it ends once and is told one result, it asks the user at most   *)
(* once, and no two calls ask the user at the same time.  What it may be   *)
(* told depends on how far it came: that the user cancelled only when the  *)
(* user was asked, that the user is needed only when nobody was, nothing   *)
(* at all only when a refresh token is tried that the broker gave, and that *)
(* an argument is wrong before anything was done.  AcquireToken.tla is     *)
(* shown to implement this specification.                                  *)
(***************************************************************************)
CONSTANT Requests

VARIABLES
    phase,  \* how far each call is
    told    \* what its completion block was called with, or "none"

Phases == {"idle", "running", "prompting", "answered", "ended"}

Init ==
    /\ phase = [r \in Requests |-> "idle"]
    /\ told = [r \in Requests |-> "none"]

\* How a request for tokens may end, whoever brought what is redeemed.
Redeemed == {"succeeded", "SERVER_OAUTH", "SERVER_PROTECTION_POLICY_REQUIRED",
             "SERVER_WRONG_USER", "UNEXPECTED", "other"}

Refusals == {"DEVELOPER_INVALID_ARGUMENT", "UI_NOT_ON_MAIN_THREAD",
             "TOKENBROKER_INVALID_REDIRECT_URI"}

\* What a call that gets no further than a phase may be told.
MayTell(from) ==
    CASE from = "idle" -> Refusals
      [] from = "running" -> Redeemed \union
           {"validation", "SERVER_USER_INPUT_NEEDED", "UI_MULTLIPLE_INTERACTIVE_REQUESTS",
            "UI_NOT_SUPPORTED_IN_APP_EXTENSION", "TOKENBROKER_INVALID_REDIRECT_URI"}
      [] from = "prompting" ->
           {"succeeded", "cancelled", "SERVER_OAUTH", "UNEXPECTED", "other",
            "UI_NOT_SUPPORTED_IN_APP_EXTENSION", "TOKENBROKER_INVALID_REDIRECT_URI"}
      [] from = "answered" -> Redeemed \union {"nil"}

Move(r, from, to) ==
    /\ phase[r] = from
    /\ phase' = [phase EXCEPT ![r] = to]

Begin(r) == Move(r, "idle", "running") /\ UNCHANGED told

Prompt(r) ==
    /\ \A other \in Requests : phase[other] # "prompting"
    /\ Move(r, "running", "prompting")
    /\ UNCHANGED told

\* After the user's answer there may be work left, but no second prompt.
Answer(r) == Move(r, "prompting", "answered") /\ UNCHANGED told

\* A call whose arguments are refused ends where it begins.
End(r) ==
    \E from \in Phases \ {"ended"} :
        /\ Move(r, from, "ended")
        /\ \E res \in MayTell(from) : told' = [told EXCEPT ![r] = res]

Next == \E r \in Requests : Begin(r) \/ Prompt(r) \/ Answer(r) \/ End(r)

Spec == Init /\ [][Next]_<<phase, told>>
=============================================================================
