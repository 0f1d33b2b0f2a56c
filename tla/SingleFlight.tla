---------------------------- MODULE SingleFlight ----------------------------
(***************************************************************************)
(* What the validation of AAD authorities promises: the verdict on a host  *)
(* is asked for by one caller at a time, only while it is not known, and   *)
(* once it is known every caller is told that verdict.  A question may     *)
(* fail: then only the caller who asked is told so, and nothing is known.  *)
(* AadValidation.tla is shown to implement this specification.             *)
(***************************************************************************)
CONSTANTS Callers, Hosts, HostOf, None

VARIABLES
    verdict,  \* what is known of each host
    asking,   \* the caller whose question is out, or None
    answer    \* what each caller is told

vars == <<verdict, asking, answer>>

Verdicts == {"valid", "invalid"}

Init ==
    /\ verdict = [h \in Hosts |-> "unknown"]
    /\ asking = None
    /\ answer = [c \in Callers |-> "none"]

Tell(c, a) ==
    /\ answer[c] = "none"
    /\ answer' = [answer EXCEPT ![c] = a]

Ask(c) ==
    /\ asking = None
    /\ answer[c] = "none"
    /\ verdict[HostOf[c]] = "unknown"
    /\ asking' = c
    /\ UNCHANGED <<verdict, answer>>

\* The verdict on the host; that it is valid may come with other valid hosts.
Learn(c) ==
    /\ asking = c
    /\ asking' = None
    /\ \/ /\ verdict' = [verdict EXCEPT ![HostOf[c]] = "invalid"]
          /\ Tell(c, "invalid")
       \/ /\ \E also \in SUBSET {h \in Hosts : verdict[h] # "invalid"} :
               verdict' = [h \in Hosts |->
                             IF h = HostOf[c] \/ h \in also THEN "valid"
                             ELSE verdict[h]]
          /\ Tell(c, "valid")

AskInVain(c) ==
    /\ asking = c
    /\ asking' = None
    /\ Tell(c, "failed")
    /\ UNCHANGED verdict

TellKnown(c) ==
    /\ asking # c
    /\ verdict[HostOf[c]] \in Verdicts
    /\ Tell(c, verdict[HostOf[c]])
    /\ UNCHANGED <<verdict, asking>>

\* What the caller asks about is not an authority.
Reject(c) ==
    /\ asking # c
    /\ Tell(c, "failed")
    /\ UNCHANGED <<verdict, asking>>

Next ==
    \E c \in Callers :
        Ask(c) \/ Learn(c) \/ AskInVain(c) \/ TellKnown(c) \/ Reject(c)

Spec == Init /\ [][Next]_vars
=============================================================================
