------------------------- MODULE AcquireTokenProofs -------------------------
(***************************************************************************)
(* Theorems about AcquireToken, for any calls, settings and number of      *)
(* requests.                                                               *)
(*                                                                         *)
(* Every action of a request ends its call (Ends) or takes it to another   *)
(* location with known events open (Moves).  The lemmas about Complete and *)
(* Continue show that, whatever events an action stops; IInv is then       *)
(* inductive by looking at one request (Local), which says which events    *)
(* are open, who holds the lock and what is known of the earlier attempt   *)
(* at each location.                                                       *)
(***************************************************************************)
EXTENDS AcquireToken, TLAPS

\* The events of a call that are open while it is at a location.
OpenAt(location) == {"api"} \union
    (IF location \in {"silent", "replaying", "lockedReplay"} THEN {"silent"}
     ELSE IF location = "validating" THEN {"validation"}
     ELSE IF location = "broker" THEN {"broker"}
     ELSE IF location = "webview" THEN {"code"}
     ELSE IF location = "redeeming" THEN {"grant"} ELSE {})

\* What is left of the telemetry of a call.
Telemetry(r) ==
    /\ pc[r] = "idle" => started[r] = {} /\ received[r] = <<>>
    /\ pc[r] # "done" => dispatched[r] = <<>>
    /\ pc[r] \notin {"idle", "done"} => Wrapped(r) /\ started[r] = OpenAt(pc[r])
    /\ pc[r] = "done" /\ Wrapped(r) =>
         started[r] = {} /\ received[r] = <<>> /\ dispatched[r] = <<StatusOf(result[r])>>
    /\ pc[r] = "done" /\ ~Wrapped(r) =>
         /\ received[r] = <<>> /\ dispatched[r] = <<>>
         /\ started[r] = IF call[r].fault = "resource" /\ ~WithAssertion(r)
                         THEN {"api"} ELSE {}

\* Who may ask the user, and with what.
Asking(r) ==
    /\ pc[r] \in PromptingAt \union {"redeeming", "lockedReplay"} => lock = r
    /\ pc[r] \in PromptingAt \union {"redeeming", "replaying", "lockedReplay"} =>
         ~Silent(r) /\ ~WithAssertion(r)
    /\ pc[r] \in PromptingAt \union {"requesting"} =>
         (~Forced(r) => underlying[r] \in NotFinal)

\* What is known of the attempt without the user.
Attempt(r) ==
    /\ pc[r] \in {"idle", "validating", "silent", "refreshing"} => underlying[r] = "none"
    /\ pc[r] = "refreshing" => call[r].entry \in RefreshTokenEntries
    /\ pc[r] = "assertion" => WithAssertion(r)
    /\ pc[r] = "done" /\ call[r].entry \in SilentEntries =>
         (result[r] = "SERVER_PROTECTION_POLICY_REQUIRED"
             <=> underlying[r] = "SERVER_PROTECTION_POLICY_REQUIRED")

Local(r) == Telemetry(r) /\ Asking(r) /\ Attempt(r)

\* The inductive invariant.
IInv == TypeOK /\ (\A r \in Requests : Local(r)) /\ StaysInExtension

\* The two ways a call goes on.
Ends(r, res) ==
    /\ pc' = [pc EXCEPT ![r] = "done"]
    /\ result' = [result EXCEPT ![r] = res]
    /\ started' = [started EXCEPT ![r] = {}]
    /\ received' = [received EXCEPT ![r] = <<>>]
    /\ dispatched' = [dispatched EXCEPT ![r] = <<StatusOf(res)>>]

Moves(r, location, open) ==
    /\ pc' = [pc EXCEPT ![r] = location]
    /\ started' = [started EXCEPT ![r] = open]
    /\ received' \in [Requests -> Seq(Event)]
    /\ \A other \in Requests \ {r} : received'[other] = received[other]
    /\ UNCHANGED <<result, dispatched>>

Names(events) == {events[i].name : i \in DOMAIN events}

-----------------------------------------------------------------------------
(* The telemetry of a step.                                                *)

\* The last event decides what the summary says, if it says anything itself.
LEMMA SummaryIsLast ==
    ASSUME NEW events \in Seq(Event), events # <<>>,
           events[Len(events)].status # "none",
           events[Len(events)].name # "broker"
    PROVE  Summary(events) = events[Len(events)].status
<1> DEFINE telling == {i \in DOMAIN events :
                         events[i].status # "none" /\ events[i].name # "broker"}
           last == CHOOSE i \in telling : \A j \in telling : j <= i
<1>1. DOMAIN events = 1 .. Len(events) /\ Len(events) \in Nat \ {0}
  OBVIOUS
<1>2. Len(events) \in telling /\ \A j \in telling : j <= Len(events)
  BY <1>1
<1>3. last \in telling /\ \A j \in telling : j <= last
  BY <1>2
<1>4. last = Len(events)
  <2>1. last <= Len(events) /\ Len(events) <= last
    BY <1>2, <1>3
  <2>2. last \in Nat
    BY <1>1, <1>3
  <2>. QED
    BY <1>1, <2>1, <2>2
<1>5. telling # {}
  BY <1>2
<1>. QED
  BY <1>4, <1>5 DEF Summary

\* A stopped event.
LEMMA OneStopped ==
    ASSUME NEW name \in EventNames, NEW status \in EventStatuses
    PROVE  /\ <<Stopped(name, status)>> \in Seq(Event)
           /\ Names(<<Stopped(name, status)>>) = {name}
<1>1. Stopped(name, status) \in Event
  BY DEF Stopped, Event
<1>2. <<Stopped(name, status)>> \in Seq(Event)
  BY <1>1
<1>3. DOMAIN <<Stopped(name, status)>> = {1}
  OBVIOUS
<1>4. <<Stopped(name, status)>>[1].name = name
  BY DEF Stopped
<1>5. Names(<<Stopped(name, status)>>) = {name}
  BY <1>3, <1>4 DEF Names
<1>. QED
  BY <1>2, <1>5

LEMMA NoneStopped == <<>> \in Seq(Event) /\ Names(<<>>) = {}
BY DEF Names

\* What follows on a list ends it.
LEMMA ConcatLast ==
    ASSUME NEW s \in Seq(Event), NEW t \in Seq(Event), t # <<>>
    PROVE  /\ s \o t \in Seq(Event)
           /\ s \o t # <<>>
           /\ (s \o t)[Len(s \o t)] = t[Len(t)]
<1>1. Len(s) \in Nat /\ Len(t) \in Nat \ {0}
  OBVIOUS
<1>2. Len(s \o t) = Len(s) + Len(t)
  OBVIOUS
<1>3. (s \o t)[Len(s) + Len(t)] = t[Len(t)]
  BY <1>1
<1>. QED
  BY <1>1, <1>2, <1>3

\* A call that ends with all its events stopped leaves one summary.
LEMMA CompleteEnds ==
    ASSUME TypeOK, NEW r \in Requests, NEW res \in Results,
           NEW events \in Seq(Event), started[r] \subseteq {"api"} \union Names(events),
           dispatched[r] = <<>>, Complete(r, events, res)
    PROVE  Ends(r, res)
<1>1. started' = [started EXCEPT ![r] = {}]
  <2>1. started' = [started EXCEPT ![r] = started[r] \ ({"api"} \union Names(events))]
    BY DEF Complete, Names
  <2>2. started[r] \ ({"api"} \union Names(events)) = {}
    OBVIOUS
  <2>. QED
    BY <2>1, <2>2
<1> DEFINE last == Stopped("api", StatusOf(res))
           all == received[r] \o Append(events, last)
<1>2. last \in Event /\ last.status = StatusOf(res) /\ last.name = "api"
      /\ last.status # "none"
  BY DEF Stopped, Event, EventNames, EventStatuses, Statuses, StatusOf
<1>3. received[r] \in Seq(Event)
  BY DEF TypeOK
<1> HIDE DEF last
<1>4. all \in Seq(Event) /\ all # <<>> /\ all[Len(all)] = last
  <2> DEFINE added == Append(events, last)
  <2>1. added \in Seq(Event) /\ added # <<>> /\ added[Len(added)] = last
    BY <1>2
  <2> HIDE DEF added
  <2>2. /\ received[r] \o added \in Seq(Event) /\ received[r] \o added # <<>>
        /\ (received[r] \o added)[Len(received[r] \o added)] = added[Len(added)]
    BY <1>3, <2>1, ConcatLast
  <2>. QED
    BY <2>1, <2>2 DEF added
<1>5. Summary(all) = StatusOf(res)
  BY <1>2, <1>4, SummaryIsLast
<1>6. dispatched' = [dispatched EXCEPT ![r] = Append(dispatched[r], Summary(all))]
  BY DEF Complete, Flush, last
<1>7. Append(dispatched[r], Summary(all)) = <<StatusOf(res)>>
  BY <1>5
<1>8. dispatched' = [dispatched EXCEPT ![r] = <<StatusOf(res)>>]
  BY <1>6, <1>7
<1>. QED
  BY <1>1, <1>8 DEF Complete, Flush, Ends, Goto

\* On the way the events stopped are replaced by those started.
LEMMA ContinueMoves ==
    ASSUME TypeOK, NEW r \in Requests, NEW location \in Locations,
           NEW events \in Seq(Event), NEW starting \in SUBSET EventNames,
           Continue(r, location, events, starting)
    PROVE  Moves(r, location, (started[r] \ Names(events)) \union starting)
<1>1. received' = [received EXCEPT ![r] = received[r] \o events]
  BY DEF Continue
<1>2. received[r] \o events \in Seq(Event) /\ received \in [Requests -> Seq(Event)]
  BY DEF TypeOK
<1>3. received' \in [Requests -> Seq(Event)]
      /\ \A other \in Requests \ {r} : received'[other] = received[other]
  BY <1>1, <1>2
<1>4. started' = [started EXCEPT ![r] = (started[r] \ Names(events)) \union starting]
  BY DEF Continue, Names
<1>. QED
  BY <1>3, <1>4 DEF Continue, Moves, Goto

-----------------------------------------------------------------------------
(* The start and the types.                                                *)

LEMMA InitIInv == Init => IInv
<1> SUFFICES ASSUME Init PROVE IInv
  OBVIOUS
<1>1. TypeOK
  <2>1. started \in [Requests -> SUBSET EventNames]
    BY DEF Init
  <2>2. received \in [Requests -> Seq(Event)] /\ dispatched \in [Requests -> Seq(EventStatuses)]
    BY DEF Init
  <2>3. pc \in [Requests -> Locations] /\ result \in [Requests -> Results \union {"none"}]
        /\ underlying \in [Requests -> SilentResults \union {"none"}]
    BY DEF Init, Locations
  <2>. QED
    BY <2>1, <2>2, <2>3 DEF Init, TypeOK
<1>2. ASSUME NEW r \in Requests
      PROVE  Local(r)
  <2>1. pc[r] = "idle" /\ underlying[r] = "none" /\ started[r] = {}
        /\ received[r] = <<>> /\ dispatched[r] = <<>>
    BY DEF Init
  <2>. QED
    BY <2>1 DEF Local, Telemetry, Asking, Attempt, PromptingAt
<1>3. StaysInExtension
  BY DEF Init, StaysInExtension
<1>. QED
  BY <1>1, <1>2, <1>3 DEF IInv

\* A call that ends keeps what is said of it, if the rest fits.
LEMMA EndsKeeps ==
    ASSUME IInv, NEW r \in Requests, NEW res \in Results, Ends(r, res),
           Wrapped(r),
           lock' \in {lock, None, r}, lock' # lock => lock \in {r, None},
           underlying' \in [Requests -> SilentResults \union {"none"}],
           \A other \in Requests \ {r} : underlying'[other] = underlying[other],
           left' \subseteq Requests, inExtension => left' = {},
           UNCHANGED <<inExtension, context, call>>,
           call[r].entry \in SilentEntries =>
             (res = "SERVER_PROTECTION_POLICY_REQUIRED"
                <=> underlying'[r] = "SERVER_PROTECTION_POLICY_REQUIRED")
    PROVE  IInv'
<1>1. TypeOK'
  <2>1. started' \in [Requests -> SUBSET EventNames]
    BY DEF IInv, TypeOK, Ends
  <2>2. received' \in [Requests -> Seq(Event)]
    BY DEF IInv, TypeOK, Ends
  <2>3. dispatched' \in [Requests -> Seq(EventStatuses)]
    <3>1. <<StatusOf(res)>> \in Seq(EventStatuses)
      <4>1. StatusOf(res) \in EventStatuses
        BY DEF StatusOf, EventStatuses, Statuses
      <4>. QED
        BY <4>1
    <3>. QED
      BY <3>1 DEF IInv, TypeOK, Ends
  <2>4. pc' \in [Requests -> Locations] /\ result' \in [Requests -> Results \union {"none"}]
    BY DEF IInv, TypeOK, Ends, Locations
  <2>5. lock' \in Requests \union {None}
    BY DEF IInv, TypeOK
  <2>. QED
    BY <2>1, <2>2, <2>3, <2>4, <2>5 DEF IInv, TypeOK
<1>2. ASSUME NEW s \in Requests
      PROVE  Local(s)'
  <2>0. Local(s)
    BY DEF IInv
  <2>1. CASE s = r
    <3>1. pc'[r] = "done" /\ result'[r] = res /\ started'[r] = {} /\ received'[r] = <<>>
          /\ dispatched'[r] = <<StatusOf(res)>> /\ call'[r] = call[r]
      BY DEF IInv, TypeOK, Ends
    <3>. QED
      BY <2>1, <3>1 DEF Local, Telemetry, Asking, Attempt,
                        PromptingAt, Wrapped, WithAssertion, Forced, Silent
  <2>2. CASE s # r
    <3>1. pc'[s] = pc[s] /\ result'[s] = result[s] /\ started'[s] = started[s]
          /\ received'[s] = received[s] /\ dispatched'[s] = dispatched[s]
          /\ underlying'[s] = underlying[s] /\ call'[s] = call[s]
          /\ (lock = s => lock' = s)
      BY <2>2, NoneAssumption DEF IInv, TypeOK, Ends
    <3>. QED
      BY <2>0, <3>1 DEF Local, Telemetry, Asking, Attempt, Wrapped, WithAssertion,
                        Forced, Silent
  <2>. QED
    BY <2>1, <2>2
<1>3. StaysInExtension'
  BY DEF StaysInExtension
<1>. QED
  BY <1>1, <1>2, <1>3 DEF IInv

\* So does one that goes on, if what is said of its new location holds.
LEMMA MovesKeeps ==
    ASSUME IInv, NEW r \in Requests, NEW location \in Locations,
           NEW open \in SUBSET EventNames, Moves(r, location, open),
           Local(r)',
           lock' \in {lock, None, r}, lock' # lock => lock \in {r, None},
           underlying' \in [Requests -> SilentResults \union {"none"}],
           \A other \in Requests \ {r} : underlying'[other] = underlying[other],
           left' \subseteq Requests, inExtension => left' = {},
           UNCHANGED <<inExtension, context, call>>
    PROVE  IInv'
<1>1. TypeOK'
  <2>1. started' \in [Requests -> SUBSET EventNames]
    BY DEF IInv, TypeOK, Moves
  <2>2. received' \in [Requests -> Seq(Event)]
    BY DEF Moves
  <2>3. dispatched' \in [Requests -> Seq(EventStatuses)]
    BY DEF IInv, TypeOK, Moves
  <2>4. pc' \in [Requests -> Locations] /\ result' \in [Requests -> Results \union {"none"}]
    BY DEF IInv, TypeOK, Moves
  <2>5. lock' \in Requests \union {None}
    BY DEF IInv, TypeOK
  <2>. QED
    BY <2>1, <2>2, <2>3, <2>4, <2>5 DEF IInv, TypeOK
<1>2. ASSUME NEW s \in Requests, s # r
      PROVE  Local(s)'
  <2>1. Local(s)
    BY DEF IInv
  <2>2. pc'[s] = pc[s] /\ result'[s] = result[s] /\ started'[s] = started[s]
        /\ received'[s] = received[s] /\ dispatched'[s] = dispatched[s]
        /\ underlying'[s] = underlying[s] /\ call'[s] = call[s]
        /\ (lock = s => lock' = s)
    BY <1>2, NoneAssumption DEF IInv, TypeOK, Moves
  <2>. QED
    BY <2>1, <2>2 DEF Local, Telemetry, Asking, Attempt, Wrapped, WithAssertion,
                      Forced, Silent
<1>3. StaysInExtension'
  BY DEF StaysInExtension
<1>4. \A s \in Requests : Local(s)'
  BY <1>2
<1>. QED
  BY <1>1, <1>3, <1>4 DEF IInv

-----------------------------------------------------------------------------
(* The steps.                                                              *)

\* An action that ends a call with every open event stopped keeps IInv.
LEMMA CompleteKeeps ==
    ASSUME IInv, NEW r \in Requests, NEW res \in Results, NEW events \in Seq(Event),
           Complete(r, events, res),
           started[r] \subseteq {"api"} \union Names(events),
           pc[r] # "done", Wrapped(r),
           lock' \in {lock, None, r}, lock' # lock => lock \in {r, None},
           underlying' \in [Requests -> SilentResults \union {"none"}],
           \A other \in Requests \ {r} : underlying'[other] = underlying[other],
           left' \subseteq Requests, inExtension => left' = {},
           UNCHANGED <<inExtension, context, call>>,
           call[r].entry \in SilentEntries =>
             (res = "SERVER_PROTECTION_POLICY_REQUIRED"
                <=> underlying'[r] = "SERVER_PROTECTION_POLICY_REQUIRED")
    PROVE  IInv'
<1>1. TypeOK /\ dispatched[r] = <<>>
  BY DEF IInv, Local, Telemetry
<1>2. Ends(r, res)
  BY <1>1, CompleteEnds
<1>. QED
  BY <1>2, EndsKeeps

\* An action that goes on with the events of the new location open keeps it
\* too, if the lock and the earlier attempt are as they must be there.
LEMMA ContinueKeeps ==
    ASSUME IInv, NEW r \in Requests, NEW location \in Locations \ {"idle", "done"},
           NEW events \in Seq(Event), NEW starting \in SUBSET EventNames,
           Continue(r, location, events, starting),
           (started[r] \ Names(events)) \union starting = OpenAt(location),
           pc[r] # "done", Wrapped(r),
           pc'[r] = location => Asking(r)' /\ Attempt(r)',
           lock' \in {lock, None, r}, lock' # lock => lock \in {r, None},
           underlying' \in [Requests -> SilentResults \union {"none"}],
           \A other \in Requests \ {r} : underlying'[other] = underlying[other],
           left' \subseteq Requests, inExtension => left' = {},
           UNCHANGED <<inExtension, context, call>>
    PROVE  IInv'
<1>1. TypeOK /\ dispatched[r] = <<>>
  BY DEF IInv, Local, Telemetry
<1>2. Moves(r, location, OpenAt(location))
  BY <1>1, ContinueMoves
<1>3. OpenAt(location) \in SUBSET EventNames
  BY DEF OpenAt, EventNames
<1>4. pc'[r] = location /\ started'[r] = OpenAt(location) /\ dispatched'[r] = <<>>
      /\ call'[r] = call[r]
  BY <1>1, <1>2 DEF Moves, TypeOK
<1>5. Telemetry(r)'
  BY <1>4 DEF Telemetry, Wrapped
<1>6. Local(r)'
  BY <1>4, <1>5 DEF Local
<1>. QED
  BY <1>2, <1>3, <1>6, MovesKeeps

\* What IInv says of a call on its way.
LEMMA OnTheWay ==
    ASSUME IInv, NEW r \in Requests, pc[r] \notin {"idle", "done"}
    PROVE  Wrapped(r) /\ started[r] = OpenAt(pc[r]) /\ Asking(r) /\ Attempt(r)
BY DEF IInv, Local, Telemetry

\* The frame of the actions that change neither lock nor other apps.
LEMMA Frame ==
    ASSUME IInv
    PROVE  /\ underlying \in [Requests -> SilentResults \union {"none"}]
           /\ left \subseteq Requests
           /\ inExtension => left = {}
BY DEF IInv, TypeOK, StaysInExtension

\* The checks.
LEMMA CallerKeeps ==
    ASSUME IInv, NEW r \in Requests, CallerStep(r)
    PROVE  IInv'
<1>1. pc[r] = "idle" /\ started[r] = {} /\ underlying[r] = "none"
  BY DEF IInv, Local, Telemetry, Attempt, CallerStep, RefuseAtEntry, MissingResource,
         FailChecks, PassChecks, Checked
<1>2. CASE FailChecks(r)
  <2>1. Objection(r) \in Results /\ Objection(r) # "SERVER_PROTECTION_POLICY_REQUIRED"
    BY <1>2 DEF FailChecks, Objection, Results, ErrorCodes
  <2>2. Wrapped(r)
    BY <1>2 DEF FailChecks, Checked, Wrapped
  <2>. QED
    BY <1>1, <1>2, <2>1, <2>2, NoneStopped, Frame, CompleteKeeps DEF FailChecks
<1>3. CASE PassChecks(r)
  <2>1. Wrapped(r)
    BY <1>3 DEF PassChecks, Checked, Wrapped
  <2>2. {"api", "validation"} \in SUBSET EventNames /\ "validating" \in Locations \ {"idle", "done"}
    BY DEF EventNames, Locations
  <2>3. OpenAt("validating") = {"api", "validation"}
    BY DEF OpenAt
  <2>4. pc'[r] = "validating" => Asking(r)' /\ Attempt(r)'
    BY <1>1, <1>3 DEF PassChecks, Asking, Attempt, PromptingAt
  <2>. QED
    BY <1>1, <1>3, <2>1, <2>2, <2>3, <2>4, NoneStopped, Frame, ContinueKeeps DEF PassChecks
<1>4. CASE RefuseAtEntry(r) \/ MissingResource(r)
  <2> DEFINE open == IF call[r].fault = "resource" /\ ~WithAssertion(r) THEN {"api"} ELSE {}
  <2>1. /\ pc' = [pc EXCEPT ![r] = "done"]
        /\ result' = [result EXCEPT ![r] = "DEVELOPER_INVALID_ARGUMENT"]
        /\ UNCHANGED <<inExtension, context, call, underlying, lock, left, received, dispatched>>
    BY <1>4 DEF RefuseAtEntry, MissingResource, Goto, telemetry
  <2>2. started' = [started EXCEPT ![r] = open]
    BY <1>1, <1>4 DEF IInv, TypeOK, RefuseAtEntry, MissingResource, telemetry
  <2>3. ~Wrapped(r)
    BY <1>4 DEF RefuseAtEntry, MissingResource, Wrapped
  <2>4. TypeOK'
    <3>1. started' \in [Requests -> SUBSET EventNames]
      BY <2>2 DEF IInv, TypeOK, EventNames
    <3>2. pc' \in [Requests -> Locations]
      BY <2>1 DEF IInv, TypeOK, Locations
    <3>3. result' \in [Requests -> Results \union {"none"}]
      BY <2>1 DEF IInv, TypeOK, Results, ErrorCodes
    <3>. QED
      BY <2>1, <3>1, <3>2, <3>3 DEF IInv, TypeOK
  <2>5. ASSUME NEW s \in Requests
        PROVE  Local(s)'
    <3>0. Local(s)
      BY DEF IInv
    <3>1. CASE s = r
      <4>1. pc'[r] = "done" /\ result'[r] = "DEVELOPER_INVALID_ARGUMENT" /\ started'[r] = open
        BY <2>1, <2>2 DEF IInv, TypeOK
      <4>2. received[r] = <<>> /\ dispatched[r] = <<>>
        BY <1>1, <3>0, <3>1, <1>4 DEF Local, Telemetry
      <4>3. Telemetry(r)'
        BY <2>1, <2>3, <4>1, <4>2 DEF Telemetry, Wrapped, WithAssertion
      <4>4. Asking(r)' /\ Attempt(r)'
        BY <1>1, <2>1, <4>1 DEF Asking, Attempt, PromptingAt
      <4>. QED
        BY <3>1, <4>3, <4>4 DEF Local
    <3>2. CASE s # r
      <4>1. pc'[s] = pc[s] /\ result'[s] = result[s] /\ started'[s] = started[s]
        BY <2>1, <2>2, <3>2 DEF IInv, TypeOK
      <4>. QED
        BY <2>1, <3>0, <4>1 DEF Local, Telemetry, Asking, Attempt, Wrapped, WithAssertion,
                                Forced, Silent
    <3>. QED
      BY <3>1, <3>2
  <2>6. StaysInExtension'
    BY <2>1 DEF IInv, StaysInExtension
  <2>. QED
    BY <2>4, <2>5, <2>6 DEF IInv
<1>. QED
  BY <1>2, <1>3, <1>4 DEF CallerStep

\* Without the user.
LEMMA ValidatingKeeps ==
    ASSUME IInv, NEW r \in Requests, InvalidAuthority(r) \/ ValidatedAcquireToken(r)
    PROVE  IInv'
<1>1. pc[r] = "validating"
  BY DEF InvalidAuthority, ValidatedAcquireToken
<1>2. Wrapped(r) /\ started[r] = {"api", "validation"} /\ underlying[r] = "none"
  BY <1>1, OnTheWay DEF OpenAt, Attempt
<1>3. ValidationStopped \in Seq(Event) /\ Names(ValidationStopped) = {"validation"}
  BY OneStopped DEF ValidationStopped, EventNames, EventStatuses
<1>4. CASE InvalidAuthority(r)
  <2>1. "validation" \in Results
    BY DEF Results, ErrorCodes
  <2>. QED
    BY <1>1, <1>2, <1>3, <1>4, <2>1, Frame, CompleteKeeps DEF InvalidAuthority
<1>5. CASE ValidatedAcquireToken(r)
  <2>0. UNCHANGED <<inExtension, context, call, underlying, lock, left>>
    BY <1>5 DEF ValidatedAcquireToken
  <2>1. CASE call[r].entry \in RefreshTokenEntries
             /\ Continue(r, "refreshing", ValidationStopped, {})
    <3>1. "refreshing" \in Locations \ {"idle", "done"} /\ {} \in SUBSET EventNames
      BY DEF Locations
    <3>2. (started[r] \ {"validation"}) \union {} = OpenAt("refreshing")
      BY <1>2 DEF OpenAt
    <3>3. pc'[r] = "refreshing" => Asking(r)' /\ Attempt(r)'
      BY <1>2, <2>0, <2>1 DEF Asking, Attempt, PromptingAt
    <3>. QED
      BY <1>1, <1>2, <1>3, <2>0, <2>1, <3>1, <3>2, <3>3, Frame, ContinueKeeps
  <2>2. CASE Continue(r, "silent", ValidationStopped, {"silent"})
    <3>1. "silent" \in Locations \ {"idle", "done"} /\ {"silent"} \in SUBSET EventNames
      BY DEF Locations, EventNames
    <3>2. (started[r] \ {"validation"}) \union {"silent"} = OpenAt("silent")
      BY <1>2 DEF OpenAt
    <3>3. pc'[r] = "silent" => Asking(r)' /\ Attempt(r)'
      BY <1>2, <2>0 DEF Asking, Attempt, PromptingAt
    <3>. QED
      BY <1>1, <1>2, <1>3, <2>0, <2>2, <3>1, <3>2, <3>3, Frame, ContinueKeeps
  <2>3. CASE Forced(r) /\ Continue(r, "requesting", ValidationStopped, {})
    <3>1. "requesting" \in Locations \ {"idle", "done"} /\ {} \in SUBSET EventNames
      BY DEF Locations
    <3>2. (started[r] \ {"validation"}) \union {} = OpenAt("requesting")
      BY <1>2 DEF OpenAt
    <3>3. pc'[r] = "requesting" => Asking(r)' /\ Attempt(r)'
      BY <1>2, <2>0, <2>3 DEF Asking, Attempt, PromptingAt, Forced
    <3>. QED
      BY <1>1, <1>2, <1>3, <2>0, <2>3, <3>1, <3>2, <3>3, Frame, ContinueKeeps
  <2>. QED
    BY <1>5, <2>1, <2>2, <2>3 DEF ValidatedAcquireToken
<1>. QED
  BY <1>4, <1>5

\* The kinds of entry points are told apart by their ids.
LEMMA KindsDiffer ==
    /\ \A e \in SilentEntries : e \notin AssertionEntries /\ e \notin RefreshTokenEntries
    /\ \A e \in AssertionEntries : e \notin SilentEntries
    /\ \A e \in RefreshTokenEntries : e \notin SilentEntries
BY DEF SilentEntries, AssertionEntries, RefreshTokenEntries

LEMMA SilentKeeps ==
    ASSUME IInv, NEW r \in Requests, SilentFinal(r) \/ SilentNotFinal(r)
    PROVE  IInv'
<1>1. pc[r] = "silent"
  BY DEF SilentFinal, SilentNotFinal
<1>2. Wrapped(r) /\ started[r] = {"api", "silent"}
  BY <1>1, OnTheWay DEF OpenAt
<1>3. SilentStopped \in Seq(Event) /\ Names(SilentStopped) = {"silent"}
  BY OneStopped DEF SilentStopped, EventNames, EventStatuses
<1>4. CASE SilentFinal(r)
  <2>1. PICK res \in SilentResults \ NotFinal :
            underlying' = [underlying EXCEPT ![r] = res] /\ Complete(r, SilentStopped, res)
    BY <1>4 DEF SilentFinal
  <2>2. res \in Results
    BY <2>1 DEF SilentResults, NotFinal, Results, ErrorCodes
  <2>3. underlying' \in [Requests -> SilentResults \union {"none"}] /\ underlying'[r] = res
        /\ \A other \in Requests \ {r} : underlying'[other] = underlying[other]
    BY <2>1, Frame
  <2>4. UNCHANGED <<inExtension, context, call, lock, left>>
    BY <1>4 DEF SilentFinal
  <2>. QED
    BY <1>1, <1>2, <1>3, <2>1, <2>2, <2>3, <2>4, Frame, CompleteKeeps
<1>5. CASE SilentNotFinal(r)
  <2>1. PICK res \in NotFinal : underlying' = [underlying EXCEPT ![r] = res]
    BY <1>5 DEF SilentNotFinal
  <2>2. underlying' \in [Requests -> SilentResults \union {"none"}] /\ underlying'[r] = res
        /\ \A other \in Requests \ {r} : underlying'[other] = underlying[other]
    BY <2>1, Frame DEF SilentResults
  <2>3. UNCHANGED <<inExtension, context, call, lock, left>>
        /\ Continue(r, "requesting", SilentStopped, {})
    BY <1>5 DEF SilentNotFinal
  <2>4. pc'[r] = "requesting" => Asking(r)' /\ Attempt(r)'
    BY <2>1, <2>2 DEF Asking, Attempt, PromptingAt
  <2>5. "requesting" \in Locations \ {"idle", "done"} /\ {} \in SUBSET EventNames
    BY DEF Locations
  <2>6. (started[r] \ {"silent"}) \union {} = OpenAt("requesting")
    BY <1>2 DEF OpenAt
  <2>. QED
    BY <1>1, <1>2, <1>3, <2>2, <2>3, <2>4, <2>5, <2>6, Frame, ContinueKeeps
<1>. QED
  BY <1>4, <1>5

\* The calls that end without the user, and those that are not let ask.
LEMMA AloneKeeps ==
    ASSUME IInv, NEW r \in Requests,
           RefreshTokenTried(r) \/ AssertionTried(r) \/ NoUserWanted(r)
             \/ NoUIInExtension(r) \/ Refused(r)
    PROVE  IInv'
<1>1. pc[r] \in {"refreshing", "assertion", "requesting"}
      /\ UNCHANGED <<inExtension, context, call, underlying, lock, left>>
  BY DEF RefreshTokenTried, AssertionTried, NoUserWanted, NoUIInExtension, Refused,
         MayAsk, Interactive
<1>2. Wrapped(r) /\ started[r] = {"api"} /\ Attempt(r)
  BY <1>1, OnTheWay DEF OpenAt
<1>3. PICK res \in Results : Complete(r, <<>>, res)
        /\ (call[r].entry \in SilentEntries =>
             (res = "SERVER_PROTECTION_POLICY_REQUIRED"
                <=> underlying[r] = "SERVER_PROTECTION_POLICY_REQUIRED"))
  <2>1. CASE RefreshTokenTried(r)
    <3>1. call[r].entry \notin SilentEntries
      BY <1>2, <2>1, KindsDiffer DEF RefreshTokenTried, Attempt
    <3>2. SilentResults \subseteq Results
      BY DEF SilentResults, NotFinal, Results, ErrorCodes
    <3>. QED
      BY <2>1, <3>1, <3>2 DEF RefreshTokenTried
  <2>2. CASE AssertionTried(r)
    <3>1. call[r].entry \notin SilentEntries
      BY <1>2, <2>2, KindsDiffer DEF AssertionTried, Attempt, WithAssertion
    <3>2. Redeemed \subseteq Results
      BY DEF Redeemed, Results, ErrorCodes
    <3>. QED
      BY <2>2, <3>1, <3>2 DEF AssertionTried
  <2>3. CASE NoUserWanted(r)
    <3>1. SilentError(r) \in Results
          /\ (SilentError(r) = "SERVER_PROTECTION_POLICY_REQUIRED"
                <=> underlying[r] = "SERVER_PROTECTION_POLICY_REQUIRED")
      BY DEF SilentError, Results, ErrorCodes
    <3>. QED
      BY <2>3, <3>1 DEF NoUserWanted
  <2>4. CASE NoUIInExtension(r) \/ Refused(r)
    <3>1. call[r].entry \notin SilentEntries
      BY <2>4 DEF NoUIInExtension, Refused, MayAsk, Interactive, Silent
    <3>2. {"UI_NOT_SUPPORTED_IN_APP_EXTENSION", "UI_MULTLIPLE_INTERACTIVE_REQUESTS"}
            \subseteq Results
      BY DEF Results, ErrorCodes
    <3>. QED
      BY <2>4, <3>1, <3>2 DEF NoUIInExtension, Refused
  <2>. QED
    BY <2>1, <2>2, <2>3, <2>4
<1>. QED
  BY <1>1, <1>2, <1>3, NoneStopped, Frame, CompleteKeeps

LEMMA AssertionKeeps ==
    ASSUME IInv, NEW r \in Requests, RequestByAssertion(r)
    PROVE  IInv'
<1>1. pc[r] = "requesting" /\ WithAssertion(r) /\ Continue(r, "assertion", <<>>, {})
      /\ UNCHANGED <<inExtension, context, call, underlying, lock, left>>
  BY DEF RequestByAssertion
<1>2. Wrapped(r) /\ started[r] = {"api"}
  BY <1>1, OnTheWay DEF OpenAt
<1>3. pc'[r] = "assertion" => Asking(r)' /\ Attempt(r)'
  BY <1>1 DEF Asking, Attempt, PromptingAt, WithAssertion
<1>4. "assertion" \in Locations \ {"idle", "done"} /\ {} \in SUBSET EventNames
      /\ (started[r] \ {}) \union {} = OpenAt("assertion")
  BY <1>2 DEF Locations, OpenAt
<1>. QED
  BY <1>1, <1>2, <1>3, <1>4, NoneStopped, Frame, ContinueKeeps

\* The steps that take the lock.
LEMMA AskKeeps ==
    ASSUME IInv, NEW r \in Requests, ComposeFails(r) \/ InvokeBroker(r) \/ RequestCode(r)
    PROVE  IInv'
<1>1. /\ pc[r] = "requesting" /\ ~Silent(r) /\ ~WithAssertion(r)
      /\ lock = None /\ lock' = r
      /\ UNCHANGED <<inExtension, context, call, underlying>>
  BY DEF ComposeFails, InvokeBroker, RequestCode, MayAsk, Interactive, TakeExclusionLock
<1>2. Wrapped(r) /\ started[r] = {"api"} /\ Asking(r)
  BY <1>1, OnTheWay DEF OpenAt
<1>3. CASE InvokeBroker(r)
  <2>1. Continue(r, "broker", <<>>, {"broker"}) /\ ~inExtension /\ left' = left \union {r}
    BY <1>3 DEF InvokeBroker, CanUseBroker
  <2>2. pc'[r] = "broker" => Asking(r)' /\ Attempt(r)'
    BY <1>1, <1>2 DEF Asking, Attempt, PromptingAt, Silent, WithAssertion, Forced
  <2>3. "broker" \in Locations \ {"idle", "done"} /\ {"broker"} \in SUBSET EventNames
        /\ (started[r] \ {}) \union {"broker"} = OpenAt("broker")
    BY <1>2 DEF Locations, PromptingAt, EventNames, OpenAt
  <2>. QED
    BY <1>1, <1>2, <2>1, <2>2, <2>3, NoneStopped, Frame, ContinueKeeps
<1>4. CASE RequestCode(r)
  <2>1. Continue(r, "webview", <<>>, {"code"}) /\ UNCHANGED left
    BY <1>4 DEF RequestCode
  <2>2. pc'[r] = "webview" => Asking(r)' /\ Attempt(r)'
    BY <1>1, <1>2 DEF Asking, Attempt, PromptingAt, Silent, WithAssertion, Forced
  <2>3. "webview" \in Locations \ {"idle", "done"} /\ {"code"} \in SUBSET EventNames
        /\ (started[r] \ {}) \union {"code"} = OpenAt("webview")
    BY <1>2 DEF Locations, PromptingAt, EventNames, OpenAt
  <2>. QED
    BY <1>1, <1>2, <2>1, <2>2, <2>3, NoneStopped, Frame, ContinueKeeps
<1>5. CASE ComposeFails(r)
  <2>1. PICK res \in {"TOKENBROKER_INVALID_REDIRECT_URI", "UNEXPECTED"} : Complete(r, <<>>, res)
    BY <1>5 DEF ComposeFails
  <2>2. res \in Results /\ UNCHANGED left
    BY <1>5, <2>1 DEF ComposeFails, Results, ErrorCodes
  <2>3. call[r].entry \notin SilentEntries
    BY <1>1 DEF Silent
  <2>. QED
    BY <1>1, <1>2, <2>1, <2>2, <2>3, NoneStopped, Frame, CompleteKeeps
<1>. QED
  BY <1>3, <1>4, <1>5

\* With the user's answer, or the broker's: the steps that end the call.
LEMMA AnsweredEnds ==
    ASSUME IInv, NEW r \in Requests,
           BrokerAnswers(r) \/ Replayed(r) \/ WebviewFails(r) \/ OpenBrowser(r)
             \/ InstallFails(r) \/ InstallAnswers(r) \/ LockedReplayed(r) \/ CodeRedeemed(r)
    PROVE  IInv'
<1>1. pc[r] \in PromptingAt \union {"redeeming", "replaying", "lockedReplay"}
      /\ UNCHANGED <<inExtension, context, call, underlying>>
  BY DEF BrokerAnswers, Replayed, WebviewFails, OpenBrowser, InstallFails, InstallAnswers,
         LockedReplayed, CodeRedeemed, PromptingAt
<1>2. Wrapped(r) /\ started[r] = OpenAt(pc[r]) /\ Asking(r)
  BY <1>1, OnTheWay DEF PromptingAt
<1>3. call[r].entry \notin SilentEntries
  BY <1>1, <1>2 DEF Asking, Silent
<1>4. lock' \in {lock, None} /\ (lock' # lock => lock = r)
      /\ left' \subseteq Requests /\ (inExtension => left' = {})
  BY <1>2, Frame DEF Asking, PromptingAt, BrokerAnswers, Replayed, WebviewFails, OpenBrowser,
         InstallFails, InstallAnswers, LockedReplayed, CodeRedeemed
<1>5. PICK events \in Seq(Event), res \in Results :
          Complete(r, events, res) /\ started[r] \subseteq {"api"} \union Names(events)
  <2>1. CASE BrokerAnswers(r)
    <3>1. PICK res \in BrokerResults : Complete(r, BrokerStopped(StatusOf(res)), res)
      BY <2>1 DEF BrokerAnswers
    <3>2. res \in Results /\ StatusOf(res) \in EventStatuses /\ "broker" \in EventNames
      BY DEF BrokerResults, Results, ErrorCodes, StatusOf, EventStatuses, Statuses, EventNames
    <3>3. BrokerStopped(StatusOf(res)) \in Seq(Event)
          /\ Names(BrokerStopped(StatusOf(res))) = {"broker"}
      BY <3>2, OneStopped DEF BrokerStopped
    <3>4. started[r] = {"api", "broker"}
      BY <1>2, <2>1 DEF BrokerAnswers, OpenAt
    <3>. QED
      BY <3>1, <3>2, <3>3, <3>4
  <2>2. CASE Replayed(r) \/ LockedReplayed(r)
    <3>1. PICK res \in SilentResults : Complete(r, SilentStopped, res)
      BY <2>2 DEF Replayed, LockedReplayed
    <3>2. res \in Results
      BY DEF SilentResults, NotFinal, Results, ErrorCodes
    <3>3. SilentStopped \in Seq(Event) /\ Names(SilentStopped) = {"silent"}
      BY OneStopped DEF SilentStopped, EventNames, EventStatuses
    <3>4. started[r] = {"api", "silent"}
      BY <1>2, <2>2 DEF Replayed, LockedReplayed, OpenAt
    <3>. QED
      BY <3>1, <3>2, <3>3, <3>4
  <2>3. CASE WebviewFails(r) \/ OpenBrowser(r) \/ InstallFails(r)
    <3>1. PICK status \in EventStatuses, res \in Results : Complete(r, CodeStopped(status), res)
      <4>1. {"cancelled", "SERVER_OAUTH", "other", "UNEXPECTED", "TOKENBROKER_INVALID_REDIRECT_URI",
              "UI_NOT_SUPPORTED_IN_APP_EXTENSION"} \subseteq Results
        BY DEF Results, ErrorCodes
      <4>2. {"FAILED", "USER_CANCELLED", "TRY_INSTALL"} \subseteq EventStatuses
            /\ \A res \in Results : StatusOf(res) \in EventStatuses
        BY DEF EventStatuses, Statuses, StatusOf
      <4>3. InstallStopped = CodeStopped("TRY_INSTALL")
        BY DEF InstallStopped, CodeStopped
      <4>. QED
        BY <2>3, <4>1, <4>2, <4>3 DEF WebviewFails, OpenBrowser, InstallFails
    <3>2. CodeStopped(status) \in Seq(Event) /\ Names(CodeStopped(status)) = {"code"}
      BY OneStopped DEF CodeStopped, EventNames
    <3>3. started[r] = {"api", "code"}
      BY <1>2, <2>3 DEF WebviewFails, OpenBrowser, InstallFails, OpenAt
    <3>. QED
      BY <3>1, <3>2, <3>3
  <2>4. CASE InstallAnswers(r)
    <3>1. PICK res \in BrokerResults : Complete(r, <<>>, res)
      BY <2>4 DEF InstallAnswers
    <3>2. res \in Results
      BY DEF BrokerResults, Results, ErrorCodes
    <3>3. started[r] = {"api"}
      BY <1>2, <2>4 DEF InstallAnswers, OpenAt
    <3>. QED
      BY <3>1, <3>2, <3>3, NoneStopped
  <2>5. CASE CodeRedeemed(r)
    <3>1. PICK res \in Redeemed : Complete(r, <<Stopped("grant", StatusOf(res))>>, res)
      BY <2>5 DEF CodeRedeemed
    <3>2. res \in Results /\ StatusOf(res) \in EventStatuses /\ "grant" \in EventNames
      BY DEF Redeemed, Results, ErrorCodes, StatusOf, EventStatuses, Statuses, EventNames
    <3>3. <<Stopped("grant", StatusOf(res))>> \in Seq(Event)
          /\ Names(<<Stopped("grant", StatusOf(res))>>) = {"grant"}
      BY <3>2, OneStopped
    <3>4. started[r] = {"api", "grant"}
      BY <1>2, <2>5 DEF CodeRedeemed, OpenAt
    <3>. QED
      BY <3>1, <3>2, <3>3, <3>4
  <2>. QED
    BY <2>1, <2>2, <2>3, <2>4, <2>5
<1>6. pc[r] # "done"
  BY <1>1 DEF PromptingAt
<1>. QED
  BY <1>1, <1>2, <1>3, <1>4, <1>5, <1>6, Frame, CompleteKeeps

\* The steps after which there is something left to do.
LEMMA AnsweredGoesOn ==
    ASSUME IInv, NEW r \in Requests,
           BrokerGivesNoAccessToken(r) \/ InstallPrompted(r) \/ InstallInExtension(r)
             \/ InstallGivesNoAccessToken(r) \/ GotCode(r)
    PROVE  IInv'
<1>1. pc[r] \in PromptingAt /\ UNCHANGED <<inExtension, context, call, underlying>>
  BY DEF BrokerGivesNoAccessToken, InstallPrompted, InstallInExtension,
         InstallGivesNoAccessToken, GotCode, PromptingAt
<1>2. Wrapped(r) /\ started[r] = OpenAt(pc[r]) /\ Asking(r)
  BY <1>1, OnTheWay DEF PromptingAt
<1>3. ~Silent(r) /\ ~WithAssertion(r) /\ lock = r
      /\ (~Forced(r) => underlying[r] \in NotFinal)
  BY <1>1, <1>2 DEF Asking
<1>4. /\ CodeStopped("SUCCEEDED") \in Seq(Event) /\ Names(CodeStopped("SUCCEEDED")) = {"code"}
      /\ BrokerStopped("SUCCEEDED") \in Seq(Event) /\ Names(BrokerStopped("SUCCEEDED")) = {"broker"}
      /\ InstallStopped \in Seq(Event) /\ Names(InstallStopped) = {"code"}
  BY OneStopped DEF CodeStopped, BrokerStopped, InstallStopped, EventNames, EventStatuses, Statuses
<1>5. CASE BrokerGivesNoAccessToken(r)
  <2>1. /\ Continue(r, "replaying", BrokerStopped("SUCCEEDED"), {"silent"})
        /\ lock' = None /\ UNCHANGED left /\ started[r] = {"api", "broker"}
    BY <1>2, <1>5 DEF BrokerGivesNoAccessToken, OpenAt
  <2>2. pc'[r] = "replaying" => Asking(r)' /\ Attempt(r)'
    BY <1>1, <1>3 DEF Asking, Attempt, PromptingAt, Silent, WithAssertion
  <2>3. "replaying" \in Locations \ {"idle", "done"} /\ {"silent"} \in SUBSET EventNames
        /\ (started[r] \ {"broker"}) \union {"silent"} = OpenAt("replaying")
    BY <2>1 DEF Locations, EventNames, OpenAt
  <2>. QED
    BY <1>1, <1>2, <1>3, <1>4, <2>1, <2>2, <2>3, Frame, ContinueKeeps DEF PromptingAt
<1>6. CASE InstallPrompted(r)
  <2>1. /\ Continue(r, "install", InstallStopped, {}) /\ ~inExtension
        /\ left' = left \union {r} /\ UNCHANGED lock /\ started[r] = {"api", "code"}
    BY <1>2, <1>6 DEF InstallPrompted, OpenAt
  <2>2. pc'[r] = "install" => Asking(r)' /\ Attempt(r)'
    BY <1>1, <1>3, <2>1 DEF Asking, Attempt, PromptingAt, Silent, WithAssertion, Forced
  <2>3. "install" \in Locations \ {"idle", "done"} /\ {} \in SUBSET EventNames
        /\ (started[r] \ {"code"}) \union {} = OpenAt("install")
    BY <2>1 DEF Locations, PromptingAt, OpenAt
  <2>. QED
    BY <1>1, <1>2, <1>4, <2>1, <2>2, <2>3, Frame, ContinueKeeps DEF PromptingAt
<1>7. CASE InstallInExtension(r)
  <2>1. /\ Continue(r, "lockedReplay", InstallStopped, {"silent"})
        /\ UNCHANGED <<lock, left>> /\ started[r] = {"api", "code"}
    BY <1>2, <1>7 DEF InstallInExtension, OpenAt
  <2>2. pc'[r] = "lockedReplay" => Asking(r)' /\ Attempt(r)'
    BY <1>1, <1>3, <2>1 DEF Asking, Attempt, PromptingAt, Silent, WithAssertion
  <2>3. "lockedReplay" \in Locations \ {"idle", "done"} /\ {"silent"} \in SUBSET EventNames
        /\ (started[r] \ {"code"}) \union {"silent"} = OpenAt("lockedReplay")
    BY <2>1 DEF Locations, EventNames, OpenAt
  <2>. QED
    BY <1>1, <1>2, <1>4, <2>1, <2>2, <2>3, Frame, ContinueKeeps DEF PromptingAt
<1>8. CASE InstallGivesNoAccessToken(r)
  <2>1. /\ Continue(r, "lockedReplay", <<>>, {"silent"})
        /\ UNCHANGED <<lock, left>> /\ started[r] = {"api"}
    BY <1>2, <1>8 DEF InstallGivesNoAccessToken, OpenAt
  <2>2. pc'[r] = "lockedReplay" => Asking(r)' /\ Attempt(r)'
    BY <1>1, <1>3, <2>1 DEF Asking, Attempt, PromptingAt, Silent, WithAssertion
  <2>3. "lockedReplay" \in Locations \ {"idle", "done"} /\ {"silent"} \in SUBSET EventNames
        /\ (started[r] \ {}) \union {"silent"} = OpenAt("lockedReplay")
    BY <2>1 DEF Locations, EventNames, OpenAt
  <2>. QED
    BY <1>1, <1>2, NoneStopped, <2>1, <2>2, <2>3, Frame, ContinueKeeps DEF PromptingAt
<1>9. CASE GotCode(r)
  <2>1. /\ Continue(r, "redeeming", CodeStopped("SUCCEEDED"), {"grant"})
        /\ UNCHANGED <<lock, left>> /\ started[r] = {"api", "code"}
    BY <1>2, <1>9 DEF GotCode, OpenAt
  <2>2. pc'[r] = "redeeming" => Asking(r)' /\ Attempt(r)'
    BY <1>1, <1>3, <2>1 DEF Asking, Attempt, PromptingAt, Silent, WithAssertion
  <2>3. "redeeming" \in Locations \ {"idle", "done"} /\ {"grant"} \in SUBSET EventNames
        /\ (started[r] \ {"code"}) \union {"grant"} = OpenAt("redeeming")
    BY <2>1 DEF Locations, EventNames, OpenAt
  <2>. QED
    BY <1>1, <1>2, <1>4, <2>1, <2>2, <2>3, Frame, ContinueKeeps DEF PromptingAt
<1>. QED
  BY <1>5, <1>6, <1>7, <1>8, <1>9

\* The settings only matter to later steps.
LEMMA SettingsKeep ==
    ASSUME IInv, ChangeSettings
    PROVE  IInv'
<1>1. TypeOK'
  BY DEF IInv, TypeOK, ChangeSettings, telemetry
<1>2. \A r \in Requests : Local(r)'
  BY DEF IInv, ChangeSettings, telemetry, Local, Telemetry, Asking, Attempt, Wrapped,
         WithAssertion, Forced, Silent
<1>3. StaysInExtension'
  BY DEF IInv, ChangeSettings, StaysInExtension
<1>. QED
  BY <1>1, <1>2, <1>3 DEF IInv

LEMMA NextKeeps == IInv /\ [Next]_vars => IInv'
<1> SUFFICES ASSUME IInv, [Next]_vars PROVE IInv'
  OBVIOUS
<1>1. CASE UNCHANGED vars
  BY <1>1 DEF IInv, vars, telemetry, TypeOK, Local, Telemetry, Asking, Attempt, Wrapped,
              WithAssertion, Forced, Silent, StaysInExtension
<1>2. ASSUME NEW r \in Requests, OwnStep(r)
      PROVE  IInv'
  BY <1>2, ValidatingKeeps, SilentKeeps, AloneKeeps, AssertionKeeps, AskKeeps, AnsweredEnds
     DEF OwnStep
<1>3. ASSUME NEW r \in Requests, UserStep(r)
      PROVE  IInv'
  BY <1>3, AnsweredEnds, AnsweredGoesOn DEF UserStep
<1>. QED
  BY <1>1, <1>2, <1>3, CallerKeeps, SettingsKeep DEF Next

\* Every reachable state satisfies IInv.
THEOREM IInvAlways == Spec => []IInv
BY InitIInv, NextKeeps, PTL DEF Spec

-----------------------------------------------------------------------------
\* Every variable of the front end keeps its type, the lists of events and
\* summaries included.
THEOREM TypesKept == Spec => []TypeOK
<1>1. IInv => TypeOK
  BY DEF IInv
<1>. QED
  BY <1>1, IInvAlways, PTL

\* A call sends exactly one summary, when it ends, and leaves no event open.
THEOREM OneSummaryAlways == Spec => []OneSummaryPerCall
<1>1. IInv => OneSummaryPerCall
  <2> SUFFICES ASSUME IInv, NEW r \in Requests
               PROVE  /\ Len(dispatched[r]) = IF pc[r] = "done" /\ Wrapped(r) THEN 1 ELSE 0
                      /\ pc[r] = "done" =>
                           /\ received[r] = <<>>
                           /\ started[r] = IF call[r].fault = "resource" /\ ~WithAssertion(r)
                                           THEN {"api"} ELSE {}
    BY DEF OneSummaryPerCall
  <2>1. Telemetry(r)
    BY DEF IInv, Local
  <2>2. Wrapped(r) => call[r].fault # "resource"
    BY DEF Wrapped
  <2>. QED
    BY <2>1, <2>2 DEF Telemetry
<1>. QED
  BY <1>1, IInvAlways, PTL

\* The summary says what the app was told.
THEOREM SummaryAlwaysTellsResult == Spec => []SummaryTellsResult
<1>1. IInv => SummaryTellsResult
  BY DEF IInv, Local, Telemetry, SummaryTellsResult
<1>. QED
  BY <1>1, IInvAlways, PTL

\* The user is only asked by a call that may and holds the lock, as a last resort.
THEOREM PromptAlwaysLastResort == Spec => []PromptIsLastResort
<1>1. IInv => PromptIsLastResort
  BY DEF IInv, Local, Asking, PromptIsLastResort
<1>. QED
  BY <1>1, IInvAlways, PTL

\* An app extension opens no other app, however the settings change.
THEOREM AlwaysStaysInExtension == Spec => []StaysInExtension
<1>1. IInv => StaysInExtension
  BY DEF IInv
<1>. QED
  BY <1>1, IInvAlways, PTL

\* A silent call passes the policy error on, and invents none.
THEOREM PolicyErrorAlwaysReachesCaller == Spec => []PolicyErrorReachesCaller
<1>1. IInv => PolicyErrorReachesCaller
  BY DEF IInv, Local, Attempt, PolicyErrorReachesCaller
<1>. QED
  BY <1>1, IInvAlways, PTL

-----------------------------------------------------------------------------
\* The phase of each call, as ImplementsTokenCall maps it.
Phase == [r \in Requests |->
    IF pc[r] \in PromptingAt THEN "prompting"
    ELSE IF pc[r] \in {"redeeming", "replaying", "lockedReplay"} THEN "answered"
    ELSE IF pc[r] = "done" THEN "ended"
    ELSE IF pc[r] = "idle" THEN "idle" ELSE "running"]

\* An action that takes one call to a location maps to that call's phase.
LEMMA PhaseMoves ==
    ASSUME TypeOK, NEW r \in Requests, NEW location, pc' = [pc EXCEPT ![r] = location]
    PROVE  Phase' = [Phase EXCEPT ![r] =
             IF location \in PromptingAt THEN "prompting"
             ELSE IF location \in {"redeeming", "replaying", "lockedReplay"} THEN "answered"
             ELSE IF location = "done" THEN "ended"
             ELSE IF location = "idle" THEN "idle" ELSE "running"]
<1>1. pc'[r] = location /\ \A s \in Requests \ {r} : pc'[s] = pc[s]
  BY DEF TypeOK
<1>. QED
  BY <1>1 DEF Phase

\* The two ways a step of r takes it on, as far as its result goes.
GoesOn(r, location) == Goto(r, location) /\ UNCHANGED result

IsTold(r, res) == Goto(r, "done") /\ result' = [result EXCEPT ![r] = res]

\* A step that ends the call with what a call may be told that came so far.
EndsInPhase(r) ==
    \E from \in TC!Phases \ {"ended"}, res \in Results :
        Phase[r] = from /\ res \in TC!MayTell(from) /\ IsTold(r, res)

\* The end of a call is one of TokenCall.
LEMMA EndMaps ==
    ASSUME TypeOK, NEW r \in Requests, EndsInPhase(r)
    PROVE  TC!Next
<1>1. PICK from \in TC!Phases \ {"ended"}, res \in Results :
        Phase[r] = from /\ res \in TC!MayTell(from) /\ IsTold(r, res)
  BY DEF EndsInPhase
<1>2. Phase' = [Phase EXCEPT ![r] = "ended"]
  BY <1>1, PhaseMoves DEF PromptingAt, IsTold, Goto
<1>3. TC!Move(r, from, "ended")
  BY <1>1, <1>2 DEF TC!Move, Phase
<1>4. TC!End(r)
  BY <1>1, <1>3 DEF TC!End, IsTold
<1>. QED
  BY <1>4 DEF TC!Next

\* What each action that ends a call tells it, by how far the call came.  First the
\* calls that are refused before they run.
LEMMA RefusalTold ==
    ASSUME TypeOK, NEW r \in Requests, CallerStep(r), ~PassChecks(r)
    PROVE  EndsInPhase(r)
<1>1. pc[r] = "idle"
  BY DEF CallerStep, RefuseAtEntry, MissingResource, FailChecks, Checked
<1>2. Phase[r] = "idle"
  BY <1>1 DEF Phase, PromptingAt
<1>3. \E res \in TC!Refusals : IsTold(r, res)
  BY DEF CallerStep, RefuseAtEntry, MissingResource, FailChecks, Objection, Complete, IsTold,
         TC!Refusals
<1>4. TC!Refusals \subseteq Results /\ TC!MayTell("idle") = TC!Refusals
  BY DEF TC!Refusals, TC!MayTell, Results, ErrorCodes
<1>. QED
  BY <1>2, <1>3, <1>4 DEF EndsInPhase, TC!Phases

LEMMA RunningTold ==
    ASSUME TypeOK, NEW r \in Requests,
           \/ InvalidAuthority(r) \/ RefreshTokenTried(r) \/ SilentFinal(r)
           \/ AssertionTried(r) \/ NoUserWanted(r) \/ NoUIInExtension(r)
           \/ Refused(r) \/ ComposeFails(r)
    PROVE  EndsInPhase(r)
<1>1. pc[r] \in {"validating", "refreshing", "silent", "assertion", "requesting"}
  BY DEF InvalidAuthority, RefreshTokenTried, SilentFinal, AssertionTried, NoUserWanted,
         NoUIInExtension, Refused, ComposeFails, MayAsk, Interactive
<1>2. Phase[r] = "running"
  BY <1>1 DEF Phase, PromptingAt
<1>3. TC!MayTell("running") = TC!Redeemed \union
        {"validation", "SERVER_USER_INPUT_NEEDED", "UI_MULTLIPLE_INTERACTIVE_REQUESTS",
         "UI_NOT_SUPPORTED_IN_APP_EXTENSION", "TOKENBROKER_INVALID_REDIRECT_URI"}
  BY DEF TC!MayTell
<1>4. TC!MayTell("running") \subseteq Results
  BY <1>3 DEF TC!Redeemed, Results, ErrorCodes
<1>5. \E res \in TC!MayTell("running") : IsTold(r, res)
  <2>1. CASE InvalidAuthority(r) \/ RefreshTokenTried(r) \/ SilentFinal(r) \/ AssertionTried(r)
    BY <1>3, <2>1 DEF InvalidAuthority, RefreshTokenTried, SilentFinal, AssertionTried,
       SilentResults, NotFinal, Redeemed, TC!Redeemed, Complete, IsTold
  <2>2. CASE NoUserWanted(r) \/ NoUIInExtension(r) \/ Refused(r) \/ ComposeFails(r)
    BY <1>3, <2>2 DEF NoUserWanted, NoUIInExtension, Refused, ComposeFails, SilentError,
       TC!Redeemed, Complete, IsTold
  <2>. QED
    BY <2>1, <2>2
<1>. QED
  BY <1>2, <1>4, <1>5 DEF EndsInPhase, TC!Phases

LEMMA PromptingTold ==
    ASSUME TypeOK, NEW r \in Requests,
           \/ BrokerAnswers(r) \/ WebviewFails(r) \/ OpenBrowser(r)
           \/ InstallFails(r) \/ InstallAnswers(r)
    PROVE  EndsInPhase(r)
<1>1. pc[r] \in PromptingAt
  BY DEF BrokerAnswers, WebviewFails, OpenBrowser, InstallFails, InstallAnswers, PromptingAt
<1>2. Phase[r] = "prompting"
  BY <1>1 DEF Phase
<1>3. TC!MayTell("prompting") =
        {"succeeded", "cancelled", "SERVER_OAUTH", "UNEXPECTED", "other",
         "UI_NOT_SUPPORTED_IN_APP_EXTENSION", "TOKENBROKER_INVALID_REDIRECT_URI"}
  BY DEF TC!MayTell
<1>4. TC!MayTell("prompting") \subseteq Results
  BY <1>3 DEF Results, ErrorCodes
<1>5. \E res \in TC!MayTell("prompting") : IsTold(r, res)
  BY <1>3 DEF BrokerAnswers, WebviewFails, OpenBrowser, InstallFails, InstallAnswers,
     BrokerResults, Complete, IsTold
<1>. QED
  BY <1>2, <1>4, <1>5 DEF EndsInPhase, TC!Phases

LEMMA AnsweredTold ==
    ASSUME TypeOK, NEW r \in Requests, Replayed(r) \/ LockedReplayed(r) \/ CodeRedeemed(r)
    PROVE  EndsInPhase(r)
<1>1. pc[r] \in {"redeeming", "replaying", "lockedReplay"}
  BY DEF Replayed, LockedReplayed, CodeRedeemed
<1>2. Phase[r] = "answered"
  BY <1>1 DEF Phase, PromptingAt
<1>3. TC!MayTell("answered") = TC!Redeemed \union {"nil"}
  BY DEF TC!MayTell
<1>4. TC!MayTell("answered") \subseteq Results
  BY <1>3 DEF TC!Redeemed, Results, ErrorCodes
<1>5. \E res \in TC!MayTell("answered") : IsTold(r, res)
  BY <1>3 DEF Replayed, LockedReplayed, CodeRedeemed, SilentResults, NotFinal, Redeemed,
     TC!Redeemed, Complete, IsTold
<1>. QED
  BY <1>2, <1>4, <1>5 DEF EndsInPhase, TC!Phases

\* The calls implement TokenCall: one end and one result, at most one prompt for each
\* call, one prompt at a time, and no result that belies how far the call came.
THEOREM TokenCallImplemented == Spec => ImplementsTokenCall
<1>1. Init => TC!Init
  BY DEF Init, TC!Init, PromptingAt
<1>2. ASSUME IInv, Next
      PROVE  TC!Next \/ UNCHANGED <<Phase, result>>
  <2>1. TypeOK
    BY <1>2 DEF IInv
  <2>2. CASE ChangeSettings
    BY <2>2 DEF ChangeSettings, Phase
  <2>3. ASSUME NEW r \in Requests, PassChecks(r)
        PROVE  TC!Next
    <3>1. pc[r] = "idle" /\ \E location \in {"validating"} : GoesOn(r, location)
      BY <2>3 DEF PassChecks, Checked, Continue, GoesOn
    <3>2. Phase' = [Phase EXCEPT ![r] = "running"]
      BY <2>1, <3>1, PhaseMoves DEF PromptingAt, GoesOn, Goto
    <3>3. TC!Begin(r)
      BY <3>1, <3>2 DEF TC!Begin, TC!Move, Phase, PromptingAt, GoesOn
    <3>. QED
      BY <3>3 DEF TC!Next
  <2>4. ASSUME NEW r \in Requests, OwnStep(r) \/ UserStep(r)
        PROVE  TC!Next \/ UNCHANGED <<Phase, result>>
    <3>1. CASE EndsInPhase(r)
      BY <2>1, <3>1, EndMaps
    <3>2. CASE InvokeBroker(r) \/ RequestCode(r)
      <4>1. /\ pc[r] = "requesting" /\ lock = None
            /\ \E location \in {"broker", "webview"} : GoesOn(r, location)
        BY <3>2 DEF InvokeBroker, RequestCode, MayAsk, Interactive, TakeExclusionLock,
                    Continue, GoesOn
      <4>2. Phase' = [Phase EXCEPT ![r] = "prompting"]
        BY <2>1, <4>1, PhaseMoves DEF PromptingAt, GoesOn, Goto
      <4>3. \A other \in Requests : pc[other] \notin PromptingAt
        BY <1>2, <4>1, NoneAssumption DEF IInv, Local, Asking
      <4>4. TC!Prompt(r)
        BY <4>1, <4>2, <4>3 DEF TC!Prompt, TC!Move, Phase, PromptingAt, GoesOn
      <4>. QED
        BY <4>4 DEF TC!Next
    <3>3. CASE BrokerGivesNoAccessToken(r) \/ GotCode(r) \/ InstallInExtension(r)
                 \/ InstallGivesNoAccessToken(r)
      <4>1. /\ pc[r] \in PromptingAt
            /\ \E location \in {"replaying", "redeeming", "lockedReplay"} :
                  GoesOn(r, location)
        BY <3>3 DEF BrokerGivesNoAccessToken, GotCode, InstallInExtension,
                    InstallGivesNoAccessToken, Continue, GoesOn, PromptingAt
      <4>2. Phase' = [Phase EXCEPT ![r] = "answered"]
        BY <2>1, <4>1, PhaseMoves DEF PromptingAt, GoesOn, Goto
      <4>3. TC!Answer(r)
        BY <4>1, <4>2 DEF TC!Answer, TC!Move, Phase, GoesOn
      <4>. QED
        BY <4>3 DEF TC!Next
    <3>4. CASE ValidatedAcquireToken(r) \/ SilentNotFinal(r) \/ RequestByAssertion(r)
      <4>1. /\ pc[r] \in {"validating", "silent", "requesting"}
            /\ \E location \in {"refreshing", "silent", "requesting", "assertion"} :
                  GoesOn(r, location)
        BY <3>4 DEF ValidatedAcquireToken, SilentNotFinal, RequestByAssertion, Continue, GoesOn
      <4>2. Phase' = [Phase EXCEPT ![r] = "running"] /\ Phase[r] = "running"
        BY <2>1, <4>1, PhaseMoves DEF PromptingAt, Phase, GoesOn, Goto
      <4>. QED
        BY <4>1, <4>2 DEF Phase, GoesOn
    <3>5. CASE InstallPrompted(r)
      <4>1. pc[r] = "webview" /\ GoesOn(r, "install")
        BY <3>5 DEF InstallPrompted, Continue, GoesOn
      <4>2. Phase' = [Phase EXCEPT ![r] = "prompting"] /\ Phase[r] = "prompting"
        BY <2>1, <4>1, PhaseMoves DEF PromptingAt, Phase, GoesOn, Goto
      <4>. QED
        BY <4>1, <4>2 DEF Phase, GoesOn
    <3>. QED
      BY <2>1, <2>4, <3>1, <3>2, <3>3, <3>4, <3>5, RunningTold, PromptingTold, AnsweredTold
         DEF OwnStep, UserStep
  <2>. QED
    BY <1>2, <2>1, <2>2, <2>3, <2>4, RefusalTold, EndMaps DEF Next, CallerStep
<1>3. ASSUME IInv, [Next]_vars
      PROVE  [TC!Next]_<<Phase, result>>
  BY <1>2, <1>3 DEF vars, Phase
<1>. QED
  BY <1>1, <1>3, IInvAlways, PTL DEF Spec, ImplementsTokenCall, TC!Spec, Phase

-----------------------------------------------------------------------------
\* The app is told nothing before its call ends; and the lock is with a call that
\* asks the user, redeems the answer, or has ended without giving it back.
Holding == PromptingAt \union {"redeeming", "lockedReplay", "done"}

LockInv == \A r \in Requests :
    /\ pc[r] # "done" => result[r] = "none"
    /\ lock = r => pc[r] \in Holding

\* A step of r other than a refusal leaves the lock alone, takes it, or gives back
\* what it has; it does not tell the app that the user is being prompted.
LockStep(r) ==
    /\ pc[r] # "done"
    /\ \/ \E location \in Locations \ Holding :
              GoesOn(r, location) /\ lock' \in IF pc[r] \in Holding THEN {None} ELSE {lock, None}
       \/ \E location \in Holding : GoesOn(r, location)
       \/ \E res : res # "UI_MULTLIPLE_INTERACTIVE_REQUESTS" /\ IsTold(r, res)
    /\ \/ UNCHANGED lock
       \/ lock = None /\ lock' = r
       \/ lock = r /\ lock' = None

\* Steps on the thread of the caller end the call or go on without the lock.
LEMMA CallerLocks == ASSUME NEW r \in Requests, CallerStep(r) PROVE LockStep(r)
BY DEF CallerStep, RefuseAtEntry, MissingResource, FailChecks, PassChecks, Checked,
       Objection, Complete, Continue, LockStep, GoesOn, IsTold, Locations, Holding,
       PromptingAt, Goto

\* Steps that need nobody: those that ask take the lock, and two ends give it back.
LEMMA OwnLocks ==
    ASSUME NEW r \in Requests, Asking(r), OwnStep(r), ~Refused(r)
    PROVE  LockStep(r)
<1> USE DEF Complete, Continue, LockStep, GoesOn, IsTold, Locations, Holding, PromptingAt, Goto
<1>1. CASE InvalidAuthority(r) \/ ValidatedAcquireToken(r) \/ RefreshTokenTried(r)
  BY <1>1 DEF InvalidAuthority, ValidatedAcquireToken, RefreshTokenTried, SilentResults,
              NotFinal
<1>2. CASE SilentFinal(r) \/ SilentNotFinal(r) \/ RequestByAssertion(r)
             \/ AssertionTried(r) \/ Replayed(r)
  BY <1>2 DEF SilentFinal, SilentNotFinal, RequestByAssertion, AssertionTried, Replayed,
              SilentResults, NotFinal, Redeemed
<1>3. CASE NoUserWanted(r) \/ NoUIInExtension(r)
  BY <1>3 DEF NoUserWanted, NoUIInExtension, Interactive, SilentError
<1>4. CASE ComposeFails(r) \/ InvokeBroker(r) \/ RequestCode(r)
  BY <1>4 DEF ComposeFails, InvokeBroker, RequestCode, MayAsk, Interactive, TakeExclusionLock
<1>5. CASE LockedReplayed(r) \/ CodeRedeemed(r)
  BY <1>5 DEF LockedReplayed, CodeRedeemed, Asking, SilentResults, NotFinal, Redeemed
<1>. QED
  BY <1>1, <1>2, <1>3, <1>4, <1>5 DEF OwnStep

\* Whatever the user or the broker answers, the call has the lock.
LEMMA UserLocks == ASSUME NEW r \in Requests, Asking(r), UserStep(r) PROVE LockStep(r)
<1> USE DEF Complete, Continue, LockStep, GoesOn, IsTold, Locations, Holding, PromptingAt, Goto
<1>1. pc[r] \in PromptingAt /\ lock = r
  BY DEF UserStep, BrokerAnswers, BrokerGivesNoAccessToken, WebviewFails, OpenBrowser,
         GotCode, InstallFails, InstallPrompted, InstallInExtension, InstallAnswers,
         InstallGivesNoAccessToken, Asking
<1>2. CASE BrokerAnswers(r) \/ BrokerGivesNoAccessToken(r)
  BY <1>1, <1>2 DEF BrokerAnswers, BrokerGivesNoAccessToken, BrokerResults
<1>3. CASE WebviewFails(r) \/ OpenBrowser(r) \/ InstallFails(r)
  BY <1>1, <1>3 DEF WebviewFails, OpenBrowser, InstallFails
<1>4. CASE GotCode(r) \/ InstallPrompted(r) \/ InstallInExtension(r)
             \/ InstallGivesNoAccessToken(r)
  BY <1>1, <1>4 DEF GotCode, InstallPrompted, InstallInExtension, InstallGivesNoAccessToken
<1>5. CASE InstallAnswers(r)
  BY <1>1, <1>5 DEF InstallAnswers, BrokerResults
<1>. QED
  BY <1>2, <1>3, <1>4, <1>5 DEF UserStep

\* Every step of a call is a refusal or one of these.
LEMMA StepLocks ==
    ASSUME IInv, NEW r \in Requests, CallerStep(r) \/ OwnStep(r) \/ UserStep(r)
    PROVE  Refused(r) \/ LockStep(r)
<1>1. Asking(r)
  BY DEF IInv, Local
<1>. QED
  BY <1>1, CallerLocks, OwnLocks, UserLocks

\* A refusal leaves the lock with the call that has it, which is another one.
LEMMA RefusedLocks ==
    ASSUME LockInv, NEW r \in Requests, Refused(r)
    PROVE  /\ pc[r] # "done" /\ lock \notin {None, r} /\ UNCHANGED lock
           /\ IsTold(r, "UI_MULTLIPLE_INTERACTIVE_REQUESTS")
BY DEF Refused, MayAsk, Interactive, LockInv, Holding, PromptingAt, Complete, IsTold

\* Every step keeps LockInv.
LEMMA LockInvNext == IInv /\ LockInv /\ [Next]_vars => LockInv'
<1> SUFFICES ASSUME IInv, LockInv, [Next]_vars
             PROVE  LockInv'
  OBVIOUS
<1>0. TypeOK
  BY DEF IInv
<1>1. ASSUME NEW r \in Requests, CallerStep(r) \/ OwnStep(r) \/ UserStep(r)
      PROVE  LockInv'
  <2>1. Refused(r) \/ LockStep(r)
    BY <1>1, StepLocks
  <2>2. \A q \in Requests \ {r} : pc'[q] = pc[q] /\ result'[q] = result[q]
    BY <1>0, <2>1, RefusedLocks DEF LockStep, GoesOn, IsTold, Goto, TypeOK
  <2>3. \A q \in Requests \ {r} : lock' = q => lock = q
    BY <2>1, NoneAssumption, RefusedLocks DEF LockStep
  <2>4. pc'[r] # "done" => result'[r] = "none"
    BY <1>0, <2>1, RefusedLocks DEF LockStep, GoesOn, IsTold, Goto, TypeOK, LockInv
  <2>5. lock' = r => pc'[r] \in Holding
    BY <1>0, <2>1, NoneAssumption, RefusedLocks
       DEF LockStep, GoesOn, IsTold, Goto, TypeOK, LockInv, Holding
  <2>. QED
    BY <2>2, <2>3, <2>4, <2>5 DEF LockInv
<1>2. CASE ChangeSettings \/ UNCHANGED vars
  BY <1>2 DEF ChangeSettings, vars, LockInv
<1>. QED
  BY <1>1, <1>2 DEF Next

\* The calls that were told that the user is being prompted.
TurnedAway == {r \in Requests : result[r] = "UI_MULTLIPLE_INTERACTIVE_REQUESTS"}

\* The end of a call adds it to them, or not; it was not one of them before.
LEMMA EndTurnsAway ==
    ASSUME TypeOK, LockInv, NEW r \in Requests, pc[r] # "done", NEW res, IsTold(r, res)
    PROVE  TurnedAway' = IF res = "UI_MULTLIPLE_INTERACTIVE_REQUESTS"
                         THEN TurnedAway \union {r} ELSE TurnedAway
<1>1. result[r] = "none" /\ \A q \in Requests : result'[q] = IF q = r THEN res ELSE result[q]
  BY DEF TypeOK, LockInv, IsTold
<1>. QED
  BY <1>1 DEF TurnedAway

\* The lock, as the calls take it and give it back, implements OneInteraction: what
\* the front end takes for one step is what InteractionLock does in several.
THEOREM OneInteractionImplemented == Spec => ImplementsOneInteraction
<1>1. Init => LockInv /\ OI!Init
  BY NoneAssumption DEF Init, OI!Init, LockInv
<1>2. ASSUME IInv, LockInv, NEW r \in Requests, CallerStep(r) \/ OwnStep(r) \/ UserStep(r)
      PROVE  OI!Next \/ UNCHANGED <<lock, TurnedAway>>
  <2>1. TypeOK
    BY <1>2 DEF IInv
  <2>2. CASE Refused(r)
    <3>1. OI!TurnAway(r)
      BY <1>2, <2>1, <2>2, RefusedLocks, EndTurnsAway DEF OI!TurnAway, TurnedAway
    <3>. QED
      BY <3>1 DEF OI!Next
  <2>3. CASE LockStep(r)
    <3>1. UNCHANGED TurnedAway
      BY <1>2, <2>1, <2>3, EndTurnsAway DEF LockStep, GoesOn, TurnedAway
    <3>2. UNCHANGED lock \/ OI!Own(r) \/ OI!GiveUp(r)
      BY <2>3, <3>1 DEF LockStep, OI!Own, OI!GiveUp, TurnedAway
    <3>. QED
      BY <3>1, <3>2 DEF OI!Next
  <2>. QED
    BY <1>2, <2>2, <2>3, StepLocks
<1>3. ASSUME IInv, LockInv, [Next]_vars
      PROVE  [OI!Next]_OI!vars
  <2>1. CASE ChangeSettings \/ UNCHANGED vars
    BY <2>1 DEF ChangeSettings, vars, OI!vars
  <2>. QED
    BY <1>2, <1>3, <2>1 DEF Next, OI!vars, TurnedAway
<1>. QED
  BY <1>1, <1>3, LockInvNext, IInvAlways, PTL DEF Spec, ImplementsOneInteraction, OI!Spec

-----------------------------------------------------------------------------
\* How many steps a call has at most before it, at a location.
StepsLeft(location) ==
    CASE location = "idle" -> 7
      [] location = "validating" -> 6
      [] location \in {"silent", "refreshing"} -> 5
      [] location = "requesting" -> 4
      [] location \in {"assertion", "webview", "broker"} -> 3
      [] location = "install" -> 2
      [] location \in {"redeeming", "replaying", "lockedReplay"} -> 1
      [] location = "done" -> 0

\* No way through acquireToken: and its blocks goes round: each step of a call, the
\* user's answers included, leaves it fewer steps than before, and neither another
\* call nor a change of the settings takes it back or touches what it was told.
CallsMoveOn ==
    [][\A r \in Requests :
         \/ StepsLeft(pc[r]) \in 1 .. 7 /\ StepsLeft(pc'[r]) \in 0 .. StepsLeft(pc[r]) - 1
         \/ UNCHANGED <<pc[r], underlying[r], result[r]>>]_vars

\* A step of one call takes it on and leaves the others alone.
Onward(r) ==
    /\ \E location \in Locations :
          /\ Goto(r, location)
          /\ StepsLeft(pc[r]) \in 1 .. 7
          /\ StepsLeft(location) \in 0 .. StepsLeft(pc[r]) - 1
    /\ \A q \in Requests \ {r} : underlying'[q] = underlying[q] /\ result'[q] = result[q]

OthersKept(r) == \A q \in Requests \ {r} : underlying'[q] = underlying[q]

\* The end of a call takes it on, and so does a step to a location with less to do.
LEMMA EndOnward ==
    ASSUME TypeOK, NEW r \in Requests, pc[r] # "done", OthersKept(r),
           \E res : IsTold(r, res)
    PROVE  Onward(r)
<1>1. pc[r] \in Locations
  BY DEF TypeOK
<1>2. StepsLeft(pc[r]) \in 1 .. 7 /\ StepsLeft("done") = 0 /\ "done" \in Locations
  BY <1>1 DEF StepsLeft, Locations, PromptingAt
<1>3. \A q \in Requests \ {r} : result'[q] = result[q]
  BY DEF IsTold, TypeOK
<1>. QED
  BY <1>2, <1>3 DEF Onward, IsTold, OthersKept

LEMMA GoOnward ==
    ASSUME TypeOK, NEW r \in Requests, OthersKept(r), NEW location \in Locations,
           GoesOn(r, location), StepsLeft(location) < StepsLeft(pc[r])
    PROVE  Onward(r)
<1>1. pc[r] \in Locations
  BY DEF TypeOK
<1>2. StepsLeft(pc[r]) \in 0 .. 7 /\ StepsLeft(location) \in 0 .. 7
  BY <1>1 DEF StepsLeft, Locations, PromptingAt
<1>. QED
  BY <1>2 DEF Onward, GoesOn, OthersKept

LEMMA CallerOnward == ASSUME TypeOK, NEW r \in Requests, CallerStep(r) PROVE Onward(r)
<1>1. OthersKept(r) /\ pc[r] = "idle"
  BY DEF CallerStep, RefuseAtEntry, MissingResource, FailChecks, PassChecks, Checked, OthersKept
<1>2. GoesOn(r, "validating") \/ \E res : IsTold(r, res)
  BY DEF CallerStep, RefuseAtEntry, MissingResource, FailChecks, PassChecks, Complete,
         Continue, GoesOn, IsTold
<1>3. "validating" \in Locations /\ StepsLeft("validating") < StepsLeft("idle")
  BY DEF Locations, StepsLeft
<1>. QED
  BY <1>1, <1>2, <1>3, EndOnward, GoOnward

LEMMA OwnOnward == ASSUME TypeOK, NEW r \in Requests, OwnStep(r) PROVE Onward(r)
<1>1. OthersKept(r)
  BY DEF OwnStep, InvalidAuthority, ValidatedAcquireToken, RefreshTokenTried, SilentFinal,
     SilentNotFinal, RequestByAssertion, AssertionTried, NoUserWanted, NoUIInExtension,
     Refused, ComposeFails, InvokeBroker, RequestCode, Replayed, LockedReplayed,
     CodeRedeemed, OthersKept, TypeOK
<1>2. CASE ValidatedAcquireToken(r) \/ SilentNotFinal(r) \/ RequestByAssertion(r)
             \/ InvokeBroker(r) \/ RequestCode(r)
  <2>1. \/ /\ pc[r] = "validating"
           /\ \E location \in {"refreshing", "silent", "requesting"} : GoesOn(r, location)
        \/ pc[r] = "silent" /\ GoesOn(r, "requesting")
        \/ /\ pc[r] = "requesting"
           /\ \E location \in {"assertion", "broker", "webview"} : GoesOn(r, location)
    BY <1>2 DEF ValidatedAcquireToken, SilentNotFinal, RequestByAssertion, InvokeBroker,
       RequestCode, MayAsk, Interactive, Continue, GoesOn
  <2>2. \E location \in Locations :
          GoesOn(r, location) /\ StepsLeft(location) < StepsLeft(pc[r])
    BY <2>1 DEF Locations, PromptingAt, StepsLeft
  <2>. QED
    BY <1>1, <2>2, GoOnward
<1>3. CASE InvalidAuthority(r) \/ RefreshTokenTried(r) \/ SilentFinal(r) \/ AssertionTried(r)
             \/ NoUserWanted(r) \/ NoUIInExtension(r) \/ Refused(r) \/ ComposeFails(r)
             \/ Replayed(r) \/ LockedReplayed(r) \/ CodeRedeemed(r)
  <2>1. pc[r] # "done"
    BY <1>3 DEF InvalidAuthority, RefreshTokenTried, SilentFinal, AssertionTried, NoUserWanted,
       NoUIInExtension, Refused, ComposeFails, Replayed, LockedReplayed, CodeRedeemed, MayAsk,
       Interactive
  <2>2. \E res : IsTold(r, res)
    BY <1>3 DEF InvalidAuthority, RefreshTokenTried, SilentFinal, AssertionTried, NoUserWanted,
       NoUIInExtension, Refused, ComposeFails, Replayed, LockedReplayed, CodeRedeemed,
       Complete, IsTold
  <2>. QED
    BY <1>1, <2>1, <2>2, EndOnward
<1>. QED
  BY <1>2, <1>3 DEF OwnStep

LEMMA UserOnward == ASSUME TypeOK, NEW r \in Requests, UserStep(r) PROVE Onward(r)
<1>1. OthersKept(r)
  BY DEF UserStep, BrokerAnswers, BrokerGivesNoAccessToken, WebviewFails, OpenBrowser, GotCode,
     InstallFails, InstallPrompted, InstallInExtension, InstallAnswers,
     InstallGivesNoAccessToken, OthersKept
<1>2. CASE BrokerGivesNoAccessToken(r) \/ GotCode(r) \/ InstallPrompted(r)
             \/ InstallInExtension(r) \/ InstallGivesNoAccessToken(r)
  <2>1. \/ pc[r] = "broker" /\ GoesOn(r, "replaying")
        \/ /\ pc[r] = "webview"
           /\ \E location \in {"redeeming", "install", "lockedReplay"} : GoesOn(r, location)
        \/ pc[r] = "install" /\ GoesOn(r, "lockedReplay")
    BY <1>2 DEF BrokerGivesNoAccessToken, GotCode, InstallPrompted, InstallInExtension,
       InstallGivesNoAccessToken, Continue, GoesOn
  <2>2. \E location \in Locations :
          GoesOn(r, location) /\ StepsLeft(location) < StepsLeft(pc[r])
    BY <2>1 DEF Locations, PromptingAt, StepsLeft
  <2>. QED
    BY <1>1, <2>2, GoOnward
<1>3. CASE BrokerAnswers(r) \/ WebviewFails(r) \/ OpenBrowser(r) \/ InstallFails(r)
             \/ InstallAnswers(r)
  <2>1. pc[r] # "done" /\ \E res : IsTold(r, res)
    BY <1>3 DEF BrokerAnswers, WebviewFails, OpenBrowser, InstallFails, InstallAnswers,
       Complete, IsTold
  <2>. QED
    BY <1>1, <2>1, EndOnward
<1>. QED
  BY <1>2, <1>3 DEF UserStep

\* The safety half of EveryCallEnds, for any number of calls of any kind, with the
\* user's part of the call, which that property leaves out.
THEOREM CallsAlwaysMoveOn == Spec => CallsMoveOn
<1> DEFINE Moved(r) ==
             \/ StepsLeft(pc[r]) \in 1 .. 7 /\ StepsLeft(pc'[r]) \in 0 .. StepsLeft(pc[r]) - 1
             \/ UNCHANGED <<pc[r], underlying[r], result[r]>>
           AllMoved == \A r \in Requests : Moved(r)
<1>1. ASSUME TypeOK, [Next]_vars
      PROVE  [AllMoved]_vars
  <2>1. SUFFICES ASSUME Next, NEW q \in Requests PROVE Moved(q)
    BY <1>1
  <2>2. CASE ChangeSettings
    BY <2>2 DEF ChangeSettings
  <2>3. ASSUME NEW r \in Requests, CallerStep(r) \/ OwnStep(r) \/ UserStep(r)
        PROVE  Moved(q)
    <3>1. PICK location \in Locations :
            /\ Goto(r, location)
            /\ StepsLeft(pc[r]) \in 1 .. 7
            /\ StepsLeft(location) \in 0 .. StepsLeft(pc[r]) - 1
      BY <1>1, <2>3, CallerOnward, OwnOnward, UserOnward DEF Onward
    <3>2. CASE q = r
      <4>1. pc'[q] = location
        BY <1>1, <3>1, <3>2 DEF TypeOK, Goto
      <4>. QED
        BY <3>1, <3>2, <4>1
    <3>3. CASE q # r
      <4>1. pc'[q] = pc[q]
        BY <1>1, <3>1, <3>3 DEF TypeOK, Goto
      <4>2. underlying'[q] = underlying[q] /\ result'[q] = result[q]
        BY <1>1, <2>3, <3>3, CallerOnward, OwnOnward, UserOnward DEF Onward
      <4>. QED
        BY <4>1, <4>2
    <3>. QED
      BY <3>2, <3>3
  <2>. QED
    BY <2>1, <2>2, <2>3 DEF Next
<1>. QED
  BY <1>1, TypesKept, PTL DEF Spec, CallsMoveOn

-----------------------------------------------------------------------------
\* A call that brought a refresh token is not forced to ask the user, so it goes
\* nowhere else before it ends.
AttemptInv == \A r \in Requests :
    call[r].entry \in RefreshTokenEntries =>
        pc[r] \in {"idle", "validating", "refreshing", "done"} /\ underlying[r] = "none"

LEMMA RefreshTokenNotForced ==
    ASSUME TypeOK, NEW r \in Requests, call[r].entry \in RefreshTokenEntries
    PROVE  ~Forced(r) /\ Silent(r) /\ call[r].entry \notin SilentEntries
<1>1. PossibleCall(call[r])
  BY CallsAssumption DEF TypeOK
<1>. QED
  BY <1>1, KindsDiffer DEF PossibleCall, Forced, Silent, RefreshTokenEntries

\* The steps of a call after its attempt without the user: none of them starts another,
\* or forgets what came of it.
LEMMA LaterSteps ==
    ASSUME TypeOK, NEW r \in Requests, OwnStep(r) \/ UserStep(r),
           pc[r] \notin {"validating", "silent", "refreshing"}
    PROVE  /\ pc[r] \notin {"idle", "done"} /\ pc'[r] \notin {"silent", "refreshing"}
           /\ UNCHANGED <<underlying, call>>
<1> USE DEF Complete, Continue, Goto, TypeOK
<1>1. CASE RequestByAssertion(r) \/ AssertionTried(r) \/ NoUserWanted(r)
             \/ NoUIInExtension(r) \/ Refused(r)
  BY <1>1 DEF RequestByAssertion, AssertionTried, NoUserWanted, NoUIInExtension, Refused,
     MayAsk, Interactive
<1>2. CASE ComposeFails(r) \/ InvokeBroker(r) \/ RequestCode(r)
  BY <1>2 DEF ComposeFails, InvokeBroker, RequestCode, MayAsk, Interactive
<1>3. CASE Replayed(r) \/ LockedReplayed(r) \/ CodeRedeemed(r)
  BY <1>3 DEF Replayed, LockedReplayed, CodeRedeemed
<1>4. CASE BrokerAnswers(r) \/ BrokerGivesNoAccessToken(r) \/ WebviewFails(r) \/ OpenBrowser(r)
  BY <1>4 DEF BrokerAnswers, BrokerGivesNoAccessToken, WebviewFails, OpenBrowser
<1>5. CASE GotCode(r) \/ InstallFails(r) \/ InstallPrompted(r)
  BY <1>5 DEF GotCode, InstallFails, InstallPrompted
<1>6. CASE InstallInExtension(r) \/ InstallAnswers(r) \/ InstallGivesNoAccessToken(r)
  BY <1>6 DEF InstallInExtension, InstallAnswers, InstallGivesNoAccessToken
<1>. QED
  BY <1>1, <1>2, <1>3, <1>4, <1>5, <1>6
     DEF OwnStep, UserStep, InvalidAuthority, ValidatedAcquireToken, RefreshTokenTried,
         SilentFinal, SilentNotFinal

\* The attempt that a call makes first, as ImplementsSilentAttempt maps it.
FirstStage == [r \in Requests |->
    IF pc[r] = "silent" THEN "cache"
    ELSE IF pc[r] = "refreshing" THEN "token"
    ELSE IF FirstOutcome(r) # "none" THEN "over" ELSE "idle"]

FirstOutcomes == [r \in Requests |-> FirstOutcome(r)]

\* What a step does with the attempt of its call.
StartsFirst(r) == /\ FirstStage[r] = "idle" /\ FirstStage'[r] \in {"cache", "token"}
                  /\ FirstOutcomes'[r] = FirstOutcomes[r]
KeepsFirst(r) == FirstStage'[r] = FirstStage[r] /\ FirstOutcomes'[r] = FirstOutcomes[r]
FinishesFirst(r) == /\ FirstStage[r] \in {"cache", "token"} /\ FirstStage'[r] = "over"
                    /\ FirstOutcomes'[r] \in SA!Outcomes
                    /\ FirstStage[r] = "token" => FirstOutcomes'[r] # "nil"

LEMMA FirstPrimed ==
    ASSUME NEW r \in Requests
    PROVE  /\ FirstOutcomes'[r] = FirstOutcome(r)'
           /\ FirstStage'[r] = IF pc'[r] = "silent" THEN "cache"
                               ELSE IF pc'[r] = "refreshing" THEN "token"
                               ELSE IF FirstOutcome(r)' # "none" THEN "over" ELSE "idle"
BY DEF FirstOutcomes, FirstStage

LEMMA OutcomesSame ==
    SilentResults = SA!Outcomes /\ "none" \notin SilentResults
    /\ "validation" \notin SilentResults
BY DEF SilentResults, NotFinal, SA!Outcomes

LEMMA CallKept ==
    ASSUME NEW r \in Requests, CallerStep(r) \/ OwnStep(r) \/ UserStep(r)
    PROVE  call' = call
BY DEF CallerStep, RefuseAtEntry, MissingResource, FailChecks, PassChecks, OwnStep,
   InvalidAuthority, ValidatedAcquireToken, RefreshTokenTried, SilentFinal, SilentNotFinal,
   RequestByAssertion, AssertionTried, NoUserWanted, NoUIInExtension, Refused, ComposeFails,
   InvokeBroker, RequestCode, Replayed, LockedReplayed, CodeRedeemed, UserStep,
   BrokerAnswers, BrokerGivesNoAccessToken, WebviewFails, OpenBrowser, GotCode, InstallFails,
   InstallPrompted, InstallInExtension, InstallAnswers, InstallGivesNoAccessToken

\* The step of one call, given that the app is told nothing before its call ends.
LEMMA FirstMoves ==
    ASSUME IInv, LockInv, AttemptInv, NEW r \in Requests,
           CallerStep(r) \/ OwnStep(r) \/ UserStep(r)
    PROVE  /\ StartsFirst(r) \/ KeepsFirst(r) \/ FinishesFirst(r)
           /\ AttemptInv'
<1>0. TypeOK /\ Attempt(r) /\ (pc[r] # "done" => result[r] = "none")
  BY DEF IInv, Local, LockInv
<1>1. \A q \in Requests \ {r} : pc'[q] = pc[q] /\ underlying'[q] = underlying[q]
  BY <1>0, CallerOnward, OwnOnward, UserOnward DEF Onward, Goto, TypeOK
<1>2. call' = call
  BY CallKept
<1>k. ASSUME call[r].entry \in RefreshTokenEntries =>
               pc'[r] \in {"idle", "validating", "refreshing", "done"} /\ underlying'[r] = "none"
      PROVE  AttemptInv'
  BY <1>1, <1>2, <1>k DEF AttemptInv
<1>n. ASSUME pc[r] \notin {"done", "silent", "refreshing"}, underlying[r] = "none"
      PROVE  FirstOutcomes[r] = "none" /\ FirstStage[r] = "idle"
  BY <1>0, <1>n, OutcomesSame DEF FirstOutcomes, FirstStage, FirstOutcome
(* A call that ends before its attempt was made.                            *)
<1>e. ASSUME pc[r] \in {"idle", "validating"}, NEW res, res \notin SilentResults,
             IsTold(r, res), UNCHANGED underlying
      PROVE  KeepsFirst(r) /\ AttemptInv'
  <2>1. underlying[r] = "none" /\ underlying'[r] = "none"
    BY <1>0, <1>e DEF Attempt
  <2>2. pc'[r] = "done" /\ result'[r] = res
    BY <1>0, <1>e DEF IsTold, Goto, TypeOK
  <2>3. FirstOutcome(r)' = "none"
    BY <1>e, <2>1, <2>2 DEF FirstOutcome
  <2>. QED
    BY <1>e, <1>k, <1>n, <2>1, <2>2, <2>3, FirstPrimed DEF KeepsFirst
(* A call that goes on before its attempt was made.                         *)
<1>g. ASSUME pc[r] \in {"idle", "validating"}, NEW location, GoesOn(r, location),
             location \in {"validating", "requesting", "silent", "refreshing"},
             call[r].entry \in RefreshTokenEntries => location \in {"validating", "refreshing"},
             UNCHANGED underlying
      PROVE  (StartsFirst(r) \/ KeepsFirst(r)) /\ AttemptInv'
  <2>1. underlying[r] = "none" /\ underlying'[r] = "none"
    BY <1>0, <1>g DEF Attempt
  <2>2. pc'[r] = location /\ result'[r] = "none"
    BY <1>0, <1>g DEF GoesOn, Goto, TypeOK
  <2>3. FirstOutcome(r)' = "none"
    BY <2>1, <2>2, OutcomesSame DEF FirstOutcome
  <2>4. StartsFirst(r) \/ KeepsFirst(r)
    BY <1>g, <1>n, <2>1, <2>2, <2>3, FirstPrimed DEF StartsFirst, KeepsFirst
  <2>. QED
    BY <1>g, <1>k, <2>1, <2>2, <2>4
<1>3. CASE CallerStep(r)
  <2>1. pc[r] = "idle" /\ UNCHANGED underlying
    BY <1>3 DEF CallerStep, RefuseAtEntry, MissingResource, FailChecks, PassChecks, Checked
  <2>2. GoesOn(r, "validating") \/ \E res \in TC!Refusals : IsTold(r, res)
    BY <1>3 DEF CallerStep, RefuseAtEntry, MissingResource, FailChecks, PassChecks, Objection,
       Complete, Continue, GoesOn, IsTold, TC!Refusals
  <2>3. \A res \in TC!Refusals : res \notin SilentResults
    BY DEF TC!Refusals, SilentResults, NotFinal
  <2>. QED
    BY <1>e, <1>g, <2>1, <2>2, <2>3
<1>4. CASE InvalidAuthority(r)
  <2>1. pc[r] = "validating" /\ IsTold(r, "validation") /\ UNCHANGED underlying
    BY <1>4 DEF InvalidAuthority, Complete, IsTold
  <2>. QED
    BY <1>e, <2>1, OutcomesSame
<1>5. CASE ValidatedAcquireToken(r)
  <2>1. /\ pc[r] = "validating" /\ UNCHANGED underlying
        /\ \E location \in {"requesting", "silent", "refreshing"} :
              /\ GoesOn(r, location)
              /\ location = "requesting" => Forced(r)
              /\ location = "silent" => call[r].entry \notin RefreshTokenEntries
    BY <1>5 DEF ValidatedAcquireToken, Continue, GoesOn
  <2>. QED
    BY <1>0, <1>g, <2>1, RefreshTokenNotForced
<1>6. CASE RefreshTokenTried(r)
  <2>1. PICK res \in SilentResults \ {"nil"} : IsTold(r, res)
    BY <1>6 DEF RefreshTokenTried, Complete, IsTold
  <2>2. /\ pc[r] = "refreshing" /\ underlying[r] = "none" /\ underlying'[r] = "none"
        /\ call[r].entry \in RefreshTokenEntries
    BY <1>0, <1>6 DEF RefreshTokenTried, Attempt
  <2>3. pc'[r] = "done" /\ result'[r] = res
    BY <1>0, <2>1 DEF IsTold, Goto, TypeOK
  <2>4. FirstOutcome(r)' = res
    BY <1>2, <2>2, <2>3 DEF FirstOutcome
  <2>5. FinishesFirst(r)
    BY <2>2, <2>3, <2>4, FirstPrimed, OutcomesSame DEF FinishesFirst, FirstStage
  <2>. QED
    BY <1>k, <2>2, <2>3, <2>5
<1>7. CASE SilentFinal(r) \/ SilentNotFinal(r)
  <2>1. PICK res \in SilentResults : underlying' = [underlying EXCEPT ![r] = res]
    BY <1>7 DEF SilentFinal, SilentNotFinal, SilentResults
  <2>2. pc[r] = "silent" /\ pc'[r] \in {"done", "requesting"} /\ underlying'[r] = res
    BY <1>0, <1>7, <2>1 DEF SilentFinal, SilentNotFinal, Complete, Continue, Goto, TypeOK
  <2>3. FirstOutcome(r)' = res
    BY <2>2, OutcomesSame DEF FirstOutcome
  <2>4. FinishesFirst(r)
    BY <2>2, <2>3, FirstPrimed, OutcomesSame DEF FinishesFirst, FirstStage
  <2>. QED
    BY <1>k, <2>2, <2>4 DEF AttemptInv
<1>8. CASE (OwnStep(r) \/ UserStep(r)) /\ pc[r] \notin {"validating", "silent", "refreshing"}
  <2>1. /\ pc[r] \notin {"idle", "done"} /\ pc'[r] \notin {"silent", "refreshing"}
        /\ UNCHANGED underlying
    BY <1>0, <1>8, LaterSteps
  <2>2. call[r].entry \notin RefreshTokenEntries
    BY <1>8, <2>1 DEF AttemptInv
  <2>3. FirstOutcome(r)' = FirstOutcomes[r]
    BY <1>2, <2>1, <2>2 DEF FirstOutcomes, FirstOutcome
  <2>4. KeepsFirst(r)
    BY <1>8, <2>1, <2>3, FirstPrimed DEF KeepsFirst, FirstStage, FirstOutcomes
  <2>. QED
    BY <1>k, <2>2, <2>4
<1>9. CASE (OwnStep(r) \/ UserStep(r)) /\ pc[r] \in {"validating", "silent", "refreshing"}
  <2>1. InvalidAuthority(r) \/ ValidatedAcquireToken(r) \/ RefreshTokenTried(r)
        \/ SilentFinal(r) \/ SilentNotFinal(r)
    BY <1>9 DEF OwnStep, RequestByAssertion, AssertionTried, NoUserWanted, NoUIInExtension,
       Refused, ComposeFails, InvokeBroker, RequestCode, MayAsk, Interactive, Replayed,
       LockedReplayed, CodeRedeemed, UserStep, BrokerAnswers, BrokerGivesNoAccessToken,
       WebviewFails, OpenBrowser, GotCode, InstallFails, InstallPrompted, InstallInExtension,
       InstallAnswers, InstallGivesNoAccessToken
  <2>. QED
    BY <1>4, <1>5, <1>6, <1>7, <2>1
<1>. QED
  BY <1>3, <1>8, <1>9

\* Each of the three is a step of SilentAttempt or none.
LEMMA FirstMaps ==
    ASSUME NEW r \in Requests, StartsFirst(r) \/ KeepsFirst(r) \/ FinishesFirst(r),
           \A q \in Requests \ {r} :
              FirstStage'[q] = FirstStage[q] /\ FirstOutcomes'[q] = FirstOutcomes[q]
    PROVE  SA!Next \/ UNCHANGED <<FirstStage, FirstOutcomes>>
<1>1. /\ FirstStage' = [FirstStage EXCEPT ![r] = FirstStage'[r]]
      /\ FirstOutcomes' = [FirstOutcomes EXCEPT ![r] = FirstOutcomes'[r]]
  <2>1. /\ FirstStage = [q \in Requests |-> FirstStage[q]]
        /\ FirstStage' = [q \in Requests |-> FirstStage'[q]]
        /\ FirstOutcomes = [q \in Requests |-> FirstOutcomes[q]]
        /\ FirstOutcomes' = [q \in Requests |-> FirstOutcomes'[q]]
    BY DEF FirstStage, FirstOutcomes
  <2>. QED
    BY <2>1
<1>2. CASE StartsFirst(r)
  <2>1. FirstOutcomes' = FirstOutcomes
    BY <1>1, <1>2 DEF StartsFirst, FirstOutcomes
  <2>2. \E with \in {"cache", "token"} : FirstStage' = [FirstStage EXCEPT ![r] = with]
    BY <1>1, <1>2 DEF StartsFirst
  <2>3. \E with \in {"cache", "token"} : SA!Move(r, "idle", with)
    BY <1>2, <2>2 DEF StartsFirst, SA!Move, FirstStage
  <2>4. SA!Start(r)
    BY <2>1, <2>3 DEF SA!Start, FirstOutcomes
  <2>. QED
    BY <2>4 DEF SA!Next
<1>3. CASE KeepsFirst(r)
  BY <1>1, <1>3 DEF KeepsFirst, FirstStage, FirstOutcomes
<1>4. CASE FinishesFirst(r)
  <2>1. SA!Finish(r, "cache", SA!Outcomes) \/ SA!Finish(r, "token", SA!Outcomes \ {"nil"})
    BY <1>1, <1>4 DEF FinishesFirst, SA!Finish, SA!Move, FirstStage, FirstOutcomes
  <2>. QED
    BY <2>1 DEF SA!Next
<1>. QED
  BY <1>2, <1>3, <1>4

\* The front end makes one attempt for each call, and what it may come to is what
\* SilentFlowProofs shows of the handlers: the two models fit together.
THEOREM SilentAttemptImplemented == Spec => ImplementsSilentAttempt
<1>1. Init => LockInv /\ AttemptInv /\ SA!Init
  BY NoneAssumption, OutcomesSame
     DEF Init, LockInv, AttemptInv, SA!Init, FirstOutcome
<1>2. ASSUME IInv, LockInv, AttemptInv, [Next]_vars
      PROVE  AttemptInv' /\ [SA!Next]_<<FirstStage, FirstOutcomes>>
  <2>1. CASE ChangeSettings \/ UNCHANGED vars
    <3>1. UNCHANGED <<pc, call, underlying, result>>
      BY <2>1 DEF ChangeSettings, vars
    <3>2. AttemptInv'
      BY <1>2, <3>1 DEF AttemptInv
    <3>3. FirstStage' = FirstStage /\ FirstOutcomes' = FirstOutcomes
      BY <3>1 DEF FirstStage, FirstOutcomes, FirstOutcome
    <3>. QED
      BY <3>2, <3>3
  <2>2. ASSUME NEW r \in Requests, CallerStep(r) \/ OwnStep(r) \/ UserStep(r)
        PROVE  AttemptInv' /\ (SA!Next \/ UNCHANGED <<FirstStage, FirstOutcomes>>)
    <3>1. TypeOK
      BY <1>2 DEF IInv
    <3>2. ASSUME NEW q \in Requests, q # r
          PROVE  FirstStage'[q] = FirstStage[q] /\ FirstOutcomes'[q] = FirstOutcomes[q]
      <4>1. pc'[q] = pc[q] /\ underlying'[q] = underlying[q] /\ result'[q] = result[q]
        BY <2>2, <3>1, <3>2, CallerOnward, OwnOnward, UserOnward DEF Onward, Goto, TypeOK
      <4>2. call' = call
        BY <2>2, CallKept
      <4>3. FirstOutcome(q)' = FirstOutcome(q)
        BY <4>1, <4>2 DEF FirstOutcome
      <4>. QED
        BY <4>1, <4>3, FirstPrimed DEF FirstStage, FirstOutcomes
    <3>. QED
      BY <1>2, <2>2, <3>2, FirstMoves, FirstMaps
  <2>. QED
    BY <1>2, <2>1, <2>2 DEF Next
<1>. QED
  BY <1>1, <1>2, LockInvNext, IInvAlways, PTL
     DEF Spec, ImplementsSilentAttempt, SA!Spec, FirstStage, FirstOutcomes
=============================================================================
