--------------------------- MODULE BrokerHandoff ----------------------------
(***************************************************************************)
(* The switch to the broker app and back (iOS).  A request that needs the  *)
(* user composes a broker request, leaves its completion block in          *)
(* ADBrokerNotificationManager and asks iOS to open the broker.  It is     *)
(* completed by whoever takes that block first:                            *)
(*   - +internalHandleBrokerResponse:, when the broker opens the app's     *)
(*     redirect URL, or                                                    *)
(*   - -callbackCleanup:, when the app becomes active again without one.   *)
(* A request that starts in the webview can end up here too, when the      *)
(* server asks for the broker to be installed.                             *)
(*                                                                         *)
(* iOS posts WillEnterForeground, delivers the URL if there is one, and    *)
(* posts DidBecomeActive, in that order; other threads run in between.     *)
(* The process may be killed at any time: the resume dictionary, which is  *)
(* in NSUserDefaults, survives, everything else is gone.  The broker is an *)
(* app of its own: it may answer late, twice, or never, and it may answer  *)
(* a request nobody waits for any more.                                    *)
(*                                                                         *)
(* The interaction lock is taken and released atomically here; see         *)
(* InteractionLock.tla for its two statements.                             *)
(***************************************************************************)
EXTENDS Integers

CONSTANTS
    Requests,      \* interactive requests, each started once
    None,          \* nil
    StartStates,   \* the app states in which a request may come to need the
                   \* user: its earlier steps run on background queues
    InstallStates  \* those in which the answer of its webview may ask for the
                   \* broker to be installed

AppStates == {"active", "inactive", "foregrounding", "background", "killed"}

ASSUME NoneAssumption == None \notin Requests
ASSUME StatesAssumption ==
    StartStates \subseteq AppStates \ {"killed"} /\ InstallStates \subseteq AppStates

VARIABLES
    app,         \* the life cycle; "foregrounding" lies between the two
                 \* notifications, "inactive" is behind a system dialog
    lock,        \* who has the interaction lock
    callback,    \* _callbackForBroker
    observers,   \* notifications ADBrokerNotificationManager observes
    resume,      \* the resume dictionary, named by the request that wrote it
    opens,       \* openURL blocks queued on the main queue
    broker,      \* requests the broker may still answer
    handling,    \* +internalHandleBrokerResponse: in progress, or None
    interrupted, \* s_result of ADWebAuthController
    status,      \* where each request is
    result,      \* what its completion block was called with
    calls,       \* how often its completion block was called
    consumed     \* requests whose resume dictionary was used up

vars == <<app, lock, callback, observers, resume, opens, broker, handling,
          interrupted, status, result, calls, consumed>>

\* The request has handed its completion block to ADBrokerNotificationManager;
\* "atInstall" requests did so from the webview branch.
WaitingStatus == {"atBroker", "atInstall"}

Status == WaitingStatus \union {"new", "webview", "replaying", "completed", "lost"}

Results == {"none", "refused", "composeError", "webviewResult", "notReceived",
            "badResponse", "answered"}

Handling == [callback: Requests \union {None}, response: Requests,
             resume: Requests \union {None}, accepted: BOOLEAN]

ASSUME HandlingAssumption == None \notin Handling

\* MaxCalls bounds the counter of completion calls.
MaxCalls == 2

TypeOK ==
    /\ app \in AppStates
    /\ lock \in Requests \union {None}
    /\ callback \in Requests \union {None}
    /\ observers \subseteq {"WillEnterForeground", "DidBecomeActive"}
    /\ resume \in Requests \union {None}
    /\ opens \subseteq Requests
    /\ broker \subseteq Requests
    /\ handling \in Handling \union {None}
    /\ interrupted \in Requests \union {None}
    /\ status \in [Requests -> Status]
    /\ result \in [Requests -> Results]
    /\ calls \in [Requests -> 0 .. MaxCalls]
    /\ consumed \subseteq Requests

Init ==
    /\ app = "active"
    /\ lock = None
    /\ callback = None
    /\ observers = {}
    /\ resume = None
    /\ opens = {}
    /\ broker = {}
    /\ handling = None
    /\ interrupted = None
    /\ status = [r \in Requests |-> "new"]
    /\ result = [r \in Requests |-> "none"]
    /\ calls = [r \in Requests |-> 0]
    /\ consumed = {}

-----------------------------------------------------------------------------
Running == app # "killed"

\* The main thread takes events one at a time.
MainThreadFree == Running /\ handling = None

\* The completion block of the app is called.
Complete(r, res) ==
    /\ calls[r] < MaxCalls
    /\ status' = [status EXCEPT ![r] = "completed"]
    /\ result' = [result EXCEPT ![r] = res]
    /\ calls' = [calls EXCEPT ![r] = @ + 1]

SetStatus(r, s) ==
    /\ status' = [status EXCEPT ![r] = s]
    /\ UNCHANGED <<result, calls>>

\* A new request reaches -requestTokenImpl:.
Starting(r) == status[r] = "new" /\ Running /\ app \in StartStates

\* Mutant: the resume dictionary of an earlier request is kept.
ComposeBrokerRequest_Keeps(r) == resume' = IF resume = None THEN r ELSE resume

\* composeBrokerRequest: writes the resume dictionary.
ComposeBrokerRequest(r) == resume' = r

\* Mutant: the wrong notification is observed.
HandOver_ObservesActive(r) ==
    /\ ComposeBrokerRequest(r)
    /\ callback' = r
    /\ observers' = observers \union {"DidBecomeActive"}
    /\ opens' = opens \union {r}

\* invokeBroker: and promptBrokerInstall: hand the block over with
\* enableNotifications: and queue the openURL.
HandOver(r) ==
    /\ ComposeBrokerRequest(r)
    /\ callback' = r
    /\ observers' = observers \union {"WillEnterForeground"}
    /\ opens' = opens \union {r}

-----------------------------------------------------------------------------
(* Requests: any thread *)

\* Mutant: a request is refused although the lock is free.
Refuse_Spuriously(r) ==
    /\ Starting(r)
    /\ Complete(r, "refused")
    /\ UNCHANGED <<app, lock, callback, observers, resume, opens, broker,
                   handling, interrupted, consumed>>

\* takeExclusionLock: fails.
Refuse(r) ==
    /\ Starting(r)
    /\ lock # None
    /\ Complete(r, "refused")
    /\ UNCHANGED <<app, lock, callback, observers, resume, opens, broker,
                   handling, interrupted, consumed>>

\* Broker branch: there is no broker URL, for want of a broker key or, once the
\* resume dictionary is written, of an encoding.  The lock stays taken.
ComposeFails(r) ==
    /\ Starting(r)
    /\ lock = None
    /\ lock' = r
    /\ ComposeBrokerRequest(r) \/ UNCHANGED resume
    /\ Complete(r, "composeError")
    /\ UNCHANGED <<app, callback, observers, opens, broker, handling,
                   interrupted, consumed>>

\* Mutant: the broker is invoked without the lock.
InvokeBroker_Unlocked(r) ==
    /\ Starting(r)
    /\ lock' = r
    /\ HandOver(r)
    /\ SetStatus(r, "atBroker")
    /\ UNCHANGED <<app, broker, handling, interrupted, consumed>>

\* Broker branch: the broker is invoked.
InvokeBroker(r) ==
    /\ Starting(r)
    /\ lock = None
    /\ lock' = r
    /\ HandOver(r)
    /\ SetStatus(r, "atBroker")
    /\ UNCHANGED <<app, broker, handling, interrupted, consumed>>

\* Webview branch: the webview is shown.
ShowWebview(r) ==
    /\ Starting(r)
    /\ lock = None
    /\ lock' = r
    /\ SetStatus(r, "webview")
    /\ UNCHANGED <<app, callback, observers, resume, opens, broker, handling,
                   interrupted, consumed>>

\* The webview flow ends in a token, an error, a cancellation, or a request to
\* install the broker for which there is no broker key.
EndWebview(r) ==
    /\ status[r] = "webview" /\ MainThreadFree
    /\ lock' = None
    /\ Complete(r, "webviewResult")
    /\ UNCHANGED <<app, callback, observers, resume, opens, broker, handling,
                   interrupted, consumed>>

\* processMSAuthResponse: writes the resume dictionary, but the request cannot be
\* encoded, or the server sent no install link.
NoInstallLink(r) ==
    /\ status[r] = "webview" /\ MainThreadFree
    /\ lock' = None
    /\ ComposeBrokerRequest(r)
    /\ Complete(r, "webviewResult")
    /\ UNCHANGED <<app, callback, observers, opens, broker, handling,
                   interrupted, consumed>>

\* Mutant: the webview gives the lock back before the block is called.
PromptInstall_Unlocks(r) ==
    /\ status[r] = "webview" /\ MainThreadFree /\ app \in InstallStates
    /\ HandOver(r)
    /\ SetStatus(r, "atInstall")
    /\ lock' = None
    /\ UNCHANGED <<app, broker, handling, interrupted, consumed>>

\* processMSAuthResponse: and promptBrokerInstall: open the App Store.
PromptInstall(r) ==
    /\ status[r] = "webview" /\ MainThreadFree /\ app \in InstallStates
    /\ HandOver(r)
    /\ SetStatus(r, "atInstall")
    /\ UNCHANGED <<app, lock, broker, handling, interrupted, consumed>>

\* The replay of the refresh token the broker sent is over.  The webview
\* branch still has the lock, the broker branch gave it back before.
EndReplay(r) ==
    /\ status[r] = "replaying" /\ Running
    /\ lock' = IF lock = r THEN None ELSE lock
    /\ Complete(r, "answered")
    /\ UNCHANGED <<app, callback, observers, resume, opens, broker, handling,
                   interrupted, consumed>>

-----------------------------------------------------------------------------
(* iOS and the main thread *)

\* The queued block runs openURL and iOS switches to the broker (or to the App
\* Store, which leads there).
OpenBroker(r) ==
    /\ r \in opens /\ MainThreadFree
    /\ app \in {"active", "inactive", "foregrounding"}
    /\ app' = "background"
    /\ opens' = opens \ {r}
    /\ broker' = broker \union {r}
    /\ UNCHANGED <<lock, callback, observers, resume, handling, interrupted,
                   status, result, calls, consumed>>

\* The queued block runs openURL in vain: iOS refuses, or the user declines the
\* dialog.  Nobody looks at what openURL returns.
OpenFails(r) ==
    /\ r \in opens /\ MainThreadFree
    /\ opens' = opens \ {r}
    /\ UNCHANGED <<app, lock, callback, observers, resume, broker, handling,
                   interrupted, status, result, calls, consumed>>

\* A system dialog, for example "this app wants to open another app".
Interrupt ==
    /\ app = "active" /\ MainThreadFree
    /\ app' = "inactive"
    /\ UNCHANGED <<lock, callback, observers, resume, opens, broker, handling,
                   interrupted, status, result, calls, consumed>>

\* The user leaves.  Blocks queued before that have run, unless one waits for
\* the dialog, which goes away.
LeaveApp ==
    /\ app \in {"active", "inactive", "foregrounding"} /\ MainThreadFree
    /\ app # "inactive" => opens = {}
    /\ app' = "background"
    /\ opens' = {}
    /\ UNCHANGED <<lock, callback, observers, resume, broker, handling,
                   interrupted, status, result, calls, consumed>>

\* Mutant: DidBecomeActive is not observed in turn.
EnterForeground_Forgets ==
    /\ app = "background" /\ MainThreadFree
    /\ opens = {}
    /\ app' = "foregrounding"
    /\ observers' = observers \ {"WillEnterForeground"}
    /\ UNCHANGED <<lock, callback, resume, opens, broker, handling,
                   interrupted, status, result, calls, consumed>>

\* WillEnterForeground is posted; onEnterForeground: moves the observation to
\* DidBecomeActive.  Blocks queued in the background have run.
EnterForeground ==
    /\ app = "background" /\ MainThreadFree
    /\ opens = {}
    /\ app' = "foregrounding"
    /\ observers' = IF "WillEnterForeground" \in observers
                    THEN {"DidBecomeActive"}
                    ELSE observers
    /\ UNCHANGED <<lock, callback, resume, opens, broker, handling,
                   interrupted, status, result, calls, consumed>>

\* DidBecomeActive is posted and nobody observes it, or callbackCleanup: finds
\* no block.
BecomeActive ==
    /\ app \in {"foregrounding", "inactive"} /\ MainThreadFree
    /\ "DidBecomeActive" \in observers => callback = None
    /\ app' = "active"
    /\ observers' = observers \ {"DidBecomeActive"}
    /\ UNCHANGED <<lock, callback, resume, opens, broker, handling,
                   interrupted, status, result, calls, consumed>>

\* Mutant: the block is copied and not cleared.
CleanUp_KeepsBlock ==
    /\ app \in {"foregrounding", "inactive"} /\ MainThreadFree
    /\ "DidBecomeActive" \in observers /\ callback # None
    /\ app' = "active"
    /\ observers' = observers \ {"DidBecomeActive"}
    /\ lock' = None
    /\ Complete(callback, "notReceived")
    /\ UNCHANGED <<callback, resume, opens, broker, handling, interrupted, consumed>>

\* DidBecomeActive is posted and callbackCleanup: finds a block: the request is
\* told that the broker did not answer.  The resume dictionary stays.
CleanUp ==
    /\ app \in {"foregrounding", "inactive"} /\ MainThreadFree
    /\ "DidBecomeActive" \in observers /\ callback # None
    /\ app' = "active"
    /\ observers' = observers \ {"DidBecomeActive"}
    /\ callback' = None
    /\ lock' = None
    /\ Complete(callback, "notReceived")
    /\ UNCHANGED <<resume, opens, broker, handling, interrupted, consumed>>

\* processBrokerResponse: accepts the URL, or not: without a resume dictionary it
\* never does.
ProcessBrokerResponse(accepted) == accepted => resume # None

\* The broker opens the redirect URL with its answer to q, perhaps twice; iOS
\* brings the app to the front for it and calls the app delegate.
OpenURL(q) ==
    /\ app = "foregrounding" /\ MainThreadFree
    /\ q \in broker
    /\ broker' \in {broker, broker \ {q}}

\* +internalHandleBrokerResponse: takes the block and processes the URL.
\* Nothing in the URL is compared with the request the block belongs to.
ReceiveResponse(q) ==
    /\ OpenURL(q)
    /\ \E accepted \in BOOLEAN :
         /\ ProcessBrokerResponse(accepted)
         /\ handling' = [callback |-> callback, response |-> q,
                         resume |-> resume, accepted |-> accepted]
    /\ callback' = None
    /\ UNCHANGED <<app, lock, observers, resume, opens, interrupted, status,
                   result, calls, consumed>>

\* The rest of +internalHandleBrokerResponse: the resume dictionary is removed,
\* then the block is called, or the result kept for the app to ask for.
FinishResponse ==
    /\ Running /\ handling # None
    /\ handling' = None
    /\ resume' = None
    /\ consumed' = IF handling.accepted
                   THEN consumed \union {handling.resume} ELSE consumed
    /\ LET r == handling.callback IN
       \/ /\ r = None
          /\ interrupted' = IF handling.accepted THEN handling.response
                            ELSE interrupted
          /\ UNCHANGED <<lock, status, result, calls>>
       \/ /\ r # None
          /\ lock' = None
          /\ Complete(r, IF handling.accepted THEN "answered" ELSE "badResponse")
          /\ UNCHANGED interrupted
       \* The result has a refresh token and no access token.
       \/ /\ r # None /\ handling.accepted
          /\ lock' = IF status[r] = "atBroker" THEN None ELSE lock
          /\ SetStatus(r, "replaying")
          /\ UNCHANGED interrupted
    /\ UNCHANGED <<app, callback, observers, opens, broker>>

\* The app calls +responseFromInterruptedBrokerSession.
TakeInterrupted ==
    /\ Running /\ interrupted # None
    /\ interrupted' = None
    /\ UNCHANGED <<app, lock, callback, observers, resume, opens, broker,
                   handling, status, result, calls, consumed>>

\* The process dies.  NSUserDefaults and the broker app live on.
Kill ==
    /\ Running
    /\ app' = "killed"
    /\ lock' = None
    /\ callback' = None
    /\ observers' = {}
    /\ opens' = {}
    /\ handling' = None
    /\ interrupted' = None
    /\ status' = [r \in Requests |->
                    IF status[r] \in {"new", "completed"} THEN status[r]
                    ELSE "lost"]
    /\ UNCHANGED <<resume, broker, result, calls, consumed>>

\* A cold start: no WillEnterForeground, but DidBecomeActive will come.
Launch ==
    /\ app = "killed"
    /\ app' = "foregrounding"
    /\ UNCHANGED <<lock, callback, observers, resume, opens, broker, handling,
                   interrupted, status, result, calls, consumed>>

-----------------------------------------------------------------------------
RequestStep(r) ==
    \/ Refuse(r) \/ ComposeFails(r) \/ InvokeBroker(r) \/ ShowWebview(r)
    \/ EndWebview(r) \/ NoInstallLink(r) \/ PromptInstall(r) \/ EndReplay(r)
    \/ OpenBroker(r) \/ OpenFails(r) \/ ReceiveResponse(r)

LifeCycle ==
    \/ Interrupt \/ LeaveApp \/ EnterForeground \/ BecomeActive \/ CleanUp
    \/ FinishResponse \/ TakeInterrupted \/ Kill \/ Launch

Next == (\E r \in Requests : RequestStep(r)) \/ LifeCycle

Spec == Init /\ [][Next]_vars

\* The main thread gets on with what it has begun, the silent handler ends, and
\* a user who left for the broker comes back for good one day.  Nothing makes
\* a user leave the app, and nothing makes the broker answer.
Fairness ==
    /\ WF_vars(FinishResponse)
    /\ WF_vars(EnterForeground)
    /\ SF_vars(BecomeActive \/ CleanUp)
    /\ \A r \in Requests : WF_vars(EndReplay(r))
    /\ \A r \in Requests : WF_vars(OpenBroker(r) \/ OpenFails(r))

FairSpec == Spec /\ Fairness

-----------------------------------------------------------------------------
Waiting(r) == status[r] \in WaitingStatus

\* The block of r is in ADBrokerNotificationManager, or was taken by a response
\* that is still being processed.
BlockHeld(r) ==
    \/ callback = r
    \/ handling # None /\ handling.callback = r

\* A completion block is called at most once, whoever gets to it first: the
\* response, the cleanup, a late second response, a replay that ends after
\* other requests came and went.
CompletedOnce == \A r \in Requests : calls[r] <= 1

\* A request that waits for the broker can be completed by somebody: its block
\* was not overwritten by the block of another request, nor dropped.
NoOrphan == \A r \in Requests : Waiting(r) => BlockHeld(r)

\* Only the request that has the interaction lock waits for the broker, so a
\* second request cannot take over the notification manager.
WaiterHasLock ==
    \A r \in Requests : Waiting(r) \/ status[r] = "webview" => lock = r

\* While a block waits, the manager observes one of the two notifications: the
\* user's return to the app cannot go unnoticed.
WaiterIsWatched == callback # None => observers # {}

\* A resume dictionary lets one response in: when the broker sends its answer
\* twice, or the answer of an abandoned request comes late, it is not accepted
\* on the strength of a dictionary that an earlier answer has used up.
ResumeSingleUse ==
    /\ resume # None => resume \notin consumed
    /\ handling # None /\ handling.accepted => handling.resume \notin consumed

\* The manager and the response being processed never have the blocks of the
\* same request, and only blocks of requests that wait.
BlocksAreWaiters ==
    /\ \A r \in Requests : BlockHeld(r) => Waiting(r)
    /\ handling # None => callback = None \/ callback # handling.callback

\* Calls and states agree: nothing is called before the request is completed.
CallsMatchStatus ==
    \A r \in Requests :
      /\ calls[r] = IF status[r] = "completed" THEN 1 ELSE 0
      /\ result[r] = "none" <=> status[r] # "completed"

\* A request that has not composed yet has left no resume dictionary.
ResumeIsComposed ==
    /\ \A r \in Requests : status[r] \in {"new", "webview"} =>
          /\ resume # r
          /\ r \notin consumed
          /\ handling # None => handling.resume # r
    /\ handling # None /\ handling.accepted => handling.resume # None

\* Whoever has ended, by whichever of its exits, has given the lock back; only a
\* broker request that cannot be composed keeps it (requestTokenImpl:, line 374).
LockGivenBack ==
    \A r \in Requests :
        lock = r => \/ Waiting(r) \/ status[r] \in {"webview", "replaying"}
                    \/ status[r] = "completed" /\ result[r] = "composeError"

\* The lock is held for as long as an interaction lasts: a request that waits or shows
\* its webview has it, so that no second one overwrites its block, and by every exit
\* that ends the request but the one it comes back.
LockSpansInteraction == WaiterHasLock /\ LockGivenBack

\* Nothing of a request is left in a process that was killed.
KilledIsEmpty ==
    app = "killed" =>
      /\ lock = None /\ callback = None /\ handling = None
      /\ \A r \in Requests : status[r] \in {"new", "completed", "lost"}

\* The inductive invariant.
IInv ==
    /\ TypeOK
    /\ NoOrphan /\ BlocksAreWaiters
    /\ WaiterHasLock
    /\ WaiterIsWatched
    /\ CallsMatchStatus
    /\ ResumeSingleUse /\ ResumeIsComposed
    /\ LockGivenBack
    /\ KilledIsEmpty

\* The lock as the requests of this module use it, killed processes included,
\* implements the abstract exclusion.
Abstract == INSTANCE OneInteraction
    WITH owner <- lock, turnedAway <- {r \in Requests : result[r] = "refused"}

ImplementsOneInteraction == Abstract!Spec

\* If a request waits while the app is in the background, it stops waiting one
\* day: the answer, the cleanup or the end of the process.
ReturnEndsWait ==
    \A r \in Requests : callback = r /\ app = "background" ~> callback # r

\* "If there's still a callback block it means the user opted not to continue with the
\* authentication flow in the broker" (callbackCleanup:, ADBrokerNotificationManager.m 128): a
\* request that is told so had its turn to open the broker.
NotReceivedMeansTried ==
    [][\A r \in Requests :
         result'[r] = "notReceived" /\ result[r] # "notReceived"
           => r \notin opens]_vars

\* The resume dictionary is the one the waiting request has left.
ResumeIsWaiters == \A r \in Requests : callback = r => resume = r

\* The redirect URI and the keychain group a response is accepted by are those of the
\* request whose block gets the result.
AcceptedForItsOwn ==
    handling # None /\ handling.accepted /\ handling.callback # None
        => handling.resume = handling.callback

\* A response is handed to whichever block waits, and its correlation id is compared
\* with nothing; but as long as a block waits, and until it is called, what responses
\* are accepted by is what its own request has left.
ResumeBelongsToWaiter == ResumeIsWaiters /\ AcceptedForItsOwn

\* With it, when no request comes between the two notifications: a response is
\* processed between them, and meanwhile nobody hands over or composes.
ResponseInv ==
    /\ ResumeBelongsToWaiter
    /\ handling # None => app = "foregrounding" /\ callback = None

\* With IInv, when nobody hands over between the notifications: the second one is
\* observed from the first on, and by then all blocks queued before have run.
ReturnInv ==
    /\ "DidBecomeActive" \in observers => app \in {"foregrounding", "background"}
    /\ app = "foregrounding" => callback \notin opens

\* callbackCleanup: says "we should let whoever is waiting on an ADAL response
\* know it's not coming".
WaiterIsTold == \A r \in Requests : callback = r ~> callback # r
=============================================================================
