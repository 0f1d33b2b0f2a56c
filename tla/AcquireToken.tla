---------------------------- MODULE AcquireToken ----------------------------
(***************************************************************************)
(* The front end: the entry points of ADAuthenticationContext and          *)
(* -acquireToken:completionBlock: of ADAuthenticationRequest, from the     *)
(* checks of the arguments to the call of the completion block, with the   *)
(* telemetry of the call: every event that is started and stopped, and the *)
(* aggregating dispatcher that sends one summary when the call is over.    *)
(*                                                                         *)
(* All calls are made of one context, whose settings the app may change at *)
(* any time: the code reads them when it needs them, not when the call is  *)
(* made.  What the parts it calls may answer is what their own modules say *)
(* (AadValidation, SilentFlow, WebRequest, BrokerHandoff).                 *)
(***************************************************************************)
EXTENDS Sequences, Integers

CONSTANTS
    Requests,  \* ADAuthenticationRequest objects, one for each call
    None,      \* nil
    Calls,     \* the calls the app may make
    Settings   \* the settings the app may give the context

-----------------------------------------------------------------------------
(* The entry points, named by their API ids; what else a caller may pass.  *)

AssertionEntries == {[api |-> "6", takes |-> {"assertion", "userId"}]}

InteractiveEntries == {
    [api |-> "118", takes |-> {}],
    [api |-> "121", takes |-> {"userId"}],
    [api |-> "124", takes |-> {"userId", "query"}],
    [api |-> "127", takes |-> {"prompt", "userId", "query"}],
    [api |-> "130", takes |-> {"prompt", "userIdentifier", "query"}],
    [api |-> "133", takes |-> {"prompt", "userIdentifier", "query", "claims"}]}

SilentEntries == {
    [api |-> "7", takes |-> {}],
    [api |-> "8", takes |-> {"userId"}],
    [api |-> "9", takes |-> {"userId", "forceRefresh"}],
    [api |-> "10", takes |-> {"userId", "claims"}]}

RefreshTokenEntries == {
    [api |-> "136", takes |-> {"refreshToken"}],
    [api |-> "137", takes |-> {"refreshToken", "userId"}]}

Entries == AssertionEntries \union InteractiveEntries \union SilentEntries
           \union RefreshTokenEntries

PromptBehaviors == {"AUTO", "ALWAYS", "REFRESH_SESSION", "FORCE_PROMPT"}

CredentialsTypes == {"AUTO", "EMBEDDED"}

\* What may be wrong with an argument: nil, or not encoded as it must be.
Faults == {"none", "clientId", "resource", "assertion", "refreshToken", "query",
           "claims", "duplicateClaims"}

\* redirect: the app is registered for its redirect URI.
Call == [entry: Entries, prompt: PromptBehaviors, fault: Faults,
         mainThread: BOOLEAN, redirect: BOOLEAN]

\* An entry point only takes what it declares.
PossibleCall(c) ==
    /\ c.prompt # "AUTO" => "prompt" \in c.entry.takes
    /\ c.fault \in {"assertion", "refreshToken", "query", "claims"} =>
           c.fault \in c.entry.takes
    /\ c.fault = "duplicateClaims" => {"claims", "query"} \subseteq c.entry.takes
    /\ c.entry \in AssertionEntries => ~c.redirect

ASSUME CallsAssumption == Calls \subseteq Call /\ \A c \in Calls : PossibleCall(c)
ASSUME NoneAssumption == None \notin Requests \union {"none"}

\* The settings of the context that are read during a call.
Context == [credentialsType: CredentialsTypes, validateAuthority: BOOLEAN,
            webView: BOOLEAN]

ASSUME SettingsAssumption == Settings \subseteq Context

\* "validation" and "other" are the errors of the parts that carry no OAuth
\* code, "SERVER_OAUTH" those that do.
ErrorCodes == {
    "UNEXPECTED", "DEVELOPER_INVALID_ARGUMENT", "validation",
    "SERVER_USER_INPUT_NEEDED", "SERVER_OAUTH", "SERVER_WRONG_USER",
    "SERVER_PROTECTION_POLICY_REQUIRED", "other",
    "UI_MULTLIPLE_INTERACTIVE_REQUESTS", "UI_NOT_SUPPORTED_IN_APP_EXTENSION",
    "UI_NOT_ON_MAIN_THREAD", "TOKENBROKER_INVALID_REDIRECT_URI"}

\* ADAuthenticationResultStatus; a message to nil answers 0, AD_SUCCEEDED.
Statuses == {"SUCCEEDED", "USER_CANCELLED", "FAILED"}

Results == {"succeeded", "cancelled", "nil"} \union ErrorCodes

StatusOf(res) == IF res \in ErrorCodes THEN "FAILED"
                 ELSE IF res = "cancelled" THEN "USER_CANCELLED" ELSE "SUCCEEDED"

\* How an attempt without the user ends (SilentFlow), and isFinalResult:.
NotFinal == {"nil", "SERVER_OAUTH", "SERVER_PROTECTION_POLICY_REQUIRED"}
SilentResults == NotFinal \union {"succeeded", "SERVER_WRONG_USER", "other"}

EventNames == {"api", "validation", "silent", "broker", "code", "grant"}

\* A stopped event: those of class ADTelemetryAPIEvent may carry a status.
EventStatuses == Statuses \union {"none", "TRY_INSTALL"}
Event == [name: EventNames, status: EventStatuses]

Stopped(name, status) == [name |-> name, status |-> status]

\* The user is, or may be, asked.
PromptingAt == {"webview", "broker", "install"}

Locations == PromptingAt \union {"idle", "validating", "silent", "requesting",
    "refreshing", "assertion", "redeeming", "replaying", "lockedReplay", "done"}

VARIABLES
    inExtension,  \* whether the process is an app extension
    context,      \* the settings of the context
    call,         \* what each call was made with
    pc,           \* where it is
    underlying,   \* the result of its attempt without the user, or "none"
    lock,         \* who has taken the interaction lock
    result,       \* what the completion block of the app was called with
    left,         \* history: calls another app was opened for
    started,      \* events started and not stopped, of each call
    received,     \* _objectsToBeDispatched of the aggregating dispatcher
    dispatched    \* the summaries it has sent

telemetry == <<started, received, dispatched>>
vars == <<inExtension, context, call, pc, underlying, lock, result, left, telemetry>>

TypeOK ==
    /\ inExtension \in BOOLEAN
    /\ context \in Settings
    /\ call \in [Requests -> Calls]
    /\ pc \in [Requests -> Locations]
    /\ underlying \in [Requests -> SilentResults \union {"none"}]
    /\ lock \in Requests \union {None}
    /\ result \in [Requests -> Results \union {"none"}]
    /\ left \subseteq Requests
    /\ started \in [Requests -> SUBSET EventNames]
    /\ received \in [Requests -> Seq(Event)]
    /\ dispatched \in [Requests -> Seq(EventStatuses)]

Init ==
    /\ inExtension \in BOOLEAN
    /\ context \in Settings
    /\ call \in [Requests -> Calls]
    /\ pc = [r \in Requests |-> "idle"]
    /\ underlying = [r \in Requests |-> "none"]
    /\ lock = None
    /\ result = [r \in Requests |-> "none"]
    /\ left = {}
    /\ started = [r \in Requests |-> {}]
    /\ received = [r \in Requests |-> <<>>]
    /\ dispatched = [r \in Requests |-> <<>>]

-----------------------------------------------------------------------------
Silent(r) == call[r].entry \in SilentEntries \union RefreshTokenEntries
WithAssertion(r) == call[r].entry \in AssertionEntries
Forced(r) == call[r].prompt # "AUTO"

Goto(r, location) == pc' = [pc EXCEPT ![r] = location]

\* The summary of a call, as far as it is told apart here: of the properties
\* that are only collected, the last event that has a value gives it, and the
\* class of the broker event has no status among its properties.
Summary(events) ==
    LET telling == {i \in DOMAIN events :
                      events[i].status # "none" /\ events[i].name # "broker"}
    IN  IF telling = {} THEN "none"
        ELSE events[CHOOSE i \in telling : \A j \in telling : j <= i].status

\* Mutant: the summary is sent before the event of the call is stopped.
Flush_TooEarly(r, events) ==
    /\ dispatched' = [dispatched EXCEPT ![r] =
                        Append(@, Summary(received[r] \o SubSeq(events, 1, Len(events) - 1)))]
    /\ received' = [received EXCEPT ![r] = <<>>]

\* The last events of a call are stopped, and flush: takes its list away and
\* sends the summary.
Flush(r, events) ==
    /\ dispatched' = [dispatched EXCEPT ![r] =
                        Append(@, Summary(received[r] \o events))]
    /\ received' = [received EXCEPT ![r] = <<>>]

\* The wrapped completion block, after some events were stopped: the event of
\* the call is stopped too, everything is flushed and the app's block called.
Complete(r, events, res) ==
    /\ Goto(r, "done")
    /\ result' = [result EXCEPT ![r] = res]
    /\ started' = [started EXCEPT
                     ![r] = @ \ ({"api"} \union {events[i].name : i \in DOMAIN events})]
    /\ Flush(r, Append(events, Stopped("api", StatusOf(res))))

\* On the way: some events are stopped, then others started.
Continue(r, location, events, starting) ==
    /\ Goto(r, location)
    /\ started' = [started EXCEPT ![r] =
          (@ \ {events[i].name : i \in DOMAIN events}) \union starting]
    /\ received' = [received EXCEPT ![r] = @ \o events]
    /\ UNCHANGED <<result, dispatched>>

-----------------------------------------------------------------------------
(* The entry point and the checks.                                         *)

\* The entry point refuses the arguments itself; the request never starts.
RefuseAtEntry(r) ==
    /\ pc[r] = "idle"
    /\ \/ call[r].fault \in {"clientId", "assertion", "refreshToken", "claims"}
       \/ call[r].fault = "resource" /\ WithAssertion(r)
    /\ Goto(r, "done")
    /\ result' = [result EXCEPT ![r] = "DEVELOPER_INVALID_ARGUMENT"]
    /\ UNCHANGED <<inExtension, context, call, underlying, lock, left, telemetry>>

\* AD_REQUEST_CHECK_ARGUMENT: the event of the call has been started, but the
\* block is not wrapped yet.
MissingResource(r) ==
    /\ pc[r] = "idle"
    /\ call[r].fault = "resource" /\ ~WithAssertion(r)
    /\ Goto(r, "done")
    /\ result' = [result EXCEPT ![r] = "DEVELOPER_INVALID_ARGUMENT"]
    /\ started' = [started EXCEPT ![r] = {"api"}]
    /\ UNCHANGED <<inExtension, context, call, underlying, lock, left,
                   received, dispatched>>

\* Calls that acquireToken: gets as far as to check.
Checked(r) ==
    /\ pc[r] = "idle"
    /\ call[r].fault \in {"none", "query", "duplicateClaims"}

\* validBrokerRedirectUri:
ValidBrokerRedirectUri(r) == call[r].redirect

\* What the checks object to, the first one first.
Objection(r) ==
    IF ~WithAssertion(r) /\ ~Silent(r) /\ ~call[r].mainThread
    THEN "UI_NOT_ON_MAIN_THREAD"
    ELSE IF call[r].fault # "none" THEN "DEVELOPER_INVALID_ARGUMENT"
    ELSE IF ~Silent(r) /\ context.credentialsType = "AUTO" /\ ~ValidBrokerRedirectUri(r)
    THEN "TOKENBROKER_INVALID_REDIRECT_URI"
    ELSE "none"

FailChecks(r) ==
    /\ Checked(r)
    /\ Objection(r) # "none"
    /\ Complete(r, <<>>, Objection(r))
    /\ UNCHANGED <<inExtension, context, call, underlying, lock, left>>

PassChecks(r) ==
    /\ Checked(r)
    /\ Objection(r) = "none"
    /\ Continue(r, "validating", <<>>, {"api", "validation"})
    /\ UNCHANGED <<inExtension, context, call, underlying, lock, left>>

-----------------------------------------------------------------------------
(* Without the user.                                                       *)

ValidationStopped == <<Stopped("validation", "none")>>
SilentStopped == <<Stopped("silent", "none")>>

InvalidAuthority(r) ==
    /\ pc[r] = "validating"
    /\ Complete(r, ValidationStopped, "validation")
    /\ UNCHANGED <<inExtension, context, call, underlying, lock, left>>

\* Mutant: the cache is left out for every call that may ask the user.
ValidatedAcquireToken_SkipsCache(r) ==
    /\ pc[r] = "validating"
    /\ \/ /\ call[r].entry \in RefreshTokenEntries
          /\ Continue(r, "refreshing", ValidationStopped, {})
       \/ /\ call[r].entry \in SilentEntries
          /\ Continue(r, "silent", ValidationStopped, {"silent"})
       \/ /\ ~Silent(r)
          /\ Continue(r, "requesting", ValidationStopped, {})
    /\ UNCHANGED <<inExtension, context, call, underlying, lock, left>>

ValidatedAcquireToken(r) ==
    /\ pc[r] = "validating"
    /\ \/ /\ call[r].entry \in RefreshTokenEntries
          /\ Continue(r, "refreshing", ValidationStopped, {})
       \/ /\ call[r].entry \notin RefreshTokenEntries
          /\ ~Forced(r)
          /\ Continue(r, "silent", ValidationStopped, {"silent"})
       \/ /\ Forced(r)
          /\ Continue(r, "requesting", ValidationStopped, {})
    /\ UNCHANGED <<inExtension, context, call, underlying, lock, left>>

\* tryRefreshToken: with the refresh token of the app; every result is passed on.
RefreshTokenTried(r) ==
    /\ pc[r] = "refreshing"
    /\ \E res \in SilentResults \ {"nil"} : Complete(r, <<>>, res)
    /\ UNCHANGED <<inExtension, context, call, underlying, lock, left>>

\* getAccessToken: before the user is asked.
SilentFinal(r) ==
    /\ pc[r] = "silent"
    /\ \E res \in SilentResults \ NotFinal :
          /\ underlying' = [underlying EXCEPT ![r] = res]
          /\ Complete(r, SilentStopped, res)
    /\ UNCHANGED <<inExtension, context, call, lock, left>>

SilentNotFinal(r) ==
    /\ pc[r] = "silent"
    /\ \E res \in NotFinal : underlying' = [underlying EXCEPT ![r] = res]
    /\ Continue(r, "requesting", SilentStopped, {})
    /\ UNCHANGED <<inExtension, context, call, lock, left>>

\* requestToken: with an assertion.
RequestByAssertion(r) ==
    /\ pc[r] = "requesting"
    /\ WithAssertion(r)
    /\ Continue(r, "assertion", <<>>, {})
    /\ UNCHANGED <<inExtension, context, call, underlying, lock, left>>

\* What became of a token request.  An error without an answer is dropped: the
\* nil response in its place is an unexpected one to ADResponseCacheHandler.
Redeemed == {"succeeded", "SERVER_OAUTH", "SERVER_PROTECTION_POLICY_REQUIRED",
             "SERVER_WRONG_USER", "UNEXPECTED"}

AssertionTried(r) ==
    /\ pc[r] = "assertion"
    /\ \E res \in Redeemed : Complete(r, <<>>, res)
    /\ UNCHANGED <<inExtension, context, call, underlying, lock, left>>

\* Mutant: the policy error is not told from the others.
SilentError_InputNeeded(r) == "SERVER_USER_INPUT_NEEDED"

SilentError(r) ==
    IF underlying[r] = "SERVER_PROTECTION_POLICY_REQUIRED"
    THEN "SERVER_PROTECTION_POLICY_REQUIRED" ELSE "SERVER_USER_INPUT_NEEDED"

\* requestToken: the caller does not want the user to be asked.
NoUserWanted(r) ==
    /\ pc[r] = "requesting"
    /\ Silent(r)
    /\ Complete(r, <<>>, SilentError(r))
    /\ UNCHANGED <<inExtension, context, call, underlying, lock, left>>

-----------------------------------------------------------------------------
(* With the user: requestToken: and requestTokenImpl:.                     *)

Interactive(r) == pc[r] = "requesting" /\ ~WithAssertion(r) /\ ~Silent(r)

EmbeddedWebView == context.webView /\ context.credentialsType = "EMBEDDED"

MayAsk(r) == Interactive(r) /\ (inExtension => EmbeddedWebView)

\* Mutant: an extension is only told when it has no webview.
NoUIInExtension_WebViewIsEnough(r) ==
    /\ Interactive(r) /\ inExtension /\ ~context.webView
    /\ Complete(r, <<>>, "UI_NOT_SUPPORTED_IN_APP_EXTENSION")
    /\ UNCHANGED <<inExtension, context, call, underlying, lock, left>>

NoUIInExtension(r) ==
    /\ Interactive(r) /\ ~MayAsk(r)
    /\ Complete(r, <<>>, "UI_NOT_SUPPORTED_IN_APP_EXTENSION")
    /\ UNCHANGED <<inExtension, context, call, underlying, lock, left>>

\* takeExclusionLock: for the broker or the webview.
Refused(r) ==
    /\ MayAsk(r)
    /\ lock # None
    /\ Complete(r, <<>>, "UI_MULTLIPLE_INTERACTIVE_REQUESTS")
    /\ UNCHANGED <<inExtension, context, call, underlying, lock, left>>

\* Mutant: the lock is not waited for.
TakeExclusionLock_Always(r) == lock' = r

TakeExclusionLock(r) == lock = None /\ lock' = r

\* Mutant: the broker is also called from an extension.
CanUseBroker_InExtension == context.validateAuthority

\* canUseBroker: the broker must also be installed, and the authority not be of
\* AD FS; so the webview may be used whenever the broker may.
CanUseBroker ==
    context.credentialsType = "AUTO" /\ context.validateAuthority /\ ~inExtension

\* composeBrokerRequest: needs the redirect URI, and a key, to succeed.
ComposeFails(r) ==
    /\ MayAsk(r) /\ CanUseBroker
    /\ TakeExclusionLock(r)
    /\ \/ /\ ~ValidBrokerRedirectUri(r)
          /\ Complete(r, <<>>, "TOKENBROKER_INVALID_REDIRECT_URI")
       \/ /\ ValidBrokerRedirectUri(r)
          /\ Complete(r, <<>>, "UNEXPECTED")
    /\ UNCHANGED <<inExtension, context, call, underlying, left>>

InvokeBroker(r) ==
    /\ MayAsk(r) /\ CanUseBroker
    /\ TakeExclusionLock(r)
    /\ ValidBrokerRedirectUri(r)
    /\ Continue(r, "broker", <<>>, {"broker"})
    /\ left' = left \union {r}
    /\ UNCHANGED <<inExtension, context, call, underlying>>

RequestCode(r) ==
    /\ MayAsk(r)
    /\ TakeExclusionLock(r)
    /\ Continue(r, "webview", <<>>, {"code"})
    /\ UNCHANGED <<inExtension, context, call, underlying, left>>

BrokerStopped(status) == <<Stopped("broker", status)>>

\* What the broker, or the manager that waits for it, says.
BrokerResults == {"succeeded", "cancelled", "SERVER_OAUTH", "other"}

BrokerAnswers(r) ==
    /\ pc[r] = "broker"
    /\ lock' = None
    /\ \E res \in BrokerResults : Complete(r, BrokerStopped(StatusOf(res)), res)
    /\ UNCHANGED <<inExtension, context, call, underlying, left>>

\* A refresh token but no access token: it is replayed, without the lock.
BrokerGivesNoAccessToken(r) ==
    /\ pc[r] = "broker"
    /\ lock' = None
    /\ Continue(r, "replaying", BrokerStopped("SUCCEEDED"), {"silent"})
    /\ UNCHANGED <<inExtension, context, call, underlying, left>>

Replayed(r) ==
    /\ pc[r] = "replaying"
    /\ \E res \in SilentResults : Complete(r, SilentStopped, res)
    /\ UNCHANGED <<inExtension, context, call, underlying, lock, left>>

-----------------------------------------------------------------------------
(* The webview: the completion block gives the lock back first.            *)

CodeStopped(status) == <<Stopped("code", status)>>

\* Mutant: the event is not stopped when the webview fails.
WebviewFails_KeepsEvent(r) ==
    /\ pc[r] = "webview"
    /\ lock' = None
    /\ \E res \in {"cancelled", "SERVER_OAUTH", "other", "UNEXPECTED"} :
          Complete(r, <<>>, res)
    /\ UNCHANGED <<inExtension, context, call, underlying, left>>

\* The user cancels, the session fails, the server refuses or its answer is of
\* no known class.
WebviewFails(r) ==
    /\ pc[r] = "webview"
    /\ lock' = None
    /\ \E res \in {"cancelled", "SERVER_OAUTH", "other", "UNEXPECTED"} :
          Complete(r, CodeStopped(StatusOf(res)), res)
    /\ UNCHANGED <<inExtension, context, call, underlying, left>>

\* processOpenBrowserResponse: the call is cancelled once the browser is open.
OpenBrowser(r) ==
    /\ pc[r] = "webview"
    /\ lock' = None
    /\ \/ /\ inExtension
          /\ Complete(r, CodeStopped("FAILED"), "UI_NOT_SUPPORTED_IN_APP_EXTENSION")
          /\ UNCHANGED left
       \/ /\ ~inExtension
          /\ Complete(r, CodeStopped("USER_CANCELLED"), "cancelled")
          /\ left' = left \union {r}
    /\ UNCHANGED <<inExtension, context, call, underlying>>

\* The event says "try to prompt to install broker".
InstallStopped == <<Stopped("code", "TRY_INSTALL")>>

\* processMSAuthResponse: the broker request cannot be composed, or there is no
\* link to install the broker from.
InstallFails(r) ==
    /\ pc[r] = "webview"
    /\ lock' = None
    /\ \/ /\ ~ValidBrokerRedirectUri(r)
          /\ Complete(r, InstallStopped, "TOKENBROKER_INVALID_REDIRECT_URI")
       \/ /\ ValidBrokerRedirectUri(r)
          /\ Complete(r, InstallStopped, "UNEXPECTED")
    /\ UNCHANGED <<inExtension, context, call, underlying, left>>

\* promptBrokerInstall: opens the link and waits like for the broker.
InstallPrompted(r) ==
    /\ pc[r] = "webview"
    /\ ValidBrokerRedirectUri(r) /\ ~inExtension
    /\ Continue(r, "install", InstallStopped, {})
    /\ left' = left \union {r}
    /\ UNCHANGED <<inExtension, context, call, underlying, lock>>

\* In an extension it answers nil, which reads as a success without a token.
InstallInExtension(r) ==
    /\ pc[r] = "webview"
    /\ ValidBrokerRedirectUri(r) /\ inExtension
    /\ Continue(r, "lockedReplay", InstallStopped, {"silent"})
    /\ UNCHANGED <<inExtension, context, call, underlying, lock, left>>

InstallAnswers(r) ==
    /\ pc[r] = "install"
    /\ lock' = None
    /\ \E res \in BrokerResults : Complete(r, <<>>, res)
    /\ UNCHANGED <<inExtension, context, call, underlying, left>>

InstallGivesNoAccessToken(r) ==
    /\ pc[r] = "install"
    /\ Continue(r, "lockedReplay", <<>>, {"silent"})
    /\ UNCHANGED <<inExtension, context, call, underlying, lock, left>>

LockedReplayed(r) ==
    /\ pc[r] = "lockedReplay"
    /\ lock' = None
    /\ \E res \in SilentResults : Complete(r, SilentStopped, res)
    /\ UNCHANGED <<inExtension, context, call, underlying, left>>

\* processOAuthResponse: and requestTokenByCode:.
GotCode(r) ==
    /\ pc[r] = "webview"
    /\ Continue(r, "redeeming", CodeStopped("SUCCEEDED"), {"grant"})
    /\ UNCHANGED <<inExtension, context, call, underlying, lock, left>>

CodeRedeemed(r) ==
    /\ pc[r] = "redeeming"
    /\ lock' = None
    /\ \E res \in Redeemed : Complete(r, <<Stopped("grant", StatusOf(res))>>, res)
    /\ UNCHANGED <<inExtension, context, call, underlying, left>>

-----------------------------------------------------------------------------
\* The app sets properties of the context, on any thread.
ChangeSettings ==
    /\ context' \in Settings
    /\ UNCHANGED <<inExtension, call, pc, underlying, lock, result, left, telemetry>>

\* Steps that need nobody but this code and a network that ends every request.
OwnStep(r) ==
    \/ InvalidAuthority(r) \/ ValidatedAcquireToken(r)
    \/ RefreshTokenTried(r) \/ SilentFinal(r) \/ SilentNotFinal(r)
    \/ RequestByAssertion(r) \/ AssertionTried(r) \/ NoUserWanted(r)
    \/ NoUIInExtension(r) \/ Refused(r)
    \/ ComposeFails(r) \/ InvokeBroker(r) \/ RequestCode(r)
    \/ Replayed(r) \/ LockedReplayed(r) \/ CodeRedeemed(r)

CallerStep(r) ==
    RefuseAtEntry(r) \/ MissingResource(r) \/ FailChecks(r) \/ PassChecks(r)

UserStep(r) ==
    \/ BrokerAnswers(r) \/ BrokerGivesNoAccessToken(r)
    \/ WebviewFails(r) \/ OpenBrowser(r) \/ GotCode(r)
    \/ InstallFails(r) \/ InstallPrompted(r) \/ InstallInExtension(r)
    \/ InstallAnswers(r) \/ InstallGivesNoAccessToken(r)

Next ==
    \/ \E r \in Requests : CallerStep(r) \/ OwnStep(r) \/ UserStep(r)
    \/ ChangeSettings

Spec == Init /\ [][Next]_vars

\* Network requests end and blocks queued on a thread run; users need not answer.
FairSpec == Spec /\ \A r \in Requests : WF_vars(OwnStep(r))

-----------------------------------------------------------------------------
\* Calls whose block was wrapped before they ended.
Wrapped(r) == call[r].fault \in {"none", "query", "duplicateClaims"}

\* A call sends one summary, when it ends, and leaves no event behind, started
\* or stopped, whichever of its many ways it ended ("flush all events in the
\* end of the acquireToken call"); only a call without a resource leaves the
\* event it started open for ever.
OneSummaryPerCall == \A r \in Requests :
    /\ Len(dispatched[r]) = IF pc[r] = "done" /\ Wrapped(r) THEN 1 ELSE 0
    /\ pc[r] = "done" =>
          /\ received[r] = <<>>
          /\ started[r] = IF call[r].fault = "resource" /\ ~WithAssertion(r)
                          THEN {"api"} ELSE {}

\* The summary gives the status the app was told, not the one of an earlier
\* event of the call; it says "succeeded" of the nil of a replay.
SummaryTellsResult == \A r \in Requests :
    dispatched[r] # <<>> => dispatched[r] = <<StatusOf(result[r])>>

\* The user is only asked by a call that may, holds the lock, and whose attempt
\* without the user was made and came to nothing unless it wanted none
\* (acquireToken:completionBlock: to requestTokenImpl:).
PromptIsLastResort == \A r \in Requests :
    pc[r] \in PromptingAt =>
        /\ ~Silent(r) /\ ~WithAssertion(r)
        /\ lock = r
        /\ ~Forced(r) => underlying[r] \in NotFinal

\* An app extension opens no other app, whichever way the answer of the webview
\* or the settings of the context point (requestToken:, canUseBroker,
\* processOpenBrowserResponse:, promptBrokerInstall:).
StaysInExtension == inExtension => left = {}

\* A silent call ends with the protection policy error, which the app has to
\* act on, exactly when that is what its attempt ended with (requestToken:).
PolicyErrorReachesCaller == \A r \in Requests :
    pc[r] = "done" /\ call[r].entry \in SilentEntries =>
        (result[r] = "SERVER_PROTECTION_POLICY_REQUIRED"
            <=> underlying[r] = "SERVER_PROTECTION_POLICY_REQUIRED")

\* Every call ends unless the user, or the broker, is to answer.
EveryCallEnds == \A r \in Requests :
    pc[r] # "idle" ~> pc[r] \in PromptingAt \union {"done"}

\* What the app is told of a call is what TokenCall promises of it.
TC == INSTANCE TokenCall WITH
    told <- result,
    phase <- [r \in Requests |->
        IF pc[r] \in PromptingAt THEN "prompting"
        ELSE IF pc[r] \in {"redeeming", "replaying", "lockedReplay"} THEN "answered"
        ELSE IF pc[r] = "done" THEN "ended"
        ELSE IF pc[r] = "idle" THEN "idle" ELSE "running"]

\* One end, one result and at most one prompt for each call, one prompt at a time,
\* and no result that what the call has done so far belies: not "cancelled" when
\* nobody was asked, nor an error of the arguments when the user was.
ImplementsTokenCall == TC!Spec

\* What came of the attempt without the user that a call made first.  That of an
\* app's own refresh token is passed on at once.
FirstOutcome(r) ==
    IF underlying[r] # "none" THEN underlying[r]
    ELSE IF call[r].entry \in RefreshTokenEntries /\ result[r] \in SilentResults
    THEN result[r] ELSE "none"

SA == INSTANCE SilentAttempt WITH
    Attempts <- Requests,
    outcome <- [r \in Requests |-> FirstOutcome(r)],
    stage <- [r \in Requests |->
        IF pc[r] = "silent" THEN "cache"
        ELSE IF pc[r] = "refreshing" THEN "token"
        ELSE IF FirstOutcome(r) # "none" THEN "over" ELSE "idle"]

\* The front end makes at most one attempt before it asks the user (getAccessToken:,
\* tryRefreshToken:); what that may come to is what SilentFlow is shown to keep to.
ImplementsSilentAttempt == SA!Spec

\* The lock, taken and given back by the many ways of a call, is the one of
\* InteractionLock and BrokerHandoff.
OI == INSTANCE OneInteraction WITH
    owner <- lock,
    turnedAway <- {r \in Requests : result[r] = "UI_MULTLIPLE_INTERACTIVE_REQUESTS"}

\* A call is told that the user is being prompted only while another call has the
\* user's attention, and no call gets it before the other has given it back
\* (takeExclusionLock:, releaseExclusionLock, requestTokenImpl:).
ImplementsOneInteraction == OI!Spec
=============================================================================
