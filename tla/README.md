# A verification development for ADAL for iOS and macOS

TLA+ modules, TLC configurations and TLAPS proofs about the Azure AD
Authentication Library for Objective-C (`ADAL/src`). Source files are named
relative to `ADAL/src` below. `PROJECT.json` maps every definition to the lines
it models and lists the runs, mutants, hazards, findings and theorems.

## 1. Inventory

An app asks `ADAuthenticationContext` for a token. The context builds an
`ADAuthenticationRequest`, which validates the authority, tries to get a token
without the user, and otherwise prompts the user in a webview or hands over to
the broker app. Everything is driven by completion blocks that run on several
queues; several requests of one process are in progress at once and share the
state in the second column.

| component | state | operations | interacts with | what is hard | what makes it correct |
|---|---|---|---|---|---|
| interaction lock (`request/ADAuthenticationRequest.m`, `requestTokenImpl:`) | semaphore `s_interactionLock`, pointer `s_modalRequest` | take, release, current request | all interactive requests; webview; broker | two statements that are not atomic; many exits; a replay with the lock held | one prompt at a time; an interaction whose webview or app was opened ends and gives the lock back |
| broker hand-off (`request/…+Broker.m`, `broker/ios/ADBrokerHelper.m`, `ADBrokerNotificationManager.m`, `ui/ADWebAuthController.m`) | the completion block, two notification observers, the resume dictionary in NSUserDefaults, `s_result` | compose, invoke, prompt for install, receive the response, clean up, resume an interrupted session | iOS notifications and URLs, the broker app, the lock | a response races the clean-up; requests start at any time; the process dies; answers come late or twice | each block called once and never lost; an answer accepted once |
| silent handler (`request/ADAcquireTokenSilentHandler.m`, `cache/ADResponseCacheHandler.m`) | instance variables of the handler; the token cache | cached token, RT, MRRT, FRT, fallbacks | token cache, token endpoint, other handlers | mutual recursion; cache and server change while a request is out | no token redeemed twice; nothing good removed; the user asked last |
| authority validation (`validation/*.m`) | AAD cache (external), serial queue, dictionary of AD FS authorities | validate AAD, DRS discovery, WebFinger | every request, before anything else | a queue blocked by a semaphore; a cache read twice; an unlocked dictionary | at most one discovery at a time and per host; a validated authority stays so; every caller gets its answer |
| web request and response (`request/ADWeb*.m`) | session, task, header and body, `retryIfServerError`, completion handler | send, resend, invalidate, delegate callbacks, status handling | NSURLSession, PKeyAuth helper, metrics | delayed retry; resends; invalidation in between | one completion per request; at most one retry after a 5xx |
| front end (`request/…+AcquireToken.m`) | flags and parameters of a request; the settings of the context | argument checks, choice of path, code redemption | all of the above | some twenty exits; settings read again during the call; app extensions | one end and one summary per call; silent requests never prompt; a policy error reaches a silent caller; no other app is opened from an extension |
| assertion and code requests (`…+AcquireAssertion.m`, `…+WebRequest.m`) | none of their own | build one token request | web request | - | parameters as asked |
| client metrics (`ADClientMetrics.m`) | one pending record | add to headers, end record, clear | every web request | shared by all requests | a record reported once |
| telemetry (`telemetry/*.m`) | events per request id | collect, aggregate, dispatch | all requests | every exit must stop its events first | one summary per call, which tells its result |
| Mac token cache (`cache/ADTokenCache.m`, `cache/ADMSIDDataSourceWrapper.m`) | items, delegate, the delegate's lock and what it has saved | get, add, remove, remove many, set the delegate | silent handler through the submodule; the delegate of the app; other caches with the same delegate | two messages around each access, to whatever delegate there is then | what is written is saved before the lock is let go; the caches behave as one store |
| keychain token cache (`cache/ios/*.m`) | keychain | same | system | - | - |
| cache items and keys (`cache/ADTokenCacheItem*.m`, `ADTokenCacheKey.m`) | value objects | coding, equality | caches | - | round trip |
| enrollment gateway (`ADEnrollmentGateway.m`) | two JSON strings | look up enrollment id and resource | broker request | - | the most specific match wins |
| broker key (`broker/ios/ADBrokerKeyHelper.m`) | keychain | create, get, delete, decrypt | broker request and response | - | - |
| public API (`ADAuthenticationContext.m`) | context properties | overloads | front end | - | - |
| header parsing (`ADAuthenticationParameters*.m`, `parseAuthHeader:`) | indexes into the header | parse a challenge | web response, app | indexes moved by hand through what a server sends | ends; never leaves the header; reads what the server means |
| users (`ADUserIdentifier.m`, `ADUserInformation*.m`) | value objects | does a result belong to the user asked for | silent handler, response cache | - | - |
| parameters, results, errors, logging, settings, utilities | value objects | - | all | - | - |
| IdentityCore (`MSID*`) | token cache accessor, authority cache, webview | - | all | - | external: a submodule that is empty here |

## 2. Modules

| module | models |
|---|---|
| `OneInteraction` | abstract: one owner of the user's attention; others are turned away only while there is one |
| `InteractionLock` | semaphore and pointer as separate steps, and every path of `requestTokenImpl:` through them |
| `BrokerHandoff` | the switch to the broker and back, with the life cycle of the app and the death of the process |
| `SilentAttempt` | abstract: what an attempt without the user may come to; never nothing when the app brought a token |
| `SilentFlow` | concurrent silent calls over a shared cache, with a server that rotates and revokes |
| `SingleFlight` | abstract: the verdict on a host is asked for by one caller at a time, and only while it is unknown |
| `AadValidation` | the cache of AAD hosts, the serial queue and the semaphore that holds it |
| `AdfsValidation` | DRS discovery, WebFinger and the unguarded dictionary of AD FS authorities |
| `WebRequest` | web requests with challenges, the delayed retry and the metrics record they share |
| `TokenCall` | abstract: a call ends once, told one result that fits how far it came; it asks the user at most once, no two at the same time |
| `AcquireToken` | the entry points and `acquireToken:` with their telemetry, while the settings of the context change |
| `TokenStore` | abstract: places with items that are there from the call that adds them to one that removes them |
| `TokenCache` | the caches of macOS around the messages to their delegates, several with the same one |
| `ChallengeHeaders` | the two readers of a `WWW-Authenticate` header, symbol by symbol, and how a server writes one |
| `MC…` | constants for TLC: symmetry, sets of start states, options, calls, settings and headers, who asks about what |
| `…Proofs` | theorems about the module they extend |

`InteractionLock` and `BrokerHandoff` look at the same lock from two sides. The
first splits the two statements of take and release and leaves open what the
webview and the broker do. The second takes the lock atomically and models
what happens while it is held. Both are shown to implement `OneInteraction`, so
what one assumes of the lock is what the other establishes. `AcquireToken` is the
frame around all of the others: what `SilentFlow`, `AadValidation`, `WebRequest` and
`BrokerHandoff` say a part may answer is what its steps choose from. The lock is
atomic there too, and the calls are shown to use it as `OneInteraction` allows
(`OneInteractionImplemented`), so that what `AcquireToken` assumes of the lock is what the
other two establish. `SilentAttempt` stands in the same way between `SilentFlow`, whose handlers
come to its outcomes only, and `AcquireToken`, whose calls make one attempt before the user is asked and
are ready for exactly these outcomes.

### InteractionLock

| state | code |
|---|---|
| `semaphore` | the count of `s_interactionLock` |
| `modalRequest` | `s_modalRequest` |
| `pc` | the statement of `requestTokenImpl:` a request has got to: before the wait, after it, after the pointer was set, another app opened (`switched`) or not (`stranded`), replaying a refresh token, about to signal, about to clear the pointer, or completed without the lock given back (`leaked`) |
| `route` | whether the request goes to the broker or to the webview |

`WaitSucceeds`/`WaitFails`/`SetModal` are `takeExclusionLock`,
`Signal`/`ClearModal` are `releaseExclusionLock`. `ComposeFails` is the early
return of the broker branch. `OpenApp` is the `openURL` of `invokeBroker:` and
`promptBrokerInstall:`, whose result nobody looks at: if it fails, nobody need ever call
the block. `Answered` and `AnsweredWithoutAccessToken` are the
two ways the completion block goes, once it is waited for (`Waiting`); the webview branch replays with the lock
held (`Replayed` leads to `Signal`), the broker branch after it was released
(`ReplayedFree`).

### BrokerHandoff

| state | code |
|---|---|
| `app` | active; inactive behind a system dialog; foregrounding, that is between `WillEnterForeground` and `DidBecomeActive`; background; killed |
| `callback`, `observers` | `_callbackForBroker` and the registrations of `ADBrokerNotificationManager` |
| `resume` | the resume dictionary, named after the request that wrote it |
| `opens` | blocks on the main queue that will call `openURL` |
| `broker` | requests the broker knows and may answer, early, late or twice |
| `handling` | `+internalHandleBrokerResponse:` between taking the block and calling it |
| `interrupted` | `s_result` of `ADWebAuthController` |
| `status`, `result`, `calls`, `consumed` | where each request is, what its block was called with, and history |

One action per method or block: `InvokeBroker`, `ShowWebview`, `EndWebview`,
`NoInstallLink`, `PromptInstall`, `EndReplay` run on the threads of requests;
`OpenBroker`, `OpenFails`, `EnterForeground`, `CleanUp`, `ReceiveResponse`,
`FinishResponse` on the main thread, one at a time (`MainThreadFree`);
`Interrupt`, `LeaveApp`, `Kill`, `Launch` are what iOS and the user do. `StartStates`
says in which states of the app a request may come to need the user, `InstallStates` in
which the answer of its webview may ask for the broker: a hand-over is in either case made on a
queue of its own and not bound to a state of the app.

### SilentFlow

| state | code |
|---|---|
| `single`, `mrrt`, `frt` | the items of the token cache for one account, resource and family |
| `live`, `issued` | the refresh tokens the server accepts; how many it has issued |
| `pc` | the method of the handler that runs next, or that its request is out or answered |
| `handler` | `_extendedLifetimeAccessTokenItem`, `_mrrtItem`, `_attemptedFRT`, `_mrrtResult`, the request, its answer, and history |
| `options`, `result` | what the caller asked for and got |
| `remaining` | history: tokens that have been in the cache ever since the call began |

The methods `getAccessToken:`, `tryRT:`, `tryMRRT:` and `tryFRT:` are split where
they read the cache and where they wait for the server. Answering is two steps:
the server decides (`ServerGrants`, `ServerRefuses`), and later the block of the
handler runs (`ProcessTokens`, `ProcessFinalError`, `ProcessOAuthError`), so that
two calls may hear the server in the opposite order. `Revoke` and `Age` are
the server and time.

### AadValidation

| state | code |
|---|---|
| `cache` | the record of `MSIDAadAuthorityCache` for each host: none, valid, invalid |
| `queue`, `running` | the serial queue `_aadValidationQueue` and the block it runs |
| `dsem` | the semaphore the block waits for before it returns |
| `pc`, `validate` | where each caller is; whether it asked to validate |
| `answer`, `result` | what the discovery ended with; what the completion block got, which is not told of `invalid_instance` unless it validates (`Outcome`) |
| `instances`, `learned` | the hosts that are instances of AAD; history: those the endpoint has given a verdict on |

`BadArgument`, `FindRecord` and `Enqueue` run on the caller's thread (the first
look into the cache); `RunBlock`, `FindRecordAgain` and `SendDiscovery` on the
queue (the second look); `DiscoveryFails`, `InvalidInstance` and
`ProcessMetadata` in the callback of the request, which leaves its answer with
a global queue; `Deliver` there. `Signal` follows the answer, and `BlockReturns`
frees the queue.

### AdfsValidation

| state | code |
|---|---|
| `validated` | `_validatedAdfsAuthorities`: the set object of each domain, named by the caller that made it |
| `members` | what is in each set object, also in one that was replaced |
| `authorities` | the local variable of `addValidAuthority:domain:` |
| `pc`, `result` | where each caller is, and its answer |
| `trusts` | what WebFinger says, per domain |
| `crashed` | the outcome of a data race that ends the process |

`addValidAuthority:domain:` is three actions (`FetchSet`, `InsertSet`,
`AddObject`), since callers run it on the queues of different sessions. Two
accesses to one container of which one writes are a race (`Racing`): each access
takes effect, or the process ends (`Crash`).

### WebRequest

| state | code |
|---|---|
| `response`, `responseData` | `_response`, `_responseData`, as the attempts they come from |
| `retryIfServerError` | the flag of `ADWebAuthRequest` |
| `session` | whether `invalidate` was called |
| `record`, `report` | the pending record of `ADClientMetrics`; the record that is in the headers of each request |
| `pc`, `outcome`, `calls`, `attempts`, `retries`, `challenges`, `arrived` | where each request is, its outcome, and history |

A callback that ends a task also runs the completion handler, the handling of
the response and the block of the caller on the delegate queue, so it is one
action. The retry after a server error is two (`ScheduleRetry`,
`DelayedResend`), half a second and a change of threads apart.

### AcquireToken

| state | code |
|---|---|
| `inExtension` | `[ADAppExtensionUtil isExecutingInAppExtension]` |
| `context` | `credentialsType`, `validateAuthority` and whether there is a `webView`: properties of the shared `ADAuthenticationContext` |
| `call` | the entry point (named by its API id), prompt behaviour, what is wrong with an argument, the thread, the redirect URI |
| `pc`, `result` | the block that runs next; what the app's block was called with |
| `underlying` | `_underlyingError`, the result of the attempt without the user |
| `lock`, `left` | the interaction lock; history: calls another app was opened for |
| `started`, `received`, `dispatched` | events started and not stopped; `_objectsToBeDispatched`; the summaries sent |

One action per place where the code waits or decides: the entry point refuses
(`RefuseAtEntry`, `MissingResource`), the checks fail or pass, validation ends, the
attempt without the user ends (`SilentFinal`, `SilentNotFinal`), the user is not wanted
or cannot be asked (`NoUserWanted`, `NoUIInExtension`, `Refused`), the broker or the
webview is opened and answers. The webview may answer with a URL that installs the
broker, opens a browser or carries a code; its completion block replays a refresh
token with the lock held (`LockedReplayed`). Every action that leaves the call goes
through `Complete`: stop the open events, stop the event of the call, flush, call
the app. `ChangeSettings` is the app, at any time.

### TokenCache

| state | code |
|---|---|
| `delegate` | `_delegate` of each cache |
| `memory` | the items of its `macTokenCache` (external: each access is atomic) |
| `saved`, `heldBy` | what each delegate has stored, and its own lock (the app's; modelled on `ADTestAppCache` and the comments of its `didAccessCache:`) |
| `pc`, `call`, `answer`, `left` | the message or access each thread is at, its arguments, what it has found, and what it still has to remove |

An access is three steps: `Will` (the message, in which the delegate takes its lock
and deserializes what it has saved), `Operate`, `Did` (the message, in which it serializes
after a write and lets go). `RemoveAll` lists and then removes one item per access.
`setDelegate:` is four: the assignment under the cache's own lock, `Clear`, and the two
messages after it (`LoadFirst`, `Loaded`), which go to whatever `_delegate` is by then.
`WhileInUse` says whether the app may set it while the cache is used.

### ChallengeHeaders

| state | code |
|---|---|
| `header`, `meant` | the header; the list of fields a server wrote it from, if it did |
| `reader` | the statement, or how the reader has ended: returned, nil, error, an exception |
| `range`, `found` | `currentRange` and `found` of `parseAuthHeader:`; `leftIndex` and `rightIndex` of `extractItems:`, and the place in the items afterwards |
| `key`, `params`, `items` | the variables of those names |

A word such as `Bearer` is one symbol. Lengths are unsigned and wrap. An access outside the
header is what Foundation makes of it: an exception. The regular expressions of
`ADAuthenticationParameters+Internal.m` are predicates on positions (`NameAt`,
`QuotesAt`). `Rendered` and `Written` are the server, and `JoinedValues` and
`BearerValues` what it means: the reference the readers are compared with.

## 3. Runs

| run | question | instance |
|---|---|---|
| `interaction_lock` | does one request prompt at a time, does the pointer stay clear of finished requests but one that keeps the lock for good; is it `OneInteraction`; does every interaction whose webview or app was opened end and give the lock back | 4 requests, both branches, fairness |
| `broker_anytime` | are blocks called once and never lost or overwritten, and is the lock held as long as an interaction lasts and no longer, whenever requests come to need the user | 3 interchangeable requests, every start state |
| `broker_notbetween` | what holds when no request hands over between the two notifications of a return: the resume dictionary is the waiting request's, nobody is told "no response" before the broker was tried, every wait that began with a switch ends, the lock is `OneInteraction` | 3 requests, every start state but that one, fairness |
| `broker_declined` | finding | 2 requests |
| `silent` | are tokens sent once, removed only when rejected (but for one named exception), and all tried before the user is asked; does every call end | 2 concurrent calls, 2 tokens at first, 3 in all, MRRT and FRT; answers: tokens and the two kinds of OAuth error; fairness |
| `aad_validation` | is a host asked about only until there is a verdict, does nobody who validates pass without one, is it `SingleFlight`, is every queued caller answered | 3 callers, two of them about one of 2 hosts, fairness |
| `adfs_validation` | whatever the races over the dictionary: does nobody who validates pass with an authority the domain does not trust | 4 callers, three of one of 2 domains, 2 authorities |
| `web_request` | is there one completion, no more attempts than needed, no byte of an earlier attempt, one report of each record, and an end once the server stops challenging | 3 requests, none or one to AD FS, 1 challenge each, fairness |
| `acquire_token` | one summary per call that tells its result; the user last, once, one at a time, and no other app from an extension; the policy error; an end; is it `TokenCall` | 2 calls through the largest entry point of each kind, each fault, in an app or an extension, settings that change, fairness |
| `token_cache` | is a delegate's lock let go by who took it, is every write saved before, are the caches a `TokenStore`, does every access end | 2 threads, 2 caches, 1 delegate, 2 users of one client, delegates set between accesses, fairness |
| `challenge_headers` | is what a server means what is read, do the indexes stay in the header, do the readers end | all sequences of up to 6 symbols after `PKeyAuth`, of up to 5 fragments for a resource, all lists of up to 3 fields, fairness |
| `headers_escaped` | finding | up to 6 symbols |

Why these bounds. The lock has one slot: a third request is the first that can be
refused on account of a leak or of a second one's release, and with a fourth
one may wait, one hold, one leak and one be between signal and clear. The
notification manager has one slot for a block, so two requests make every
overwrite and three allow a late answer of a first, a death, and a second pair. It takes a
request that is handed over between the two notifications, after a response was
processed there, to be cleaned up by the observer another one has left: with two
requests that all start in the active app the case never comes up, hence three and
all states but that.
Two silent calls make every race over one cached item, since a handler only ever
meets the cache and not the other handlers; the third refresh token is what one
call is granted while the other still uses an old one. Calls there have no options,
and errors that end a call at once are left out; the theorems have both. Three callers of the AAD
validation make one that runs, one that waits for the same host and one for
another, whose verdict may come with the first's metadata. Of the four callers of
the AD FS validation two race over one domain's set, with different authorities;
a third one finds what they left, and a fourth one, in another domain, must not.
Three web requests let a record be reported by either of two others, and one
challenge with one server error come in either order. Calls of the front end meet only
over the lock and the settings, so two make every encounter, and each goes through every
exit. Two caches with one delegate are the least in which one can save over the other, and
the second user is what a call that removes many items leaves or takes. A field of a header
is read by at most six symbols (name, `=`, two quotes, one between, comma), so
six cover every state of the reader and every way out; three fields make a first,
a repeated and a last one.

`MaxCalls`, `MaxSends`, `MaxToken` and `MaxChallenges` cap counters. The first two are above what
the invariants allow, so a violation is visible. `MaxToken` limits how many tokens
the server grants, and `MaxChallenges` how often it challenges one request; the code has no bound for either.
`MaxSymbols`, `MaxFragments` and `MaxFields` bound the headers, and `Word` is the size
of an unsigned length, far above theirs in the runs, and in the theorems any number that
no header is longer than.

Deadlock is checked in the runs of `BrokerHandoff`, where the app can always be
interrupted or left, of `SilentFlow`, of `TokenCache`, where a thread can always call again,
and of `ChallengeHeaders`, where only a reader that has ended stays where it is. It
is off where all requests or calls end: there the end of the program is the state in
which nothing is left to do; that nobody is stuck before that is what the liveness
properties say.

## 4. Fairness

`InteractionLock`: weak fairness of each request that has started and is not stranded. A
dispatched block runs, and the user, the server and an app that was opened answer or
are left in the end. No request is obliged to start. When the app was not opened, nobody
is obliged to end the wait, and often nobody does: that is the finding of `broker_declined`.
Hence `EveryInteractionEnds` leaves that branch out, and says that the lock comes back
through every other one but the early return of `ComposeFails`.

`BrokerHandoff`: weak fairness of what the main thread and a silent handler have
begun (`FinishResponse`, `EnterForeground`, `EndReplay`, `OpenBroker \/ OpenFails`),
strong fairness of becoming active, because a user may leave the app again and
again before the notification. Nothing obliges the user to leave, the broker to
answer, or the process to survive.

`SilentFlow`, `AadValidation`, `WebRequest`: weak fairness of the
steps of a call that has begun, because each runs on a live queue and each task
of a session is answered or times out. In `AadValidation` also of the queue and the
semaphore. `EveryRequestEnds` has no exception, but holds of a server that stops
challenging: against one that challenges every attempt, the code goes on for ever.

`AcquireToken`: weak fairness of each call's own steps; none of the user, the broker or the
app, which may leave a prompt open for ever. `EveryCallEnds` says that nothing but
a prompt can keep a call.

`TokenCache`: weak fairness of the steps that nobody can bar, and strong fairness of those that
take the delegate's lock: it is given to everybody in turn. That is a property of
the app's lock and not of this code; with a lock that may pass a thread over for
ever, the thread may wait for ever.

`ChallengeHeaders`: weak fairness; a reader is one loop on one thread.

## 5. Proofs

All theorems hold for any number of requests or calls and for every value of the
other constants under the named assumptions of the modules (`None` is none of the
data; the counts are natural numbers; the sets of options, answers and start
states are subsets of their types).

`InteractionLockProofs`. `IInv` is types, exclusion, accounting and the pointer.
Exclusion alone is not inductive: a signal by one of two holders would free
the lock under the other, so the count has to be tied to the holders, and the
type of the count needs exclusion (a signal must find it at zero). Theorems:
`MutualExclusion`, `SemaphoreAlwaysAccounted`, `ModalNeverFinished` (the pointer names no request
that was completed, except the one that keeps the lock), and `Refinement` (every step is an abstract step or a stutter, by `OwnerIsHolder`).

`BrokerHandoffProofs`. That a waiting request's block is held is inductive only
with: waiters have the lock (no second request overwrites the block); blocks held
belong to waiters, and the manager and the response never hold the same one
(nobody calls twice); calls agree with states; an observer is registered
while a block is held; a resume dictionary is one that no response has used and
belongs to a request that has composed; a killed process holds nothing.
Theorems: `CompletedAtMostOnce`, `NobodyOrphaned`, `LockAlwaysSpansInteraction`,
`WaitersAreWatched`, `ResumeUsedOnce`, `Refinement`.
Two more need to know when requests hand over, which the code does not fix. That responses
are accepted by what their own request has left (`ResumeAlwaysOfWaiter`) needs that
no request starts between the two notifications: a response is processed there, and one that
started meanwhile would have its resume dictionary removed. `ResponseInv` adds that the
manager has no block while a response is processed. That nobody is told "no response" untried
(`NotReceivedAlwaysTried`) needs that no webview asks for the broker there either;
`ReturnInv` says that the second notification is observed only by who was there for the first, and that the
blocks queued before that have run. Both hypotheses are about `StartStates` and `InstallStates` alone; under the
others both properties fail (section 6).

`SilentFlowProofs`. The invariant says for each place of a call which requests
it has sent and which instance variables are set (`SendsMatch`), that tokens are
ones the server issued and a rejected one is not accepted again (`InFlight`),
that the cache has the shape the comments in `tryRT:` rely on (`CacheShape`), and
that every good token that stayed in the cache and was not tried is still on the
way (`UntriedInReach`). The last is what makes `InputOnlyAfterTrying` go through: at
the end of a call nothing is left to reach. Theorems: `RequestsSentOnce`,
`OnlyRejectedRemoved` (of the MRRT, the FRT and the resource's own refresh token, except what
`RemoveAccessToken` takes along, section 6), `InputOnlyAfterTrying`. Two more say how a call goes on and what it comes to.
`CallsAlwaysMoveOn` is the part of `EveryCallEnds` that needs no fairness: each step of a
call lowers `StepsLeft`, of which there are 15 at most, and no step of anybody else changes what
the measure is made of. The order of the places alone does not show it, because `tryMRRT:` and `tryFRT:`
call each other: the measure also counts the family token and the MRRT request, which a call can use up once.
`SilentAttemptImplemented`: the handlers implement `SilentAttempt`. It needs that a call about a
token the app brought never gets into `getAccessToken:` or the fallbacks, where alone a call ends with nil.

`AadValidationProofs`. `IInv`: a verdict in the cache is true and was learned from the
endpoint (`CacheIsTrue`); the queue has each waiting caller once (`QueueMatches`);
a caller between the start of its block and its answer is the one the queue runs,
and the semaphore is up only after the answer (`RunningMatches`); answers are
there from the dispatch on, true, and `requested` implies that the cache knows
nothing of the host (`AnswersMatch`). That last conjunct needs the previous
one: only because no other discovery is out does what the second look found
still hold when the answer comes. Theorems: `DiscoveriesInTurn`, `PassedIsValid`,
`InvalidIsIgnored`, `AskedUntilLearned`, `Refinement` of `SingleFlight`. Of `EveryCallerAnswered` the
part without fairness is proved: `NobodyEverStuck` (whoever waits is in the queue, and the block that
holds it can be answered or can be let go) and `WaitersAlwaysMoveOn`: every step brings the i-th block
nearer to its turn, by the measure `Ahead` (five steps for each place, and what the holder has left), or is
one that another caller makes on a thread of its own, twice at most. Nobody is overtaken.

`AdfsValidationProofs`. `SetsAreOfDomains` carries the invariant: a set object is
reachable only from callers of one domain, so that a late `AddObject`, even to an
object that was replaced, adds nothing a domain does not trust. Theorems:
`PassedIsTrusted`, `CacheIsTrusted`.

`WebRequestProofs`. Except for metrics the invariant is about one request at a time:
the proofs show what an action does to its own request (`Local`), that it leaves
the others alone (`Frame`), and that a pending record is one of a finished
request that nobody has reported (`RecordFresh`). That buffers are those of the
attempt that is out (`BuffersMatch`) is what makes `BodyOfLastAttempt` inductive.
Theorems: `CompletesOnce`, `NotSentTooOften`, `NoStaleBytes`, `NoRecordTwice`.

The same module proves what is true of the indexes of `ChallengeHeaders`, since `parseAuthHeader:` is
a method of the web response; it extends that module, whose variables are others.
The hypotheses are that an unsigned length has at least one value (`WordAssumption`) and that headers are
sequences of symbols shorter than that (`HeadersFit`); nothing is said about which symbols or how
many. `HeaderIndexesInBounds`: the reader raises only after a trailing `=` or a bare `PKeyAuth`. The
difficulty is that lengths wrap: `IndexInv` says that a range ends where the header ends as long as it
begins in it, that only at the head of the loop it may have left it, where it is seen before
it is used, that a value begins in the header, and that the quote that ends a value is
not before it. `ItemsInv` is the same for `extractItems:`: items are cut between two positions of the
header, and parameters are read from an item that is there. `ReadersAlwaysMoveOn` is the part of
`ReadersEnd` that needs no fairness: every pass of a loop is inside the header and ends further on, so
that the search for a quote that stops at an escaped one is the only loop that can go on. TLC has checked both invariants
and the action property on the instance of `challenge_headers`. `ItemsAreTheHeader` is what can be proved of what is
read: the items of `extractItems:` are the pieces between some commas of the header, in order and without
a gap, and reach its end if there are any (`NothingLost`). The invariant names the commas by a function
`cuts`; each step either keeps it or makes it longer by one place (`OneMoreItem`). That the commas are
the right ones, and what is made of an item, is with `ServerIsUnderstood`.

`AcquireTokenProofs`. Every action either ends its call, with events that are stopped, or
takes it to another place, with events stopped and started. Two lemmas say what
`Complete` and `Continue` leave of the telemetry for any list of events, and `IInv` says
for each place which events are open and that nothing was sent yet, that who prompts has
the lock, and what `underlying` is. It is inductive one call at a time; the settings appear in no conjunct,
which is why they may change at any moment. Theorems: `OneSummaryAlways`,
`SummaryAlwaysTellsResult`, `PromptAlwaysLastResort`, `AlwaysStaysInExtension`,
`PolicyErrorAlwaysReachesCaller`, `TokenCallImplemented` (`TokenCall` also says which results may be told from
which phase of a call, so that each exit is held against how far its call had come), and `OneInteractionImplemented`: with
`LockInv`, by which the lock is with a call that asks the user, redeems the answer, or has ended without
giving it back, each step that takes or gives back the lock is one of `OneInteraction`, and a call is
refused only while another has it. `CallsAlwaysMoveOn`: each step of a call, the user's answers
included, lowers `StepsLeft`, of which there are seven, and no other call and no change of the settings raises it.
`SilentAttemptImplemented`: `FirstOutcome` of a call, what its attempt without the user came to, is
settled once and by an attempt that was made. TLC has checked these two refinements on the instance of `acquire_token`.

`TokenCacheProofs`, all under `~WhileInUse`. While nobody uses a cache whose delegate is
set, a thread at an access still has the delegate it took the lock of; so a lock
is held by exactly the thread that is between the two messages of an access
of a cache with that delegate, `memory` agrees with `saved` before the access, and
differs from it afterwards by what the access did. `TokenStoreImplemented` follows step by step: a
`Did` that saves is the abstract write, a `Did` without delegate a stutter, because the
write was the `Operate`. Theorems: `LockAlwaysLetGo`, `WritesAlwaysSaved`,
`TokenStoreImplemented`.

The type invariants are parts of the inductive ones and proved with them. What is proved and is not a
property of a run (`CallsMoveOn`, `WaitersMoveOn`, `NobodyIsStuck`, `ImplementsSilentAttempt`,
`ReadersMoveOn`, `NothingLost`) was first checked by TLC on the instance of the module's run.

Only model-checked: everything under fairness (`EveryInteractionEnds`,
`ReturnEndsWait`, `EveryCallEnds`, `EveryCallerAnswered`, `EveryRequestEnds`,
`EveryAccessEnds`, `ReadersEnd`), since TLAPS does not prove liveness or `ENABLED` here (of
`EveryCallEnds`, `EveryCallerAnswered` and `ReadersEnd` the measure that steps lower is proved, see above);
`ServerIsUnderstood`, because what the loops of the header readers have read for every header is an
induction over the header; and the violations below.

## 6. Findings

Shown by a run:

* `broker_declined`: when `openURL` fails, the app does not leave the foreground and
  the request is never told.
* `headers_escaped`: the comment above `parseAuthHeader:` allows escaped quotation
  marks; the search for the closing quote starts again at the quote it has found and
  does not end.

Seen while modelling, without a run of their own:

* A broker request that cannot be composed leaves the lock taken
  (`request/ADAuthenticationRequest+AcquireToken.m:370`); every later interactive
  request is refused with an error that says the user is being prompted, although
  nobody is. `LockSpansInteraction` says that no other exit does this.
* The fallback of `tryFRT:` drops the family token's error, a protection policy error
  with it (`request/ADAcquireTokenSilentHandler.m:537`), which `ADAuthenticationRequest+AcquireToken.m:311`
  says should be passed.
* `addValidAuthority:domain:` may lose an authority when two callers both make the set of
  their domain (`validation/ADAuthorityValidation.m:105`), in a class that is documented as
  thread-safe. It is then validated again.
* The lock is signalled before the pointer is cleared, so `+currentModalRequest` can
  return nil while a request prompts.
* A request that comes to need the user between the two foreground notifications may be
  told that the broker did not answer, before it was opened: the response to an earlier request
  is processed there, the observer that one has left is by then registered for the second notification,
  and `callbackCleanup:` takes whatever block is there (`broker/ios/ADBrokerNotificationManager.m:118`).
  If it starts while a response is processed, the end of that removes its resume dictionary. Hence the
  start states of `broker_notbetween` and the hypotheses of two theorems.
* An access token that is of no use is removed from the cache by its key
  (`request/ADAcquireTokenSilentHandler.m:388`). If another call has saved a refresh token there
  since it was read (AD FS), that goes too, unless the accessor of the absent submodule compares.
  It is the one exception of `RemovedOnlyIfRejected`.
* The silent handler does not invalidate the session when a response cannot be parsed
  (`request/ADAcquireTokenSilentHandler.m:195`).
* `AD_CREDENTIALS_EMBEDDED` is documented not to invoke another app
  (`public/ADAuthenticationContext.h:97`), but an answer of the webview may install the
  broker or open a browser; and the header calls `AD_CREDENTIALS_AUTO` the default, where
  `ADAuthenticationContext.m:158` sets the other.
* `acquireTokenForAssertion:` passes no redirect URI (`ADAuthenticationContext.m:307`), so under
  `AD_CREDENTIALS_AUTO` it always fails the check of the redirect URI, which it
  does not need.
* In an extension `promptBrokerInstall:` calls its block with nil (`broker/ios/ADBrokerHelper.m:233`).
  The status of nil is 0, that is succeeded, without an access token, so the call
  is replayed with the lock held; if that ends in nil, the app gets nil and the
  summary says succeeded.
* A call without a resource starts its event and never stops it
  (`request/ADAuthenticationRequest+AcquireToken.m:70`).
* A token request by code or assertion that gets no answer reports the
  error of the parser and not the one of the network
  (`request/ADAuthenticationRequest+AcquireToken.m:294`).
* `credentialsType` and `validateAuthority` are read anew at each use: a call may pass the check
  for one and go on with another.
* Header readers: a trailing `=` or a bare `PKeyAuth` raises an exception (`request/ADWebAuthResponse.m:126`, `:330`);
  a value with the word `Bearer` and a space in it loses them; `PKeyAuth` is looked for anywhere
  and cut off at the start.
* `setDelegate:` while the cache is used may leave a delegate's lock taken and what it has
  saved overwritten; hence `WhileInUse = FALSE`.
* The check of the broker's user compares the result with itself and its error is dropped
  (`request/ADAuthenticationRequest+Broker.m:320`), where `public/ADUserIdentifier.h:29` guarantees the user;
  elsewhere the tokens are cached before the check (`cache/ADResponseCacheHandler.m:61`).

## 7. Not modelled

The contents of URLs and tokens, wording, logging and layout. The submodule
IdentityCore is external: the token cache is atomic and does what the handlers expect; the
webview ends in a URL, an error or a cancellation; telemetry keeps an event until
it is stopped. `SilentFlow` has one account, client, resource and family, so mix-ups
between users or environments are out of its reach. Time is only "the access token
expires". In `BrokerHandoff` a response is accepted or not; how it is decrypted and what
it saves are not told apart. In `WebRequest`, redirects, the contents of headers and of
the answer to a PKeyAuth challenge, and `returnRawResponse`, which nobody sets, are left out;
in `AdfsValidation` the contents of contracts and links. Callbacks of a session after it was invalidated are left to the framework, which makes none when its tasks
have finished. `InteractionLock` has no death of the process, after which nothing of it is left; that is in
`BrokerHandoff`. `addInvalidAuthority:` (`validation/ADAuthorityValidation.m:340`) writes the cache of `AadValidation`
outside of the queue, but only tests call it. `AcquireToken` collects statuses
and no other properties of events, and has the aggregating dispatcher only. `TokenCache` has no
`serialize` by the app outside of its delegate, and its keys are users and clients.
The keychain caches, the broker's keys, cache items, user identifiers, the
enrollment gateway, request parameters, settings, the logger and the utilities hold values
and tables and have no steps that could meet. Hazards that no property covers
are in `PROJECT.json` with the reason.

`PROJECT.json` maps control to the methods that have it, and data (places, answers, results,
fields of a record) to the code that sets or produces it. Headers are named only for
enumerations and macros that a set of values lists.

## 8. Plan

In this order; what is done is marked.

1. (done) `InteractionLock` over `OneInteraction`; proofs.
2. (done) `BrokerHandoff` over `OneInteraction`; proofs.
3. (done) `SilentFlow`; proofs.
4. (done) `AadValidation` over `SingleFlight`, and `AdfsValidation`; proofs.
5. (done) `WebRequest` with the record of `ClientMetrics`; proofs.
6. (done) `AcquireToken` over `TokenCall`, with the telemetry of a call; proofs.
7. (done) `TokenCache` over `TokenStore`; proofs.
8. (done) `ChallengeHeaders` against what a server writes.
9. Several accounts and resources in `SilentFlow`, and the user check of the response
   cache, for mix-ups between users.
10. What a broker response carries in `BrokerHandoff`: decryption, saved tokens, user.
11. Redirects in `WebRequest`; the default dispatcher in `AcquireToken`.
