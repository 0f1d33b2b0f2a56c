----------------------------- MODULE SilentFlow -----------------------------
(***************************************************************************)
(* ADAcquireTokenSilentHandler and ADResponseCacheHandler: how a token is  *)
(* got without the user.  A handler looks for an access token, then redeems *)
(* the refresh tokens it finds, one after the other: the one of the        *)
(* resource, the multi resource token (MRRT), the family token (FRT), in an *)
(* order that depends on what the MRRT says of its family.                 *)
(*                                                                         *)
(* Handlers run concurrently and share the cache.  What a handler read     *)
(* from it may be replaced or removed before the server answers.  The      *)
(* server may revoke a refresh token at any time, rotate it or leave it,   *)
(* and answer two handlers in one order while they hear it in the other.   *)
(*                                                                         *)
(* One account, one client, one resource and one family.  The cache itself *)
(* (MSIDLegacyTokenCacheAccessor) is not in the repository: its operations *)
(* are atomic here and do what the handlers and their tests expect.        *)
(***************************************************************************)
EXTENDS Integers

CONSTANTS
    Handlers,        \* calls of the app
    None,            \* nil
    MultiResource,   \* the authority issues MRRTs (AAD) or does not (ADFS)
    InitialTokens,   \* number of refresh tokens that exist at first
    MaxToken,        \* bound on the number of refresh tokens ever issued
    OptionsAsked,    \* the options the calls may have
    PossibleAnswers  \* how the server and the network may answer

Tokens == 1 .. MaxToken

\* The refresh token of the resource, the MRRT, the FRT, the app's own.
Kinds == {"RT", "MRRT", "FRT", "developer"}

\* "wrongUser" are the tokens of a user the caller did not ask for;
\* "unavailable" is an HTTP error of 500 and more, after the retry; "failure"
\* any other error without an OAuth code.
Granted == {"tokens", "wrongUser"}
OAuthErrors == {"invalidGrant", "policy", "oauthError"}
OtherErrors == {"unavailable", "failure"}
Answers == Granted \union OAuthErrors \union OtherErrors

\* isFinalResult: says NO of nil and of errors that carry an OAuth code.
NotFinal == {"nil"} \union OAuthErrors

Results == {"cached", "extended", "cacheError", "nil"} \union Answers

Single == [fresh: BOOLEAN, extended: BOOLEAN, idToken: BOOLEAN,
           rt: Tokens \union {None}]
Mrrt == [rt: Tokens, family: BOOLEAN]
Request == [kind: Kinds, rt: Tokens]
Reply == [answer: Answers, rt: Tokens \union {None}, family: BOOLEAN]
Options == [forceRefresh: BOOLEAN, extendedLifetime: BOOLEAN]

ASSUME TokensAssumption ==
    InitialTokens \in Nat /\ MaxToken \in Nat /\ InitialTokens <= MaxToken
ASSUME AuthorityAssumption == MultiResource \in BOOLEAN
ASSUME OptionsAssumption == OptionsAsked \subseteq Options
ASSUME AnswersAssumption == PossibleAnswers \subseteq Answers
ASSUME NoneAssumption ==
    None \notin Tokens \union Single \union Mrrt \union Request \union Reply

\* MaxSends bounds the counters of requests sent.
MaxSends == 2

\* The instance variables of a handler, and what its blocks hold on to.
Handler == [
    extendedItem: BOOLEAN,          \* has an _extendedLifetimeAccessTokenItem
    mrrtItem: Mrrt \union {None},   \* _mrrtItem
    attemptedFRT: BOOLEAN,          \* _attemptedFRT
    mrrtResult: NotFinal,           \* _mrrtResult
    request: Request \union {None}, \* the token request in flight
    reply: Reply \union {None},     \* the answer to it
    sends: [Kinds -> 0 .. MaxSends],  \* history: requests sent, of each kind
    tried: SUBSET Tokens]             \* history: tokens it had answers about

NewHandler == [
    extendedItem |-> FALSE, mrrtItem |-> None, attemptedFRT |-> FALSE,
    mrrtResult |-> "nil", request |-> None, reply |-> None,
    sends |-> [k \in Kinds |-> 0], tried |-> {}]

Locations == {"idle", "getAccessToken", "removeThenMRRT", "removeThenStop",
              "tryMRRT", "tryFRT", "sent", "answered", "done"}

VARIABLES
    single, mrrt, frt,  \* the cache: the item of the resource, the MRRT, the FRT
    live,               \* refresh tokens the server accepts
    issued,             \* number of refresh tokens issued so far
    pc,                 \* where each call is
    options,            \* what its caller asked for
    handler,            \* its handler
    result,             \* what its completion block was called with
    remaining           \* history: tokens in the cache ever since it began

cacheVars == <<single, mrrt, frt>>
serverVars == <<live, issued>>
vars == <<cacheVars, serverVars, pc, options, handler, result, remaining>>

TypeOK ==
    /\ single \in Single \union {None}
    /\ mrrt \in Mrrt \union {None}
    /\ frt \in Tokens \union {None}
    /\ live \subseteq Tokens
    /\ issued \in 0 .. MaxToken
    /\ pc \in [Handlers -> Locations]
    /\ options \in [Handlers -> Options]
    /\ handler \in [Handlers -> Handler]
    /\ result \in [Handlers -> Results \union {"none"}]
    /\ remaining \in [Handlers -> SUBSET Tokens]

\* Only an authority without MRRTs keeps a refresh token beside the access
\* token, or issues no id token (comments in tryRT:).
Init ==
    /\ single \in {s \in Single \union {None} : s # None =>
                     /\ s.rt \in 1 .. InitialTokens \union {None}
                     /\ MultiResource => s.rt = None /\ s.idToken}
    /\ mrrt \in {m \in Mrrt \union {None} : m # None =>
                     m.rt <= InitialTokens /\ MultiResource}
    /\ frt \in {f \in Tokens \union {None} : f # None =>
                     f <= InitialTokens /\ MultiResource}
    /\ live = 1 .. InitialTokens
    /\ issued = InitialTokens
    /\ pc = [h \in Handlers |-> "idle"]
    /\ options \in [Handlers -> OptionsAsked]
    /\ handler = [h \in Handlers |-> NewHandler]
    /\ result = [h \in Handlers |-> "none"]
    /\ remaining = [h \in Handlers |-> {}]

-----------------------------------------------------------------------------
CachedTokens ==
    ({s.rt : s \in {single} \ {None}} \union
     {m.rt : m \in {mrrt} \ {None}} \union {frt}) \ {None}

Goto(h, location) == pc' = [pc EXCEPT ![h] = location]

\* The block is called and the handler is released.  The block of getToken:
\* may put the token with the extended lifetime in place of the error.
Complete(h, res) ==
    /\ Goto(h, "done")
    /\ result' = [result EXCEPT ![h] =
          IF res = "unavailable" /\ options[h].extendedLifetime
             /\ handler[h].extendedItem
          THEN "extended" ELSE res]
    /\ handler' = [handler EXCEPT ![h] = NewHandler]

\* The method goes on at a place where it reads or writes the cache.
Continue(h, location, state) ==
    /\ Goto(h, location)
    /\ handler' = [handler EXCEPT ![h] = state]
    /\ UNCHANGED result

\* acquireTokenByRefreshToken: up to sendRequest:.
Send(h, kind, rt, state) ==
    /\ state.sends[kind] < MaxSends
    /\ Continue(h, "sent",
          [state EXCEPT !.request = [kind |-> kind, rt |-> rt],
                        !.sends = [state.sends EXCEPT ![kind] = @ + 1]])

\* The history of the tokens that stay in the cache.
KeepRemaining ==
    remaining' = [h \in Handlers |->
        IF pc'[h] \in {"idle", "done"} THEN {}
        ELSE IF pc[h] = "idle" THEN CachedTokens
        ELSE remaining[h] \intersect CachedTokens']

-----------------------------------------------------------------------------
(* The methods of the handler *)

\* getToken:
Begin(h) ==
    /\ pc[h] = "idle"
    /\ Continue(h, "getAccessToken", handler[h])
    /\ UNCHANGED <<cacheVars, serverVars, options>>

\* tryRefreshToken: the app brings a refresh token of its own.
BeginWithToken(h) ==
    /\ pc[h] = "idle"
    /\ \E rt \in 1 .. issued : Send(h, "developer", rt, handler[h])
    /\ UNCHANGED <<cacheVars, serverVars, options>>

\* The cache cannot be read or written.
CacheFails(h) ==
    /\ \/ pc[h] \in {"getAccessToken", "removeThenMRRT", "removeThenStop"}
       \/ pc[h] = "tryMRRT" /\ handler[h].mrrtItem = None
       \/ pc[h] = "tryFRT" /\ ~handler[h].attemptedFRT
    /\ Complete(h, "cacheError")
    /\ UNCHANGED <<cacheVars, serverVars, options>>

\* getAccessToken: a good access token.
ReturnCached(h) ==
    /\ pc[h] = "getAccessToken"
    /\ single # None /\ single.fresh /\ ~options[h].forceRefresh
    /\ Complete(h, "cached")
    /\ UNCHANGED <<cacheVars, serverVars, options>>

\* getAccessToken: no access token, neither of the user nor of the unknown user
\* under whose name ADFS tokens are cached.
FindNothing(h) ==
    /\ pc[h] = "getAccessToken"
    /\ single = None
    /\ Continue(h, "tryMRRT", handler[h])
    /\ UNCHANGED <<cacheVars, serverVars, options>>

\* getAccessToken: an access token that has expired or is not wanted.  It is
\* kept for the case that the server is down.
FoundStale(h) ==
    /\ pc[h] = "getAccessToken"
    /\ single # None /\ (single.fresh => options[h].forceRefresh)

WithStale(h) ==
    [handler[h] EXCEPT !.extendedItem = single.extended /\ ~options[h].forceRefresh]

\* tryRT: the item has a refresh token.
SendRT(h) ==
    /\ FoundStale(h)
    /\ single.rt # None
    /\ Send(h, "RT", single.rt, WithStale(h))
    /\ UNCHANGED <<cacheVars, serverVars, options>>

\* tryRT: the item has no refresh token; the method goes on to the MRRT if the
\* authority can have issued one, which an id token shows.  An item that is of
\* no use in an outage is removed first.
NoRT(h) ==
    /\ FoundStale(h)
    /\ single.rt = None
    /\ \/ /\ ~single.extended
          /\ Continue(h, IF single.idToken THEN "removeThenMRRT"
                         ELSE "removeThenStop", WithStale(h))
       \/ /\ single.extended /\ single.idToken
          /\ Continue(h, "tryMRRT", WithStale(h))
       \/ single.extended /\ ~single.idToken /\ Complete(h, "nil")
    /\ UNCHANGED <<cacheVars, serverVars, options>>

\* tryRT: removes the item, or whatever lies at its key by now.
RemoveAccessToken(h) ==
    /\ \/ pc[h] = "removeThenMRRT" /\ Continue(h, "tryMRRT", handler[h])
       \/ pc[h] = "removeThenStop" /\ Complete(h, "nil")
    /\ single' = None
    /\ UNCHANGED <<mrrt, frt, serverVars, options>>

\* tryMRRT: the MRRT kept from before the FRT was tried, or else the cache's.
FoundMrrt(h) ==
    IF handler[h].mrrtItem # None THEN handler[h].mrrtItem ELSE mrrt

\* tryMRRT: no MRRT, or one of a family whose FRT has not been tried.
MRRTToFRT(h) ==
    /\ pc[h] = "tryMRRT"
    /\ FoundMrrt(h) # None => FoundMrrt(h).family /\ ~handler[h].attemptedFRT
    /\ Continue(h, "tryFRT", [handler[h] EXCEPT !.mrrtItem = FoundMrrt(h)])
    /\ UNCHANGED <<cacheVars, serverVars, options>>

\* tryMRRT: the MRRT is redeemed.
SendMRRT(h) ==
    /\ pc[h] = "tryMRRT"
    /\ FoundMrrt(h) # None
    /\ FoundMrrt(h).family => handler[h].attemptedFRT
    /\ Send(h, "MRRT", FoundMrrt(h).rt,
            [handler[h] EXCEPT !.mrrtItem = FoundMrrt(h)])
    /\ UNCHANGED <<cacheVars, serverVars, options>>

\* Mutant: the MRRT that was put off is not come back to.
AfterFRT_GivesUp(h, state) == Complete(h, state.mrrtResult)

\* The way on from tryFRT: without an FRT, or with one that was refused.
AfterFRT(h, state) ==
    \/ state.mrrtItem # None /\ Continue(h, "tryMRRT", state)
    \/ state.mrrtItem = None /\ Complete(h, state.mrrtResult)

\* tryFRT: it has been tried before.
FRTAttempted(h) ==
    /\ pc[h] = "tryFRT"
    /\ handler[h].attemptedFRT
    /\ Complete(h, handler[h].mrrtResult)
    /\ UNCHANGED <<cacheVars, serverVars, options>>

\* Mutant: it is not noted that there was none.
NoFRT_Forgets(h) ==
    /\ pc[h] = "tryFRT"
    /\ ~handler[h].attemptedFRT
    /\ frt = None
    /\ AfterFRT(h, handler[h])
    /\ UNCHANGED <<cacheVars, serverVars, options>>

\* tryFRT: the cache has none.
NoFRT(h) ==
    /\ pc[h] = "tryFRT"
    /\ ~handler[h].attemptedFRT
    /\ frt = None
    /\ AfterFRT(h, [handler[h] EXCEPT !.attemptedFRT = TRUE])
    /\ UNCHANGED <<cacheVars, serverVars, options>>

\* Mutant: it is not noted that the FRT was redeemed.
SendFRT_Forgets(h) ==
    /\ pc[h] = "tryFRT"
    /\ ~handler[h].attemptedFRT
    /\ frt # None
    /\ Send(h, "FRT", frt, handler[h])
    /\ UNCHANGED <<cacheVars, serverVars, options>>

\* tryFRT: the FRT is redeemed.
SendFRT(h) ==
    /\ pc[h] = "tryFRT"
    /\ ~handler[h].attemptedFRT
    /\ frt # None
    /\ Send(h, "FRT", frt, [handler[h] EXCEPT !.attemptedFRT = TRUE])
    /\ UNCHANGED <<cacheVars, serverVars, options>>

-----------------------------------------------------------------------------
(* The server and time *)

Answer(h, r) ==
    /\ r.answer \in PossibleAnswers
    /\ Continue(h, "answered",
          [handler[h] EXCEPT !.reply = r,
                             !.tried = @ \union {handler[h].request.rt}])
    /\ UNCHANGED <<cacheVars, options>>

\* Tokens: with a new refresh token, or with none, which leaves the old one in
\* use.
ServerGrants(h) ==
    /\ pc[h] = "sent"
    /\ handler[h].request.rt \in live
    /\ \E answer \in Granted, family \in BOOLEAN,
          rt \in {handler[h].request.rt} \union ({issued + 1} \intersect Tokens) :
         /\ family => MultiResource
         /\ Answer(h, [answer |-> answer, rt |-> rt, family |-> family])
         /\ live' = live \union {rt}
         /\ issued' = IF rt > issued THEN rt ELSE issued

\* An error of the server, the network or the response.
ServerRefuses(h) ==
    /\ pc[h] = "sent"
    /\ \E answer \in OAuthErrors \union OtherErrors :
         /\ answer = "invalidGrant" => handler[h].request.rt \notin live
         /\ Answer(h, [answer |-> answer, rt |-> None, family |-> FALSE])
    /\ UNCHANGED serverVars

\* The user changes the password, an administrator ends the sessions.
Revoke ==
    /\ \E rt \in live : live' = live \ {rt}
    /\ UNCHANGED <<cacheVars, issued, pc, options, handler, result>>

\* The cached access token expires, in one sense and later in the other.
Age ==
    /\ single # None
    /\ \/ single.fresh /\ single' = [single EXCEPT !.fresh = FALSE]
       \/ /\ ~single.fresh /\ single.extended
          /\ single' = [single EXCEPT !.extended = FALSE]
    /\ UNCHANGED <<mrrt, frt, serverVars, pc, options, handler, result>>

-----------------------------------------------------------------------------
(* The answer arrives *)

\* processAndCacheResponse: the tokens are saved, or cannot be, which is only
\* logged; updateResult:toUser: looks at the user after that.
ProcessTokens(h) ==
    /\ pc[h] = "answered"
    /\ LET r == handler[h].reply IN
       /\ r.answer \in Granted
       /\ \/ UNCHANGED cacheVars
          \/ /\ \E extended \in BOOLEAN, idToken \in BOOLEAN :
                  /\ MultiResource => idToken
                  /\ single' = [fresh |-> TRUE, extended |-> extended,
                                idToken |-> idToken,
                                rt |-> IF MultiResource THEN None ELSE r.rt]
             /\ mrrt' = IF MultiResource
                        THEN [rt |-> r.rt, family |-> r.family] ELSE mrrt
             /\ frt' = IF r.family THEN r.rt ELSE frt
       /\ Complete(h, r.answer)
    /\ UNCHANGED <<serverVars, options>>

\* acquireTokenWithItem: the error is final.
ProcessFinalError(h) ==
    /\ pc[h] = "answered"
    /\ handler[h].reply.answer \in OtherErrors
    /\ Complete(h, handler[h].reply.answer)
    /\ UNCHANGED <<cacheVars, serverVars, options>>

\* validateAndRemoveRefreshToken: removes the token if it is still the one in
\* the cache.  The app's own token has the key of an MRRT.
ValidateAndRemove(kind, rt) ==
    /\ single' = IF kind = "RT" /\ single # None /\ single.rt = rt
                 THEN None ELSE single
    /\ mrrt' = IF kind \in {"MRRT", "developer"} /\ mrrt # None /\ mrrt.rt = rt
               THEN None ELSE mrrt
    /\ frt' = IF kind = "FRT" /\ frt = rt THEN None ELSE frt

\* Mutant: any OAuth error removes the refresh token.
HandleError_Any(h) == ValidateAndRemove(handler[h].request.kind, handler[h].request.rt)

\* handleError: only a refresh token that is not valid is removed.
HandleError(h) ==
    LET r == handler[h].request IN
    IF handler[h].reply.answer = "invalidGrant"
    THEN ValidateAndRemove(r.kind, r.rt)
    ELSE UNCHANGED cacheVars

\* handleError: and the fallback blocks of tryRT:, tryMRRT: and tryFRT:; the
\* result of the FRT is dropped.
ProcessOAuthError(h) ==
    /\ pc[h] = "answered"
    /\ LET kind == handler[h].request.kind
           answer == handler[h].reply.answer
           state == [handler[h] EXCEPT !.request = None, !.reply = None]
       IN /\ answer \in OAuthErrors
          /\ HandleError(h)
          /\ \/ kind \in {"RT", "developer"} /\ Complete(h, answer)
             \/ /\ kind = "MRRT"
                /\ Continue(h, "tryFRT",
                      [state EXCEPT !.mrrtItem = None, !.mrrtResult = answer])
             \/ kind = "FRT" /\ AfterFRT(h, state)
    /\ UNCHANGED <<serverVars, options>>

-----------------------------------------------------------------------------
Method(h) ==
    \/ CacheFails(h) \/ ReturnCached(h) \/ FindNothing(h) \/ SendRT(h) \/ NoRT(h)
    \/ RemoveAccessToken(h)
    \/ MRRTToFRT(h) \/ SendMRRT(h)
    \/ FRTAttempted(h) \/ NoFRT(h) \/ SendFRT(h)
    \/ ServerGrants(h) \/ ServerRefuses(h)
    \/ ProcessTokens(h) \/ ProcessFinalError(h) \/ ProcessOAuthError(h)

Step(h) == Method(h) /\ KeepRemaining

Next ==
    /\ \/ \E h \in Handlers : Begin(h) \/ BeginWithToken(h) \/ Method(h)
       \/ Revoke \/ Age
    /\ KeepRemaining

Spec == Init /\ [][Next]_vars

\* A call that began goes on: its methods run on, and every request is answered
\* or times out.
Fairness == \A h \in Handlers : WF_vars(Step(h))

FairSpec == Spec /\ Fairness

-----------------------------------------------------------------------------
\* A call without a token of its own ends with a result that makes the caller
\* ask the user, or tell a silent app that this is needed (requestToken:).
AsksForUser(h) ==
    /\ pc[h] # "done" /\ pc'[h] = "done"
    /\ result'[h] \in NotFinal
    /\ pc[h] = "answered" => handler[h].request.kind # "developer"

\* tryMRRT: and tryFRT: call each other, and yet no call of the app redeems
\* tokens of one kind twice: a dead MRRT or FRT is not tried in circles.
SentOnce == \A h \in Handlers, k \in Kinds : handler[h].sends[k] <= 1

\* A refresh token, of the client, the family or the resource (AD FS), is removed
\* from the cache only after the server rejected that very token: an answer about
\* a token that another handler has replaced meanwhile, or an OAuth error of
\* another kind, removes nothing (handleError:).  The one exception is named:
\* tryRT: removes an access token that is of no use by its key, and with it a
\* refresh token that another call has saved there since (line 388).
RemovedOnlyIfRejected ==
    [][/\ mrrt # None /\ mrrt' = None => mrrt.rt \notin live
       /\ frt # None /\ frt' = None => frt \notin live
       /\ single # None /\ single.rt # None /\ single' = None =>
            single.rt \notin live \/ \E h \in Handlers : RemoveAccessToken(h)]_vars

\* The user is asked for credentials only after every refresh token was tried
\* that the server accepts and that lay in the cache all the time since the
\* call began, whatever other calls did to the cache meanwhile (getAccessToken:
\* and the methods it calls).
InputNeededMeansTried ==
    [][\A h \in Handlers : AsksForUser(h) =>
         remaining[h] \intersect live \subseteq handler[h].tried]_vars

\* Every call ends: the fallbacks from one token to the next do not go round.
EveryCallEnds == \A h \in Handlers : pc[h] # "idle" ~> pc[h] = "done"

\* What the caller of a handler makes of its result.
OutcomeOf(res) ==
    CASE res \in {"cached", "extended", "tokens"} -> "succeeded"
      [] res = "wrongUser" -> "SERVER_WRONG_USER"
      [] res = "policy" -> "SERVER_PROTECTION_POLICY_REQUIRED"
      [] res \in {"invalidGrant", "oauthError"} -> "SERVER_OAUTH"
      [] res \in {"cacheError", "unavailable", "failure"} -> "other"
      [] res \in {"nil", "none"} -> res

SA == INSTANCE SilentAttempt WITH
    Attempts <- Handlers,
    outcome <- [h \in Handlers |-> OutcomeOf(result[h])],
    stage <- [h \in Handlers |->
        IF pc[h] = "idle" THEN "idle"
        ELSE IF pc[h] = "done" THEN "over"
        ELSE IF pc[h] \in {"sent", "answered"} /\ handler[h].request.kind = "developer"
             THEN "token" ELSE "cache"]

\* Whichever tokens it tries and whatever the server and other calls do, a handler
\* calls its block once, and not with nil about a token that the app brought.
ImplementsSilentAttempt == SA!Spec

\* The parts of the inductive invariant.  First the cache: it has the shape that
\* the comments in tryRT: count on, and only issued tokens are about.
CacheShape ==
    /\ (MultiResource /\ single # None) => (single.rt = None /\ single.idToken)
    /\ ~MultiResource => mrrt = None /\ frt = None

CacheIssued ==
    /\ live \subseteq 1 .. issued
    /\ single # None /\ single.rt # None => single.rt <= issued
    /\ mrrt # None => mrrt.rt <= issued
    /\ frt # None => frt <= issued

CallIssued(h) ==
    /\ pc[h] = "removeThenStop" => ~MultiResource
    /\ handler[h].mrrtItem # None => MultiResource /\ handler[h].mrrtItem.rt <= issued
    /\ handler[h].request # None => handler[h].request.rt <= issued

\* There is a request when the call waits for one, and what the server said of
\* its token stays true.
InFlight(h) ==
    /\ pc[h] \in {"sent", "answered"} => handler[h].request # None
    /\ pc[h] = "answered" =>
         /\ handler[h].reply # None
         /\ handler[h].request.rt \in handler[h].tried
         /\ handler[h].reply.answer \in Granted =>
              /\ handler[h].reply.rt \in 1 .. issued
              /\ handler[h].reply.family => MultiResource
         /\ handler[h].reply.answer = "invalidGrant" =>
              handler[h].request.rt \notin live

\* What the place of a call says of the requests it has sent.
SendsMatch(h) ==
    /\ \A k \in Kinds : handler[h].sends[k] <= 1
    /\ pc[h] \in {"idle", "getAccessToken", "done"} => handler[h] = NewHandler
    /\ handler[h].sends["FRT"] # 0 => handler[h].attemptedFRT
    /\ pc[h] \in {"removeThenMRRT", "removeThenStop"} =>
         handler[h].mrrtItem = None /\ ~handler[h].attemptedFRT
    /\ pc[h] = "tryMRRT" => (handler[h].attemptedFRT <=> handler[h].mrrtItem # None)
    /\ pc[h] = "tryFRT" /\ handler[h].attemptedFRT => handler[h].mrrtItem = None
    /\ pc[h] \in {"sent", "answered"} =>
         /\ handler[h].request.kind = "FRT" => handler[h].attemptedFRT
         /\ handler[h].request.kind = "MRRT" =>
              handler[h].mrrtItem # None /\ handler[h].mrrtItem.rt = handler[h].request.rt
    /\ handler[h].sends["MRRT"] # 0 =>
         /\ pc[h] \notin {"tryMRRT", "removeThenMRRT"}
         /\ pc[h] = "tryFRT" => handler[h].mrrtItem = None
         /\ pc[h] \in {"sent", "answered"} =>
              \/ handler[h].request.kind = "MRRT"
              \/ handler[h].request.kind = "FRT" /\ handler[h].mrrtItem = None

\* Tokens that stayed in the cache, are good and have not been tried.
Untried(h) == (remaining[h] \intersect live) \ handler[h].tried

\* Where the call will still come across a token: in the cache, in _mrrtItem, or
\* in the request it has sent.
InMrrt(t) == mrrt # None /\ mrrt.rt = t
InMrrtItem(h, t) == handler[h].mrrtItem # None /\ handler[h].mrrtItem.rt = t
InReach(h, t) ==
    \/ pc[h] \in {"idle", "getAccessToken", "done"}
    \/ /\ \/ pc[h] = "removeThenMRRT"
          \/ pc[h] = "tryMRRT" /\ handler[h].mrrtItem = None
       /\ InMrrt(t) \/ frt = t
    \/ pc[h] = "tryMRRT" /\ InMrrtItem(h, t)
    \/ /\ pc[h] = "tryFRT"
       /\ InMrrtItem(h, t) \/ (~handler[h].attemptedFRT /\ frt = t)
    \/ /\ pc[h] \in {"sent", "answered"}
       /\ \/ handler[h].request.kind = "developer"
          \/ handler[h].request.rt = t
          \/ handler[h].request.kind = "FRT" /\ InMrrtItem(h, t)
          \/ handler[h].request.kind = "MRRT" /\ ~handler[h].attemptedFRT /\ frt = t

UntriedInReach(h) ==
    /\ remaining[h] \subseteq CachedTokens
    /\ \A t \in Untried(h) : InReach(h, t)

CallInv(h) == CallIssued(h) /\ InFlight(h) /\ SendsMatch(h) /\ UntriedInReach(h)

IInv == TypeOK /\ CacheShape /\ CacheIssued /\ \A h \in Handlers : CallInv(h)

=============================================================================
