-------------------------- MODULE SilentFlowProofs --------------------------
(* Proofs about SilentFlow. *)
EXTENDS SilentFlow, TLAPS

USE TokensAssumption, AuthorityAssumption, OptionsAssumption, AnswersAssumption,
    NoneAssumption

LEMMA NewHandlerType == NewHandler \in Handler
BY DEF NewHandler, Handler, NotFinal, Kinds, MaxSends

LEMMA InitType == Init => TypeOK
BY NewHandlerType DEF Init, TypeOK, Tokens, Locations, Results, Options

(* Steps that change the call of one handler keep its type. *)
LEMMA SendType ==
    ASSUME TypeOK, NEW h \in Handlers, NEW kind \in Kinds, NEW rt \in Tokens,
           NEW state \in Handler, Send(h, kind, rt, state)
    PROVE  /\ pc' \in [Handlers -> Locations]
           /\ handler' \in [Handlers -> Handler]
           /\ result' \in [Handlers -> Results \union {"none"}]
<1> DEFINE sends == [state.sends EXCEPT ![kind] = @ + 1]
           req == [kind |-> kind, rt |-> rt]
<1>a. sends \in [Kinds -> 0 .. MaxSends]
  BY DEF Send, Handler, MaxSends
<1>b. req \in Request
  BY DEF Request
<1> HIDE DEF sends, req
<1>1. [state EXCEPT !.request = req, !.sends = sends] \in Handler
  BY <1>a, <1>b DEF Handler
<1> USE DEF sends, req
<1>2. QED
  BY <1>1 DEF Send, Continue, Goto, TypeOK, Locations

LEMMA CompleteType ==
    ASSUME TypeOK, NEW h \in Handlers, NEW res \in Results, Complete(h, res)
    PROVE  /\ pc' \in [Handlers -> Locations]
           /\ handler' \in [Handlers -> Handler]
           /\ result' \in [Handlers -> Results \union {"none"}]
BY NewHandlerType DEF Complete, Goto, TypeOK, Locations, Results

LEMMA ContinueType ==
    ASSUME TypeOK, NEW h \in Handlers, NEW place \in Locations,
           NEW state \in Handler, Continue(h, place, state)
    PROVE  /\ pc' \in [Handlers -> Locations]
           /\ handler' \in [Handlers -> Handler]
           /\ result' \in [Handlers -> Results \union {"none"}]
BY DEF Continue, Goto, TypeOK

LEMMA CachedTokensType == TypeOK => CachedTokens \subseteq Tokens
BY DEF TypeOK, CachedTokens, Single, Mrrt

LEMMA RemainingType ==
    TypeOK /\ KeepRemaining => remaining' \in [Handlers -> SUBSET Tokens]
BY CachedTokensType DEF KeepRemaining, TypeOK

HandlerStep(h) == Begin(h) \/ BeginWithToken(h) \/ Method(h)

(* The type of the state is kept by the steps of a handler. *)
LEMMA TypeMethod ==
    ASSUME TypeOK, NEW h \in Handlers, InFlight(h), HandlerStep(h)
    PROVE  /\ single' \in Single \union {None}
           /\ mrrt' \in Mrrt \union {None}
           /\ frt' \in Tokens \union {None}
           /\ live' \subseteq Tokens
           /\ issued' \in 0 .. MaxToken
           /\ pc' \in [Handlers -> Locations]
           /\ options' = options
           /\ handler' \in [Handlers -> Handler]
           /\ result' \in [Handlers -> Results \union {"none"}]
<1> USE DEF TypeOK, cacheVars, serverVars, Locations, Kinds
<1>q. pc[h] \in {"sent", "answered"} => handler[h].request \in Request
  BY DEF InFlight, Handler
<1>p. pc[h] = "answered" => /\ handler[h].reply \in Reply
                            /\ handler[h].reply.answer \in Granted =>
                                 handler[h].reply.rt \in Tokens
  BY DEF InFlight, Handler, Tokens
<1>h. handler[h] \in Handler /\ pc[h] \in Locations
  OBVIOUS
<1>s. single # None => single \in Single
  OBVIOUS
<1>m. mrrt # None => mrrt \in Mrrt
  OBVIOUS
<1>r. NotFinal \subseteq Results /\ Answers \subseteq Results
  BY DEF NotFinal, Results, Answers, OAuthErrors
<1>1. CASE Begin(h)
  BY <1>1, <1>h, ContinueType DEF Begin
<1>2. CASE BeginWithToken(h)
  <2>1. PICK rt \in 1 .. issued : Send(h, "developer", rt, handler[h])
    BY <1>2 DEF BeginWithToken
  <2>2. rt \in Tokens
    BY DEF Tokens
  <2> QED
    BY <1>2, <2>1, <2>2, <1>h, SendType DEF BeginWithToken
<1>3. CASE CacheFails(h)
  BY <1>3, CompleteType DEF CacheFails, Results
<1>4. CASE ReturnCached(h)
  BY <1>4, CompleteType DEF ReturnCached, Results
<1>5. CASE FindNothing(h)
  BY <1>5, <1>h, ContinueType DEF FindNothing
<1>w. single # None => WithStale(h) \in Handler
  BY <1>h, <1>s DEF WithStale, Handler, Single
<1>6. CASE SendRT(h)
  <2>1. single.rt \in Tokens
    BY <1>6, <1>s DEF SendRT, FoundStale, Single
  <2> QED
    BY <1>6, <1>w, <2>1, SendType DEF SendRT, FoundStale
<1>7. CASE NoRT(h)
  <2>1. WithStale(h) \in Handler
    BY <1>7, <1>w DEF NoRT, FoundStale
  <2>2. CASE ~single.extended /\ Continue(h, IF single.idToken THEN "removeThenMRRT"
                                 ELSE "removeThenStop", WithStale(h))
    BY <1>7, <2>1, <2>2, ContinueType DEF NoRT
  <2>3. CASE Continue(h, "tryMRRT", WithStale(h))
    BY <1>7, <2>1, <2>3, ContinueType DEF NoRT
  <2>4. CASE Complete(h, "nil")
    BY <1>7, <2>4, CompleteType DEF NoRT, Results
  <2> QED
    BY <1>7, <2>2, <2>3, <2>4 DEF NoRT
<1>8. CASE RemoveAccessToken(h)
  <2>1. CASE Continue(h, "tryMRRT", handler[h])
    BY <1>8, <1>h, <2>1, ContinueType DEF RemoveAccessToken
  <2>2. CASE Complete(h, "nil")
    BY <1>8, <2>2, CompleteType DEF RemoveAccessToken, Results
  <2> QED
    BY <1>8, <2>1, <2>2 DEF RemoveAccessToken
<1>f. FoundMrrt(h) \in Mrrt \union {None}
  BY <1>h DEF FoundMrrt, Handler
<1>g. [handler[h] EXCEPT !.mrrtItem = FoundMrrt(h)] \in Handler
  BY <1>h, <1>f DEF Handler
<1>9. CASE MRRTToFRT(h)
  BY <1>9, <1>g, ContinueType DEF MRRTToFRT
<1>10. CASE SendMRRT(h)
  <2>1. FoundMrrt(h).rt \in Tokens
    BY <1>10, <1>f DEF SendMRRT, Mrrt
  <2> QED
    BY <1>10, <1>g, <2>1, SendType DEF SendMRRT
<1>11. CASE FRTAttempted(h)
  <2>1. handler[h].mrrtResult \in Results
    BY <1>h, <1>r DEF Handler
  <2> QED
    BY <1>11, <2>1, CompleteType DEF FRTAttempted
<1>a. ASSUME NEW state \in Handler, AfterFRT(h, state)
      PROVE  /\ pc' \in [Handlers -> Locations]
             /\ handler' \in [Handlers -> Handler]
             /\ result' \in [Handlers -> Results \union {"none"}]
  <2>1. CASE Continue(h, "tryMRRT", state)
    BY <2>1, ContinueType
  <2>2. CASE Complete(h, state.mrrtResult)
    <3>1. state.mrrtResult \in Results
      BY <1>r DEF Handler
    <3> QED
      BY <2>2, <3>1, CompleteType
  <2> QED
    BY <1>a, <2>1, <2>2 DEF AfterFRT
<1>t. [handler[h] EXCEPT !.attemptedFRT = TRUE] \in Handler
  BY <1>h DEF Handler
<1>12. CASE NoFRT(h)
  BY <1>12, <1>a, <1>t DEF NoFRT
<1>13. CASE SendFRT(h)
  BY <1>13, <1>t, SendType DEF SendFRT
<1>b. ASSUME NEW r \in Reply, pc[h] = "sent", handler[h].request # None,
             Answer(h, r)
      PROVE  /\ pc' \in [Handlers -> Locations]
             /\ handler' \in [Handlers -> Handler]
             /\ result' \in [Handlers -> Results \union {"none"}]
             /\ UNCHANGED <<cacheVars, options>>
  <2>1. handler[h].request.rt \in Tokens
    BY <1>h, <1>b DEF Handler, Request
  <2>2. [handler[h] EXCEPT !.reply = r, !.tried = @ \union {handler[h].request.rt}]
          \in Handler
    BY <1>h, <2>1 DEF Handler
  <2> QED
    BY <1>b, <2>2, ContinueType DEF Answer
<1>14. CASE ServerGrants(h)
  <2>1. PICK answer \in Granted, family \in BOOLEAN,
             rt \in {handler[h].request.rt} \union ({issued + 1} \intersect Tokens) :
          /\ Answer(h, [answer |-> answer, rt |-> rt, family |-> family])
          /\ live' = live \union {rt}
          /\ issued' = IF rt > issued THEN rt ELSE issued
    BY <1>14 DEF ServerGrants
  <2>2. rt \in Tokens
    BY <1>14, <1>q DEF ServerGrants, Request
  <2>3. [answer |-> answer, rt |-> rt, family |-> family] \in Reply
    BY <2>2 DEF Reply, Answers
  <2>4. live' \subseteq Tokens /\ issued' \in 0 .. MaxToken
    <3>1. live \subseteq Tokens /\ issued \in 0 .. MaxToken
      OBVIOUS
    <3>2. live' = live \union {rt} /\ issued' = IF rt > issued THEN rt ELSE issued
      BY <2>1
    <3>3. live' \subseteq Tokens
      BY <2>2, <3>1, <3>2
    <3>4. rt \in 0 .. MaxToken
      BY <2>2 DEF Tokens
    <3> QED
      BY <3>1, <3>2, <3>3, <3>4
  <2> QED
    BY <1>14, <1>q, <1>b, <2>1, <2>3, <2>4 DEF ServerGrants
<1>15. CASE ServerRefuses(h)
  <2>1. PICK answer \in OAuthErrors \union OtherErrors :
          Answer(h, [answer |-> answer, rt |-> None, family |-> FALSE])
    BY <1>15 DEF ServerRefuses
  <2>2. [answer |-> answer, rt |-> None, family |-> FALSE] \in Reply
    BY DEF Reply, Answers
  <2> QED
    BY <1>15, <1>q, <1>b, <2>1, <2>2 DEF ServerRefuses
<1>16. CASE ProcessTokens(h)
  <2>1. handler[h].reply \in Reply /\ handler[h].reply.rt \in Tokens
    BY <1>16, <1>p DEF ProcessTokens
  <2>2. handler[h].reply.answer \in Results
    BY <2>1, <1>r DEF Reply
  <2>3. /\ single' \in Single \union {None}
        /\ mrrt' \in Mrrt \union {None}
        /\ frt' \in Tokens \union {None}
    <3>1. CASE UNCHANGED cacheVars
      BY <3>1
    <3>2. CASE ~UNCHANGED cacheVars
      <4>1. PICK extended \in BOOLEAN, idToken \in BOOLEAN :
              single' = [fresh |-> TRUE, extended |-> extended, idToken |-> idToken,
                         rt |-> IF MultiResource THEN None ELSE handler[h].reply.rt]
        BY <1>16, <3>2 DEF ProcessTokens
      <4>2. single' \in Single
        BY <2>1, <4>1 DEF Single
      <4>3. handler[h].reply.family \in BOOLEAN
        BY <2>1 DEF Reply
      <4>4. mrrt' \in Mrrt \union {None} /\ frt' \in Tokens \union {None}
        BY <1>16, <2>1, <3>2, <4>3 DEF ProcessTokens, Mrrt
      <4> QED
        BY <4>2, <4>4
    <3> QED
      BY <3>1, <3>2
  <2> QED
    BY <1>16, <2>2, <2>3, CompleteType DEF ProcessTokens
<1>17. CASE ProcessFinalError(h)
  <2>1. handler[h].reply.answer \in Results
    BY <1>17, <1>p, <1>r DEF Reply, ProcessFinalError
  <2> QED
    BY <1>17, <2>1, CompleteType DEF ProcessFinalError
<1>18. CASE ProcessOAuthError(h)
  <2> DEFINE state == [handler[h] EXCEPT !.request = None, !.reply = None]
             answer == handler[h].reply.answer
             fallback == [state EXCEPT !.mrrtItem = None, !.mrrtResult = answer]
  <2>1. answer \in NotFinal
    BY <1>18 DEF ProcessOAuthError, NotFinal
  <2>2. state \in Handler
    BY <1>h DEF Handler
  <2>3. fallback \in Handler
    BY <1>h, <2>1 DEF Handler
  <2>4. /\ single' \in Single \union {None}
        /\ mrrt' \in Mrrt \union {None}
        /\ frt' \in Tokens \union {None}
    BY <1>18 DEF ProcessOAuthError, HandleError, ValidateAndRemove
  <2>5. \/ Complete(h, answer)
        \/ Continue(h, "tryFRT", fallback)
        \/ AfterFRT(h, state)
    BY <1>18 DEF ProcessOAuthError
  <2>6. UNCHANGED <<serverVars, options>>
    BY <1>18 DEF ProcessOAuthError
  <2>7. CASE Complete(h, answer)
    BY <1>r, <2>1, <2>4, <2>6, <2>7, CompleteType
  <2>8. CASE Continue(h, "tryFRT", fallback)
    BY <2>3, <2>4, <2>6, <2>8, ContinueType
  <2>9. CASE AfterFRT(h, state)
    BY <1>a, <2>2, <2>4, <2>6, <2>9
  <2> QED
    BY <2>5, <2>7, <2>8, <2>9
<1> QED
  BY <1>1, <1>2, <1>3, <1>4, <1>5, <1>6, <1>7, <1>8, <1>9, <1>10, <1>11, <1>12,
     <1>13, <1>14, <1>15, <1>16, <1>17, <1>18 DEF HandlerStep, Method

-----------------------------------------------------------------------------
(* A step changes the call of one handler only. *)
LEMMA OneHandler ==
    ASSUME TypeOK, NEW h \in Handlers, HandlerStep(h),
           NEW q \in Handlers, q # h
    PROVE  pc'[q] = pc[q] /\ handler'[q] = handler[q] /\ result'[q] = result[q]
BY DEF HandlerStep, Begin, BeginWithToken, Method, CacheFails, ReturnCached,
   FindNothing, SendRT, NoRT, RemoveAccessToken, MRRTToFRT, SendMRRT, FRTAttempted,
   NoFRT, SendFRT, ServerGrants, ServerRefuses, ProcessTokens, ProcessFinalError,
   ProcessOAuthError, Send, Complete, Continue, AfterFRT, Answer, Goto, TypeOK

LEMMA SendsMatchMethod ==
    ASSUME TypeOK, NEW h \in Handlers, HandlerStep(h), SendsMatch(h)
    PROVE  SendsMatch(h)'
<1> USE DEF TypeOK, Send, Complete, Continue, AfterFRT, Answer, Goto, SendsMatch, Kinds, NewHandler, Handler
<1>1. CASE Begin(h)
  BY <1>1 DEF Begin
<1>2. CASE BeginWithToken(h)
  BY <1>2 DEF BeginWithToken
<1>3. CASE CacheFails(h)
  BY <1>3 DEF CacheFails
<1>4. CASE ReturnCached(h)
  BY <1>4 DEF ReturnCached
<1>5. CASE FindNothing(h)
  BY <1>5 DEF FindNothing
<1>6. CASE SendRT(h)
  <2>1. pc[h] = "getAccessToken" /\ handler[h] = NewHandler
    BY <1>6 DEF SendRT, FoundStale
  <2>2. pc'[h] = "sent" /\ handler'[h].request.kind = "RT"
    BY <1>6 DEF SendRT
  <2>3. /\ handler'[h].mrrtItem = None
        /\ handler'[h].sends = [NewHandler.sends EXCEPT !["RT"] = @ + 1]
    BY <1>6, <2>1 DEF SendRT, WithStale
  <2> QED
    BY <2>2, <2>3
<1>7. CASE NoRT(h)
  <2>1. pc[h] = "getAccessToken" /\ handler[h] = NewHandler
    BY <1>7 DEF NoRT, FoundStale
  <2>2. CASE Complete(h, "nil")
    BY <2>2
  <2>3. CASE ~Complete(h, "nil")
    <3>1. /\ pc'[h] \in {"removeThenMRRT", "removeThenStop", "tryMRRT"}
          /\ handler'[h] = WithStale(h)
      BY <1>7, <2>3 DEF NoRT
    <3>2. /\ handler'[h].mrrtItem = None /\ ~handler'[h].attemptedFRT
          /\ handler'[h].sends = NewHandler.sends
      BY <2>1, <3>1 DEF WithStale
    <3> QED
      BY <3>1, <3>2
  <2> QED
    BY <2>2, <2>3
<1>8. CASE RemoveAccessToken(h)
  <2>1. CASE pc[h] = "removeThenMRRT" /\ Continue(h, "tryMRRT", handler[h])
    <3>1. pc'[h] = "tryMRRT" /\ handler'[h] = handler[h]
      BY <2>1
    <3> QED
      BY <2>1, <3>1
  <2>2. CASE Complete(h, "nil")
    BY <2>2
  <2> QED
    BY <1>8, <2>1, <2>2 DEF RemoveAccessToken
<1>9. CASE MRRTToFRT(h)
  BY <1>9 DEF MRRTToFRT, FoundMrrt
<1>10. CASE SendMRRT(h)
  BY <1>10 DEF SendMRRT, FoundMrrt
<1>11. CASE FRTAttempted(h)
  BY <1>11 DEF FRTAttempted
<1>12. CASE NoFRT(h)
  <2> DEFINE state == [handler[h] EXCEPT !.attemptedFRT = TRUE]
  <2>1. CASE Complete(h, state.mrrtResult)
    BY <2>1
  <2>2. CASE state.mrrtItem # None /\ Continue(h, "tryMRRT", state)
    BY <1>12, <2>2 DEF NoFRT
  <2> QED
    BY <1>12, <2>1, <2>2 DEF NoFRT
<1>13. CASE SendFRT(h)
  BY <1>13 DEF SendFRT
<1>14. CASE ServerGrants(h)
  BY <1>14 DEF ServerGrants
<1>15. CASE ServerRefuses(h)
  BY <1>15 DEF ServerRefuses
<1>16. CASE ProcessTokens(h)
  BY <1>16 DEF ProcessTokens
<1>17. CASE ProcessFinalError(h)
  BY <1>17 DEF ProcessFinalError
<1>18. CASE ProcessOAuthError(h)
  <2> DEFINE state == [handler[h] EXCEPT !.request = None, !.reply = None]
             answer == handler[h].reply.answer
             kind == handler[h].request.kind
             fallback == [state EXCEPT !.mrrtItem = None, !.mrrtResult = answer]
  <2>1. CASE Complete(h, answer) \/ Complete(h, state.mrrtResult)
    <3>1. pc'[h] = "done" /\ handler'[h] = NewHandler
      BY <2>1
    <3> HIDE DEF Complete
    <3> QED
      BY <3>1
  <2>2. CASE kind = "MRRT" /\ Continue(h, "tryFRT", fallback)
    BY <1>18, <2>2 DEF ProcessOAuthError
  <2>3. CASE kind = "FRT" /\ state.mrrtItem # None /\ Continue(h, "tryMRRT", state)
    <3>1. /\ pc[h] = "answered" /\ pc'[h] = "tryMRRT"
          /\ handler'[h] = state
      BY <1>18, <2>3 DEF ProcessOAuthError
    <3>2. /\ handler'[h].sends = handler[h].sends
          /\ handler'[h].mrrtItem = handler[h].mrrtItem
          /\ handler'[h].attemptedFRT = handler[h].attemptedFRT
      BY <3>1
    <3>3. handler[h].attemptedFRT /\ handler[h].sends["MRRT"] = 0
      BY <2>3, <3>1, <3>2
    <3> QED
      BY <2>3, <3>1, <3>2, <3>3
  <2> QED
    BY <1>18, <2>1, <2>2, <2>3 DEF ProcessOAuthError
<1> QED
  BY <1>1, <1>2, <1>3, <1>4, <1>5, <1>6, <1>7, <1>8, <1>9, <1>10, <1>11, <1>12,
     <1>13, <1>14, <1>15, <1>16, <1>17, <1>18 DEF HandlerStep, Method

-----------------------------------------------------------------------------
(* What a step of one handler can do to the server's tokens: none that was     *)
(* issued comes to life again.                                                 *)
LEMMA ServerMethod ==
    ASSUME TypeOK, CacheIssued, NEW h \in Handlers, InFlight(h), CallIssued(h),
           HandlerStep(h)
    PROVE  /\ issued' >= issued
           /\ live' \subseteq 1 .. issued'
           /\ \A t \in 1 .. issued : t \in live' => t \in live
<1>1. CASE ServerGrants(h)
  <2>1. PICK rt \in {handler[h].request.rt} \union ({issued + 1} \intersect Tokens) :
          /\ live' = live \union {rt}
          /\ issued' = IF rt > issued THEN rt ELSE issued
    BY <1>1 DEF ServerGrants
  <2>2. handler[h].request.rt \in live /\ issued \in Nat /\ live \subseteq 1 .. issued
    BY <1>1 DEF ServerGrants, TypeOK, CacheIssued
  <2>3. CASE rt \in live
    <3>1. rt <= issued /\ live' = live
      BY <2>1, <2>2, <2>3
    <3>2. issued' = issued
      BY <2>1, <2>2, <2>3, <3>1
    <3> QED
      BY <2>2, <3>1, <3>2
  <2>4. CASE rt \notin live
    <3>1. rt = issued + 1
      BY <2>1, <2>2, <2>4
    <3>2. issued' = issued + 1 /\ live' = live \union {issued + 1}
      BY <2>1, <2>2, <3>1
    <3> QED
      BY <2>2, <3>2
  <2> QED
    BY <2>3, <2>4
<1>2. CASE ~ServerGrants(h)
  <2>1. live' = live /\ issued' = issued
    BY <1>2 DEF HandlerStep, Begin, BeginWithToken, Method, CacheFails, ReturnCached,
       FindNothing, SendRT, NoRT, RemoveAccessToken, MRRTToFRT, SendMRRT,
       FRTAttempted, NoFRT, SendFRT, ServerRefuses, ProcessTokens,
       ProcessFinalError, ProcessOAuthError, serverVars
  <2>2. issued \in Nat /\ live \subseteq 1 .. issued
    BY DEF TypeOK, CacheIssued
  <2> QED
    BY <2>1, <2>2
<1> QED
  BY <1>1, <1>2

(* What it can do to the cache: leave it, save the tokens it was granted, drop  *)
(* the access token, or remove a refresh token that the server rejected.       *)
Saves(t) ==
    /\ t \in 1 .. issued
    /\ single' # None
    /\ single'.idToken \/ ~MultiResource
    /\ single'.rt = IF MultiResource THEN None ELSE t
    /\ mrrt' # None \/ ~MultiResource
    /\ IF MultiResource THEN mrrt'.rt = t ELSE mrrt' = mrrt
    /\ frt' = frt \/ (MultiResource /\ frt' = t)

Drops ==
    /\ single' = single \/ single' = None
    /\ mrrt' = mrrt \/ (mrrt' = None /\ mrrt # None /\ mrrt.rt \notin live)
    /\ frt' = frt \/ (frt' = None /\ frt \notin live)

LEMMA CacheMethod ==
    ASSUME TypeOK, NEW h \in Handlers, InFlight(h), HandlerStep(h)
    PROVE  Drops \/ \E t \in 1 .. issued : Saves(t)
<1>1. CASE ProcessTokens(h)
  <2>1. CASE UNCHANGED cacheVars
    BY <2>1 DEF Drops, cacheVars
  <2>2. CASE ~UNCHANGED cacheVars
    <3> DEFINE r == handler[h].reply
    <3>1. r.rt \in 1 .. issued /\ (r.family => MultiResource)
      BY <1>1 DEF ProcessTokens, InFlight
    <3>2. PICK extended \in BOOLEAN, idToken \in BOOLEAN :
            /\ MultiResource => idToken
            /\ single' = [fresh |-> TRUE, extended |-> extended, idToken |-> idToken,
                          rt |-> IF MultiResource THEN None ELSE r.rt]
      BY <1>1, <2>2 DEF ProcessTokens
    <3>3. /\ mrrt' = IF MultiResource
                     THEN [rt |-> r.rt, family |-> r.family] ELSE mrrt
          /\ frt' = IF r.family THEN r.rt ELSE frt
      BY <1>1, <2>2 DEF ProcessTokens
    <3>4. mrrt' # None \/ ~MultiResource
      <4>1. CASE MultiResource
        <5>1. handler[h].reply \in Reply
          BY <1>1 DEF ProcessTokens, InFlight, TypeOK, Handler
        <5>2. mrrt' \in Mrrt
          BY <3>1, <3>3, <4>1, <5>1 DEF Mrrt, Reply, TypeOK, Tokens
        <5> QED
          BY <5>2
      <4> QED
        BY <4>1
    <3>9. single' # None
      <4>1. handler[h].reply \in Reply
        BY <1>1 DEF ProcessTokens, InFlight, TypeOK, Handler
      <4>2. single' \in Single
        BY <3>2, <4>1 DEF Single, Reply
      <4> QED
        BY <4>2
    <3> HIDE DEF r
    <3>5. single'.idToken \/ ~MultiResource
      BY <3>2
    <3>6. single'.rt = IF MultiResource THEN None ELSE r.rt
      BY <3>2
    <3>7. IF MultiResource THEN mrrt'.rt = r.rt ELSE mrrt' = mrrt
      BY <3>3
    <3>8. frt' = frt \/ (MultiResource /\ frt' = r.rt)
      BY <3>1, <3>3
    <3> QED
      BY <3>1, <3>4, <3>5, <3>6, <3>7, <3>8, <3>9 DEF Saves
  <2> QED
    BY <2>1, <2>2
<1>2. CASE ProcessOAuthError(h)
  <2>1. CASE handler[h].reply.answer = "invalidGrant"
    <3>1. handler[h].request.rt \notin live
      BY <1>2, <2>1 DEF ProcessOAuthError, InFlight
    <3>2. ValidateAndRemove(handler[h].request.kind, handler[h].request.rt)
      BY <1>2, <2>1 DEF ProcessOAuthError, HandleError
    <3> QED
      BY <3>1, <3>2 DEF ValidateAndRemove, Drops
  <2>2. CASE handler[h].reply.answer # "invalidGrant"
    BY <1>2, <2>2 DEF ProcessOAuthError, HandleError, Drops, cacheVars
  <2> QED
    BY <2>1, <2>2
<1>3. CASE RemoveAccessToken(h)
  BY <1>3 DEF RemoveAccessToken, Drops
<1>4. CASE ~ProcessTokens(h) /\ ~ProcessOAuthError(h) /\ ~RemoveAccessToken(h)
  BY <1>4 DEF HandlerStep, Begin, BeginWithToken, Method, CacheFails, ReturnCached,
       FindNothing, SendRT, NoRT, MRRTToFRT, SendMRRT, FRTAttempted, NoFRT, SendFRT,
       ServerGrants, ServerRefuses, ProcessFinalError, Answer, cacheVars, Drops
<1> QED
  BY <1>1, <1>2, <1>3, <1>4

(* The cache keeps its shape. *)
LEMMA CacheInv ==
    ASSUME TypeOK, CacheShape, CacheIssued, NEW h \in Handlers, InFlight(h),
           CallIssued(h), HandlerStep(h)
    PROVE  CacheShape' /\ CacheIssued'
<1>1. issued \in Nat /\ issued' \in Nat /\ issued' >= issued /\ live' \subseteq 1 .. issued'
  BY ServerMethod, TypeMethod DEF TypeOK
<1>2. CASE Drops
  <2>1. CacheShape'
    BY <1>2 DEF Drops, CacheShape
  <2>2. single' # None /\ single'.rt # None => single'.rt <= issued'
    <3>1. SUFFICES ASSUME single # None, single.rt # None, single' = single
                   PROVE  single.rt <= issued'
      BY <1>2 DEF Drops
    <3>2. single.rt \in Int /\ single.rt <= issued
      BY <3>1 DEF CacheIssued, TypeOK, Single, Tokens
    <3> QED
      BY <1>1, <3>2
  <2>3. mrrt' # None => mrrt'.rt <= issued'
    <3>1. SUFFICES ASSUME mrrt # None, mrrt' = mrrt
                   PROVE  mrrt.rt <= issued'
      BY <1>2 DEF Drops
    <3>2. mrrt.rt \in Int /\ mrrt.rt <= issued
      BY <3>1 DEF CacheIssued, TypeOK, Mrrt, Tokens
    <3> QED
      BY <1>1, <3>2
  <2>4. frt' # None => frt' <= issued'
    <3>1. SUFFICES ASSUME frt # None, frt' = frt
                   PROVE  frt <= issued'
      BY <1>2 DEF Drops
    <3>2. frt \in Int /\ frt <= issued
      BY <3>1 DEF CacheIssued, TypeOK, Tokens
    <3> QED
      BY <1>1, <3>2
  <2> QED
    BY <1>1, <2>1, <2>2, <2>3, <2>4 DEF CacheIssued
<1>3. ASSUME NEW t \in 1 .. issued, Saves(t)
      PROVE  CacheShape' /\ CacheIssued'
  <2>1. t <= issued'
    BY <1>1
  <2>2. CacheShape'
    BY <1>3 DEF Saves, CacheShape
  <2>3. single' # None /\ single'.rt # None => single'.rt <= issued'
    BY <1>3, <2>1 DEF Saves
  <2>4. mrrt' # None => mrrt'.rt <= issued'
    BY <1>3, <2>1 DEF Saves, CacheShape
  <2>5. frt' # None => frt' <= issued'
    <3>1. frt # None => frt \in Int /\ frt <= issued
      BY DEF CacheIssued, TypeOK, Tokens
    <3> QED
      BY <1>1, <1>3, <2>1, <3>1 DEF Saves
  <2> QED
    BY <1>1, <2>2, <2>3, <2>4, <2>5 DEF CacheIssued
<1> QED
  BY <1>2, <1>3, CacheMethod

-----------------------------------------------------------------------------
(* The server does not take back what it said: no step makes an issued token   *)
(* good again.                                                                 *)
NoRevival ==
    /\ issued' \in Nat /\ issued' >= issued
    /\ \A t \in 1 .. issued : t \in live' => t \in live

(* A good FRT stays in the cache as the FRT, if it stays in the cache.          *)
FrtKept == \A t \in Tokens : frt = t /\ t \in live /\ t \in CachedTokens' => frt' = t

Quiet(q) == pc'[q] = pc[q] /\ handler'[q] = handler[q]

(* What is known of a call holds while others act. *)
LEMMA QuietCall ==
    ASSUME TypeOK, NEW q \in Handlers, Quiet(q), NoRevival,
           CallIssued(q), InFlight(q), SendsMatch(q)
    PROVE  CallIssued(q)' /\ InFlight(q)' /\ SendsMatch(q)'
<1> DEFINE s == handler[q]
<1>1. s \in Handler /\ issued \in Nat
  BY DEF TypeOK
<1>2. s.mrrtItem # None => s.mrrtItem.rt \in Nat
  BY <1>1 DEF Handler, Mrrt, Tokens
<1>3. s.request # None => s.request.rt \in Nat \ {0}
  BY <1>1 DEF Handler, Request, Tokens
<1>4. s.reply # None /\ s.reply.rt \in 1 .. issued => s.reply.rt \in 1 .. issued'
  BY <1>1 DEF NoRevival
<1>5. CallIssued(q)'
  BY <1>1, <1>2, <1>3 DEF CallIssued, Quiet, NoRevival
<1>6. InFlight(q)'
  <2>1. s.request # None /\ s.request.rt \notin live => s.request.rt \notin live'
    BY <1>1, <1>3 DEF CallIssued, NoRevival
  <2> QED
    BY <1>4, <2>1 DEF InFlight, Quiet
<1>7. SendsMatch(q)'
  BY DEF SendsMatch, Quiet
<1> QED
  BY <1>5, <1>6, <1>7

(* The cache holds issued tokens, and at an authority with MRRTs nothing else   *)
(* than an MRRT and an FRT.                                                    *)
LEMMA CachedTokensIssued ==
    ASSUME TypeOK, CacheIssued
    PROVE  CachedTokens \subseteq 1 .. issued
<1>1. issued \in Nat
  BY DEF TypeOK
<1>2. single # None /\ single.rt # None => single.rt \in 1 .. issued
  BY <1>1 DEF TypeOK, CacheIssued, Single, Tokens
<1>3. mrrt # None => mrrt.rt \in 1 .. issued
  BY <1>1 DEF TypeOK, CacheIssued, Mrrt, Tokens
<1>4. frt # None => frt \in 1 .. issued
  BY <1>1 DEF TypeOK, CacheIssued, Tokens
<1> QED
  BY <1>2, <1>3, <1>4 DEF CachedTokens

LEMMA CachedTokensKinds ==
    /\ CacheShape /\ MultiResource => \A t \in CachedTokens : InMrrt(t) \/ frt = t
    /\ CacheShape /\ ~MultiResource =>
         \A t \in CachedTokens : single # None /\ single.rt = t
BY DEF CacheShape, CachedTokens, InMrrt

LEMMA QuietReach ==
    ASSUME TypeOK, CacheShape, CacheShape', CacheIssued, NoRevival, FrtKept,
           NEW q \in Handlers, Quiet(q), KeepRemaining, UntriedInReach(q)
    PROVE  UntriedInReach(q)'
<1>1. remaining'[q] = IF pc[q] \in {"idle", "done"} THEN {}
                      ELSE remaining[q] \intersect CachedTokens'
  BY DEF KeepRemaining, Quiet
<1>2. SUFFICES ASSUME NEW t, t \in Untried(q)'
               PROVE  InReach(q, t)'
  BY <1>1 DEF UntriedInReach
<1>3. /\ t \in remaining[q] /\ t \in CachedTokens' /\ t \in live'
      /\ t \notin handler[q].tried
  BY <1>1, <1>2 DEF Untried, Quiet
<1>4. t \in CachedTokens /\ t \in 1 .. issued /\ t \in live /\ t \in Tokens
  BY <1>3, CachedTokensIssued, CachedTokensType DEF UntriedInReach, NoRevival
<1>5. InReach(q, t)
  BY <1>3, <1>4 DEF UntriedInReach, Untried
<1>6. frt = t => frt' = t
  BY <1>3, <1>4 DEF FrtKept
<1>7. InMrrt(t) \/ frt = t => InMrrt(t)' \/ frt' = t
  <2>1. CASE MultiResource
    BY <2>1, <1>3, CachedTokensKinds DEF CachedTokens, CacheShape, InMrrt
  <2>2. CASE ~MultiResource
    <3>1. t # None
      BY <1>4
    <3> QED
      BY <2>2, <3>1 DEF CacheShape, InMrrt
  <2> QED
    BY <2>1, <2>2
<1>8. InMrrtItem(q, t)' <=> InMrrtItem(q, t)
  BY DEF InMrrtItem, Quiet
<1> QED
  BY <1>5, <1>6, <1>7, <1>8 DEF InReach, Quiet

(* The two facts hold for the steps of a handler. *)
LEMMA NoRevivalMethod ==
    ASSUME TypeOK, CacheIssued, NEW h \in Handlers, InFlight(h), CallIssued(h),
           HandlerStep(h)
    PROVE  NoRevival
BY ServerMethod, TypeMethod DEF NoRevival

LEMMA FrtKeptMethod ==
    ASSUME TypeOK, CacheShape, NEW h \in Handlers, InFlight(h), HandlerStep(h)
    PROVE  FrtKept
<1>1. SUFFICES ASSUME NEW t \in Tokens, frt = t, t \in live, t \in CachedTokens'
               PROVE  frt' = t
  BY DEF FrtKept
<1>2. CASE Drops
  BY <1>1, <1>2 DEF Drops
<1>3. ASSUME NEW u \in 1 .. issued, Saves(u)
      PROVE  frt' = t
  <2>1. MultiResource
    BY <1>1 DEF CacheShape
  <2>2. CASE frt' = frt
    BY <1>1, <2>2
  <2>3. CASE frt' = u
    BY <1>1, <1>3, <2>1, <2>3 DEF Saves, CachedTokens
  <2> QED
    BY <1>3, <2>2, <2>3 DEF Saves
<1> QED
  BY <1>2, <1>3, CacheMethod

-----------------------------------------------------------------------------
(* The request a call has sent, and what is known of the answer. *)
LEMMA InFlightMethod ==
    ASSUME TypeOK, CacheShape, CacheIssued, NEW h \in Handlers, CallIssued(h),
           InFlight(h), SendsMatch(h), HandlerStep(h)
    PROVE  CallIssued(h)' /\ InFlight(h)'
<1> DEFINE s == handler[h]
           CallOK == CallIssued(h)' /\ InFlight(h)'
<1>h. /\ s \in Handler /\ pc[h] \in Locations /\ pc \in [Handlers -> Locations]
      /\ handler \in [Handlers -> Handler] /\ issued \in Nat
  BY DEF TypeOK
<1>i. issued' \in Nat /\ issued' >= issued
  BY NoRevivalMethod DEF NoRevival
<1>m. s.mrrtItem # None => MultiResource /\ s.mrrtItem.rt \in Nat /\ s.mrrtItem.rt <= issued'
  <2>1. s.mrrtItem # None => s.mrrtItem.rt \in Nat /\ MultiResource /\ s.mrrtItem.rt <= issued
    BY <1>h DEF Handler, Mrrt, Tokens, CallIssued
  <2> QED
    BY <1>h, <1>i, <2>1
<1>r. s.request # None => s.request.rt \in Nat /\ s.request.rt <= issued'
  <2>1. s.request # None => s.request.rt \in Nat /\ s.request.rt <= issued
    BY <1>h DEF Handler, Request, Tokens, CallIssued
  <2> QED
    BY <1>h, <1>i, <2>1
(* The three ways a method ends. *)
<1>c. ASSUME NEW res, Complete(h, res)
      PROVE  CallOK
  <2>1. pc'[h] = "done" /\ handler'[h] = NewHandler
    BY <1>h, <1>c DEF Complete, Goto
  <2> QED
    BY <2>1 DEF CallIssued, InFlight, NewHandler
<1>o. ASSUME NEW place \in {"getAccessToken", "removeThenMRRT", "tryMRRT", "tryFRT"},
             NEW state \in Handler, Continue(h, place, state),
             state.mrrtItem # None => MultiResource /\ state.mrrtItem.rt <= issued',
             state.request # None => state.request.rt <= issued'
      PROVE  CallOK
  <2>1. pc'[h] = place /\ handler'[h] = state
    BY <1>h, <1>o DEF Continue, Goto
  <2> QED
    BY <1>o, <2>1 DEF CallIssued, InFlight
<1>s. ASSUME NEW kind \in Kinds, NEW rt \in Tokens, NEW state \in Handler,
             Send(h, kind, rt, state), rt <= issued',
             state.mrrtItem # None => MultiResource /\ state.mrrtItem.rt <= issued'
      PROVE  CallOK
  <2>1. /\ pc'[h] = "sent"
        /\ handler'[h].request = [kind |-> kind, rt |-> rt]
        /\ handler'[h].mrrtItem = state.mrrtItem
    BY <1>h, <1>s DEF Send, Continue, Goto, Handler
  <2>2. handler'[h].request # None
    BY <2>1 DEF Request
  <2> QED
    BY <1>s, <2>1, <2>2 DEF CallIssued, InFlight
<1>1. CASE Begin(h)
  BY <1>1, <1>h, <1>m, <1>r, <1>o DEF Begin
<1>2. CASE BeginWithToken(h)
  <2>1. PICK rt \in 1 .. issued : Send(h, "developer", rt, s)
    BY <1>2 DEF BeginWithToken
  <2>2. rt \in Tokens /\ rt <= issued'
    <3>1. issued \in 0 .. MaxToken
      BY DEF TypeOK
    <3> QED
      BY <1>i, <3>1 DEF Tokens
  <2> QED
    BY <2>1, <2>2, <1>h, <1>m, <1>s DEF Kinds
<1>3. CASE CacheFails(h)
  BY <1>3, <1>c DEF CacheFails
<1>4. CASE ReturnCached(h)
  BY <1>4, <1>c DEF ReturnCached
<1>5. CASE FindNothing(h)
  BY <1>5, <1>h, <1>m, <1>r, <1>o DEF FindNothing
<1>w. FoundStale(h) => /\ WithStale(h) \in Handler
                       /\ WithStale(h).mrrtItem = None /\ WithStale(h).request = None
  <2>1. FoundStale(h) => s = NewHandler /\ single \in Single
    BY DEF FoundStale, SendsMatch, TypeOK
  <2> QED
    BY <1>h, <2>1 DEF WithStale, Handler, Single, NewHandler
<1>6. CASE SendRT(h)
  <2>1. single.rt \in Tokens /\ single.rt <= issued
    BY <1>6 DEF SendRT, FoundStale, TypeOK, Single, CacheIssued
  <2>2. single.rt <= issued'
    BY <1>h, <1>i, <2>1 DEF Tokens
  <2> QED
    BY <1>6, <1>w, <1>s, <2>1, <2>2 DEF SendRT, Kinds
<1>7. CASE NoRT(h)
  <2>1. CASE Complete(h, "nil")
    BY <2>1, <1>c
  <2>2. CASE Continue(h, "removeThenStop", WithStale(h)) /\ ~single.idToken
    <3>1. pc'[h] = "removeThenStop" /\ handler'[h] = WithStale(h)
      BY <1>h, <2>2 DEF Continue, Goto
    <3>2. ~MultiResource
      BY <1>7, <2>2 DEF NoRT, FoundStale, CacheShape
    <3> QED
      BY <1>7, <1>w, <3>1, <3>2 DEF NoRT, CallIssued, InFlight
  <2>3. CASE Continue(h, "removeThenMRRT", WithStale(h)) \/ Continue(h, "tryMRRT", WithStale(h))
    BY <1>7, <1>w, <1>o, <2>3 DEF NoRT
  <2> QED
    BY <1>7, <2>1, <2>2, <2>3 DEF NoRT
<1>8. CASE RemoveAccessToken(h)
  BY <1>8, <1>h, <1>m, <1>r, <1>o, <1>c DEF RemoveAccessToken
<1>f. FoundMrrt(h) # None => /\ FoundMrrt(h) \in Mrrt /\ FoundMrrt(h).rt <= issued'
                             /\ MultiResource
  <2>1. mrrt # None => mrrt \in Mrrt /\ mrrt.rt \in Nat /\ mrrt.rt <= issued /\ MultiResource
    BY DEF TypeOK, Mrrt, Tokens, CacheIssued, CacheShape
  <2> QED
    BY <1>h, <1>i, <1>m, <2>1 DEF FoundMrrt, Handler
<1>g. /\ [s EXCEPT !.mrrtItem = FoundMrrt(h)] \in Handler
      /\ [s EXCEPT !.mrrtItem = FoundMrrt(h)].mrrtItem = FoundMrrt(h)
      /\ [s EXCEPT !.mrrtItem = FoundMrrt(h)].request = s.request
  BY <1>h, <1>f DEF Handler
<1>9. CASE MRRTToFRT(h)
  BY <1>9, <1>f, <1>g, <1>r, <1>o DEF MRRTToFRT
<1>10. CASE SendMRRT(h)
  BY <1>10, <1>f, <1>g, <1>s DEF SendMRRT, Kinds, Mrrt
<1>11. CASE FRTAttempted(h)
  BY <1>11, <1>c DEF FRTAttempted
<1>t. /\ [s EXCEPT !.attemptedFRT = TRUE] \in Handler
      /\ [s EXCEPT !.attemptedFRT = TRUE].mrrtItem = s.mrrtItem
      /\ [s EXCEPT !.attemptedFRT = TRUE].request = s.request
  BY <1>h DEF Handler
<1>12. CASE NoFRT(h)
  BY <1>12, <1>t, <1>m, <1>r, <1>o, <1>c DEF NoFRT, AfterFRT
<1>13. CASE SendFRT(h)
  <2>1. frt \in Tokens /\ frt <= issued
    BY <1>13 DEF SendFRT, TypeOK, CacheIssued
  <2>2. frt <= issued'
    BY <1>h, <1>i, <2>1 DEF Tokens
  <2> QED
    BY <1>13, <1>t, <1>m, <1>s, <2>1, <2>2 DEF SendFRT, Kinds
<1>14. CASE ServerGrants(h)
  <2>1. PICK answer \in Granted, family \in BOOLEAN,
             rt \in {s.request.rt} \union ({issued + 1} \intersect Tokens) :
          /\ family => MultiResource
          /\ Answer(h, [answer |-> answer, rt |-> rt, family |-> family])
          /\ issued' = IF rt > issued THEN rt ELSE issued
    BY <1>14 DEF ServerGrants
  <2>2. s.request # None /\ s.request \in Request /\ s.request.rt \in Tokens
    BY <1>14, <1>h DEF ServerGrants, InFlight, Handler, Request
  <2>3. rt \in Tokens /\ rt \in 1 .. issued'
    <3>1. rt \in Tokens /\ (rt = s.request.rt \/ rt = issued + 1)
      BY <2>1, <2>2
    <3>2. rt \in Nat /\ rt >= 1
      BY <3>1 DEF Tokens
    <3> QED
      BY <1>h, <1>i, <2>1, <3>1, <3>2
  <2> DEFINE r == [answer |-> answer, rt |-> rt, family |-> family]
  <2>4. r # None /\ r.answer = answer /\ r.rt = rt /\ r.family = family
    <3>1. r \in Reply
      BY <2>3 DEF Reply, Answers
    <3> QED
      BY <3>1
  <2>5. /\ pc'[h] = "answered" /\ handler'[h].reply = r
        /\ handler'[h].request = s.request /\ handler'[h].mrrtItem = s.mrrtItem
        /\ s.request.rt \in handler'[h].tried
    BY <1>h, <2>1 DEF Answer, Continue, Goto, Handler
  <2>6. answer # "invalidGrant"
    BY DEF Granted
  <2> HIDE DEF r, s
  <2>7. CallIssued(h)'
    BY <1>m, <1>r, <2>5 DEF CallIssued
  <2>8. InFlight(h)'
    BY <2>1, <2>2, <2>3, <2>4, <2>5, <2>6 DEF InFlight
  <2> QED
    BY <2>7, <2>8
<1>15. CASE ServerRefuses(h)
  <2>1. PICK answer \in OAuthErrors \union OtherErrors :
          /\ answer = "invalidGrant" => s.request.rt \notin live
          /\ Answer(h, [answer |-> answer, rt |-> None, family |-> FALSE])
          /\ live' = live
    BY <1>15 DEF ServerRefuses, serverVars
  <2> DEFINE r == [answer |-> answer, rt |-> None, family |-> FALSE]
  <2>2. s.request # None
    BY <1>15 DEF ServerRefuses, InFlight
  <2>3. r # None /\ r.answer = answer /\ answer \notin Granted
    <3>1. r \in Reply
      BY DEF Reply, Answers
    <3> QED
      BY <3>1 DEF OAuthErrors, OtherErrors, Granted
  <2>4. /\ pc'[h] = "answered" /\ handler'[h].reply = r
        /\ handler'[h].request = s.request /\ handler'[h].mrrtItem = s.mrrtItem
        /\ s.request.rt \in handler'[h].tried
    BY <1>h, <2>1 DEF Answer, Continue, Goto, Handler
  <2> HIDE DEF r, s
  <2>5. CallIssued(h)'
    BY <1>m, <1>r, <2>4 DEF CallIssued
  <2>6. InFlight(h)'
    BY <2>1, <2>2, <2>3, <2>4 DEF InFlight
  <2> QED
    BY <2>5, <2>6
<1>16. CASE ProcessTokens(h)
  BY <1>16, <1>c DEF ProcessTokens
<1>17. CASE ProcessFinalError(h)
  BY <1>17, <1>c DEF ProcessFinalError
<1>18. CASE ProcessOAuthError(h)
  <2> DEFINE state == [s EXCEPT !.request = None, !.reply = None]
             fallback == [state EXCEPT !.mrrtItem = None,
                                       !.mrrtResult = s.reply.answer]
  <2>1. s.reply.answer \in NotFinal
    BY <1>18 DEF ProcessOAuthError, NotFinal
  <2>2. /\ state \in Handler /\ fallback \in Handler
        /\ state.mrrtItem = s.mrrtItem /\ fallback.mrrtItem = None
        /\ state.request = None /\ fallback.request = None
    BY <1>h, <2>1 DEF Handler
  <2>3. \/ \E res : Complete(h, res)
        \/ Continue(h, "tryFRT", fallback)
        \/ Continue(h, "tryMRRT", state)
    BY <1>18 DEF ProcessOAuthError, AfterFRT
  <2> HIDE DEF state, fallback
  <2> QED
    BY <1>m, <1>o, <1>c, <2>2, <2>3
<1> QED
  BY <1>1, <1>2, <1>3, <1>4, <1>5, <1>6, <1>7, <1>8, <1>9, <1>10, <1>11, <1>12,
     <1>13, <1>14, <1>15, <1>16, <1>17, <1>18 DEF HandlerStep, Method

-----------------------------------------------------------------------------
(* The tokens that a call must still try lie on the way before it. *)
LEMMA ReachMethod ==
    ASSUME TypeOK, CacheShape, CacheIssued, NEW h \in Handlers, CallInv(h),
           HandlerStep(h), KeepRemaining
    PROVE  UntriedInReach(h)'
<1> DEFINE s == handler[h]
<1> USE DEF InMrrt, InMrrtItem
<1>h. /\ s \in Handler /\ pc[h] \in Locations /\ pc \in [Handlers -> Locations]
      /\ handler \in [Handlers -> Handler] /\ issued \in Nat
  BY DEF TypeOK
<1>i. InFlight(h) /\ CallIssued(h) /\ SendsMatch(h) /\ UntriedInReach(h)
  BY DEF CallInv
<1>n. NoRevival /\ FrtKept
  BY <1>i, NoRevivalMethod, FrtKeptMethod
<1>k. remaining'[h] = IF pc'[h] \in {"idle", "done"} THEN {}
                      ELSE IF pc[h] = "idle" THEN CachedTokens
                      ELSE remaining[h] \intersect CachedTokens'
  BY DEF KeepRemaining
(* A call that ends or begins has nothing to show. *)
<1>c. ASSUME NEW res, Complete(h, res)
      PROVE  UntriedInReach(h)'
  <2>1. pc'[h] = "done"
    BY <1>h, <1>c DEF Complete, Goto
  <2> QED
    BY <2>1, <1>k DEF UntriedInReach, Untried
<1>1. CASE Begin(h)
  <2>1. pc'[h] = "getAccessToken" /\ CachedTokens' = CachedTokens /\ pc[h] = "idle"
    BY <1>1, <1>h DEF Begin, Continue, Goto, cacheVars, CachedTokens
  <2> QED
    BY <2>1, <1>k DEF UntriedInReach, InReach
<1>2. CASE BeginWithToken(h)
  <2>1. PICK rt \in 1 .. issued : Send(h, "developer", rt, s)
    BY <1>2 DEF BeginWithToken
  <2>2. pc'[h] = "sent" /\ handler'[h].request = [kind |-> "developer", rt |-> rt]
    BY <1>h, <2>1 DEF Send, Continue, Goto, Handler
  <2>3. CachedTokens' = CachedTokens /\ pc[h] = "idle"
    BY <1>2 DEF BeginWithToken, cacheVars, CachedTokens
  <2> QED
    BY <2>2, <2>3, <1>k DEF UntriedInReach, InReach
(* A call that goes on: the tokens still to try were to be tried before. *)
<1>u. ASSUME pc[h] # "idle", pc'[h] # "done", handler'[h].tried \in SUBSET Tokens,
             s.tried \subseteq handler'[h].tried,
             \A t \in Tokens :
               (/\ t \in CachedTokens /\ t \in CachedTokens' /\ t \in live
                /\ t \notin handler'[h].tried /\ InReach(h, t))
               => InReach(h, t)'
      PROVE  UntriedInReach(h)'
  <2>1. SUFFICES ASSUME NEW t, t \in Untried(h)'
                 PROVE  InReach(h, t)'
    BY <1>k, <1>u DEF UntriedInReach
  <2>2. /\ t \in remaining[h] /\ t \in CachedTokens' /\ t \in live'
        /\ t \notin handler'[h].tried
    BY <1>k, <1>u, <2>1 DEF Untried
  <2>3. t \in CachedTokens /\ t \in 1 .. issued /\ t \in live /\ t \in Tokens
    BY <2>2, <1>i, <1>n, CachedTokensIssued, CachedTokensType DEF UntriedInReach, NoRevival
  <2>4. InReach(h, t)
    BY <1>u, <1>i, <2>2, <2>3 DEF UntriedInReach, Untried
  <2> QED
    BY <1>u, <2>2, <2>3, <2>4
<1>v. s.tried \in SUBSET Tokens
  BY <1>h DEF Handler
<1>3. CASE CacheFails(h)
  BY <1>3, <1>c DEF CacheFails
<1>4. CASE ReturnCached(h)
  BY <1>4, <1>c DEF ReturnCached
<1>5. CASE FindNothing(h)
  <2>1. pc[h] = "getAccessToken" /\ pc'[h] = "tryMRRT" /\ handler'[h] = s
    BY <1>5, <1>h DEF FindNothing, Continue, Goto
  <2>2. s.mrrtItem = None
    BY <2>1, <1>i DEF SendsMatch, NewHandler
  <2>3. \A t \in CachedTokens : InMrrt(t)' \/ frt' = t
    BY <1>5 DEF FindNothing, cacheVars, CachedTokens
  <2>4. \A t \in CachedTokens : InReach(h, t)'
    BY <2>1, <2>2, <2>3 DEF InReach
  <2> QED
    BY <2>1, <2>4, <1>u, <1>v
<1>w. FoundStale(h) => /\ WithStale(h).mrrtItem = None /\ WithStale(h).tried = s.tried
                       /\ WithStale(h) \in Handler
  <2>1. FoundStale(h) => s = NewHandler /\ single \in Single
    BY <1>i DEF FoundStale, SendsMatch, TypeOK
  <2> QED
    BY <1>h, <2>1 DEF WithStale, Handler, Single, NewHandler
<1>6. CASE SendRT(h)
  <2>1. /\ pc[h] = "getAccessToken" /\ pc'[h] = "sent"
        /\ handler'[h].request = [kind |-> "RT", rt |-> single.rt]
        /\ handler'[h].tried = s.tried
    BY <1>6, <1>h, <1>w DEF SendRT, FoundStale, Send, Continue, Goto, Handler
  <2>2. \A t \in CachedTokens : t = single.rt
    <3>1. ~MultiResource
      BY <1>6 DEF SendRT, FoundStale, CacheShape
    <3> QED
      BY <3>1, CachedTokensKinds
  <2>3. \A t \in CachedTokens : InReach(h, t)'
    BY <2>1, <2>2 DEF InReach
  <2> QED
    BY <2>1, <2>3, <1>u, <1>v
<1>7. CASE NoRT(h)
  <2>1. CASE Complete(h, "nil")
    BY <2>1, <1>c
  <2>2. ASSUME NEW place \in {"removeThenMRRT", "removeThenStop", "tryMRRT"},
               Continue(h, place, WithStale(h)),
               place = "removeThenStop" => ~MultiResource
        PROVE  UntriedInReach(h)'
    <3>1. /\ pc[h] = "getAccessToken" /\ pc'[h] = place
          /\ handler'[h].mrrtItem = None /\ handler'[h].tried = s.tried
      BY <1>7, <1>h, <1>w, <2>2 DEF NoRT, FoundStale, Continue, Goto
    <3>2. \A t \in CachedTokens : MultiResource /\ (InMrrt(t) \/ frt = t)
      BY <1>7, CachedTokensKinds DEF NoRT, FoundStale, CachedTokens, CacheShape
    <3>3. mrrt' = mrrt /\ frt' = frt
      BY <1>7 DEF NoRT, cacheVars
    <3>4. \A t \in CachedTokens : InReach(h, t)'
      BY <2>2, <3>1, <3>2, <3>3 DEF InReach
    <3> QED
      BY <3>1, <3>4, <1>u, <1>v
  <2>3. ~single.idToken => ~MultiResource
    BY <1>7 DEF NoRT, FoundStale, CacheShape
  <2> QED
    BY <1>7, <2>1, <2>2, <2>3 DEF NoRT
<1>8. CASE RemoveAccessToken(h)
  <2>1. CASE Complete(h, "nil")
    BY <2>1, <1>c
  <2>2. CASE pc[h] = "removeThenMRRT" /\ Continue(h, "tryMRRT", s)
    <3>1. pc'[h] = "tryMRRT" /\ handler'[h] = s /\ s.mrrtItem = None
      BY <1>h, <1>i, <2>2 DEF Continue, Goto, SendsMatch
    <3>2. mrrt' = mrrt /\ frt' = frt
      BY <1>8 DEF RemoveAccessToken
    <3>3. \A t \in Tokens : InReach(h, t) => InReach(h, t)'
      BY <2>2, <3>1, <3>2 DEF InReach
    <3> QED
      BY <2>2, <3>1, <3>3, <1>u, <1>v
  <2> QED
    BY <1>8, <2>1, <2>2 DEF RemoveAccessToken
<1>g. \A f \in Mrrt \union {None} :
        /\ [s EXCEPT !.mrrtItem = f] \in Handler
        /\ [s EXCEPT !.mrrtItem = f].mrrtItem = f
        /\ [s EXCEPT !.mrrtItem = f].attemptedFRT = s.attemptedFRT
        /\ [s EXCEPT !.mrrtItem = f].tried = s.tried
  BY <1>h DEF Handler
<1>f. FoundMrrt(h) \in Mrrt \union {None}
  BY <1>h DEF FoundMrrt, Handler, TypeOK
<1>9. CASE MRRTToFRT(h)
  <2>1. /\ pc[h] = "tryMRRT" /\ pc'[h] = "tryFRT"
        /\ handler'[h].mrrtItem = FoundMrrt(h)
        /\ handler'[h].attemptedFRT = s.attemptedFRT /\ handler'[h].tried = s.tried
    BY <1>9, <1>h, <1>f, <1>g DEF MRRTToFRT, Continue, Goto
  <2>2. mrrt' = mrrt /\ frt' = frt
    BY <1>9 DEF MRRTToFRT, cacheVars
  <2>3. s.mrrtItem = None => ~s.attemptedFRT
    BY <2>1, <1>i DEF SendsMatch
  <2>4. \A t \in Tokens : InReach(h, t) => InReach(h, t)'
    BY <2>1, <2>2, <2>3 DEF InReach, FoundMrrt
  <2> QED
    BY <2>1, <2>4, <1>u, <1>v
<1>10. CASE SendMRRT(h)
  <2>1. /\ pc[h] = "tryMRRT" /\ pc'[h] = "sent"
        /\ handler'[h].request = [kind |-> "MRRT", rt |-> FoundMrrt(h).rt]
        /\ handler'[h].attemptedFRT = s.attemptedFRT /\ handler'[h].tried = s.tried
    BY <1>10, <1>h, <1>f, <1>g DEF SendMRRT, Send, Continue, Goto, Handler
  <2>2. mrrt' = mrrt /\ frt' = frt
    BY <1>10 DEF SendMRRT, cacheVars
  <2>3. s.mrrtItem = None => ~s.attemptedFRT
    BY <2>1, <1>i DEF SendsMatch
  <2>4. \A t \in Tokens : InReach(h, t) => InReach(h, t)'
    BY <2>1, <2>2, <2>3 DEF InReach, FoundMrrt
  <2> QED
    BY <2>1, <2>4, <1>u, <1>v
<1>11. CASE FRTAttempted(h)
  BY <1>11, <1>c DEF FRTAttempted
<1>t. /\ [s EXCEPT !.attemptedFRT = TRUE].mrrtItem = s.mrrtItem
      /\ [s EXCEPT !.attemptedFRT = TRUE].tried = s.tried
      /\ [s EXCEPT !.attemptedFRT = TRUE] \in Handler
  BY <1>h DEF Handler
<1>12. CASE NoFRT(h)
  <2> DEFINE state == [s EXCEPT !.attemptedFRT = TRUE]
  <2>1. CASE Complete(h, state.mrrtResult)
    BY <2>1, <1>c
  <2>2. CASE Continue(h, "tryMRRT", state)
    <3>1. /\ pc[h] = "tryFRT" /\ pc'[h] = "tryMRRT"
          /\ handler'[h].mrrtItem = s.mrrtItem /\ handler'[h].tried = s.tried
      BY <1>12, <1>h, <1>t, <2>2 DEF NoFRT, Continue, Goto
    <3>2. frt = None
      BY <1>12 DEF NoFRT
    <3>3. \A t \in Tokens : InReach(h, t) => InReach(h, t)'
      BY <3>1, <3>2 DEF InReach
    <3> QED
      BY <3>1, <3>3, <1>u, <1>v
  <2> QED
    BY <1>12, <2>1, <2>2 DEF NoFRT, AfterFRT
<1>13. CASE SendFRT(h)
  <2>1. /\ pc[h] = "tryFRT" /\ pc'[h] = "sent"
        /\ handler'[h].request = [kind |-> "FRT", rt |-> frt]
        /\ handler'[h].mrrtItem = s.mrrtItem /\ handler'[h].tried = s.tried
    BY <1>13, <1>h, <1>t DEF SendFRT, Send, Continue, Goto, Handler
  <2>2. \A t \in Tokens : InReach(h, t) => InReach(h, t)'
    BY <2>1 DEF InReach
  <2> QED
    BY <2>1, <2>2, <1>u, <1>v
<1>a. ASSUME NEW r, pc[h] = "sent", Answer(h, r)
      PROVE  UntriedInReach(h)'
  <2>1. s.request # None /\ s.request.rt \in Tokens
    BY <1>a, <1>h, <1>i DEF InFlight, Handler, Request
  <2>2. /\ pc'[h] = "answered" /\ handler'[h].request = s.request
        /\ handler'[h].mrrtItem = s.mrrtItem
        /\ handler'[h].attemptedFRT = s.attemptedFRT
        /\ handler'[h].tried = s.tried \union {s.request.rt}
    BY <1>a, <1>h DEF Answer, Continue, Goto, Handler
  <2>3. mrrt' = mrrt /\ frt' = frt
    BY <1>a DEF Answer, cacheVars
  <2>4. \A t \in Tokens : InReach(h, t) => InReach(h, t)'
    BY <1>a, <2>2, <2>3 DEF InReach
  <2> QED
    BY <1>a, <2>1, <2>2, <2>4, <1>u, <1>v
<1>14. CASE ServerGrants(h)
  BY <1>14, <1>a DEF ServerGrants
<1>15. CASE ServerRefuses(h)
  BY <1>15, <1>a DEF ServerRefuses
<1>16. CASE ProcessTokens(h)
  BY <1>16, <1>c DEF ProcessTokens
<1>17. CASE ProcessFinalError(h)
  BY <1>17, <1>c DEF ProcessFinalError
<1>18. CASE ProcessOAuthError(h)
  <2> DEFINE state == [s EXCEPT !.request = None, !.reply = None]
             fallback == [state EXCEPT !.mrrtItem = None,
                                       !.mrrtResult = s.reply.answer]
  <2>1. pc[h] = "answered" /\ s.request.rt \in s.tried
    BY <1>18, <1>i DEF ProcessOAuthError, InFlight
  <2>2. /\ state.tried = s.tried /\ state.mrrtItem = s.mrrtItem
        /\ fallback.tried = s.tried /\ fallback.attemptedFRT = s.attemptedFRT
    BY <1>h DEF Handler
  <2>3. \/ \E res : Complete(h, res)
        \/ s.request.kind = "MRRT" /\ Continue(h, "tryFRT", fallback)
        \/ s.request.kind = "FRT" /\ Continue(h, "tryMRRT", state)
    BY <1>18 DEF ProcessOAuthError, AfterFRT
  <2> HIDE DEF state, fallback
  <2>4. CASE s.request.kind = "MRRT" /\ Continue(h, "tryFRT", fallback)
    <3>1. pc'[h] = "tryFRT" /\ handler'[h] = fallback
      BY <1>h, <2>4 DEF Continue, Goto
    <3>2. ASSUME NEW t \in Tokens, t \in CachedTokens', t \in live,
                 t \notin s.tried, InReach(h, t)
          PROVE  InReach(h, t)'
      <4>1. ~s.attemptedFRT /\ frt = t
        BY <2>1, <2>4, <3>2 DEF InReach
      <4>2. frt' = t
        BY <4>1, <3>2, <1>n DEF FrtKept
      <4> QED
        BY <2>2, <3>1, <4>1, <4>2 DEF InReach
    <3> QED
      BY <2>1, <2>2, <3>1, <3>2, <1>u, <1>v
  <2>5. CASE s.request.kind = "FRT" /\ Continue(h, "tryMRRT", state)
    <3>1. pc'[h] = "tryMRRT" /\ handler'[h] = state
      BY <1>h, <2>5 DEF Continue, Goto
    <3>2. ASSUME NEW t \in Tokens, t \notin s.tried, InReach(h, t)
          PROVE  InReach(h, t)'
      BY <2>1, <2>2, <2>5, <3>1, <3>2 DEF InReach
    <3> QED
      BY <2>1, <2>2, <3>1, <3>2, <1>u, <1>v
  <2> QED
    BY <2>3, <2>4, <2>5, <1>c
<1> QED
  BY <1>1, <1>2, <1>3, <1>4, <1>5, <1>6, <1>7, <1>8, <1>9, <1>10, <1>11, <1>12,
     <1>13, <1>14, <1>15, <1>16, <1>17, <1>18 DEF HandlerStep, Method

-----------------------------------------------------------------------------
(* The server and time leave the calls alone, and the cache its tokens.        *)
LEMMA OutsideStep ==
    ASSUME IInv, Revoke \/ Age, KeepRemaining
    PROVE  IInv'
<1>1. /\ pc' = pc /\ handler' = handler /\ result' = result /\ options' = options
      /\ mrrt' = mrrt /\ frt' = frt /\ issued' = issued /\ live' \subseteq live
  BY DEF Revoke, Age, cacheVars, serverVars
<1>2. /\ single' \in Single \union {None}
      /\ \/ single' = single
         \/ /\ single # None /\ single' # None
            /\ single'.rt = single.rt /\ single'.idToken = single.idToken
  <2>1. CASE Revoke
    BY <2>1 DEF Revoke, cacheVars, IInv, TypeOK
  <2>2. CASE Age
    <3>1. single \in Single /\ single # None
      BY <2>2 DEF Age, IInv, TypeOK
    <3>2. \/ single' = [single EXCEPT !.fresh = FALSE]
          \/ single' = [single EXCEPT !.extended = FALSE]
      BY <2>2 DEF Age
    <3>3. single' \in Single /\ single'.rt = single.rt /\ single'.idToken = single.idToken
      BY <3>1, <3>2 DEF Single
    <3> QED
      BY <3>1, <3>3
  <2> QED
    BY <2>1, <2>2
<1>4. TypeOK'
  BY <1>1, <1>2, RemainingType DEF IInv, TypeOK
<1>5. CacheShape' /\ CacheIssued'
  BY <1>1, <1>2 DEF IInv, CacheShape, CacheIssued
<1>6. NoRevival /\ FrtKept
  BY <1>1 DEF NoRevival, FrtKept, IInv, TypeOK
<1>7. ASSUME NEW q \in Handlers
      PROVE  CallInv(q)'
  <2>1. Quiet(q) /\ CallInv(q)
    BY <1>1 DEF Quiet, IInv
  <2> QED
    BY <1>5, <1>6, <2>1, QuietCall, QuietReach DEF IInv, CallInv
<1> QED
  BY <1>4, <1>5, <1>7 DEF IInv

LEMMA HandlerStepInv ==
    ASSUME IInv, NEW h \in Handlers, HandlerStep(h), KeepRemaining
    PROVE  IInv'
<1>1. CallInv(h) /\ InFlight(h) /\ CallIssued(h) /\ SendsMatch(h)
  BY DEF IInv, CallInv
<1>2. TypeOK'
  BY <1>1, TypeMethod, RemainingType DEF IInv, TypeOK
<1>3. CacheShape' /\ CacheIssued'
  BY <1>1, CacheInv DEF IInv
<1>4. CallInv(h)'
  BY <1>1, SendsMatchMethod, InFlightMethod, ReachMethod DEF IInv, CallInv
<1>5. NoRevival /\ FrtKept
  BY <1>1, NoRevivalMethod, FrtKeptMethod DEF IInv
<1>6. ASSUME NEW q \in Handlers, q # h
      PROVE  CallInv(q)'
  <2>1. Quiet(q) /\ CallInv(q)
    BY <1>6, OneHandler DEF Quiet, IInv
  <2> QED
    BY <1>3, <1>5, <2>1, QuietCall, QuietReach DEF IInv, CallInv
<1> QED
  BY <1>2, <1>3, <1>4, <1>6 DEF IInv

LEMMA InitIInv == Init => IInv
<1> SUFFICES ASSUME Init
             PROVE  IInv
  OBVIOUS
<1>1. TypeOK
  BY InitType
<1>2. CacheShape
  BY DEF Init, CacheShape
<1>3. CacheIssued
  BY DEF Init, CacheIssued, Single
<1>4. ASSUME NEW h \in Handlers
      PROVE  CallInv(h)
  <2>1. pc[h] = "idle" /\ handler[h] = NewHandler /\ remaining[h] = {}
    BY DEF Init
  <2> QED
    BY <2>1 DEF CallInv, CallIssued, InFlight, SendsMatch, UntriedInReach, Untried,
       NewHandler, Kinds
<1> QED
  BY <1>1, <1>2, <1>3, <1>4 DEF IInv

LEMMA StutterInv == IInv /\ UNCHANGED vars => IInv'
BY DEF vars, cacheVars, serverVars, IInv, TypeOK, CacheShape, CacheIssued, CallInv,
   CallIssued, InFlight, SendsMatch, UntriedInReach, Untried, InReach, InMrrt,
   InMrrtItem, CachedTokens

(* IInv holds in every state of every execution, whatever the number of calls  *)
(* and of refresh tokens: getToken: and tryRefreshToken: with all the blocks    *)
(* they start.                                                                 *)
THEOREM IInvAlways == Spec => []IInv
<1>1. IInv /\ [Next]_vars => IInv'
  <2> SUFFICES ASSUME IInv, Next
               PROVE  IInv'
    BY StutterInv
  <2>1. CASE Revoke \/ Age
    BY <2>1, OutsideStep DEF Next
  <2>2. CASE \E h \in Handlers : HandlerStep(h)
    BY <2>2, HandlerStepInv DEF Next
  <2> QED
    BY <2>1, <2>2 DEF Next, HandlerStep
<1> QED
  BY <1>1, InitIInv, PTL DEF Spec

(* No call redeems two refresh tokens of one kind: tryMRRT: and tryFRT:, which  *)
(* call each other, come to an end.                                            *)
THEOREM RequestsSentOnce == Spec => []SentOnce
<1>1. IInv => SentOnce
  BY DEF IInv, CallInv, SendsMatch, SentOnce
<1> QED
  BY <1>1, IInvAlways, PTL

(* Besides the two ways to drop it, the item of the resource stays or is replaced. *)
LEMMA SingleDropped ==
    ASSUME TypeOK, NEW h \in Handlers, InFlight(h), HandlerStep(h),
           single # None, single' = None, single.rt # None
    PROVE  single.rt \notin live \/ RemoveAccessToken(h)
<1>1. CASE ProcessTokens(h)
  <2>1. handler[h].reply \in Reply
    BY <1>1 DEF ProcessTokens, InFlight, TypeOK, Handler
  <2>2. UNCHANGED single \/ single' \in Single
    <3>1. CASE UNCHANGED cacheVars
      BY <3>1 DEF cacheVars
    <3>2. CASE ~UNCHANGED cacheVars
      <4>1. PICK extended \in BOOLEAN, idToken \in BOOLEAN :
              single' = [fresh |-> TRUE, extended |-> extended, idToken |-> idToken,
                         rt |-> IF MultiResource THEN None ELSE handler[h].reply.rt]
        BY <1>1, <3>2 DEF ProcessTokens
      <4>2. handler[h].reply.rt \in Tokens \union {None}
        BY <2>1 DEF Reply
      <4> QED
        BY <4>1, <4>2 DEF Single
    <3> QED
      BY <3>1, <3>2
  <2> QED
    BY <2>2
<1>2. CASE ProcessOAuthError(h)
  <2>1. handler[h].reply.answer = "invalidGrant" /\ single.rt = handler[h].request.rt
    BY <1>2 DEF ProcessOAuthError, HandleError, ValidateAndRemove, cacheVars
  <2> QED
    BY <1>2, <2>1 DEF ProcessOAuthError, InFlight
<1>3. CASE ~RemoveAccessToken(h) /\ ~ProcessTokens(h) /\ ~ProcessOAuthError(h)
  <2>1. UNCHANGED single
    BY <1>3 DEF HandlerStep, Method, Begin, BeginWithToken, CacheFails, ReturnCached,
       FindNothing, SendRT, NoRT, MRRTToFRT, SendMRRT, FRTAttempted, NoFRT, SendFRT,
       ServerGrants, ServerRefuses, ProcessFinalError, Answer, cacheVars
  <2> QED
    BY <2>1
<1> QED
  BY <1>1, <1>2, <1>3

(* handleError: removes an MRRT, an FRT or the refresh token of a resource from *)
(* the cache only after the server rejected that token, whatever other calls    *)
(* saved meanwhile; only tryRT: removes what lies at the key of its access      *)
(* token, a refresh token saved there since included.                          *)
THEOREM OnlyRejectedRemoved == Spec => RemovedOnlyIfRejected
<1> DEFINE Removed ==
       /\ mrrt # None /\ mrrt' = None => mrrt.rt \notin live
       /\ frt # None /\ frt' = None => frt \notin live
       /\ single # None /\ single.rt # None /\ single' = None =>
            single.rt \notin live \/ \E h \in Handlers : RemoveAccessToken(h)
<1>1. ASSUME IInv, [Next]_vars
      PROVE  [Removed]_vars
  <2>1. SUFFICES ASSUME Next PROVE Removed
    BY <1>1
  <2>2. CASE Revoke \/ Age
    <3>1. UNCHANGED <<mrrt, frt>>
      BY <2>2 DEF Revoke, Age, cacheVars
    <3>2. single \in Single \union {None}
      BY <1>1 DEF IInv, TypeOK
    <3>3. UNCHANGED single \/ single' \in Single
      <4>1. CASE Revoke
        BY <4>1 DEF Revoke, cacheVars
      <4>2. CASE Age
        BY <3>2, <4>2 DEF Age, Single
      <4> QED
        BY <2>2, <4>1, <4>2
    <3>4. single # None => single' # None
      BY <3>3
    <3> QED
      BY <3>1, <3>4
  <2>3. ASSUME NEW h \in Handlers, HandlerStep(h)
        PROVE  Removed
    <3>1. Drops \/ \E t \in 1 .. issued : Saves(t)
      BY <1>1, <2>3, CacheMethod DEF IInv, CallInv
    <3>2. CASE Drops
      <4>1. single # None /\ single.rt # None /\ single' = None =>
              single.rt \notin live \/ RemoveAccessToken(h)
        BY <1>1, <2>3, SingleDropped DEF IInv, CallInv
      <4>2. /\ mrrt # None /\ mrrt' = None => mrrt.rt \notin live
            /\ frt # None /\ frt' = None => frt \notin live
        BY <3>2 DEF Drops
      <4> QED
        BY <4>1, <4>2
    <3>3. ASSUME NEW t \in 1 .. issued, Saves(t)
          PROVE  Removed
      <4>1. t # None
        <5>1. issued \in 0 .. MaxToken
          BY <1>1 DEF IInv, TypeOK
        <5>2. t \in Tokens
          BY <5>1 DEF Tokens
        <5> QED
          BY <5>2
      <4>2. mrrt # None => mrrt' # None
        BY <1>1, <3>3 DEF Saves, IInv, CacheShape
      <4>3. frt # None => frt' # None
        BY <3>3, <4>1 DEF Saves
      <4>4. single' # None
        BY <3>3 DEF Saves
      <4> QED
        BY <4>2, <4>3, <4>4
    <3> QED
      BY <3>1, <3>2, <3>3
  <2> QED
    BY <2>1, <2>2, <2>3 DEF Next, HandlerStep
<1> QED
  BY <1>1, IInvAlways, PTL DEF Spec, RemovedOnlyIfRejected

(* No call makes its caller ask the user while a good refresh token that was    *)
(* in the cache all along is untried (getAccessToken:, tryRT:, tryMRRT:,         *)
(* tryFRT:).                                                                   *)
THEOREM InputOnlyAfterTrying == Spec => InputNeededMeansTried
<1> DEFINE Tried == \A h \in Handlers : AsksForUser(h) =>
                      remaining[h] \intersect live \subseteq handler[h].tried
<1>1. ASSUME IInv, [Next]_vars
      PROVE  [Tried]_vars
  <2>1. SUFFICES ASSUME Next, NEW h \in Handlers, AsksForUser(h)
                 PROVE  Untried(h) = {}
    BY <1>1 DEF Untried
  <2>2. /\ TypeOK /\ CacheShape /\ InFlight(h) /\ SendsMatch(h) /\ CallIssued(h)
        /\ \A t \in Untried(h) : InReach(h, t)
        /\ remaining[h] \subseteq CachedTokens
    BY <1>1 DEF IInv, CallInv, UntriedInReach
  <2>3. pc[h] # "done" /\ pc'[h] = "done" /\ result'[h] \in NotFinal
    BY <2>1 DEF AsksForUser
  <2>4. HandlerStep(h)
    <3>1. \A q \in Handlers : HandlerStep(q) => q = h
      BY <2>2, <2>3, OneHandler
    <3> QED
      BY <2>1, <2>3, <3>1 DEF Next, HandlerStep, Revoke, Age
  <2>5. /\ pc \in [Handlers -> Locations] /\ pc[h] \in Locations
        /\ handler[h] \in Handler
        /\ \A t \in Untried(h) : t \in CachedTokens /\ t # None
    BY <2>2 DEF TypeOK, Untried, CachedTokens
  (* Only these steps can end the call with such a result. *)
  <2>6. ASSUME NEW place \in Locations \ {"done"}, Goto(h, place)
        PROVE  FALSE
    BY <2>3, <2>5, <2>6 DEF Goto
  <2>7. ASSUME NEW place \in Locations \ {"done"}, NEW state, Continue(h, place, state)
        PROVE  FALSE
    BY <2>6, <2>7 DEF Continue
  <2>8. ASSUME NEW res \in {"cached", "cacheError"} \union Granted \union OtherErrors,
               Complete(h, res)
        PROVE  FALSE
    <3>1. result'[h] \in {res, "extended"}
      BY <2>2, <2>8 DEF Complete, TypeOK
    <3> QED
      BY <2>3, <3>1 DEF NotFinal, Granted, OtherErrors, OAuthErrors
  <2>9. NoRT(h) \/ RemoveAccessToken(h) \/ FRTAttempted(h) \/ NoFRT(h)
        \/ ProcessOAuthError(h)
    <3>1. ~Begin(h) /\ ~BeginWithToken(h) /\ ~FindNothing(h) /\ ~SendRT(h)
          /\ ~MRRTToFRT(h) /\ ~SendMRRT(h) /\ ~SendFRT(h)
          /\ ~ServerGrants(h) /\ ~ServerRefuses(h)
      BY <2>7 DEF Begin, BeginWithToken, FindNothing, SendRT, MRRTToFRT, SendMRRT,
         SendFRT, ServerGrants, ServerRefuses, Answer, Send, Locations
    <3>2. ~CacheFails(h) /\ ~ReturnCached(h) /\ ~ProcessTokens(h) /\ ~ProcessFinalError(h)
      BY <2>8 DEF CacheFails, ReturnCached, ProcessTokens, ProcessFinalError
    <3> QED
      BY <2>4, <3>1, <3>2 DEF HandlerStep, Method
  <2>10. CASE NoRT(h)
    <3>1. single # None /\ single.rt = None /\ ~single.idToken
      BY <2>7, <2>10 DEF NoRT, FoundStale, Locations
    <3>2. ~MultiResource
      BY <2>2, <3>1 DEF CacheShape
    <3> QED
      BY <2>2, <2>5, <3>1, <3>2, CachedTokensKinds
  <2>11. CASE RemoveAccessToken(h)
    <3>1. pc[h] = "removeThenStop"
      BY <2>7, <2>11 DEF RemoveAccessToken, Locations
    <3> QED
      BY <2>2, <3>1 DEF InReach
  <2>12. CASE FRTAttempted(h)
    <3>1. pc[h] = "tryFRT" /\ handler[h].attemptedFRT /\ handler[h].mrrtItem = None
      BY <2>2, <2>12 DEF FRTAttempted, SendsMatch
    <3> QED
      BY <2>2, <3>1 DEF InReach, InMrrtItem
  <2>13. CASE NoFRT(h)
    <3>1. pc[h] = "tryFRT" /\ frt = None /\ handler[h].mrrtItem = None
      BY <2>5, <2>7, <2>13 DEF NoFRT, AfterFRT, Handler, Locations
    <3> QED
      BY <2>2, <2>5, <3>1 DEF InReach, InMrrtItem
  <2>14. CASE ProcessOAuthError(h)
    <3>1. pc[h] = "answered" /\ handler[h].request.rt \in handler[h].tried
      BY <2>2, <2>14 DEF ProcessOAuthError, InFlight
    <3>2. handler[h].request.kind \in {"RT", "FRT"}
      BY <2>1, <2>5, <2>7, <2>14 DEF ProcessOAuthError, AsksForUser, Locations
    <3>3. handler[h].request.kind = "FRT" => handler[h].mrrtItem = None
      BY <2>5, <2>7, <2>14 DEF ProcessOAuthError, AfterFRT, Handler, Locations
    <3> QED
      BY <2>2, <3>1, <3>2, <3>3 DEF InReach, InMrrtItem, Untried
  <2> QED
    BY <2>9, <2>10, <2>11, <2>12, <2>13, <2>14
<1> QED
  BY <1>1, IInvAlways, PTL DEF Spec, InputNeededMeansTried

-----------------------------------------------------------------------------
(* What a call has still to do: the steps of the method it is in, and for each  *)
(* of the two tokens it may yet try, MRRT and FRT, those of a request.          *)
StepsOf(place) ==
    CASE place = "idle" -> 7
      [] place = "getAccessToken" -> 6
      [] place \in {"removeThenMRRT", "removeThenStop"} -> 5
      [] place = "sent" -> 4
      [] place = "answered" -> 3
      [] place = "tryMRRT" -> 2
      [] place = "tryFRT" -> 1
      [] place = "done" -> 0

StepsLeft(h) ==
    IF pc[h] = "done" THEN 0
    ELSE StepsOf(pc[h]) + (IF handler[h].attemptedFRT THEN 0 ELSE 4)
                        + (IF handler[h].sends["MRRT"] = 0 THEN 4 ELSE 0)

(* Whatever a call does brings it nearer to its end, and nothing that others do *)
(* takes it further away: tryMRRT: and tryFRT: call each other, and the server  *)
(* may refuse every token, but no call takes more than 15 steps.               *)
CallsMoveOn ==
    [][\A h \in Handlers :
         \/ StepsLeft(h) \in 1 .. 15 /\ StepsLeft(h)' \in 0 .. StepsLeft(h) - 1
         \/ UNCHANGED <<pc[h], handler[h], result[h]>>]_vars

LEMMA StepsLeftType ==
    ASSUME TypeOK, NEW h \in Handlers
    PROVE  StepsLeft(h) \in 0 .. 15 /\ (pc[h] # "done" => StepsLeft(h) \in 1 .. 15)
<1>1. pc[h] \in Locations
  BY DEF TypeOK
<1>2. StepsOf(pc[h]) \in 0 .. 7 /\ (pc[h] # "done" => StepsOf(pc[h]) \in 1 .. 7)
  BY <1>1 DEF StepsOf, Locations
<1> QED
  BY <1>2 DEF StepsLeft

(* The step goes to a place that has less to do, and forgets no attempt.        *)
LEMMA ContinueMovesOn ==
    ASSUME TypeOK, NEW h \in Handlers, NEW place \in Locations, NEW state \in Handler,
           Continue(h, place, state), pc[h] # "done",
           LET a == IF handler[h].attemptedFRT THEN 0 ELSE 4
               b == IF state.attemptedFRT THEN 0 ELSE 4
               c == IF handler[h].sends["MRRT"] = 0 THEN 4 ELSE 0
               d == IF state.sends["MRRT"] = 0 THEN 4 ELSE 0
           IN  StepsOf(place) + b + d < StepsOf(pc[h]) + a + c
    PROVE  StepsLeft(h)' < StepsLeft(h)
<1>1. pc'[h] = place /\ handler'[h] = state
  BY DEF Continue, Goto, TypeOK
<1>2. StepsLeft(h)' = IF place = "done" THEN 0
                      ELSE StepsOf(place) + (IF state.attemptedFRT THEN 0 ELSE 4)
                             + (IF state.sends["MRRT"] = 0 THEN 4 ELSE 0)
  BY <1>1 DEF StepsLeft, StepsOf
<1>3. StepsLeft(h) \in 1 .. 15
  BY StepsLeftType
<1> QED
  BY <1>2, <1>3 DEF StepsLeft

LEMMA CompleteMovesOn ==
    ASSUME TypeOK, NEW h \in Handlers, NEW res, Complete(h, res), pc[h] # "done"
    PROVE  StepsLeft(h)' < StepsLeft(h)
<1>1. pc'[h] = "done"
  BY DEF Complete, Goto, TypeOK
<1>2. StepsLeft(h)' = 0
  BY <1>1 DEF StepsLeft
<1> QED
  BY <1>2, StepsLeftType

(* A request takes the call through "sent" and "answered": it is within what is *)
(* left, since it uses up one of the two tokens, or is the first of its call.   *)
LEMMA SendMovesOn ==
    ASSUME TypeOK, NEW h \in Handlers, NEW kind \in Kinds, NEW rt \in Tokens,
           NEW state \in Handler, Send(h, kind, rt, state), pc[h] # "done",
           state.sends = handler[h].sends,
           \/ /\ pc[h] \in {"idle", "getAccessToken"}
              /\ state.attemptedFRT = handler[h].attemptedFRT
           \/ /\ kind = "MRRT" /\ handler[h].sends["MRRT"] = 0
              /\ pc[h] = "tryMRRT" /\ state.attemptedFRT = handler[h].attemptedFRT
           \/ pc[h] = "tryFRT" /\ ~handler[h].attemptedFRT /\ state.attemptedFRT
    PROVE  StepsLeft(h)' < StepsLeft(h)
<1> DEFINE sends == [state.sends EXCEPT ![kind] = @ + 1]
           req == [kind |-> kind, rt |-> rt]
           sent == [state EXCEPT !.request = req, !.sends = sends]
<1>1. state.sends \in [Kinds -> 0 .. MaxSends] /\ state.sends[kind] < MaxSends
  BY DEF Send, Handler
<1>2. sends \in [Kinds -> 0 .. MaxSends]
  BY <1>1 DEF MaxSends
<1>3. /\ sends["MRRT"] = 0 => state.sends["MRRT"] = 0
      /\ kind = "MRRT" => sends["MRRT"] # 0
  BY <1>1 DEF Kinds, MaxSends
<1>4. req \in Request
  BY DEF Request
<1> HIDE DEF sends, req
<1>5. /\ sent \in Handler /\ sent.sends = sends
      /\ sent.attemptedFRT = state.attemptedFRT
  BY <1>2, <1>4 DEF Handler
<1>6. Continue(h, "sent", sent)
  BY DEF Send, sends, req
<1> HIDE DEF sent
<1> QED
  BY <1>3, <1>5, <1>6, ContinueMovesOn DEF StepsOf, Locations

LEMMA AfterFRTMovesOn ==
    ASSUME TypeOK, NEW h \in Handlers, NEW state \in Handler, AfterFRT(h, state),
           state.sends = handler[h].sends, state.attemptedFRT = TRUE,
           pc[h] = "answered" \/ (pc[h] = "tryFRT" /\ handler[h].attemptedFRT = FALSE)
    PROVE  StepsLeft(h)' < StepsLeft(h)
<1>1. CASE Complete(h, state.mrrtResult)
  BY <1>1, CompleteMovesOn
<1>2. CASE Continue(h, "tryMRRT", state)
  BY <1>2, ContinueMovesOn DEF StepsOf, Locations
<1> QED
  BY <1>1, <1>2 DEF AfterFRT

LEMMA MethodMovesOn ==
    ASSUME TypeOK, NEW h \in Handlers, InFlight(h), SendsMatch(h), HandlerStep(h)
    PROVE  pc[h] # "done" /\ StepsLeft(h)' < StepsLeft(h)
<1> DEFINE s == handler[h]
<1>h. s \in Handler /\ pc[h] \in Locations
  BY DEF TypeOK
<1>1. CASE Begin(h)
  BY <1>1, <1>h, ContinueMovesOn DEF Begin, StepsOf, Locations
<1>2. CASE BeginWithToken(h)
  <2>1. PICK rt \in 1 .. issued : Send(h, "developer", rt, s)
    BY <1>2 DEF BeginWithToken
  <2>2. rt \in Tokens /\ "developer" \in Kinds
    BY DEF Tokens, TypeOK, Kinds
  <2> QED
    BY <1>2, <1>h, <2>1, <2>2, SendMovesOn DEF BeginWithToken
<1>3. CASE CacheFails(h)
  BY <1>3, CompleteMovesOn DEF CacheFails
<1>4. CASE ReturnCached(h)
  BY <1>4, CompleteMovesOn DEF ReturnCached
<1>5. CASE FindNothing(h)
  BY <1>5, <1>h, ContinueMovesOn DEF FindNothing, StepsOf, Locations
<1>w. single # None => /\ WithStale(h) \in Handler
                       /\ WithStale(h).sends = s.sends
                       /\ WithStale(h).attemptedFRT = s.attemptedFRT
  BY <1>h DEF WithStale, Handler, Single, TypeOK
<1>6. CASE SendRT(h)
  <2>1. single.rt \in Tokens /\ "RT" \in Kinds
    BY <1>6 DEF SendRT, FoundStale, Single, TypeOK, Kinds
  <2> QED
    BY <1>6, <1>w, <2>1, SendMovesOn DEF SendRT, FoundStale
<1>7. CASE NoRT(h)
  <2>1. pc[h] = "getAccessToken" /\ single # None
    BY <1>7 DEF NoRT, FoundStale
  <2>2. CASE Complete(h, "nil")
    BY <2>1, <2>2, CompleteMovesOn
  <2>3. ASSUME NEW place \in {"removeThenMRRT", "removeThenStop", "tryMRRT"},
               Continue(h, place, WithStale(h))
        PROVE  StepsLeft(h)' < StepsLeft(h)
    BY <1>w, <2>1, <2>3, ContinueMovesOn DEF StepsOf, Locations
  <2> QED
    BY <1>7, <2>1, <2>2, <2>3 DEF NoRT
<1>8. CASE RemoveAccessToken(h)
  <2>1. CASE pc[h] = "removeThenMRRT" /\ Continue(h, "tryMRRT", s)
    BY <1>h, <2>1, ContinueMovesOn DEF StepsOf, Locations
  <2>2. CASE pc[h] = "removeThenStop" /\ Complete(h, "nil")
    BY <2>2, CompleteMovesOn
  <2> QED
    BY <1>8, <2>1, <2>2 DEF RemoveAccessToken
<1>f. /\ FoundMrrt(h) \in Mrrt \union {None}
      /\ [s EXCEPT !.mrrtItem = FoundMrrt(h)] \in Handler
      /\ [s EXCEPT !.mrrtItem = FoundMrrt(h)].sends = s.sends
      /\ [s EXCEPT !.mrrtItem = FoundMrrt(h)].attemptedFRT = s.attemptedFRT
  BY <1>h DEF FoundMrrt, Handler, TypeOK
<1>9. CASE MRRTToFRT(h)
  <2> DEFINE state == [s EXCEPT !.mrrtItem = FoundMrrt(h)]
  <2>1. pc[h] = "tryMRRT" /\ Continue(h, "tryFRT", state)
    BY <1>9 DEF MRRTToFRT
  <2>2. state \in Handler /\ state.sends = s.sends /\ state.attemptedFRT = s.attemptedFRT
    BY <1>f
  <2> HIDE DEF state
  <2> QED
    BY <2>1, <2>2, ContinueMovesOn DEF StepsOf, Locations
<1>10. CASE SendMRRT(h)
  <2>1. pc[h] = "tryMRRT" /\ s.sends["MRRT"] = 0
    BY <1>10 DEF SendMRRT, SendsMatch
  <2>2. FoundMrrt(h).rt \in Tokens /\ "MRRT" \in Kinds
    BY <1>10, <1>f DEF SendMRRT, Mrrt, Kinds
  <2> QED
    BY <1>10, <1>f, <2>1, <2>2, SendMovesOn DEF SendMRRT
<1>11. CASE FRTAttempted(h)
  BY <1>11, CompleteMovesOn DEF FRTAttempted
<1>t. /\ [s EXCEPT !.attemptedFRT = TRUE] \in Handler
      /\ [s EXCEPT !.attemptedFRT = TRUE].sends = s.sends
      /\ [s EXCEPT !.attemptedFRT = TRUE].attemptedFRT = TRUE
  BY <1>h DEF Handler
<1>12. CASE NoFRT(h)
  <2>1. pc[h] = "tryFRT" /\ s.attemptedFRT = FALSE
    BY <1>12, <1>h DEF NoFRT, Handler
  <2> QED
    BY <1>12, <1>t, <2>1, AfterFRTMovesOn DEF NoFRT
<1>13. CASE SendFRT(h)
  <2>1. frt \in Tokens /\ "FRT" \in Kinds
    BY <1>13 DEF SendFRT, TypeOK, Kinds
  <2> QED
    BY <1>13, <1>t, <2>1, SendMovesOn DEF SendFRT
<1>b. ASSUME NEW r \in Reply, pc[h] = "sent", Answer(h, r)
      PROVE  StepsLeft(h)' < StepsLeft(h)
  <2> DEFINE state == [s EXCEPT !.reply = r, !.tried = @ \union {s.request.rt}]
  <2>1. s.request \in Request
    BY <1>b, <1>h DEF Handler, InFlight
  <2>2. /\ state \in Handler /\ state.sends = s.sends
        /\ state.attemptedFRT = s.attemptedFRT
    BY <1>h, <2>1 DEF Handler, Request
  <2>3. Continue(h, "answered", state)
    BY <1>b DEF Answer
  <2> HIDE DEF state
  <2> QED
    BY <1>b, <2>2, <2>3, ContinueMovesOn DEF StepsOf, Locations
<1>14. CASE ServerGrants(h)
  <2>1. PICK answer \in Granted, family \in BOOLEAN,
             rt \in {s.request.rt} \union ({issued + 1} \intersect Tokens) :
          Answer(h, [answer |-> answer, rt |-> rt, family |-> family])
    BY <1>14 DEF ServerGrants
  <2>2. pc[h] = "sent" /\ s.request \in Request
    BY <1>14, <1>h DEF ServerGrants, InFlight, Handler
  <2>3. rt \in Tokens
    BY <2>2 DEF Request
  <2>4. [answer |-> answer, rt |-> rt, family |-> family] \in Reply
    BY <2>3 DEF Reply, Answers
  <2> QED
    BY <1>b, <2>1, <2>2, <2>4
<1>15. CASE ServerRefuses(h)
  <2>1. PICK answer \in OAuthErrors \union OtherErrors :
          Answer(h, [answer |-> answer, rt |-> None, family |-> FALSE])
    BY <1>15 DEF ServerRefuses
  <2>2. [answer |-> answer, rt |-> None, family |-> FALSE] \in Reply
    BY DEF Reply, Answers
  <2> QED
    BY <1>15, <1>b, <2>1, <2>2 DEF ServerRefuses
<1>16. CASE ProcessTokens(h)
  BY <1>16, CompleteMovesOn DEF ProcessTokens
<1>17. CASE ProcessFinalError(h)
  BY <1>17, CompleteMovesOn DEF ProcessFinalError
<1>18. CASE ProcessOAuthError(h)
  <2> DEFINE state == [s EXCEPT !.request = None, !.reply = None]
             answer == s.reply.answer
             fallback == [state EXCEPT !.mrrtItem = None, !.mrrtResult = answer]
  <2>1. pc[h] = "answered" /\ answer \in NotFinal
    BY <1>18 DEF ProcessOAuthError, NotFinal
  <2>2. /\ state \in Handler /\ state.sends = s.sends
        /\ state.attemptedFRT = s.attemptedFRT
        /\ fallback \in Handler /\ fallback.sends = s.sends
        /\ fallback.attemptedFRT = s.attemptedFRT
    BY <1>h, <2>1 DEF Handler
  <2>3. \/ Complete(h, answer)
        \/ Continue(h, "tryFRT", fallback)
        \/ s.attemptedFRT /\ AfterFRT(h, state)
    BY <1>18, <2>1 DEF ProcessOAuthError, SendsMatch
  <2> HIDE DEF state, fallback, answer
  <2>4. CASE Complete(h, answer)
    BY <2>1, <2>4, CompleteMovesOn
  <2>5. CASE Continue(h, "tryFRT", fallback)
    BY <2>1, <2>2, <2>5, ContinueMovesOn DEF StepsOf, Locations
  <2>6. CASE s.attemptedFRT /\ AfterFRT(h, state)
    <3>1. state.attemptedFRT = TRUE
      BY <2>2, <2>6, <1>h DEF Handler
    <3>2. state.sends = s.sends /\ state \in Handler /\ pc[h] = "answered"
      BY <2>1, <2>2
    <3> QED
      BY <2>6, <3>1, <3>2, AfterFRTMovesOn
  <2> QED
    BY <2>1, <2>3, <2>4, <2>5, <2>6
<1> QED
  BY <1>1, <1>2, <1>3, <1>4, <1>5, <1>6, <1>7, <1>8, <1>9, <1>10, <1>11, <1>12,
     <1>13, <1>14, <1>15, <1>16, <1>17, <1>18 DEF HandlerStep, Method

(* The safety half of EveryCallEnds, for every number of calls and of tokens:   *)
(* each step of getToken: and of the blocks it starts uses up one of the        *)
(* finitely many steps that are left, and no other call gives them back.        *)
THEOREM CallsAlwaysMoveOn == Spec => CallsMoveOn
<1> DEFINE Moves(h) == \/ StepsLeft(h) \in 1 .. 15 /\ StepsLeft(h)' \in 0 .. StepsLeft(h) - 1
                       \/ UNCHANGED <<pc[h], handler[h], result[h]>>
           AllMove == \A h \in Handlers : Moves(h)
<1>1. ASSUME IInv, IInv', [Next]_vars
      PROVE  [AllMove]_vars
  <2>1. SUFFICES ASSUME Next, NEW q \in Handlers PROVE Moves(q)
    BY <1>1
  <2>2. CASE Revoke \/ Age
    BY <2>2 DEF Revoke, Age
  <2>3. ASSUME NEW h \in Handlers, HandlerStep(h)
        PROVE  Moves(q)
    <3>1. CASE q # h
      BY <1>1, <2>3, <3>1, OneHandler DEF IInv
    <3>2. CASE q = h
      <4>1. pc[h] # "done" /\ StepsLeft(h)' < StepsLeft(h)
        BY <1>1, <2>3, MethodMovesOn DEF IInv, CallInv
      <4>2. StepsLeft(h) \in 1 .. 15
        BY <1>1, <4>1, StepsLeftType DEF IInv
      <4>3. StepsLeft(h)' \in 0 .. 15
        <5>1. pc'[h] \in Locations
          BY <1>1 DEF IInv, TypeOK
        <5>2. StepsOf(pc'[h]) \in 0 .. 7
          BY <5>1 DEF StepsOf, Locations
        <5>3. StepsLeft(h)' = IF pc'[h] = "done" THEN 0
                              ELSE StepsOf(pc'[h])
                                     + (IF handler'[h].attemptedFRT THEN 0 ELSE 4)
                                     + (IF handler'[h].sends["MRRT"] = 0 THEN 4 ELSE 0)
          BY DEF StepsLeft, StepsOf
        <5> QED
          BY <5>2, <5>3
      <4> QED
        BY <3>2, <4>1, <4>2, <4>3
    <3> QED
      BY <3>1, <3>2
  <2> QED
    BY <2>1, <2>2, <2>3 DEF Next, HandlerStep
<1> QED
  BY <1>1, IInvAlways, PTL DEF Spec, CallsMoveOn

-----------------------------------------------------------------------------
(* The attempt that a call makes, as ImplementsSilentAttempt maps it.           *)
StageOf(place, state) ==
    IF place = "idle" THEN "idle"
    ELSE IF place = "done" THEN "over"
    ELSE IF place \in {"sent", "answered"} /\ state.request.kind = "developer"
         THEN "token" ELSE "cache"

Stage == [h \in Handlers |-> StageOf(pc[h], handler[h])]
Outcome == [h \in Handlers |-> OutcomeOf(result[h])]

(* The three things a step does with the attempt of its call.                  *)
Starts(h) == /\ Stage[h] = "idle" /\ Stage'[h] \in {"cache", "token"}
             /\ Outcome'[h] = Outcome[h]
GoesOn(h) == Stage'[h] = Stage[h] /\ Outcome'[h] = Outcome[h]
Finishes(h) == /\ Stage[h] \in {"cache", "token"} /\ Stage'[h] = "over"
               /\ Outcome'[h] \in SA!Outcomes
               /\ Stage[h] = "token" => Outcome'[h] # "nil"

LEMMA OutcomeKinds ==
    ASSUME NEW res \in Results
    PROVE  OutcomeOf(res) \in SA!Outcomes /\ (OutcomeOf(res) = "nil" => res = "nil")
BY DEF Results, Answers, Granted, OAuthErrors, OtherErrors, OutcomeOf, SA!Outcomes

LEMMA CompleteFinishes ==
    ASSUME TypeOK, NEW h \in Handlers, NEW res \in Results, Complete(h, res),
           pc[h] \notin {"idle", "done"}, Stage[h] = "token" => res # "nil"
    PROVE  Finishes(h)
<1>1. pc'[h] = "done" /\ result'[h] \in {res, "extended"} /\ "extended" \in Results
  BY DEF Complete, Goto, TypeOK, Results
<1>2. Stage[h] \in {"cache", "token"} /\ Stage'[h] = "over"
  BY <1>1 DEF Stage, StageOf
<1>3. Outcome'[h] = OutcomeOf(result'[h])
  BY DEF Outcome, OutcomeOf
<1>4. \A other \in Results : OutcomeOf(other) \in SA!Outcomes
                              /\ (OutcomeOf(other) = "nil" => other = "nil")
  BY OutcomeKinds
<1> QED
  BY <1>1, <1>2, <1>3, <1>4 DEF Finishes

LEMMA ContinueStages ==
    ASSUME TypeOK, NEW h \in Handlers, NEW place, NEW state, Continue(h, place, state)
    PROVE  Outcome'[h] = Outcome[h] /\ Stage'[h] = StageOf(place, state)
BY DEF Continue, Goto, TypeOK, Outcome, Stage, StageOf

LEMMA SendStages ==
    ASSUME TypeOK, NEW h \in Handlers, NEW kind, NEW rt, NEW state \in Handler,
           Send(h, kind, rt, state)
    PROVE  /\ Outcome'[h] = Outcome[h]
           /\ Stage'[h] = IF kind = "developer" THEN "token" ELSE "cache"
<1> DEFINE sent == [state EXCEPT !.request = [kind |-> kind, rt |-> rt],
                                 !.sends = [state.sends EXCEPT ![kind] = @ + 1]]
<1>1. Continue(h, "sent", sent)
  BY DEF Send
<1>2. sent.request.kind = kind
  BY DEF Handler
<1> HIDE DEF sent
<1> QED
  BY <1>1, <1>2, ContinueStages DEF StageOf

LEMMA MethodStages ==
    ASSUME TypeOK, NEW h \in Handlers, InFlight(h), HandlerStep(h)
    PROVE  Starts(h) \/ GoesOn(h) \/ Finishes(h)
<1> DEFINE s == handler[h]
<1>h. s \in Handler /\ pc[h] \in Locations /\ Stage[h] = StageOf(pc[h], s)
  BY DEF TypeOK, Stage
<1>r. NotFinal \subseteq Results /\ Answers \subseteq Results
      /\ Granted \subseteq Answers /\ OtherErrors \subseteq Answers
  BY DEF NotFinal, Results, Answers, OAuthErrors
<1>n. "nil" \notin Answers /\ {"nil", "cacheError", "cached"} \subseteq Results
  BY DEF Answers, Granted, OAuthErrors, OtherErrors, Results
<1>c. ASSUME NEW res \in Results, pc[h] \notin {"idle", "done", "sent", "answered"},
             Complete(h, res)
      PROVE  Finishes(h)
  BY <1>c, <1>h, CompleteFinishes DEF StageOf
<1>g. ASSUME NEW place \in Locations \ {"idle", "done", "sent", "answered"}, NEW state,
             pc[h] \notin {"idle", "done", "sent", "answered"}, Continue(h, place, state)
      PROVE  GoesOn(h)
  BY <1>g, <1>h, ContinueStages DEF GoesOn, StageOf
<1>s. ASSUME NEW kind, kind # "developer", NEW rt, NEW state \in Handler,
             pc[h] \notin {"idle", "done", "sent", "answered"}, Send(h, kind, rt, state)
      PROVE  GoesOn(h)
  BY <1>s, <1>h, SendStages DEF GoesOn, StageOf
<1>1. CASE Begin(h)
  BY <1>1, <1>h, ContinueStages DEF Begin, Starts, StageOf
<1>2. CASE BeginWithToken(h)
  BY <1>2, <1>h, SendStages DEF BeginWithToken, Starts, StageOf
<1>3. CASE CacheFails(h)
  BY <1>3, <1>c, <1>n DEF CacheFails
<1>4. CASE ReturnCached(h)
  BY <1>4, <1>c, <1>n DEF ReturnCached
<1>5. CASE FindNothing(h)
  BY <1>5, <1>g DEF FindNothing, Locations
<1>6. CASE SendRT(h)
  <2>1. pc[h] = "getAccessToken" /\ WithStale(h) \in Handler
    BY <1>6, <1>h DEF SendRT, FoundStale, WithStale, Handler, Single, TypeOK
  <2> QED
    BY <1>6, <1>s, <2>1 DEF SendRT
<1>7. CASE NoRT(h)
  <2>1. pc[h] = "getAccessToken"
    BY <1>7 DEF NoRT, FoundStale
  <2>2. \/ Complete(h, "nil")
        \/ \E place \in {"removeThenMRRT", "removeThenStop", "tryMRRT"} :
             Continue(h, place, WithStale(h))
    BY <1>7 DEF NoRT
  <2> QED
    BY <1>c, <1>g, <1>n, <2>1, <2>2 DEF Locations
<1>8. CASE RemoveAccessToken(h)
  BY <1>8, <1>c, <1>g, <1>n DEF RemoveAccessToken, Locations
<1>9. CASE MRRTToFRT(h)
  BY <1>9, <1>g DEF MRRTToFRT, Locations
<1>10. CASE SendMRRT(h)
  <2>1. [s EXCEPT !.mrrtItem = FoundMrrt(h)] \in Handler
    BY <1>h DEF FoundMrrt, Handler, TypeOK
  <2> QED
    BY <1>10, <1>s, <2>1 DEF SendMRRT
<1>11. CASE FRTAttempted(h)
  <2>1. s.mrrtResult \in Results
    BY <1>h, <1>r DEF Handler
  <2> QED
    BY <1>11, <1>c, <2>1 DEF FRTAttempted
<1>t. [s EXCEPT !.attemptedFRT = TRUE] \in Handler
  BY <1>h DEF Handler
<1>12. CASE NoFRT(h)
  <2> DEFINE state == [s EXCEPT !.attemptedFRT = TRUE]
  <2>1. state.mrrtResult \in Results
    BY <1>h, <1>r, <1>t DEF Handler
  <2>2. pc[h] = "tryFRT" /\ (Complete(h, state.mrrtResult) \/ Continue(h, "tryMRRT", state))
    BY <1>12 DEF NoFRT, AfterFRT
  <2> QED
    BY <1>c, <1>g, <2>1, <2>2 DEF Locations
<1>13. CASE SendFRT(h)
  BY <1>13, <1>s, <1>t DEF SendFRT
<1>b. ASSUME NEW r, pc[h] = "sent", Answer(h, r)
      PROVE  GoesOn(h)
  <2> DEFINE state == [s EXCEPT !.reply = r, !.tried = @ \union {s.request.rt}]
  <2>1. state.request = s.request
    BY <1>h DEF Handler
  <2>2. Continue(h, "answered", state)
    BY <1>b DEF Answer
  <2> HIDE DEF state
  <2> QED
    BY <1>b, <1>h, <2>1, <2>2, ContinueStages DEF GoesOn, StageOf
<1>14. CASE ServerGrants(h)
  BY <1>14, <1>b DEF ServerGrants
<1>15. CASE ServerRefuses(h)
  BY <1>15, <1>b DEF ServerRefuses
<1>a. pc[h] = "answered" => s.reply.answer \in Answers /\ s.reply.answer # "nil"
  BY <1>h, <1>n DEF InFlight, Handler, Reply
<1>d. ASSUME pc[h] = "answered", Complete(h, s.reply.answer)
      PROVE  Finishes(h)
  BY <1>a, <1>d, <1>r, CompleteFinishes
<1>16. CASE ProcessTokens(h)
  BY <1>16, <1>d DEF ProcessTokens
<1>17. CASE ProcessFinalError(h)
  BY <1>17, <1>d DEF ProcessFinalError
<1>18. CASE ProcessOAuthError(h)
  <2> DEFINE state == [s EXCEPT !.request = None, !.reply = None]
             fallback == [state EXCEPT !.mrrtItem = None, !.mrrtResult = s.reply.answer]
  <2>1. pc[h] = "answered" /\ state.mrrtResult \in Results
    BY <1>18, <1>h, <1>r DEF ProcessOAuthError, Handler
  <2>2. \/ Complete(h, s.reply.answer)
        \/ s.request.kind = "MRRT" /\ Continue(h, "tryFRT", fallback)
        \/ s.request.kind = "FRT" /\ Complete(h, state.mrrtResult)
        \/ s.request.kind = "FRT" /\ Continue(h, "tryMRRT", state)
    BY <1>18 DEF ProcessOAuthError, AfterFRT
  <2> HIDE DEF state, fallback
  <2>3. ASSUME NEW place \in {"tryFRT", "tryMRRT"}, NEW to, Continue(h, place, to),
               s.request.kind # "developer"
        PROVE  GoesOn(h)
    BY <1>h, <2>1, <2>3, ContinueStages DEF GoesOn, StageOf
  <2>4. CASE s.request.kind = "FRT" /\ Complete(h, state.mrrtResult)
    BY <1>h, <2>1, <2>4, CompleteFinishes DEF StageOf
  <2> QED
    BY <1>d, <2>1, <2>2, <2>3, <2>4
<1> QED
  BY <1>1, <1>2, <1>3, <1>4, <1>5, <1>6, <1>7, <1>8, <1>9, <1>10, <1>11, <1>12,
     <1>13, <1>14, <1>15, <1>16, <1>17, <1>18 DEF HandlerStep, Method

(* Each of the three is a step of SilentAttempt or none.                       *)
LEMMA StagesMap ==
    ASSUME NEW h \in Handlers, Starts(h) \/ GoesOn(h) \/ Finishes(h),
           \A q \in Handlers \ {h} : Stage'[q] = Stage[q] /\ Outcome'[q] = Outcome[q]
    PROVE  SA!Next \/ UNCHANGED <<Stage, Outcome>>
<1>1. /\ Stage' = [Stage EXCEPT ![h] = Stage'[h]]
      /\ Outcome' = [Outcome EXCEPT ![h] = Outcome'[h]]
  <2>1. /\ Stage = [q \in Handlers |-> Stage[q]] /\ Stage' = [q \in Handlers |-> Stage'[q]]
        /\ Outcome = [q \in Handlers |-> Outcome[q]]
        /\ Outcome' = [q \in Handlers |-> Outcome'[q]]
    BY DEF Stage, Outcome
  <2> QED
    BY <2>1
<1>2. CASE Starts(h)
  <2>1. Outcome' = Outcome
    BY <1>1, <1>2 DEF Starts, Outcome
  <2>2. \E with \in {"cache", "token"} : Stage' = [Stage EXCEPT ![h] = with]
    BY <1>1, <1>2 DEF Starts
  <2>3. \E with \in {"cache", "token"} : SA!Move(h, "idle", with)
    BY <1>2, <2>2 DEF Starts, SA!Move, Stage, StageOf
  <2>4. SA!Start(h)
    BY <2>1, <2>3 DEF SA!Start, Outcome
  <2> QED
    BY <2>4 DEF SA!Next
<1>3. CASE GoesOn(h)
  BY <1>1, <1>3 DEF GoesOn, Stage, Outcome
<1>4. CASE Finishes(h)
  <2>1. SA!Finish(h, "cache", SA!Outcomes) \/ SA!Finish(h, "token", SA!Outcomes \ {"nil"})
    BY <1>1, <1>4 DEF Finishes, SA!Finish, SA!Move, Stage, Outcome, StageOf
  <2> QED
    BY <2>1 DEF SA!Next
<1> QED
  BY <1>2, <1>3, <1>4

(* Whichever tokens they try, and whatever the server and other calls do to the *)
(* cache meanwhile, the handlers keep the promise of SilentAttempt.             *)
THEOREM SilentAttemptImplemented == Spec => ImplementsSilentAttempt
<1>1. Init => SA!Init
  BY DEF Init, SA!Init, OutcomeOf
<1>2. ASSUME IInv, [Next]_vars
      PROVE  [SA!Next]_<<Stage, Outcome>>
  <2>1. CASE UNCHANGED vars \/ Revoke \/ Age
    <3>1. pc' = pc /\ handler' = handler /\ result' = result
      BY <2>1 DEF vars, Revoke, Age
    <3> QED
      BY <3>1 DEF Stage, StageOf, Outcome, OutcomeOf
  <2>2. ASSUME NEW h \in Handlers, HandlerStep(h)
        PROVE  SA!Next \/ UNCHANGED <<Stage, Outcome>>
    <3>1. TypeOK /\ InFlight(h)
      BY <1>2 DEF IInv, CallInv
    <3>2. \A q \in Handlers \ {h} : Stage'[q] = Stage[q] /\ Outcome'[q] = Outcome[q]
      <4>1. \A q \in Handlers \ {h} :
              pc'[q] = pc[q] /\ handler'[q] = handler[q] /\ result'[q] = result[q]
        BY <2>2, <3>1, OneHandler
      <4>2. ASSUME NEW q \in Handlers, q # h
            PROVE  Stage'[q] = Stage[q] /\ Outcome'[q] = Outcome[q]
        <5>1. Stage'[q] = StageOf(pc'[q], handler'[q]) /\ Outcome'[q] = OutcomeOf(result'[q])
          BY DEF Stage, StageOf, Outcome, OutcomeOf
        <5> QED
          BY <4>1, <4>2, <5>1 DEF Stage, Outcome
      <4> QED
        BY <4>2
    <3> QED
      BY <2>2, <3>1, <3>2, MethodStages, StagesMap
  <2> QED
    BY <1>2, <2>1, <2>2 DEF Next, HandlerStep
<1> QED
  BY <1>1, <1>2, IInvAlways, PTL
     DEF Spec, ImplementsSilentAttempt, SA!Spec, Stage, StageOf, Outcome
=============================================================================
