------------------------ MODULE BrokerHandoffProofs -------------------------
(***************************************************************************)
(* For every set of requests, and whenever they start: the hand-over to    *)
(* the broker keeps its inductive invariant, hence completes every request *)
(* at most once and leaves none behind.                                    *)
(***************************************************************************)
EXTENDS BrokerHandoff, TLAPS

\* The initial state satisfies the inductive invariant.
LEMMA InitIInv == Init => IInv
BY NoneAssumption
   DEF Init, IInv, TypeOK, NoOrphan, BlocksAreWaiters, WaiterHasLock, Waiting,
       BlockHeld, WaitingStatus, Status, Results, AppStates, WaiterIsWatched,
       CallsMatchStatus, ResumeSingleUse, ResumeIsComposed, LockGivenBack,
       KilledIsEmpty, MaxCalls

\* What Complete does to the three variables of a request.
LEMMA CompleteTypes ==
    ASSUME TypeOK, NEW r \in Requests, NEW res \in Results, Complete(r, res)
    PROVE  /\ status' \in [Requests -> Status]
           /\ result' \in [Requests -> Results]
           /\ calls' \in [Requests -> 0 .. MaxCalls]
BY DEF TypeOK, Complete, Status, MaxCalls

\* Every step keeps the types.  The counter of calls stays in its range
\* because Complete is guarded by the bound.
LEMMA TypeNext == IInv /\ [Next]_vars => TypeOK'
<1> SUFFICES ASSUME IInv, [Next]_vars
             PROVE  TypeOK'
  OBVIOUS
<1>0. TypeOK /\ StartStates \subseteq AppStates
  BY StatesAssumption DEF IInv
<1> USE DEF TypeOK, AppStates, Status, WaitingStatus, Results, MaxCalls
<1>1. CASE UNCHANGED vars
  BY <1>0, <1>1 DEF vars
<1>2. ASSUME NEW r \in Requests,
             Refuse(r) \/ ComposeFails(r) \/ EndWebview(r) \/ EndReplay(r)
      PROVE  TypeOK'
  <2>1. PICK res \in Results : Complete(r, res)
    BY <1>2 DEF Refuse, ComposeFails, EndWebview, EndReplay
  <2>2. QED
    BY <1>0, <1>2, <2>1, CompleteTypes
       DEF Refuse, ComposeFails, ComposeBrokerRequest, EndWebview, EndReplay
<1>3. ASSUME NEW r \in Requests,
             InvokeBroker(r) \/ ShowWebview(r) \/ PromptInstall(r)
      PROVE  TypeOK'
  BY <1>0, <1>3 DEF InvokeBroker, ShowWebview, PromptInstall, HandOver,
     ComposeBrokerRequest, SetStatus
<1>4. ASSUME NEW r \in Requests, NoInstallLink(r)
      PROVE  TypeOK'
  BY <1>0, <1>4, CompleteTypes DEF NoInstallLink, ComposeBrokerRequest
<1>5. ASSUME NEW r \in Requests, OpenBroker(r) \/ OpenFails(r)
      PROVE  TypeOK'
  BY <1>0, <1>5 DEF OpenBroker, OpenFails
<1>6. ASSUME NEW r \in Requests, ReceiveResponse(r)
      PROVE  TypeOK'
  BY <1>0, <1>6 DEF ReceiveResponse, OpenURL, Handling
<1>7. CASE Interrupt \/ LeaveApp \/ EnterForeground \/ BecomeActive
  BY <1>0, <1>7 DEF Interrupt, LeaveApp, EnterForeground, BecomeActive
<1>8. CASE CleanUp
  BY <1>0, <1>8, CompleteTypes DEF CleanUp
<1>9. CASE FinishResponse
  <2>1. handling \in Handling
    BY <1>0, <1>9 DEF FinishResponse
  <2>2. QED
    BY <1>0, <1>9, <2>1, CompleteTypes
       DEF FinishResponse, Handling, SetStatus, IInv, ResumeIsComposed
<1>10. CASE TakeInterrupted \/ Launch
  BY <1>0, <1>10 DEF TakeInterrupted, Launch
<1>11. CASE Kill
  BY <1>0, <1>11 DEF Kill
<1>12. QED
  BY <1>1, <1>2, <1>3, <1>4, <1>5, <1>6, <1>7, <1>8, <1>9, <1>10, <1>11
     DEF Next, RequestStep, LifeCycle

\* The conjuncts of IInv about the hand-over itself.
HandOverInv ==
    /\ NoOrphan /\ BlocksAreWaiters
    /\ WaiterHasLock
    /\ WaiterIsWatched
    /\ CallsMatchStatus
    /\ ResumeSingleUse /\ ResumeIsComposed
    /\ LockGivenBack
    /\ KilledIsEmpty

\* Every step keeps them.
LEMMA HandOverNext == IInv /\ [Next]_vars => HandOverInv'
<1> SUFFICES ASSUME TypeOK, HandOverInv, [Next]_vars
             PROVE  HandOverInv'
  BY DEF IInv, HandOverInv
<1> USE NoneAssumption, HandlingAssumption
    DEF TypeOK, HandOverInv, NoOrphan, BlocksAreWaiters, WaiterHasLock,
        WaiterIsWatched, CallsMatchStatus, ResumeSingleUse, ResumeIsComposed,
        LockGivenBack, KilledIsEmpty, Waiting, BlockHeld, WaitingStatus, Running
<1>1. CASE UNCHANGED vars
  BY <1>1 DEF vars
<1>2. ASSUME NEW r \in Requests, Refuse(r)
      PROVE  HandOverInv'
  BY <1>2 DEF Refuse, Complete, Starting
\* The lock leaks, but the request no longer waits.
<1>3. ASSUME NEW r \in Requests, ComposeFails(r)
      PROVE  HandOverInv'
  BY <1>3 DEF ComposeFails, ComposeBrokerRequest, Complete, Starting
\* The lock was free, so nobody waited and no block is overwritten.
<1>4. ASSUME NEW r \in Requests, InvokeBroker(r)
      PROVE  HandOverInv'
  BY <1>4 DEF InvokeBroker, HandOver, ComposeBrokerRequest, SetStatus, Starting
<1>5. ASSUME NEW r \in Requests, ShowWebview(r)
      PROVE  HandOverInv'
  BY <1>5 DEF ShowWebview, SetStatus, Starting
<1>6. ASSUME NEW r \in Requests, EndWebview(r)
      PROVE  HandOverInv'
  BY <1>6 DEF EndWebview, Complete, MainThreadFree
<1>7. ASSUME NEW r \in Requests, NoInstallLink(r)
      PROVE  HandOverInv'
  BY <1>7 DEF NoInstallLink, ComposeBrokerRequest, Complete, MainThreadFree
\* The webview had the lock, so the manager had no block.
<1>8. ASSUME NEW r \in Requests, PromptInstall(r)
      PROVE  HandOverInv'
  BY <1>8 DEF PromptInstall, HandOver, ComposeBrokerRequest, SetStatus, MainThreadFree
<1>9. ASSUME NEW r \in Requests, EndReplay(r)
      PROVE  HandOverInv'
  BY <1>9 DEF EndReplay, Complete
<1>10. ASSUME NEW r \in Requests, OpenBroker(r)
      PROVE  HandOverInv'
  BY <1>10 DEF OpenBroker, MainThreadFree
<1>11. ASSUME NEW r \in Requests, OpenFails(r)
      PROVE  HandOverInv'
  BY <1>11 DEF OpenFails
\* The block moves from the manager to the response.
<1>12. ASSUME NEW r \in Requests, ReceiveResponse(r)
      PROVE  HandOverInv'
  BY <1>12 DEF ReceiveResponse, OpenURL, ProcessBrokerResponse, MainThreadFree, Handling
<1>13. CASE Interrupt
  BY <1>13 DEF Interrupt
<1>14. CASE LeaveApp
  BY <1>14 DEF LeaveApp
<1>15. CASE EnterForeground
  BY <1>15 DEF EnterForeground
<1>16. CASE BecomeActive
  BY <1>16 DEF BecomeActive
\* The block belongs to a waiter, which has not been called yet.
<1>17. CASE CleanUp
  BY <1>17 DEF CleanUp, Complete, MainThreadFree
\* The same for the block the response took; a replay keeps its call for later.
<1>18. CASE FinishResponse
  BY <1>18 DEF FinishResponse, Complete, SetStatus, Handling
<1>19. CASE TakeInterrupted
  BY <1>19 DEF TakeInterrupted
\* Everything but the resume dictionary and the completed calls is forgotten.
<1>20. CASE Kill
  BY <1>20 DEF Kill
<1>21. CASE Launch
  BY <1>21 DEF Launch
<1>22. QED
  BY <1>1, <1>2, <1>3, <1>4, <1>5, <1>6, <1>7, <1>8, <1>9, <1>10, <1>11,
     <1>12, <1>13, <1>14, <1>15, <1>16, <1>17, <1>18, <1>19, <1>20, <1>21
     DEF Next, RequestStep, LifeCycle

\* IInv holds in every state of every behaviour.
THEOREM IInvAlways == Spec => []IInv
<1>1. IInv /\ [Next]_vars => IInv'
  BY TypeNext, HandOverNext DEF IInv, HandOverInv
<1>2. QED
  BY InitIInv, <1>1, PTL DEF Spec

-----------------------------------------------------------------------------
\* No completion block is called twice, by whatever mixture of answers,
\* cleanups, replays, crashes and restarts.
THEOREM CompletedAtMostOnce == Spec => []CompletedOnce
<1>1. ASSUME IInv, NEW r \in Requests
      PROVE  calls[r] <= 1
  <2>1. calls[r] \in {0, 1}
    BY <1>1 DEF IInv, CallsMatchStatus
  <2>2. QED
    BY <2>1
<1>2. IInv => CompletedOnce
  BY <1>1 DEF CompletedOnce
<1>3. QED
  BY <1>2, IInvAlways, PTL

\* Every request that waits for the broker has its block where a response or
\* the cleanup will find it.
THEOREM NobodyOrphaned == Spec => []NoOrphan
<1>1. IInv => NoOrphan
  BY DEF IInv
<1>2. QED
  BY <1>1, IInvAlways, PTL

\* Whoever waits, for the broker or in the webview, has the interaction lock, and no
\* request that has ended keeps it, except one whose broker request could not be
\* composed.
THEOREM LockAlwaysSpansInteraction == Spec => []LockSpansInteraction
<1>1. IInv => LockSpansInteraction
  BY DEF IInv, LockSpansInteraction
<1>2. QED
  BY <1>1, IInvAlways, PTL

\* A waiting block is always watched for the user's return.
THEOREM WaitersAreWatched == Spec => []WaiterIsWatched
<1>1. IInv => WaiterIsWatched
  BY DEF IInv
<1>2. QED
  BY <1>1, IInvAlways, PTL

\* No resume dictionary lets two responses in.
THEOREM ResumeUsedOnce == Spec => []ResumeSingleUse
<1>1. IInv => ResumeSingleUse
  BY DEF IInv
<1>2. QED
  BY <1>1, IInvAlways, PTL

-----------------------------------------------------------------------------
(* When nobody comes to need the user between the two notifications.       *)

\* Only ReceiveResponse begins a response, and it leaves no block; until the end of
\* FinishResponse the main thread is busy, and no request starts.
LEMMA ResponseNext ==
    "foregrounding" \notin StartStates /\ IInv /\ ResponseInv /\ [Next]_vars => ResponseInv'
<1> SUFFICES ASSUME "foregrounding" \notin StartStates, TypeOK, HandOverInv, ResponseInv,
                    [Next]_vars
             PROVE  ResponseInv'
  BY DEF IInv, HandOverInv
<1> USE NoneAssumption, HandlingAssumption
    DEF ResponseInv, ResumeBelongsToWaiter, ResumeIsWaiters, AcceptedForItsOwn,
        MainThreadFree, TypeOK
<1>1. CASE UNCHANGED vars
  BY <1>1 DEF vars
<1>2. ASSUME NEW r \in Requests,
             Refuse(r) \/ ShowWebview(r) \/ EndWebview(r) \/ EndReplay(r) \/ OpenFails(r)
      PROVE  ResponseInv'
  BY <1>2 DEF Refuse, ShowWebview, EndWebview, EndReplay, OpenFails
\* Who hands over leaves the resume dictionary along with the block.
<1>3. ASSUME NEW r \in Requests, InvokeBroker(r)
      PROVE  ResponseInv'
  BY <1>3 DEF InvokeBroker, Starting, HandOver, ComposeBrokerRequest
<1>4. ASSUME NEW r \in Requests, PromptInstall(r)
      PROVE  ResponseInv'
  BY <1>4 DEF PromptInstall, HandOver, ComposeBrokerRequest
\* Who only composes has the lock, or takes it: nobody waits whose dictionary
\* could be overwritten.
<1>5. ASSUME NEW r \in Requests, NoInstallLink(r) \/ ComposeFails(r)
      PROVE  ResponseInv'
  <2>1. callback = None
    BY <1>5 DEF NoInstallLink, ComposeFails, HandOverInv, WaiterHasLock,
                BlocksAreWaiters, BlockHeld, Waiting, WaitingStatus
  <2>2. QED
    BY <1>5, <2>1 DEF NoInstallLink, ComposeFails
<1>6. ASSUME NEW r \in Requests, OpenBroker(r)
      PROVE  ResponseInv'
  BY <1>6 DEF OpenBroker
\* The response takes the block together with the dictionary its owner has left.
<1>7. ASSUME NEW r \in Requests, ReceiveResponse(r)
      PROVE  ResponseInv'
  BY <1>7 DEF ReceiveResponse, OpenURL
<1>8. CASE Interrupt \/ LeaveApp \/ EnterForeground \/ BecomeActive \/ CleanUp
  BY <1>8 DEF Interrupt, LeaveApp, EnterForeground, BecomeActive, CleanUp
<1>9. CASE FinishResponse
  BY <1>9 DEF FinishResponse
<1>10. CASE TakeInterrupted
  BY <1>10 DEF TakeInterrupted
<1>11. CASE Kill
  BY <1>11 DEF Kill
<1>12. CASE Launch
  BY <1>12 DEF Launch, HandOverInv, KilledIsEmpty
<1>13. QED
  BY <1>1, <1>2, <1>3, <1>4, <1>5, <1>6, <1>7, <1>8, <1>9, <1>10, <1>11, <1>12
     DEF Next, RequestStep, LifeCycle

\* It holds in every state.
LEMMA ResponseAlways == "foregrounding" \notin StartStates /\ Spec => []ResponseInv
<1>1. Init => ResponseInv
  BY NoneAssumption
     DEF Init, ResponseInv, ResumeBelongsToWaiter, ResumeIsWaiters, AcceptedForItsOwn
<1> DEFINE Outside == "foregrounding" \notin StartStates
<1>2. Outside /\ IInv /\ ResponseInv /\ [Next]_vars => ResponseInv'
  BY ResponseNext
<1>3. Outside => Outside'
  OBVIOUS
<1> HIDE DEF Outside
<1>4. Outside /\ Spec => []ResponseInv
  BY <1>1, <1>2, <1>3, IInvAlways, PTL DEF Spec
<1>5. QED
  BY <1>4 DEF Outside

\* Whoever waits can have its answer accepted, and gets none that was accepted by what
\* another request has left, also after requests have come and gone and processes have
\* died.  Webviews may ask for the broker at any time.
THEOREM ResumeAlwaysOfWaiter ==
    "foregrounding" \notin StartStates /\ Spec => []ResumeBelongsToWaiter
<1>1. ResponseInv => ResumeBelongsToWaiter
  BY DEF ResponseInv
<1>2. QED
  BY <1>1, ResponseAlways, PTL

\* Nobody hands a block over between the two notifications.
NobodyBetween == "foregrounding" \notin StartStates \union InstallStates

\* A block that is handed over is watched from the next WillEnterForeground on, and
\* by then the openURL that was queued with it has run.
LEMMA ReturnNext == NobodyBetween /\ IInv /\ ReturnInv /\ [Next]_vars => ReturnInv'
<1> SUFFICES ASSUME NobodyBetween, TypeOK, HandOverInv, ReturnInv, [Next]_vars
             PROVE  ReturnInv'
  BY DEF IInv, HandOverInv
<1> USE NoneAssumption DEF ReturnInv, TypeOK, MainThreadFree
<1>1. CASE UNCHANGED vars
  BY <1>1 DEF vars
<1>2. ASSUME NEW r \in Requests,
             Refuse(r) \/ ComposeFails(r) \/ ShowWebview(r) \/ EndWebview(r)
               \/ NoInstallLink(r) \/ EndReplay(r) \/ OpenFails(r)
      PROVE  ReturnInv'
  BY <1>2 DEF Refuse, ComposeFails, ShowWebview, EndWebview, NoInstallLink, EndReplay,
              OpenFails
<1>3. ASSUME NEW r \in Requests, InvokeBroker(r) \/ PromptInstall(r)
      PROVE  ReturnInv'
  BY <1>3 DEF InvokeBroker, PromptInstall, Starting, HandOver, NobodyBetween
<1>4. ASSUME NEW r \in Requests, OpenBroker(r)
      PROVE  ReturnInv'
  BY <1>4 DEF OpenBroker
<1>5. ASSUME NEW r \in Requests, ReceiveResponse(r)
      PROVE  ReturnInv'
  BY <1>5 DEF ReceiveResponse, OpenURL
<1>6. CASE Interrupt \/ LeaveApp
  BY <1>6 DEF Interrupt, LeaveApp
\* The blocks queued in the background have run.
<1>7. CASE EnterForeground
  BY <1>7 DEF EnterForeground
<1>8. CASE BecomeActive \/ CleanUp
  BY <1>8 DEF BecomeActive, CleanUp
<1>9. CASE FinishResponse
  BY <1>9 DEF FinishResponse
<1>10. CASE TakeInterrupted
  BY <1>10 DEF TakeInterrupted
<1>11. CASE Kill
  BY <1>11 DEF Kill
<1>12. CASE Launch
  BY <1>12 DEF Launch, HandOverInv, KilledIsEmpty
<1>13. QED
  BY <1>1, <1>2, <1>3, <1>4, <1>5, <1>6, <1>7, <1>8, <1>9, <1>10, <1>11, <1>12
     DEF Next, RequestStep, LifeCycle

\* Only the cleanup says "not received", of the block it finds, and it runs when the
\* app has come back from the background.
LEMMA NotReceivedStep ==
    ASSUME TypeOK, CallsMatchStatus, ReturnInv, [Next]_vars,
           NEW q \in Requests, result'[q] = "notReceived", result[q] # "notReceived"
    PROVE  q \notin opens
<1> USE DEF TypeOK, Complete, SetStatus
<1>1. CASE UNCHANGED vars
  BY <1>1 DEF vars
<1>2. ASSUME NEW r \in Requests, RequestStep(r)
      PROVE  FALSE
  BY <1>2 DEF RequestStep, Refuse, ComposeFails, InvokeBroker, ShowWebview, EndWebview,
              NoInstallLink, PromptInstall, EndReplay, OpenBroker, OpenFails,
              ReceiveResponse, OpenURL
<1>3. CASE CleanUp
  <2>1. q = callback
    BY <1>3, NoneAssumption DEF CleanUp
  <2>2. app = "foregrounding"
    BY <1>3 DEF CleanUp, ReturnInv
  <2>3. QED
    BY <2>1, <2>2 DEF ReturnInv
<1>4. CASE FinishResponse
  BY <1>4 DEF FinishResponse, Handling
<1>5. CASE Interrupt \/ LeaveApp \/ EnterForeground \/ BecomeActive \/ TakeInterrupted
             \/ Kill \/ Launch
  BY <1>5 DEF Interrupt, LeaveApp, EnterForeground, BecomeActive, TakeInterrupted, Kill,
              Launch
<1>6. QED
  BY <1>1, <1>2, <1>3, <1>4, <1>5 DEF Next, LifeCycle

\* A request that is told that the broker did not answer had its turn to open it.
THEOREM NotReceivedAlwaysTried == NobodyBetween /\ Spec => NotReceivedMeansTried
<1>1. Init => ReturnInv
  BY NoneAssumption DEF Init, ReturnInv
<1>2. NobodyBetween /\ IInv /\ ReturnInv /\ [Next]_vars => ReturnInv'
  BY ReturnNext
<1>3. IInv /\ ReturnInv /\ [Next]_vars
        => [\A r \in Requests :
              result'[r] = "notReceived" /\ result[r] # "notReceived" => r \notin opens]_vars
  BY NotReceivedStep DEF IInv
<1>4. NobodyBetween => NobodyBetween'
  BY DEF NobodyBetween
<1>5. QED
  BY <1>1, <1>2, <1>3, <1>4, IInvAlways, PTL DEF Spec, NotReceivedMeansTried

-----------------------------------------------------------------------------
\* The completions of requests other than a refusal leave the refused ones
\* alone: a request is completed once, with one result.
LEMMA RefusedStay ==
    ASSUME TypeOK, CallsMatchStatus, NEW r \in Requests, NEW res \in Results,
           Complete(r, res), status[r] # "completed", res # "none"
    PROVE  {q \in Requests : result[q] = "refused"}'
             = IF res = "refused"
               THEN {q \in Requests : result[q] = "refused"} \union {r}
               ELSE {q \in Requests : result[q] = "refused"}
<1>1. result[r] = "none"
  BY DEF CallsMatchStatus
<1>2. \A q \in Requests : result'[q] = IF q = r THEN res ELSE result[q]
  BY DEF Complete, TypeOK
<1>3. QED
  BY <1>1, <1>2

\* The interaction lock, as requests, responses, cleanups and killed processes
\* use it, implements OneInteraction.
THEOREM Refinement == Spec => ImplementsOneInteraction
<1>1. Init => Abstract!Init
  BY DEF Init, Abstract!Init
<1>2. ASSUME IInv, [Next]_vars
      PROVE  [Abstract!Next]_Abstract!vars
  <2> USE NoneAssumption
      DEF Abstract!Next, Abstract!vars, Abstract!Own, Abstract!TurnAway,
          Abstract!GiveUp, IInv, WaitingStatus, Waiting, BlockHeld
  <2>1. CASE UNCHANGED vars
    BY <2>1 DEF vars
  <2>2. ASSUME NEW r \in Requests, Refuse(r)
        PROVE  Abstract!TurnAway(r)
    BY <1>2, <2>2, RefusedStay DEF Refuse, Starting, Results, LockGivenBack
  <2>3. ASSUME NEW r \in Requests, ComposeFails(r)
        PROVE  Abstract!Own(r)
    BY <1>2, <2>3, RefusedStay DEF ComposeFails, Starting, Results
  <2>4. ASSUME NEW r \in Requests, InvokeBroker(r) \/ ShowWebview(r)
        PROVE  Abstract!Own(r)
    BY <2>4 DEF InvokeBroker, ShowWebview, SetStatus
  <2>5. ASSUME NEW r \in Requests, EndWebview(r) \/ NoInstallLink(r)
        PROVE  Abstract!GiveUp(r)
    BY <1>2, <2>5, RefusedStay
       DEF EndWebview, NoInstallLink, Results, WaiterHasLock
  <2>6. ASSUME NEW r \in Requests, EndReplay(r)
        PROVE  Abstract!GiveUp(r) \/ UNCHANGED Abstract!vars
    BY <1>2, <2>6, RefusedStay DEF EndReplay, Results
  <2>7. ASSUME NEW r \in Requests,
               PromptInstall(r) \/ OpenBroker(r) \/ OpenFails(r) \/ ReceiveResponse(r)
        PROVE  UNCHANGED Abstract!vars
    BY <2>7 DEF PromptInstall, OpenBroker, OpenFails, ReceiveResponse, OpenURL, SetStatus
  <2>8. CASE CleanUp
    <3>1. callback \in Requests /\ status[callback] # "completed" /\ lock = callback
      BY <1>2, <2>8 DEF CleanUp, TypeOK, BlocksAreWaiters, WaiterHasLock
    <3>2. Abstract!GiveUp(callback)
      BY <1>2, <2>8, <3>1, RefusedStay DEF CleanUp, Results
    <3>3. QED
      BY <3>1, <3>2
  <2>9. CASE FinishResponse
    <3>1. CASE handling.callback = None
      BY <2>9, <3>1 DEF FinishResponse
    <3>2. CASE handling.callback # None
      <4> DEFINE r == handling.callback
      <4>1. r \in Requests /\ status[r] # "completed" /\ lock = r
        BY <1>2, <2>9, <3>2
           DEF FinishResponse, TypeOK, Handling, BlocksAreWaiters, WaiterHasLock
      <4>2. CASE SetStatus(r, "replaying")
        BY <2>9, <3>2, <4>1, <4>2 DEF FinishResponse, SetStatus
      <4>3. CASE lock' = None /\ Complete(r, IF handling.accepted THEN "answered"
                                             ELSE "badResponse")
        BY <1>2, <4>1, <4>3, RefusedStay DEF Results
      <4>4. QED
        BY <2>9, <3>2, <4>2, <4>3 DEF FinishResponse
    <3>3. QED
      BY <3>1, <3>2
  <2>10. CASE Interrupt \/ LeaveApp \/ EnterForeground \/ BecomeActive
               \/ TakeInterrupted \/ Launch
    BY <2>10 DEF Interrupt, LeaveApp, EnterForeground, BecomeActive,
                 TakeInterrupted, Launch
  <2>11. CASE Kill
    BY <1>2, <2>11 DEF Kill, TypeOK
  <2>12. QED
    BY <1>2, <2>1, <2>2, <2>3, <2>4, <2>5, <2>6, <2>7, <2>8, <2>9, <2>10, <2>11
       DEF Next, RequestStep, LifeCycle
<1>3. QED
  BY <1>1, <1>2, IInvAlways, PTL DEF Spec, Abstract!Spec, ImplementsOneInteraction
=============================================================================
