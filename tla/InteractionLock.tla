-------------------------- MODULE InteractionLock ---------------------------
(***************************************************************************)
(* The interaction lock of ADAuthenticationRequest and the method that     *)
(* takes it, -requestTokenImpl:.  The lock is two pieces of static state   *)
(* that are not updated together: the dispatch semaphore s_interactionLock *)
(* and the pointer s_modalRequest.  Every request runs on a queue of its   *)
(* own, so each of the two updates is a step here.                         *)
(*                                                                         *)
(* What the webview, the broker and the silent handler do while a request  *)
(* waits for them is left open.  They answer, in one way or another, with  *)
(* one exception: when iOS does not open the app that is to answer, nobody *)
(* need ever call the completion block.                                    *)
(***************************************************************************)
EXTENDS Integers

CONSTANTS
    Requests,  \* ADAuthenticationRequest objects, each started once
    None       \* nil

ASSUME NoneAssumption == None \notin Requests

VARIABLES
    semaphore,     \* the value of s_interactionLock
    modalRequest,  \* s_modalRequest
    pc,            \* where each request is in -requestTokenImpl:
    route          \* the branch it took: the broker or the webview

vars == <<semaphore, modalRequest, pc, route>>

\* The semaphore has been taken and not signalled yet.  A "switched" request has
\* opened another app that is to answer it; a "stranded" one tried in vain.  A
\* "leaked" one has called its completion block and will never signal.
HeldAt == {"locked", "interactive", "switched", "stranded", "replaying",
           "releasing", "leaked"}

\* The completion block has been called.
CompletedAt == {"refused", "leaked", "done"}

Locations == HeldAt \union CompletedAt \union {"idle", "signalled", "replayingFree"}

Holds(r) == pc[r] \in HeldAt
Completed(r) == pc[r] \in CompletedAt

TypeOK ==
    /\ semaphore \in {0, 1}
    /\ modalRequest \in Requests \union {None}
    /\ pc \in [Requests -> Locations]
    /\ route \in [Requests -> {"broker", "webview"}]

\* +initialize creates the semaphore with the value 1.
Init ==
    /\ semaphore = 1
    /\ modalRequest = None
    /\ pc = [r \in Requests |-> "idle"]
    /\ route \in [Requests -> {"broker", "webview"}]

-----------------------------------------------------------------------------
Goto(r, location) == pc' = [pc EXCEPT ![r] = location]

\* Mutant: it is the pointer that is looked at, not the semaphore.
WaitSucceeds_ByPointer(r) ==
    /\ pc[r] = "idle"
    /\ modalRequest = None
    /\ semaphore' = 0
    /\ Goto(r, "locked")
    /\ UNCHANGED <<modalRequest, route>>

\* takeExclusionLock: dispatch_semaphore_wait returns zero.
WaitSucceeds(r) ==
    /\ pc[r] = "idle"
    /\ semaphore > 0
    /\ semaphore' = semaphore - 1
    /\ Goto(r, "locked")
    /\ UNCHANGED <<modalRequest, route>>

\* Mutant: the wait fails for no reason.
WaitFails_Spuriously(r) ==
    /\ pc[r] = "idle"
    /\ Goto(r, "refused")
    /\ UNCHANGED <<semaphore, modalRequest, route>>

\* takeExclusionLock: the wait would block, so the completion block is called
\* with AD_ERROR_UI_MULTLIPLE_INTERACTIVE_REQUESTS.
WaitFails(r) ==
    /\ pc[r] = "idle"
    /\ semaphore = 0
    /\ Goto(r, "refused")
    /\ UNCHANGED <<semaphore, modalRequest, route>>

\* takeExclusionLock: s_modalRequest = self.
SetModal(r) ==
    /\ pc[r] = "locked"
    /\ modalRequest' = r
    /\ Goto(r, "interactive")
    /\ UNCHANGED <<semaphore, route>>

\* Broker branch: composeBrokerRequest returns nil and the method returns
\* straight after calling the completion block.
ComposeFails(r) ==
    /\ pc[r] = "interactive"
    /\ route[r] = "broker"
    /\ Goto(r, "leaked")
    /\ UNCHANGED <<semaphore, modalRequest, route>>

\* The completion block is with ADBrokerNotificationManager and openURL has been
\* called: of the broker (invokeBroker:), or, by the webview branch, of the App
\* Store (promptBrokerInstall:).  Nobody looks at what openURL returns.
OpenApp(r) ==
    /\ pc[r] = "interactive"
    /\ Goto(r, "switched") \/ Goto(r, "stranded")
    /\ UNCHANGED <<semaphore, modalRequest, route>>

\* The request waits for its completion block to be called: by the webview, or,
\* once openURL was called, by a response or a return of the app.  A return may
\* end the wait of a stranded request too, but need not come.
Waiting(r) ==
    \/ pc[r] = "interactive" /\ route[r] = "webview"
    \/ pc[r] \in {"switched", "stranded"}

\* The completion block is called and enters releaseExclusionLock.
Answered(r) ==
    /\ Waiting(r)
    /\ Goto(r, "releasing")
    /\ UNCHANGED <<semaphore, modalRequest, route>>

\* Webview branch: the result has a refresh token and no access token, so the
\* silent handler runs once more, with the lock still held.
AnsweredWithoutAccessToken(r) ==
    /\ Waiting(r)
    /\ route[r] = "webview"
    /\ Goto(r, "replaying")
    /\ UNCHANGED <<semaphore, modalRequest, route>>

\* Mutant: the end of the replay calls the app without giving the lock back.
Replayed_NotReleased(r) ==
    /\ pc[r] = "replaying"
    /\ Goto(r, "done")
    /\ UNCHANGED <<semaphore, modalRequest, route>>

\* Webview branch: the replay is over and releaseExclusionLock is entered.
Replayed(r) ==
    /\ pc[r] = "replaying"
    /\ Goto(r, "releasing")
    /\ UNCHANGED <<semaphore, modalRequest, route>>

\* releaseExclusionLock: dispatch_semaphore_signal.
Signal(r) ==
    /\ pc[r] = "releasing"
    /\ semaphore' = semaphore + 1
    /\ Goto(r, "signalled")
    /\ UNCHANGED <<modalRequest, route>>

\* Mutant: the pointer is left alone.
ClearModal_Forgets(r) ==
    /\ pc[r] = "signalled"
    /\ Goto(r, "done")
    /\ UNCHANGED <<semaphore, modalRequest, route>>

\* releaseExclusionLock: s_modalRequest = nil, and the completion block.  The
\* broker branch may replay the refresh token first, without the lock.
ClearModal(r) ==
    /\ pc[r] = "signalled"
    /\ modalRequest' = None
    /\ \/ Goto(r, "done")
       \/ route[r] = "broker" /\ Goto(r, "replayingFree")
    /\ UNCHANGED <<semaphore, route>>

\* Broker branch: the replay is over and its result goes to the caller.
ReplayedFree(r) ==
    /\ pc[r] = "replayingFree"
    /\ Goto(r, "done")
    /\ UNCHANGED <<semaphore, modalRequest, route>>

Step(r) ==
    \/ WaitSucceeds(r) \/ WaitFails(r) \/ SetModal(r)
    \/ ComposeFails(r) \/ OpenApp(r)
    \/ Answered(r) \/ AnsweredWithoutAccessToken(r) \/ Replayed(r)
    \/ Signal(r) \/ ClearModal(r) \/ ReplayedFree(r)

Next == \E r \in Requests : Step(r)

Spec == Init /\ [][Next]_vars

\* A request that was dispatched runs on; the webview, an app that was opened and
\* the server answer or are left in the end.  Nothing obliges an app to start a
\* request, nor anybody to end the wait of a stranded one.
Fairness ==
    \A r \in Requests : WF_vars(pc[r] \notin {"idle", "stranded"} /\ Step(r))

FairSpec == Spec /\ Fairness

-----------------------------------------------------------------------------
\* No two requests are between taking the lock and signalling it, whichever
\* branch they took and wherever they are in it: two requests never prompt the
\* user at once (takeExclusionLock, releaseExclusionLock).
Exclusion ==
    \A r, q \in Requests : Holds(r) /\ Holds(q) => r = q

\* The semaphore is free exactly when nobody holds it: no branch of
\* requestTokenImpl signals twice, or signals for another request.
SemaphoreAccounted ==
    (semaphore = 0) <=> \E r \in Requests : Holds(r)

\* +currentModalRequest never returns a request that is over, except the one that
\* keeps the lock for good: the late "s_modalRequest = nil" can lose the pointer
\* of the next request, but cannot bring an old one back.
ModalNeverStale ==
    \A r \in Requests : modalRequest = r =>
        \/ ~Completed(r) /\ (Holds(r) \/ pc[r] = "signalled")
        \/ pc[r] = "leaked" /\ semaphore = 0

\* The inductive invariant.  The type of the semaphore needs the accounting (a
\* signal brings it back to one only if it was zero), and the accounting needs
\* the exclusion (one signal frees the lock only if there is one holder).
IInv ==
    /\ TypeOK
    /\ Exclusion
    /\ SemaphoreAccounted
    /\ ModalNeverStale

\* The statements of the two static variables together implement the abstract
\* exclusion: the owner is whoever holds the semaphore.
Owner ==
    IF \E r \in Requests : Holds(r)
    THEN CHOOSE r \in Requests : Holds(r)
    ELSE None

Abstract == INSTANCE OneInteraction
    WITH owner <- Owner, turnedAway <- {r \in Requests : pc[r] = "refused"}

ImplementsOneInteraction == Abstract!Spec

\* Every interaction ends, and with it the hold of the lock.  A request that
\* showed the webview, or opened another app, calls its completion block, replay
\* included, unless the app it meant to open was not opened; and the semaphore
\* comes back through every branch but that one and the leak.
EveryInteractionEnds ==
    /\ \A r \in Requests :
          pc[r] = "locked" /\ route[r] = "webview" ~> pc[r] \in {"done", "stranded"}
    /\ \A r \in Requests : pc[r] = "switched" ~> pc[r] = "done"
    /\ semaphore = 0
          ~> semaphore = 1 \/ \E r \in Requests : pc[r] \in {"stranded", "leaked"}

=============================================================================
