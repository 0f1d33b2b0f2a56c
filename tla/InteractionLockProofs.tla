----------------------- MODULE InteractionLockProofs ------------------------
(***************************************************************************)
(* For every set of requests: the interaction lock keeps its inductive     *)
(* invariant, and implements OneInteraction.                               *)
(***************************************************************************)
EXTENDS InteractionLock, TLAPS

USE DEF Goto, Holds, Completed, HeldAt, CompletedAt, Locations

\* A step that neither takes nor signals the semaphore, nor touches
\* s_modalRequest, keeps the invariant if it leaves the request on the same
\* side of the lock.
LEMMA LocalStepKeepsIInv ==
    ASSUME IInv, NEW r \in Requests, NEW location \in Locations,
           pc' = [pc EXCEPT ![r] = location],
           UNCHANGED <<semaphore, modalRequest, route>>,
           Holds(r) <=> location \in HeldAt,
           pc[r] # "signalled"
    PROVE  IInv'
<1>1. /\ pc[r] \in Locations
      /\ \A q \in Requests : pc'[q] = IF q = r THEN location ELSE pc[q]
  BY DEF IInv, TypeOK
<1>2. \A q \in Requests : Holds(q)' <=> Holds(q)
  BY <1>1
<1>3. TypeOK'
  BY DEF IInv, TypeOK
<1>4. Exclusion' /\ SemaphoreAccounted'
  BY <1>2 DEF IInv, Exclusion, SemaphoreAccounted
<1>5. ASSUME NEW q \in Requests, modalRequest' = q
      PROVE  \/ ~Completed(q)' /\ (Holds(q)' \/ pc'[q] = "signalled")
             \/ pc'[q] = "leaked" /\ semaphore' = 0
  <2>1. CASE q = r
    <3>1. Holds(r)
      BY <1>5, <2>1 DEF IInv, ModalNeverStale
    <3>2. location \in HeldAt /\ semaphore' = 0
      BY <3>1, <1>2, <1>3, <1>4 DEF SemaphoreAccounted, TypeOK
    <3>3. QED
      BY <1>1, <2>1, <3>2
  <2>2. CASE q # r
    BY <1>1, <1>5, <2>2 DEF IInv, ModalNeverStale
  <2>3. QED
    BY <2>1, <2>2
<1>6. ModalNeverStale'
  BY <1>5 DEF ModalNeverStale
<1>7. QED
  BY <1>3, <1>4, <1>6 DEF IInv

\* The initial state satisfies the inductive invariant.
LEMMA InitIInv == Init => IInv
BY NoneAssumption
   DEF Init, IInv, TypeOK, Exclusion, SemaphoreAccounted, ModalNeverStale

\* Every step of every request keeps the inductive invariant.
LEMMA NextIInv == IInv /\ [Next]_vars => IInv'
<1> SUFFICES ASSUME IInv, [Next]_vars
             PROVE  IInv'
  OBVIOUS
<1>1. CASE UNCHANGED vars
  BY <1>1 DEF vars, IInv, TypeOK, Exclusion, SemaphoreAccounted, ModalNeverStale
<1>2. ASSUME NEW r \in Requests, WaitSucceeds(r)
      PROVE  IInv'
  <2>1. /\ semaphore = 1 /\ semaphore' = 0
        /\ pc' = [pc EXCEPT ![r] = "locked"]
        /\ UNCHANGED <<modalRequest, route>>
    BY <1>2 DEF WaitSucceeds, IInv, TypeOK
  <2>2. \A q \in Requests : pc'[q] = IF q = r THEN "locked" ELSE pc[q]
    BY <2>1 DEF IInv, TypeOK
  <2>3. \A q \in Requests : ~Holds(q)
    BY <2>1 DEF IInv, SemaphoreAccounted
  <2>4. TypeOK'
    BY <2>1 DEF IInv, TypeOK
  <2>5. Exclusion' /\ SemaphoreAccounted'
    BY <2>1, <2>2, <2>3 DEF Exclusion, SemaphoreAccounted
  <2>6. ModalNeverStale'
    BY <2>1, <2>2 DEF IInv, ModalNeverStale
  <2>7. QED
    BY <2>4, <2>5, <2>6 DEF IInv
<1>3. ASSUME NEW r \in Requests, SetModal(r)
      PROVE  IInv'
  <2>1. /\ pc[r] = "locked"
        /\ modalRequest' = r
        /\ pc' = [pc EXCEPT ![r] = "interactive"]
        /\ UNCHANGED <<semaphore, route>>
    BY <1>3 DEF SetModal
  <2>2. \A q \in Requests : pc'[q] = IF q = r THEN "interactive" ELSE pc[q]
    BY <2>1 DEF IInv, TypeOK
  <2>3. \A q \in Requests : Holds(q)' <=> Holds(q)
    BY <2>1, <2>2
  <2>4. TypeOK'
    BY <2>1 DEF IInv, TypeOK
  <2>5. Exclusion' /\ SemaphoreAccounted'
    BY <2>1, <2>3 DEF IInv, Exclusion, SemaphoreAccounted
  <2>6. ModalNeverStale'
    BY <2>1, <2>2 DEF ModalNeverStale
  <2>7. QED
    BY <2>4, <2>5, <2>6 DEF IInv
<1>4. ASSUME NEW r \in Requests, Signal(r)
      PROVE  IInv'
  <2>1. /\ pc[r] = "releasing"
        /\ semaphore = 0 /\ semaphore' = 1
        /\ pc' = [pc EXCEPT ![r] = "signalled"]
        /\ UNCHANGED <<modalRequest, route>>
    BY <1>4 DEF Signal, IInv, TypeOK, SemaphoreAccounted
  <2>2. \A q \in Requests : pc'[q] = IF q = r THEN "signalled" ELSE pc[q]
    BY <2>1 DEF IInv, TypeOK
  <2>3. \A q \in Requests : ~Holds(q)'
    BY <2>1, <2>2 DEF IInv, Exclusion
  <2>4. TypeOK'
    BY <2>1 DEF IInv, TypeOK
  <2>5. Exclusion' /\ SemaphoreAccounted'
    BY <2>1, <2>3 DEF Exclusion, SemaphoreAccounted
  <2>6. ASSUME NEW q \in Requests, modalRequest = q
        PROVE  pc'[q] = "signalled"
    <3>1. Holds(q) \/ pc[q] = "signalled"
      BY <2>6 DEF IInv, ModalNeverStale
    <3>2. Holds(q) => q = r
      BY <2>1 DEF IInv, Exclusion
    <3>3. QED
      BY <2>2, <3>1, <3>2
  <2>7. ModalNeverStale'
    BY <2>1, <2>6 DEF ModalNeverStale
  <2>8. QED
    BY <2>4, <2>5, <2>7 DEF IInv
<1>5. ASSUME NEW r \in Requests, ClearModal(r)
      PROVE  IInv'
  <2>1. PICK location \in {"done", "replayingFree"} :
          /\ pc[r] = "signalled"
          /\ modalRequest' = None
          /\ pc' = [pc EXCEPT ![r] = location]
          /\ UNCHANGED <<semaphore, route>>
    BY <1>5 DEF ClearModal
  <2>2. \A q \in Requests : pc'[q] = IF q = r THEN location ELSE pc[q]
    BY <2>1 DEF IInv, TypeOK
  <2>3. \A q \in Requests : Holds(q)' <=> Holds(q)
    BY <2>1, <2>2
  <2>4. TypeOK'
    BY <2>1 DEF IInv, TypeOK
  <2>5. Exclusion' /\ SemaphoreAccounted'
    BY <2>1, <2>3 DEF IInv, Exclusion, SemaphoreAccounted
  <2>6. ModalNeverStale'
    BY <2>1, NoneAssumption DEF ModalNeverStale
  <2>7. QED
    BY <2>4, <2>5, <2>6 DEF IInv
<1>6. ASSUME NEW r \in Requests, WaitFails(r)
      PROVE  IInv'
  BY <1>6, LocalStepKeepsIInv DEF WaitFails
<1>7. ASSUME NEW r \in Requests, ComposeFails(r)
      PROVE  IInv'
  BY <1>7, LocalStepKeepsIInv DEF ComposeFails
<1>8. ASSUME NEW r \in Requests,
             Answered(r) \/ AnsweredWithoutAccessToken(r) \/ Replayed(r)
      PROVE  IInv'
  BY <1>8, LocalStepKeepsIInv
     DEF Answered, AnsweredWithoutAccessToken, Replayed, Waiting
<1>9. ASSUME NEW r \in Requests, ReplayedFree(r)
      PROVE  IInv'
  BY <1>9, LocalStepKeepsIInv DEF ReplayedFree
<1>10. ASSUME NEW r \in Requests, OpenApp(r)
      PROVE  IInv'
  BY <1>10, LocalStepKeepsIInv DEF OpenApp
<1>11. QED
  BY <1>1, <1>2, <1>3, <1>4, <1>5, <1>6, <1>7, <1>8, <1>9, <1>10 DEF Next, Step

-----------------------------------------------------------------------------
\* IInv holds in every state of every behaviour.
THEOREM IInvAlways == Spec => []IInv
BY InitIInv, NextIInv, PTL DEF Spec

\* Two requests never prompt the user at once.
THEOREM MutualExclusion == Spec => []Exclusion
<1>1. IInv => Exclusion
  BY DEF IInv
<1>2. QED
  BY <1>1, IInvAlways, PTL

\* The semaphore is taken exactly while some request has it.
THEOREM SemaphoreAlwaysAccounted == Spec => []SemaphoreAccounted
<1>1. IInv => SemaphoreAccounted
  BY DEF IInv
<1>2. QED
  BY <1>1, IInvAlways, PTL

\* +currentModalRequest never returns a request that has finished, except one
\* that could not be composed and has kept the lock as well.
THEOREM ModalNeverFinished == Spec => []ModalNeverStale
<1>1. IInv => ModalNeverStale
  BY DEF IInv
<1>2. QED
  BY <1>1, IInvAlways, PTL

-----------------------------------------------------------------------------
\* The owner of the abstract specification is the one holder.
LEMMA OwnerIsHolder ==
    ASSUME IInv
    PROVE  /\ \A r \in Requests : Holds(r) => Owner = r
           /\ (\A r \in Requests : ~Holds(r)) => Owner = None
<1>1. ASSUME NEW r \in Requests, Holds(r)
      PROVE  Owner = r
  <2>1. \A q \in Requests : Holds(q) => q = r
    BY <1>1 DEF IInv, Exclusion
  <2>2. QED
    BY <1>1, <2>1 DEF Owner
<1>2. QED
  BY <1>1 DEF Owner

\* Every statement of the lock is a step of OneInteraction or changes nothing
\* that OneInteraction shows.
THEOREM Refinement == Spec => ImplementsOneInteraction
<1>1. Init => Abstract!Init
  BY DEF Init, Abstract!Init, Owner
<1>2. ASSUME IInv, IInv', [Next]_vars
      PROVE  [Abstract!Next]_Abstract!vars
  <2>0. pc \in [Requests -> Locations]
    BY <1>2 DEF IInv, TypeOK
  <2>1. CASE UNCHANGED vars
    BY <2>1 DEF vars, Abstract!vars, Owner
  <2>2. ASSUME NEW r \in Requests, WaitSucceeds(r)
        PROVE  Abstract!Own(r)
    <3>1. \A q \in Requests : pc'[q] = IF q = r THEN "locked" ELSE pc[q]
      BY <2>0, <2>2 DEF WaitSucceeds
    <3>2. Owner = None
      BY <1>2, <2>2, OwnerIsHolder DEF IInv, SemaphoreAccounted, WaitSucceeds
    <3>3. Owner' = r
      BY <1>2, <3>1, OwnerIsHolder DEF IInv, Exclusion, Owner
    <3>4. UNCHANGED {q \in Requests : pc[q] = "refused"}
      BY <2>2, <3>1 DEF WaitSucceeds
    <3>5. QED
      BY <3>2, <3>3, <3>4 DEF Abstract!Own
  <2>3. ASSUME NEW r \in Requests, WaitFails(r)
        PROVE  Abstract!TurnAway(r)
    <3>1. \A q \in Requests : pc'[q] = IF q = r THEN "refused" ELSE pc[q]
      BY <2>0, <2>3 DEF WaitFails
    <3>2. PICK h \in Requests : Holds(h)
      BY <1>2, <2>3 DEF WaitFails, IInv, SemaphoreAccounted
    <3>3. Owner = h /\ h # r
      BY <1>2, <2>3, <3>2, OwnerIsHolder DEF WaitFails
    <3>4. Owner' = h
      BY <1>2, <3>1, <3>2, <3>3 DEF IInv, Exclusion, Owner
    <3>5. {q \in Requests : pc[q] = "refused"}'
            = {q \in Requests : pc[q] = "refused"} \union {r}
      BY <3>1
    <3>6. QED
      BY <3>3, <3>4, <3>5, NoneAssumption DEF Abstract!TurnAway
  <2>4. ASSUME NEW r \in Requests, Signal(r)
        PROVE  Abstract!GiveUp(r)
    <3>1. \A q \in Requests : pc'[q] = IF q = r THEN "signalled" ELSE pc[q]
      BY <2>0, <2>4 DEF Signal
    <3>2. Owner = r
      BY <1>2, <2>4, OwnerIsHolder DEF Signal
    <3>3. Owner' = None
      BY <1>2, <2>4, <3>1 DEF IInv, Exclusion, Signal, Owner
    <3>4. UNCHANGED {q \in Requests : pc[q] = "refused"}
      BY <2>4, <3>1 DEF Signal
    <3>5. QED
      BY <3>2, <3>3, <3>4 DEF Abstract!GiveUp
  <2>5. ASSUME NEW r \in Requests,
               SetModal(r) \/ ComposeFails(r) \/ OpenApp(r) \/ Answered(r)
                 \/ AnsweredWithoutAccessToken(r) \/ Replayed(r)
                 \/ ClearModal(r) \/ ReplayedFree(r)
        PROVE  UNCHANGED Abstract!vars
    <3>1. PICK location \in Locations \ {"refused"} :
            /\ pc' = [pc EXCEPT ![r] = location]
            /\ Holds(r) <=> location \in HeldAt
            /\ pc[r] # "refused"
      BY <2>5 DEF SetModal, ComposeFails, OpenApp, Waiting, Answered,
                  AnsweredWithoutAccessToken, Replayed, ClearModal, ReplayedFree
    <3>2. \A q \in Requests : pc'[q] = IF q = r THEN location ELSE pc[q]
      BY <2>0, <3>1
    <3>3. \A q \in Requests : Holds(q)' <=> Holds(q)
      BY <3>1, <3>2
    <3>4. UNCHANGED Owner
      BY <3>3 DEF Owner
    <3>5. UNCHANGED {q \in Requests : pc[q] = "refused"}
      BY <3>1, <3>2
    <3>6. QED
      BY <3>4, <3>5 DEF Abstract!vars
  <2>6. QED
    BY <1>2, <2>1, <2>2, <2>3, <2>4, <2>5 DEF Next, Step, Abstract!Next
<1>3. QED
  BY <1>1, <1>2, IInvAlways, PTL DEF Spec, Abstract!Spec, ImplementsOneInteraction
=============================================================================
