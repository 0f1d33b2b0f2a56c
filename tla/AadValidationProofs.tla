------------------------ MODULE AadValidationProofs -------------------------
(***************************************************************************)
(* For every set of callers and of hosts: the validation of AAD            *)
(* authorities keeps its inductive invariant, and implements SingleFlight; *)
(* and nobody who waits in its queue is stuck or overtaken.                *)
(***************************************************************************)
EXTENDS AadValidation, TLAPS

USE NoneAssumption, HostOfAssumption DEF Goto, Set, Known

LEMMA OutcomeType ==
    ASSUME TypeOK, NEW c \in Callers, NEW a \in Answers
    PROVE  Outcome(c, a) \in Results /\ Outcome(c, a) # "none"
BY DEF Outcome, Answers, Results

LEMMA KnownAnswer ==
    ASSUME TypeOK, CacheIsTrue, NEW c \in Callers, Known(c)
    PROVE  /\ cache[HostOf[c]] \in Answers
           /\ cache[HostOf[c]] = "valid" => HostOf[c] \in instances
           /\ cache[HostOf[c]] = "invalid" => HostOf[c] \notin instances
BY DEF TypeOK, CacheIsTrue, Records, Answers

LEMMA InitIInv == Init => IInv
BY DEF Init, IInv, TypeOK, CacheIsTrue, QueueMatches, RunningMatches,
       AnswersMatch, Locations, Records

\* A caller that is answered on its own thread was not in the queue.
LEMMA OwnThreadKeepsIInv ==
    ASSUME IInv, NEW c \in Callers, NEW a \in Answers,
           pc[c] = "idle",
           a = "valid" => HostOf[c] \in instances,
           a = "invalid" => HostOf[c] \notin instances,
           Set(c, a), Complete(c, a),
           UNCHANGED <<cache, queue, running, dsem, validate, instances, learned>>
    PROVE  IInv'
<1>1. /\ \A d \in Callers : pc'[d] = IF d = c THEN "done" ELSE pc[d]
      /\ \A d \in Callers : answer'[d] = IF d = c THEN a ELSE answer[d]
      /\ \A d \in Callers : result'[d] = IF d = c THEN Outcome(c, a) ELSE result[d]
  BY DEF IInv, TypeOK, Complete
<1>2. Outcome(c, a) \in Results /\ Outcome(c, a) # "none"
  BY OutcomeType DEF IInv
<1>3. TypeOK'
  BY <1>2 DEF IInv, TypeOK, Complete, Locations
<1>4. CacheIsTrue'
  BY DEF IInv, CacheIsTrue
<1>5. QueueMatches'
  BY <1>1 DEF IInv, QueueMatches, TypeOK
<1>6. RunningMatches'
  BY <1>1 DEF IInv, RunningMatches, TypeOK, Answers
<1>7. AnswersMatch'
  BY <1>1, <1>2 DEF IInv, AnswersMatch, Outcome, Answers
<1>8. QED
  BY <1>3, <1>4, <1>5, <1>6, <1>7 DEF IInv

\* The answer is dispatched by the block that runs.
LEMMA DispatchKeepsIInv ==
    ASSUME IInv, NEW c \in Callers, NEW a \in Answers,
           pc[c] \in {"running", "requested"},
           a = "valid" => HostOf[c] \in instances,
           a = "invalid" => HostOf[c] \notin instances,
           Dispatch(c, a), TypeOK', CacheIsTrue',
           UNCHANGED <<queue, running, dsem, validate, instances>>
    PROVE  IInv'
<1>1. /\ \A d \in Callers : pc'[d] = IF d = c THEN "dispatched" ELSE pc[d]
      /\ \A d \in Callers : answer'[d] = IF d = c THEN a ELSE answer[d]
      /\ result' = result
  BY DEF IInv, TypeOK, Dispatch
<1>2. \A d \in Callers : pc'[d] # "requested"
  BY <1>1 DEF IInv, RunningMatches
<1>3. QueueMatches'
  BY <1>1 DEF IInv, QueueMatches, TypeOK
<1>4. RunningMatches'
  BY <1>1 DEF IInv, RunningMatches, TypeOK, Answers
<1>5. AnswersMatch'
  BY <1>1, <1>2 DEF IInv, AnswersMatch, Outcome, Answers
<1>6. QED
  BY <1>3, <1>4, <1>5 DEF IInv

LEMMA NextIInv == IInv /\ [Next]_vars => IInv'
<1> SUFFICES ASSUME IInv, [Next]_vars
             PROVE  IInv'
  OBVIOUS
<1>1. CASE UNCHANGED vars
  BY <1>1 DEF vars, IInv, TypeOK, CacheIsTrue, QueueMatches, RunningMatches,
              AnswersMatch, Outcome
<1>2. ASSUME NEW c \in Callers, BadArgument(c)
      PROVE  IInv'
  BY <1>2, OwnThreadKeepsIInv DEF BadArgument, Answers
<1>3. ASSUME NEW c \in Callers, FindRecord(c)
      PROVE  IInv'
  BY <1>3, KnownAnswer, OwnThreadKeepsIInv DEF FindRecord, IInv
<1>4. ASSUME NEW c \in Callers, Enqueue(c)
      PROVE  IInv'
  <2>1. /\ pc[c] = "idle"
        /\ \A d \in Callers : pc'[d] = IF d = c THEN "queued" ELSE pc[d]
        /\ queue' = Append(queue, c)
        /\ UNCHANGED <<cache, running, dsem, answer, result, validate, instances,
                       learned>>
    BY <1>4 DEF Enqueue, IInv, TypeOK
  <2>2. /\ queue' \in Seq(Callers)
        /\ Len(queue') = Len(queue) + 1
        /\ \A i \in 1 .. Len(queue') :
             queue'[i] = IF i = Len(queue) + 1 THEN c ELSE queue[i]
    BY <2>1 DEF IInv, TypeOK
  <2>3. TypeOK'
    BY <1>4, <2>1, <2>2 DEF Enqueue, IInv, TypeOK, Locations
  <2>4. CacheIsTrue'
    BY <2>1 DEF IInv, CacheIsTrue
  <2>5. QueueMatches'
    BY <2>1, <2>2 DEF IInv, QueueMatches, TypeOK
  <2>6. RunningMatches'
    BY <2>1 DEF IInv, RunningMatches, TypeOK
  <2>7. AnswersMatch'
    BY <2>1 DEF IInv, AnswersMatch, Outcome
  <2>8. QED
    BY <2>3, <2>4, <2>5, <2>6, <2>7 DEF IInv
<1>5. ASSUME RunBlock
      PROVE  IInv'
  <2> DEFINE c == Head(queue)
  <2>1. /\ c \in Callers /\ c = queue[1]
        /\ queue' \in Seq(Callers)
        /\ Len(queue) >= 1 /\ Len(queue') = Len(queue) - 1
        /\ \A i \in 1 .. Len(queue') : queue'[i] = queue[i + 1]
    BY <1>5 DEF RunBlock, IInv, TypeOK
  <2>2. pc[c] = "queued"
    BY <2>1 DEF IInv, QueueMatches, TypeOK
  <2>3. /\ running = None /\ running' = c /\ dsem' = 0
        /\ \A d \in Callers : pc'[d] = IF d = c THEN "running" ELSE pc[d]
        /\ UNCHANGED <<cache, answer, result, validate, instances, learned>>
    BY <1>5, <2>1 DEF RunBlock, IInv, TypeOK
  <2>4. TypeOK'
    BY <1>5, <2>1 DEF RunBlock, IInv, TypeOK, Locations
  <2> HIDE DEF c
  <2>5. CacheIsTrue'
    BY <2>3 DEF IInv, CacheIsTrue
  <2>6. QueueMatches'
    <3>1. \A i \in 1 .. Len(queue') : i + 1 \in 1 .. Len(queue) /\ i + 1 # 1
      BY <2>1
    <3>2. \A i \in 1 .. Len(queue') : queue'[i] \in Callers /\ queue'[i] # c
      BY <2>1, <3>1 DEF IInv, QueueMatches, TypeOK
    <3>3. \A i \in 1 .. Len(queue') : pc'[queue'[i]] = "queued"
      <4> SUFFICES ASSUME NEW i \in 1 .. Len(queue')
                   PROVE  pc'[queue'[i]] = "queued"
        OBVIOUS
      <4>1. pc'[queue'[i]] = pc[queue'[i]]
        BY <2>3, <3>2
      <4>2. queue'[i] = queue[i + 1]
        BY <2>1
      <4>3. pc[queue[i + 1]] = "queued"
        BY <3>1 DEF IInv, QueueMatches
      <4>4. QED
        BY <4>1, <4>2, <4>3
    <3>4. \A i, j \in 1 .. Len(queue') : queue'[i] = queue'[j] => i = j
      BY <2>1, <3>1 DEF IInv, QueueMatches
    <3>5. QED
      BY <3>3, <3>4 DEF QueueMatches
  <2>7. RunningMatches'
    BY <2>1, <2>3 DEF IInv, RunningMatches, TypeOK
  <2>8. AnswersMatch'
    BY <2>1, <2>2, <2>3 DEF IInv, AnswersMatch, Outcome
  <2>9. QED
    BY <2>4, <2>5, <2>6, <2>7, <2>8 DEF IInv
<1>6. ASSUME NEW c \in Callers, BadAuthority(c) \/ DiscoveryFails(c)
      PROVE  IInv'
  <2>1. TypeOK' /\ CacheIsTrue'
    BY <1>6 DEF BadAuthority, DiscoveryFails, Dispatch, IInv, TypeOK,
                CacheIsTrue, Locations, Answers
  <2>2. QED
    BY <1>6, <2>1, DispatchKeepsIInv DEF BadAuthority, DiscoveryFails, Answers
<1>7. ASSUME NEW c \in Callers, FindRecordAgain(c)
      PROVE  IInv'
  <2>1. cache[HostOf[c]] \in Answers
    BY <1>7, KnownAnswer DEF FindRecordAgain, IInv
  <2>2. TypeOK' /\ CacheIsTrue'
    BY <1>7, <2>1 DEF FindRecordAgain, Dispatch, IInv, TypeOK, CacheIsTrue, Locations
  <2>3. QED
    BY <1>7, <2>1, <2>2, KnownAnswer, DispatchKeepsIInv DEF FindRecordAgain, IInv
<1>8. ASSUME NEW c \in Callers, InvalidInstance(c)
      PROVE  IInv'
  <2>1. HostOf[c] \in Hosts
    OBVIOUS
  <2>2. TypeOK'
    BY <1>8, <2>1 DEF InvalidInstance, Dispatch, IInv, TypeOK, Locations, Records, Answers
  <2>3. CacheIsTrue'
    BY <1>8, <2>1 DEF InvalidInstance, IInv, CacheIsTrue, TypeOK
  <2>4. QED
    BY <1>8, <2>2, <2>3, DispatchKeepsIInv DEF InvalidInstance, Answers
<1>9. ASSUME NEW c \in Callers, ProcessMetadata(c)
      PROVE  IInv'
  <2>1. PICK listed \in SUBSET instances :
          /\ cache' = [h \in Hosts |->
                        IF h = HostOf[c] \/ h \in listed THEN "valid" ELSE cache[h]]
          /\ learned' = learned \union listed \union {HostOf[c]}
    BY <1>9 DEF ProcessMetadata
  <2>2. HostOf[c] \in Hosts /\ HostOf[c] \in instances
    BY <1>9 DEF ProcessMetadata
  <2>3. cache' \in [Hosts -> Records] /\ learned' \subseteq Hosts
    BY <2>1, <2>2 DEF IInv, TypeOK, Records
  <2>4. TypeOK'
    BY <1>9, <2>3 DEF ProcessMetadata, Dispatch, IInv, TypeOK, Locations, Answers
  <2>5. CacheIsTrue'
    BY <1>9, <2>1, <2>2 DEF ProcessMetadata, IInv, CacheIsTrue, TypeOK
  <2>6. QED
    BY <1>9, <2>4, <2>5, DispatchKeepsIInv DEF ProcessMetadata, Answers
<1>10. ASSUME NEW c \in Callers, SendDiscovery(c)
       PROVE  IInv'
  <2>1. /\ pc[c] = "running" /\ ~Known(c)
        /\ \A d \in Callers : pc'[d] = IF d = c THEN "requested" ELSE pc[d]
        /\ UNCHANGED <<cache, queue, running, dsem, answer, result, validate,
                       instances, learned>>
    BY <1>10 DEF SendDiscovery, IInv, TypeOK
  <2>2. TypeOK'
    BY <1>10 DEF SendDiscovery, IInv, TypeOK, Locations
  <2>3. CacheIsTrue'
    BY <2>1 DEF IInv, CacheIsTrue
  <2>4. QueueMatches'
    BY <2>1 DEF IInv, QueueMatches, TypeOK
  <2>5. RunningMatches'
    BY <2>1 DEF IInv, RunningMatches, TypeOK
  <2>6. AnswersMatch'
    BY <2>1 DEF IInv, AnswersMatch, Outcome
  <2>7. QED
    BY <2>2, <2>3, <2>4, <2>5, <2>6 DEF IInv
<1>11. CASE Signal \/ BlockReturns
  BY <1>11 DEF Signal, BlockReturns, IInv, TypeOK, CacheIsTrue, QueueMatches,
               RunningMatches, AnswersMatch, Outcome
<1>12. ASSUME NEW c \in Callers, Deliver(c)
       PROVE  IInv'
  <2>1. answer[c] \in Answers
    BY <1>12 DEF Deliver, IInv, TypeOK, AnswersMatch
  <2>2. Outcome(c, answer[c]) \in Results /\ Outcome(c, answer[c]) # "none"
    BY <2>1, OutcomeType DEF IInv
  <2>3. /\ pc[c] = "dispatched"
        /\ \A d \in Callers : pc'[d] = IF d = c THEN "done" ELSE pc[d]
        /\ \A d \in Callers :
             result'[d] = IF d = c THEN Outcome(c, answer[c]) ELSE result[d]
        /\ UNCHANGED <<cache, queue, running, dsem, answer, validate, instances,
                       learned>>
    BY <1>12 DEF Deliver, Complete, IInv, TypeOK
  <2>4. TypeOK'
    BY <1>12, <2>2 DEF Deliver, Complete, IInv, TypeOK, Locations
  <2>5. CacheIsTrue'
    BY <2>3 DEF IInv, CacheIsTrue
  <2>6. QueueMatches'
    BY <2>3 DEF IInv, QueueMatches, TypeOK
  <2>7. RunningMatches'
    BY <2>3 DEF IInv, RunningMatches, TypeOK
  <2>8. AnswersMatch'
    BY <2>2, <2>3 DEF IInv, AnswersMatch, Outcome
  <2>9. QED
    BY <2>4, <2>5, <2>6, <2>7, <2>8 DEF IInv
<1>13. QED
  BY <1>1, <1>2, <1>3, <1>4, <1>5, <1>6, <1>7, <1>8, <1>9, <1>10, <1>11, <1>12
     DEF Next, Step

\* The inductive invariant holds in every behaviour of the validation.
THEOREM IInvAlways == Spec => []IInv
BY InitIInv, NextIInv, PTL DEF Spec

\* The serial queue and the semaphore let one validation request out at a time.
THEOREM DiscoveriesInTurn == Spec => []OneDiscovery
<1>1. IInv => OneDiscovery
  BY DEF IInv, RunningMatches, OneDiscovery
<1>2. QED
  BY <1>1, IInvAlways, PTL

\* A caller that validates and is given no error has a valid authority.
THEOREM PassedIsValid == Spec => []NoErrorMeansValid
<1>1. IInv => NoErrorMeansValid
  BY DEF IInv, TypeOK, AnswersMatch, NoErrorMeansValid, Outcome, Answers, Results
<1>2. QED
  BY <1>1, IInvAlways, PTL

\* A caller that does not validate is never stopped by invalid_instance.
THEOREM InvalidIsIgnored == Spec => []NotValidatingIgnores
<1>1. IInv => NotValidatingIgnores
  BY DEF IInv, TypeOK, AnswersMatch, NotValidatingIgnores, Outcome, Answers, Results
<1>2. QED
  BY <1>1, IInvAlways, PTL

\* The endpoint is never asked about a host it has given a verdict on.
THEOREM AskedUntilLearned == Spec => NeverAskedAgain
<1> DEFINE NotAgain == \A c \in Callers :
             pc[c] # "requested" /\ pc'[c] = "requested" => HostOf[c] \notin learned
<1>1. IInv /\ [Next]_vars => [NotAgain]_vars
  <2> SUFFICES ASSUME IInv, Next, NEW d \in Callers,
                      pc[d] # "requested", pc'[d] = "requested"
               PROVE  HostOf[d] \notin learned
    OBVIOUS
  <2>1. \E c \in Callers : SendDiscovery(c)
    BY DEF Next, Step, BadArgument, FindRecord, Enqueue, RunBlock, BadAuthority,
           FindRecordAgain, DiscoveryFails, InvalidInstance, ProcessMetadata,
           Signal, BlockReturns, Deliver, Dispatch, Complete, IInv, TypeOK
  <2>2. SendDiscovery(d)
    BY <2>1 DEF SendDiscovery, IInv, TypeOK
  <2>3. QED
    BY <2>2 DEF SendDiscovery, IInv, CacheIsTrue
<1>2. QED
  BY <1>1, IInvAlways, PTL DEF Spec, NeverAskedAgain

-----------------------------------------------------------------------------
\* The caller whose question is out is the one that waits for the endpoint.
AskingMatches ==
    /\ \A c \in Callers : Asking = c <=> pc[c] = "requested"
    /\ Asking \in Callers \union {None}

LEMMA AskingIsRequested ==
    /\ IInv => AskingMatches
    /\ IInv' => AskingMatches'
BY DEF IInv, TypeOK, RunningMatches, Asking, AskingMatches

LEMMA AskingUnchanged ==
    ASSUME IInv, IInv',
           \A c \in Callers : pc[c] = "requested" <=> pc'[c] = "requested"
    PROVE  Asking' = Asking
<1>1. \A c \in Callers : Asking = c <=> Asking' = c
  BY AskingIsRequested DEF AskingMatches
<1>2. Asking \in Callers \union {None} /\ Asking' \in Callers \union {None}
  BY AskingIsRequested DEF AskingMatches
<1>3. QED
  BY <1>1, <1>2

\* The cache, the serial queue and the semaphore implement SingleFlight.
THEOREM Refinement == Spec => ImplementsSingleFlight
<1>1. Init => Abstract!Init
  BY DEF Init, Abstract!Init, Asking
<1>2. ASSUME IInv, IInv', [Next]_vars
      PROVE  [Abstract!Next]_Abstract!vars
  <2> USE DEF Abstract!vars, Abstract!Tell
  <2>0. /\ pc \in [Callers -> Locations]
        /\ answer \in [Callers -> Answers \union {"none"}]
        /\ cache \in [Hosts -> Records]
    BY <1>2 DEF IInv, TypeOK
  <2>1. CASE UNCHANGED vars
    BY <2>1 DEF vars, Asking
  <2>2. ASSUME NEW c \in Callers, BadArgument(c)
        PROVE  Abstract!Reject(c)
    <3>1. UNCHANGED Asking
      BY <1>2, <2>0, <2>2, AskingUnchanged DEF BadArgument, Complete
    <3>2. Asking # c /\ answer[c] = "none"
      BY <1>2, <2>2, AskingIsRequested DEF AskingMatches, BadArgument, IInv, AnswersMatch
    <3>3. QED
      BY <2>2, <3>1, <3>2 DEF BadArgument, Abstract!Reject
  <2>3. ASSUME NEW c \in Callers, FindRecord(c)
        PROVE  Abstract!TellKnown(c)
    <3>1. UNCHANGED Asking
      BY <1>2, <2>0, <2>3, AskingUnchanged DEF FindRecord, Complete
    <3>2. Asking # c /\ answer[c] = "none"
      BY <1>2, <2>3, AskingIsRequested DEF AskingMatches, FindRecord, IInv, AnswersMatch
    <3>3. cache[HostOf[c]] \in Abstract!Verdicts
      BY <1>2, <2>3, KnownAnswer DEF FindRecord, IInv, Abstract!Verdicts, TypeOK, Records
    <3>4. QED
      BY <2>3, <3>1, <3>2, <3>3 DEF FindRecord, Abstract!TellKnown
  <2>4. ASSUME NEW c \in Callers, Enqueue(c) \/ Deliver(c)
        PROVE  UNCHANGED Abstract!vars
    <3>1. UNCHANGED Asking
      BY <1>2, <2>0, <2>4, AskingUnchanged DEF Enqueue, Deliver, Complete
    <3>2. QED
      BY <2>4, <3>1 DEF Enqueue, Deliver
  <2>5. CASE RunBlock
    <3>1. Head(queue) \in Callers /\ pc[Head(queue)] = "queued"
      BY <1>2, <2>5 DEF RunBlock, IInv, TypeOK, QueueMatches
    <3>2. UNCHANGED Asking
      BY <1>2, <2>0, <2>5, <3>1, AskingUnchanged DEF RunBlock
    <3>3. QED
      BY <2>5, <3>2 DEF RunBlock
  <2>6. CASE Signal \/ BlockReturns
    <3>1. UNCHANGED Asking
      BY <1>2, <2>6, AskingUnchanged DEF Signal, BlockReturns
    <3>2. QED
      BY <2>6, <3>1 DEF Signal, BlockReturns
  <2>7. ASSUME NEW c \in Callers, BadAuthority(c)
        PROVE  Abstract!Reject(c)
    <3>1. UNCHANGED Asking
      BY <1>2, <2>0, <2>7, AskingUnchanged DEF BadAuthority, Dispatch
    <3>2. Asking # c /\ answer[c] = "none"
      BY <1>2, <2>7, AskingIsRequested DEF AskingMatches, BadAuthority, IInv, AnswersMatch
    <3>3. QED
      BY <2>7, <3>1, <3>2 DEF BadAuthority, Dispatch, Abstract!Reject
  <2>8. ASSUME NEW c \in Callers, FindRecordAgain(c)
        PROVE  Abstract!TellKnown(c)
    <3>1. UNCHANGED Asking
      BY <1>2, <2>0, <2>8, AskingUnchanged DEF FindRecordAgain, Dispatch
    <3>2. Asking # c /\ answer[c] = "none"
      BY <1>2, <2>8, AskingIsRequested DEF AskingMatches, FindRecordAgain, IInv, AnswersMatch
    <3>3. cache[HostOf[c]] \in Abstract!Verdicts
      BY <1>2, <2>8, KnownAnswer DEF FindRecordAgain, IInv, Abstract!Verdicts, TypeOK, Records
    <3>4. QED
      BY <2>8, <3>1, <3>2, <3>3 DEF FindRecordAgain, Dispatch, Abstract!TellKnown
  <2>9. ASSUME NEW c \in Callers, SendDiscovery(c)
        PROVE  Abstract!Ask(c)
    <3>1. Asking' = c
      BY <1>2, <2>0, <2>9, AskingIsRequested DEF AskingMatches, SendDiscovery
    <3>2. running = c /\ Asking = None /\ answer[c] = "none"
      BY <1>2, <2>9 DEF SendDiscovery, IInv, RunningMatches, AnswersMatch, Asking
    <3>3. QED
      BY <2>9, <3>1, <3>2 DEF SendDiscovery, Abstract!Ask
  <2>10. ASSUME NEW c \in Callers, pc[c] = "requested", NEW a \in Answers,
                Dispatch(c, a), UNCHANGED running
         PROVE  Asking = c /\ Asking' = None /\ Abstract!Tell(c, a)
    <3>1. running = c /\ Asking = c /\ answer[c] = "none"
      BY <1>2, <2>10, AskingIsRequested DEF AskingMatches, IInv, RunningMatches, AnswersMatch
    <3>2. pc'[c] = "dispatched"
      BY <2>0, <2>10 DEF Dispatch
    <3>3. QED
      BY <2>10, <3>1, <3>2 DEF Dispatch, Asking
  <2>11. ASSUME NEW c \in Callers, DiscoveryFails(c)
         PROVE  Abstract!AskInVain(c)
    BY <2>10, <2>11 DEF DiscoveryFails, Abstract!AskInVain, Answers
  <2>12. ASSUME NEW c \in Callers, InvalidInstance(c)
         PROVE  Abstract!Learn(c)
    BY <2>10, <2>12 DEF InvalidInstance, Abstract!Learn, Answers
  <2>13. ASSUME NEW c \in Callers, ProcessMetadata(c)
         PROVE  Abstract!Learn(c)
    <3>1. PICK listed \in SUBSET instances :
            cache' = [h \in Hosts |->
                        IF h = HostOf[c] \/ h \in listed THEN "valid" ELSE cache[h]]
      BY <2>13 DEF ProcessMetadata
    <3>2. listed \in SUBSET {h \in Hosts : cache[h] # "invalid"}
      BY <1>2 DEF IInv, TypeOK, CacheIsTrue
    <3>3. Asking = c /\ Asking' = None /\ Abstract!Tell(c, "valid")
      BY <2>10, <2>13 DEF ProcessMetadata, Answers
    <3>4. QED
      BY <3>1, <3>2, <3>3 DEF Abstract!Learn
  <2>14. QED
    BY <1>2, <2>1, <2>2, <2>3, <2>4, <2>5, <2>6, <2>7, <2>8, <2>9, <2>11, <2>12,
       <2>13 DEF Next, Step, Abstract!Next
<1>3. QED
  BY <1>1, <1>2, IInvAlways, PTL DEF Spec, Abstract!Spec, ImplementsSingleFlight
-----------------------------------------------------------------------------
\* Nobody waits outside the queue, and whoever runs on it can go on: the block is about to answer or
\* its question is out, or the answer is there and the semaphore can be signalled or has been.
NobodyIsStuck ==
    /\ \A c \in Callers : pc[c] = "queued" => \E i \in 1 .. Len(queue) : queue[i] = c
    /\ running # None => \/ pc[running] \in {"running", "requested"} /\ dsem = 0
                         \/ answer[running] # "none"

\* The steps the block that holds the queue has before it.
HolderLeft ==
    IF running = None THEN 0
    ELSE IF pc[running] = "running" THEN 4
    ELSE IF pc[running] = "requested" THEN 3
    ELSE 2 - dsem

\* An upper bound of the steps of the queue before the turn of its i-th block.
Ahead(i, left) == 5 * i + left

ItsTurn(i) == i = 1 /\ running = None /\ running' = queue[i]

ComesNearer(i) ==
    \E j \in 1 .. Len(queue') : j <= i /\ queue'[j] = queue[i] /\ Ahead(j, HolderLeft') < Ahead(i, HolderLeft)

\* Somebody else has called, or was told.
KeepsPlace(i) ==
    /\ i \in 1 .. Len(queue') /\ queue'[i] = queue[i] /\ HolderLeft' = HolderLeft
    /\ \E d \in Callers : pc[d] \in {"idle", "dispatched"} /\ pc'[d] # pc[d]

\* validateAADAuthority: every step brings every waiting block nearer to its turn, but those of
\* callers that come or are told, of which each takes two at most: no path keeps the queue for ever,
\* and nobody is overtaken.
WaitersMoveOn ==
    [][\A i \in 1 .. Len(queue) : ItsTurn(i) \/ ComesNearer(i) \/ KeepsPlace(i)]_vars

LEMMA HolderType ==
    /\ IInv => HolderLeft \in 0 .. 4
    /\ IInv' => HolderLeft' \in 0 .. 4
BY DEF IInv, TypeOK, HolderLeft

LEMMA AheadOf ==
    ASSUME NEW i \in Int, NEW left \in 0 .. 4, NEW rest \in 0 .. 4
    PROVE  /\ rest < left => Ahead(i, rest) < Ahead(i, left)
           /\ Ahead(i - 1, rest) < Ahead(i, left)
BY DEF Ahead

\* A step that leaves the queue alone and lowers HolderLeft.
LEMMA HolderGoesOn ==
    ASSUME IInv, IInv', queue' = queue, HolderLeft' < HolderLeft
    PROVE  \A i \in 1 .. Len(queue) : ComesNearer(i)
<1>1. HolderLeft \in 0 .. 4 /\ HolderLeft' \in 0 .. 4
  BY HolderType
<1>2. Len(queue) \in Nat
  BY DEF IInv, TypeOK
<1>3. ASSUME NEW i \in 1 .. Len(queue)
      PROVE  /\ i \in 1 .. Len(queue') /\ i <= i /\ queue'[i] = queue[i]
             /\ Ahead(i, HolderLeft') < Ahead(i, HolderLeft)
  <2>1. i \in Int /\ i \in 1 .. Len(queue') /\ queue'[i] = queue[i]
    BY <1>2
  <2>2. Ahead(i, HolderLeft') < Ahead(i, HolderLeft)
    BY <1>1, <2>1, AheadOf
  <2>3. QED
    BY <2>1, <2>2
<1>4. QED
  BY <1>3 DEF ComesNearer

\* A caller that comes, or is told, on a thread of its own.
LEMMA OthersLeaveHolder ==
    ASSUME IInv, NEW c \in Callers, pc[c] \in {"idle", "dispatched"},
           NEW location \in {"queued", "done"}, Goto(c, location),
           UNCHANGED <<running, dsem>>,
           location = "queued" => pc[c] = "idle"
    PROVE  HolderLeft' = HolderLeft /\ pc'[c] # pc[c]
<1>1. /\ pc'[c] = location
      /\ \A d \in Callers : d # c => pc'[d] = pc[d]
  BY DEF IInv, TypeOK
<1>2. CASE running = None
  BY <1>1, <1>2 DEF HolderLeft
<1>3. CASE running \in Callers
  <2>1. pc[running] = "running" <=> pc'[running] = "running"
    BY <1>1, <1>3
  <2>2. pc[running] = "requested" <=> pc'[running] = "requested"
    BY <1>1, <1>3
  <2>3. QED
    BY <1>1, <1>3, <2>1, <2>2 DEF HolderLeft
<1>4. QED
  BY <1>1, <1>2, <1>3 DEF IInv, TypeOK

\* The block that holds the queue is answered: its semaphore has not been signalled.
LEMMA DispatchLowersHolder ==
    ASSUME IInv, NEW c \in Callers, pc[c] \in {"running", "requested"}, NEW a,
           Dispatch(c, a), UNCHANGED <<queue, running, dsem>>
    PROVE  HolderLeft' < HolderLeft
<1>1. running = c /\ running' = c /\ running # None
  BY DEF IInv, RunningMatches
<1>2. pc'[c] = "dispatched"
  BY DEF Dispatch, IInv, TypeOK
<1>3. dsem = 0 /\ dsem' = 0
  BY <1>1 DEF IInv, TypeOK, RunningMatches, AnswersMatch
<1>4. HolderLeft' = 2 /\ HolderLeft \in {3, 4}
  BY <1>1, <1>2, <1>3 DEF HolderLeft
<1>5. QED
  BY <1>4

\* What each step does to those who wait.
LEMMA StepMovesWaiters ==
    ASSUME IInv, IInv', Next, NEW i \in 1 .. Len(queue)
    PROVE  ItsTurn(i) \/ ComesNearer(i) \/ KeepsPlace(i)
<1>1. queue \in Seq(Callers) /\ Len(queue) \in Nat /\ i \in Int
  BY DEF IInv, TypeOK
<1>2. ASSUME NEW c \in Callers, BadArgument(c) \/ FindRecord(c) \/ Deliver(c)
      PROVE  KeepsPlace(i)
  <2>1. /\ pc[c] \in {"idle", "dispatched"} /\ Goto(c, "done")
        /\ UNCHANGED <<queue, running, dsem>>
    BY <1>2 DEF BadArgument, FindRecord, Deliver, Complete
  <2>2. HolderLeft' = HolderLeft /\ pc'[c] # pc[c]
    BY <2>1, OthersLeaveHolder
  <2>3. QED
    BY <2>1, <2>2 DEF KeepsPlace
<1>3. ASSUME NEW c \in Callers, Enqueue(c)
      PROVE  KeepsPlace(i)
  <2>1. /\ pc[c] = "idle" /\ Goto(c, "queued") /\ queue' = Append(queue, c)
        /\ UNCHANGED <<running, dsem>>
    BY <1>3 DEF Enqueue
  <2>2. HolderLeft' = HolderLeft /\ pc'[c] # pc[c]
    BY <2>1, OthersLeaveHolder
  <2>3. i \in 1 .. Len(queue') /\ queue'[i] = queue[i]
    BY <1>1, <2>1
  <2>4. QED
    BY <2>1, <2>2, <2>3 DEF KeepsPlace
<1>4. CASE RunBlock
  <2>1. /\ running = None /\ running' = queue[1] /\ dsem' = 0
        /\ queue' = Tail(queue) /\ queue[1] \in Callers
        /\ pc' = [pc EXCEPT ![queue[1]] = "running"]
    BY <1>1, <1>4 DEF RunBlock
  <2>2. CASE i = 1
    BY <2>1, <2>2 DEF ItsTurn
  <2>3. CASE i # 1
    <3>1. /\ i - 1 \in 1 .. Len(queue') /\ i - 1 <= i
          /\ queue'[i - 1] = queue[i]
      BY <1>1, <2>1, <2>3
    <3>2. HolderLeft \in 0 .. 4 /\ HolderLeft' \in 0 .. 4
      BY HolderType
    <3>3. Ahead(i - 1, HolderLeft') < Ahead(i, HolderLeft)
      BY <1>1, <3>2, AheadOf
    <3>4. QED
      BY <3>1, <3>3 DEF ComesNearer
  <2>4. QED
    BY <2>2, <2>3
<1>5. ASSUME NEW c \in Callers,
             \/ BadAuthority(c) \/ FindRecordAgain(c) \/ DiscoveryFails(c)
             \/ InvalidInstance(c) \/ ProcessMetadata(c)
      PROVE  ComesNearer(i)
  <2>1. /\ pc[c] \in {"running", "requested"} /\ \E a : Dispatch(c, a)
        /\ UNCHANGED <<queue, running, dsem>>
    BY <1>5 DEF BadAuthority, FindRecordAgain, DiscoveryFails, InvalidInstance,
                ProcessMetadata
  <2>2. HolderLeft' < HolderLeft
    BY <2>1, DispatchLowersHolder
  <2>3. QED
    BY <2>1, <2>2, HolderGoesOn
<1>6. ASSUME NEW c \in Callers, SendDiscovery(c)
      PROVE  ComesNearer(i)
  <2>1. /\ pc[c] = "running" /\ pc'[c] = "requested"
        /\ UNCHANGED <<queue, running, dsem>>
    BY <1>6 DEF SendDiscovery, IInv, TypeOK
  <2>2. running = c /\ running # None
    BY <2>1 DEF IInv, RunningMatches
  <2>3. HolderLeft' = 3 /\ HolderLeft = 4
    BY <2>1, <2>2 DEF HolderLeft
  <2>4. QED
    BY <2>1, <2>3, HolderGoesOn
<1>7. CASE Signal \/ BlockReturns
  <2>1. UNCHANGED <<queue, pc>> /\ running \in Callers /\ dsem \in {0, 1}
        /\ answer[running] # "none"
    BY <1>7 DEF Signal, BlockReturns, IInv, TypeOK, RunningMatches
  <2>2. pc[running] \notin {"running", "requested"}
    BY <2>1 DEF IInv, AnswersMatch
  <2>3. HolderLeft = 2 - dsem
    BY <2>1, <2>2 DEF HolderLeft
  <2>4. HolderLeft' < HolderLeft
    <3>1. CASE Signal
      <4>1. running' = running /\ dsem = 0 /\ dsem' = 1
        BY <3>1 DEF Signal
      <4>2. HolderLeft' = 1
        BY <2>1, <2>2, <4>1 DEF HolderLeft
      <4>3. QED
        BY <2>3, <4>1, <4>2
    <3>2. CASE BlockReturns
      <4>1. running' = None /\ dsem = 1
        BY <3>2 DEF BlockReturns
      <4>2. HolderLeft' = 0
        BY <4>1 DEF HolderLeft
      <4>3. QED
        BY <2>3, <4>1, <4>2
    <3>3. QED
      BY <1>7, <3>1, <3>2
  <2>5. QED
    BY <2>1, <2>4, HolderGoesOn
<1>8. QED
  BY <1>2, <1>3, <1>4, <1>5, <1>6, <1>7, Zenon DEF Next, Step

\* For any number of callers and of hosts: whoever waits comes nearer to its turn with every step of
\* the queue.
THEOREM WaitersAlwaysMoveOn == Spec => WaitersMoveOn
<1> DEFINE Moves == \A i \in 1 .. Len(queue) : ItsTurn(i) \/ ComesNearer(i) \/ KeepsPlace(i)
<1>1. IInv /\ IInv' /\ [Next]_vars => [Moves]_vars
  BY StepMovesWaiters
<1>2. QED
  BY <1>1, IInvAlways, PTL DEF Spec, WaitersMoveOn


LEMMA NobodyStuckNext ==
    ASSUME IInv, IInv', NobodyIsStuck, Next
    PROVE  NobodyIsStuck'
<1>1. running' # None => \/ pc'[running'] \in {"running", "requested"} /\ dsem' = 0
                         \/ answer'[running'] # "none"
  BY DEF IInv, TypeOK, RunningMatches, AnswersMatch
<1>2. ASSUME NEW c \in Callers, pc'[c] = "queued"
      PROVE  \E i \in 1 .. Len(queue') : queue'[i] = c
  <2>1. queue \in Seq(Callers) /\ Len(queue) \in Nat
    BY DEF IInv, TypeOK
  <2>2. CASE Enqueue(c)
    <3>1. queue' = Append(queue, c)
      BY <2>2 DEF Enqueue
    <3>2. Len(queue) + 1 \in 1 .. Len(queue') /\ queue'[Len(queue) + 1] = c
      BY <2>1, <3>1
    <3>3. QED
      BY <3>2
  <2>3. CASE ~Enqueue(c)
    <3>1. pc[c] = "queued"
      BY <1>2, <2>3
         DEF Next, Step, BadArgument, FindRecord, Enqueue, RunBlock, BadAuthority,
             FindRecordAgain, SendDiscovery, DiscoveryFails, InvalidInstance,
             ProcessMetadata, Signal, BlockReturns, Deliver, Dispatch, Complete, IInv, TypeOK
    <3>2. PICK i \in 1 .. Len(queue) : queue[i] = c
      BY <3>1 DEF NobodyIsStuck
    <3>3. CASE ItsTurn(i)
      <4>1. running' = c
        BY <3>2, <3>3 DEF ItsTurn
      <4>2. \A d \in Callers : running' = d /\ pc'[d] = "queued" => FALSE
        BY DEF IInv, RunningMatches
      <4>3. QED
        BY <1>2, <4>1, <4>2
    <3>4. CASE ComesNearer(i)
      BY <3>2, <3>4 DEF ComesNearer
    <3>5. CASE KeepsPlace(i)
      BY <3>2, <3>5 DEF KeepsPlace
    <3>6. QED
      BY <3>3, <3>4, <3>5, StepMovesWaiters
  <2>4. QED
    BY <2>2, <2>3
<1>3. QED
  BY <1>1, <1>2 DEF NobodyIsStuck

\* No caller is ever lost, and the queue always has a next step.
THEOREM NobodyEverStuck == Spec => []NobodyIsStuck
<1>1. Init => NobodyIsStuck
  BY DEF Init, NobodyIsStuck
<1>2. IInv /\ IInv' /\ NobodyIsStuck /\ [Next]_vars => NobodyIsStuck'
  <2>1. IInv /\ IInv' /\ NobodyIsStuck /\ Next => NobodyIsStuck'
    BY NobodyStuckNext
  <2>2. NobodyIsStuck /\ UNCHANGED vars => NobodyIsStuck'
    BY DEF vars, NobodyIsStuck
  <2>3. QED
    BY <2>1, <2>2
<1>3. QED
  BY <1>1, <1>2, IInvAlways, PTL DEF Spec

=============================================================================
