---------------------------- MODULE AadValidation ---------------------------
(***************************************************************************)
(* ADAuthorityValidation for AAD authorities.  A caller first looks into   *)
(* the shared cache; if that has no answer, a block goes to a serial queue *)
(* and blocks the queue, by a semaphore of its own, until the discovery    *)
(* endpoint has answered.  Inside the block the cache is looked at again.  *)
(* The completion block of the caller is dispatched to a global queue, so  *)
(* it runs before or after the serial queue goes on.                       *)
(*                                                                         *)
(* The cache (MSIDAadAuthorityCache) is not in the repository.  A read     *)
(* finds nothing while somebody writes; the discovery of one host also     *)
(* brings records of other hosts of AAD.                                   *)
(***************************************************************************)
EXTENDS Integers, Sequences

CONSTANTS
    Callers,  \* calls of -checkAuthority:validateAuthority:completionBlock:
    Hosts,    \* hosts of authorities
    HostOf,   \* the host each caller asks about
    None      \* nil

ASSUME NoneAssumption == None \notin Callers
ASSUME HostOfAssumption == HostOf \in [Callers -> Hosts]

VARIABLES
    cache,      \* _aadCache: what is recorded of each host
    queue,      \* blocks waiting on _aadValidationQueue
    running,    \* the block that runs on it, or None
    dsem,       \* its semaphore
    pc,         \* where each caller is
    answer,     \* what its validation came to
    result,     \* what its completion block was called with
    validate,   \* its argument validateAuthority
    instances,  \* the hosts that are AAD, as the discovery endpoint knows
    learned     \* history: hosts the endpoint has given a verdict on

vars == <<cache, queue, running, dsem, pc, answer, result, validate, instances,
          learned>>

Records == {"unknown", "valid", "invalid"}

\* "invalid" is NO with the error invalid_instance, "failed" NO with any other
\* error, "ignored" NO without an error.
Answers == {"valid", "invalid", "failed"}
Results == Answers \union {"ignored"}

Locations == {"idle", "queued", "running", "requested", "dispatched", "done"}

TypeOK ==
    /\ cache \in [Hosts -> Records]
    /\ queue \in Seq(Callers)
    /\ running \in Callers \union {None}
    /\ dsem \in {0, 1}
    /\ pc \in [Callers -> Locations]
    /\ answer \in [Callers -> Answers \union {"none"}]
    /\ result \in [Callers -> Results \union {"none"}]
    /\ validate \in [Callers -> BOOLEAN]
    /\ instances \subseteq Hosts
    /\ learned \subseteq Hosts

Init ==
    /\ cache = [h \in Hosts |-> "unknown"]
    /\ queue = <<>>
    /\ running = None
    /\ dsem = 0
    /\ pc = [c \in Callers |-> "idle"]
    /\ answer = [c \in Callers |-> "none"]
    /\ result = [c \in Callers |-> "none"]
    /\ validate \in [Callers -> BOOLEAN]
    /\ instances \in SUBSET Hosts
    /\ learned = {}

-----------------------------------------------------------------------------
Goto(c, location) == pc' = [pc EXCEPT ![c] = location]

Set(c, a) == answer' = [answer EXCEPT ![c] = a]

Known(c) == cache[HostOf[c]] # "unknown"

\* Mutant: any error is dropped when the caller does not validate, and
\* invalid_instance always.
Outcome_Lax(c, a) == IF a = "invalid" \/ ~validate[c] THEN "ignored" ELSE a

\* checkAuthority: drops the error invalid_instance unless the caller validates.
Outcome(c, a) == IF a = "invalid" /\ ~validate[c] THEN "ignored" ELSE a

\* The completion block of the caller is called.
Complete(c, a) ==
    /\ Goto(c, "done")
    /\ result' = [result EXCEPT ![c] = Outcome(c, a)]

\* The completion block of requestAADValidation: is called: the answer is on
\* its way to the caller.
Dispatch(c, a) ==
    /\ Goto(c, "dispatched")
    /\ Set(c, a)
    /\ UNCHANGED result

-----------------------------------------------------------------------------
(* The thread of the caller *)

\* The authority is not a URL that could be one.
BadArgument(c) ==
    /\ pc[c] = "idle"
    /\ Set(c, "failed")
    /\ Complete(c, "failed")
    /\ UNCHANGED <<cache, queue, running, dsem, validate, instances, learned>>

\* The cache has a record.
FindRecord(c) ==
    /\ pc[c] = "idle"
    /\ Known(c)
    /\ Set(c, cache[HostOf[c]])
    /\ Complete(c, cache[HostOf[c]])
    /\ UNCHANGED <<cache, queue, running, dsem, validate, instances, learned>>

\* The cache has no record, or it is locked by a block that writes to it.
Enqueue(c) ==
    /\ pc[c] = "idle"
    /\ Known(c) => running # None
    /\ queue' = Append(queue, c)
    /\ Goto(c, "queued")
    /\ UNCHANGED <<cache, running, dsem, answer, result, validate, instances,
                   learned>>

-----------------------------------------------------------------------------
(* The serial queue *)

\* The next block begins and creates its semaphore.
RunBlock ==
    /\ running = None /\ queue # <<>>
    /\ running' = Head(queue)
    /\ queue' = Tail(queue)
    /\ dsem' = 0
    /\ Goto(Head(queue), "running")
    /\ UNCHANGED <<cache, answer, result, validate, instances, learned>>

\* The host cannot be that of an AAD authority.
BadAuthority(c) ==
    /\ pc[c] = "running"
    /\ Dispatch(c, "failed")
    /\ UNCHANGED <<cache, queue, running, dsem, validate, instances, learned>>

\* A block before this one brought the record.
FindRecordAgain(c) ==
    /\ pc[c] = "running"
    /\ Known(c)
    /\ Dispatch(c, cache[HostOf[c]])
    /\ UNCHANGED <<cache, queue, running, dsem, validate, instances, learned>>

\* Mutant: the cache is not looked at a second time.
SendDiscovery_Unchecked(c) ==
    /\ pc[c] = "running"
    /\ Goto(c, "requested")
    /\ UNCHANGED <<cache, queue, running, dsem, answer, result, validate,
                   instances, learned>>

\* The discovery request goes out.
SendDiscovery(c) ==
    /\ pc[c] = "running"
    /\ ~Known(c)
    /\ Goto(c, "requested")
    /\ UNCHANGED <<cache, queue, running, dsem, answer, result, validate,
                   instances, learned>>

\* The block that waited for its semaphore returns.
BlockReturns ==
    /\ running # None /\ dsem = 1
    /\ dsem' = 0
    /\ running' = None
    /\ UNCHANGED <<cache, queue, pc, answer, result, validate, instances, learned>>

-----------------------------------------------------------------------------
(* The answer to the request, on the queue of its session *)

\* No answer, an OAuth error other than invalid_instance, no tenant endpoint in
\* the answer, or metadata that cannot be processed.
DiscoveryFails(c) ==
    /\ pc[c] = "requested"
    /\ Dispatch(c, "failed")
    /\ UNCHANGED <<cache, queue, running, dsem, validate, instances, learned>>

\* Mutant: the error is passed on and not recorded.
InvalidInstance_NotRecorded(c) ==
    /\ pc[c] = "requested" /\ HostOf[c] \notin instances
    /\ learned' = learned \union {HostOf[c]}
    /\ Dispatch(c, "invalid")
    /\ UNCHANGED <<cache, queue, running, dsem, validate, instances>>

\* The endpoint does not know the host; the error is recorded.
InvalidInstance(c) ==
    /\ pc[c] = "requested" /\ HostOf[c] \notin instances
    /\ cache' = [cache EXCEPT ![HostOf[c]] = "invalid"]
    /\ learned' = learned \union {HostOf[c]}
    /\ Dispatch(c, "invalid")
    /\ UNCHANGED <<queue, running, dsem, validate, instances>>

\* The endpoint knows the host; the metadata lists some hosts of AAD, all of
\* which are recorded.
ProcessMetadata(c) ==
    /\ pc[c] = "requested" /\ HostOf[c] \in instances
    /\ \E listed \in SUBSET instances :
         /\ cache' = [h \in Hosts |->
                        IF h = HostOf[c] \/ h \in listed THEN "valid" ELSE cache[h]]
         /\ learned' = learned \union listed \union {HostOf[c]}
    /\ Dispatch(c, "valid")
    /\ UNCHANGED <<queue, running, dsem, validate, instances>>

\* Mutant: only an error signals the semaphore.
Signal_OnlyAfterFailure ==
    /\ running # None /\ answer[running] = "failed" /\ dsem = 0
    /\ dsem' = 1
    /\ UNCHANGED <<cache, queue, running, pc, answer, result, validate,
                   instances, learned>>

\* Having dispatched the answer, the completion block signals the semaphore.
Signal ==
    /\ running # None /\ answer[running] # "none" /\ dsem = 0
    /\ dsem' = 1
    /\ UNCHANGED <<cache, queue, running, pc, answer, result, validate,
                   instances, learned>>

\* The global queue runs the completion block of the caller.
Deliver(c) ==
    /\ pc[c] = "dispatched"
    /\ Complete(c, answer[c])
    /\ UNCHANGED <<cache, queue, running, dsem, answer, validate, instances, learned>>

-----------------------------------------------------------------------------
Step(c) ==
    \/ BadAuthority(c) \/ FindRecordAgain(c) \/ SendDiscovery(c)
    \/ DiscoveryFails(c) \/ InvalidInstance(c) \/ ProcessMetadata(c)
    \/ Deliver(c)

Next ==
    \/ \E c \in Callers : BadArgument(c) \/ FindRecord(c) \/ Enqueue(c)
    \/ \E c \in Callers : Step(c)
    \/ RunBlock \/ Signal \/ BlockReturns

Spec == Init /\ [][Next]_vars

\* Queues run their blocks, and a request is answered or times out.
Fairness ==
    /\ \A c \in Callers : WF_vars(Step(c))
    /\ WF_vars(RunBlock) /\ WF_vars(Signal) /\ WF_vars(BlockReturns)

FairSpec == Spec /\ Fairness

-----------------------------------------------------------------------------
\* "To ensure that we don't have more than one validation network request at a
\* time" the queue is held until the answer is dispatched
\* (validateAADAuthority:): at most one caller is between the start of its
\* block and the dispatch.
OneDiscovery ==
    \A c, d \in Callers :
      pc[c] \in {"running", "requested"} /\ pc[d] \in {"running", "requested"}
        => c = d

\* The endpoint is not asked about a host it has given a verdict on, not even
\* by callers who were waiting in the queue meanwhile (requestAADValidation:).
NeverAskedAgain ==
    [][\A c \in Callers :
         pc[c] # "requested" /\ pc'[c] = "requested" => HostOf[c] \notin learned]_vars

\* acquireToken: goes on whenever there is no error, whatever "validated" says:
\* so without an error a caller who validates has an authority that is one.
NoErrorMeansValid ==
    \A c \in Callers :
      /\ result[c] = "valid" => HostOf[c] \in instances
      /\ result[c] = "ignored" => ~validate[c]

\* A caller who does not validate is not stopped by invalid_instance, whether
\* the verdict came from the endpoint or from either look into the cache.
NotValidatingIgnores ==
    \A c \in Callers : result[c] = "invalid" => validate[c]

\* Every block in the queue is reached and every caller told: no path through
\* requestAADValidation: leaves the semaphore unsignalled.
EveryCallerAnswered == \A c \in Callers : pc[c] = "queued" ~> pc[c] = "done"

\* What the cache says is what the endpoint said, and is true.
CacheIsTrue ==
    \A h \in Hosts :
      /\ cache[h] = "valid" => h \in instances
      /\ cache[h] = "invalid" => h \notin instances
      /\ h \in learned <=> cache[h] # "unknown"

\* The serial queue has the callers that wait, once each.
QueueMatches ==
    /\ \A i \in 1 .. Len(queue) : pc[queue[i]] = "queued"
    /\ \A i, j \in 1 .. Len(queue) : queue[i] = queue[j] => i = j

\* The block that runs is that of a caller whose answer is not there, or is
\* dispatched and perhaps delivered; the semaphore is signalled only then.
RunningMatches ==
    /\ \A c \in Callers : pc[c] \in {"running", "requested"} => running = c
    /\ running # None => pc[running] \in {"running", "requested", "dispatched", "done"}
    /\ dsem = 1 => running # None /\ answer[running] # "none"

\* An answer is there exactly from the dispatch on, and true.
AnswersMatch ==
    \A c \in Callers :
      /\ answer[c] # "none" <=> pc[c] \in {"dispatched", "done"}
      /\ result[c] # "none" <=> pc[c] = "done"
      /\ pc[c] = "done" => result[c] = Outcome(c, answer[c])
      /\ pc[c] = "requested" => ~Known(c)
      /\ answer[c] = "valid" => HostOf[c] \in instances
      /\ answer[c] = "invalid" => HostOf[c] \notin instances

\* The inductive invariant.
IInv == TypeOK /\ CacheIsTrue /\ QueueMatches /\ RunningMatches /\ AnswersMatch

\* The caller whose question is out.
Asking == IF running # None /\ pc[running] = "requested" THEN running ELSE None

\* The cache, the queue and the semaphore together implement one flight at a time.
Abstract == INSTANCE SingleFlight WITH verdict <- cache, asking <- Asking

ImplementsSingleFlight == Abstract!Spec
=============================================================================
