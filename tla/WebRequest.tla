----------------------------- MODULE WebRequest -----------------------------
(***************************************************************************)
(* ADWebRequest, ADWebAuthRequest and ADWebAuthResponse: a request is sent, *)
(* and its completion handler either gives the caller a result or sends the *)
(* request again: at once with the answer to a PKeyAuth challenge, or half  *)
(* a second later, on another thread, after a server error.  All requests   *)
(* share the record of ADClientMetrics: each leaves a record of its end,    *)
(* which the next one to begin takes along in its headers.                  *)
(*                                                                         *)
(* The callbacks of a session run one at a time; the one that ends a task   *)
(* calls the handler, the handling of the response and the completion block *)
(* of the caller, and is one step here.  What the server and the network    *)
(* do is open.  Nobody sets returnRawResponse, so it is left out.           *)
(***************************************************************************)
EXTENDS Naturals

CONSTANTS
    Requests,       \* web requests of one process
    AdfsChoices,    \* which of them may be to an AD FS authority
    MaxChallenges,  \* bound of the model: PKeyAuth challenges for one request
    None            \* nil

ASSUME NoneAssumption == None \notin Requests
ASSUME AdfsAssumption == AdfsChoices \subseteq SUBSET Requests
ASSUME MaxChallengesAssumption == MaxChallenges \in Nat

VARIABLES
    adfs,                \* requests to an AD FS authority
    pc,                  \* where each request is
    retryIfServerError,
    response,            \* _response: the attempt it answers, or None
    responseData,        \* _responseData: the attempts its bytes come from, or nil
    report,              \* the request whose record is in the headers, or None
    record,              \* ADClientMetrics: the request whose record is pending
    outcome,             \* what the completion block was called with
    session,             \* whether it can still be used
    attempts,            \* history: how often the request was sent
    retries,             \* history: how often because of a server error
    challenges,          \* history: how often because of a challenge
    arrived,             \* history: whether the last attempt has brought data
    calls                \* history: calls of the completion block

delivery == <<response, responseData, arrived>>
counts == <<retryIfServerError, retries, challenges>>
vars == <<adfs, pc, delivery, counts, report, record, outcome, session, attempts,
          calls>>

\* "delayed": a resend is scheduled.
Locations == {"idle", "sent", "receiving", "delayed", "done"}

\* "serverError" is a status of 500 to 599, "error" every other error.
Outcomes == {"none", "response", "serverError", "error"}

\* A buffer with bytes of these attempts, and nil.
Buffer(from) == [nil |-> FALSE, from |-> from]
Nil == [nil |-> TRUE, from |-> {}]

TypeOK ==
    /\ adfs \subseteq Requests
    /\ pc \in [Requests -> Locations]
    /\ retryIfServerError \in [Requests -> BOOLEAN]
    /\ response \in [Requests -> Nat \union {None}]
    /\ responseData \in [Requests -> [nil : BOOLEAN, from : SUBSET Nat]]
    /\ report \in [Requests -> Requests \union {None}]
    /\ record \in Requests \union {None}
    /\ outcome \in [Requests -> [kind : Outcomes, body : SUBSET Nat]]
    /\ session \in [Requests -> {"valid", "invalidated"}]
    /\ attempts \in [Requests -> Nat]
    /\ retries \in [Requests -> Nat]
    /\ challenges \in [Requests -> Nat]
    /\ arrived \in [Requests -> BOOLEAN]
    /\ calls \in [Requests -> Nat]

Init ==
    /\ adfs \in AdfsChoices
    /\ pc = [r \in Requests |-> "idle"]
    /\ retryIfServerError = [r \in Requests |-> TRUE]
    /\ response = [r \in Requests |-> None]
    /\ responseData = [r \in Requests |-> Nil]
    /\ report = [r \in Requests |-> None]
    /\ record = None
    /\ outcome = [r \in Requests |-> [kind |-> "none", body |-> {}]]
    /\ session = [r \in Requests |-> "valid"]
    /\ attempts = [r \in Requests |-> 0]
    /\ retries = [r \in Requests |-> 0]
    /\ challenges = [r \in Requests |-> 0]
    /\ arrived = [r \in Requests |-> FALSE]
    /\ calls = [r \in Requests |-> 0]

-----------------------------------------------------------------------------
(* Sending *)

\* The task is made and started, with empty buffers.
Send(r) ==
    /\ pc' = [pc EXCEPT ![r] = "sent"]
    /\ response' = [response EXCEPT ![r] = None]
    /\ responseData' = [responseData EXCEPT ![r] = Buffer({})]
    /\ attempts' = [attempts EXCEPT ![r] = @ + 1]
    /\ arrived' = [arrived EXCEPT ![r] = FALSE]

\* Mutant: no new buffer for the one that was released.
Resend_NoBuffer(r) ==
    /\ pc' = [pc EXCEPT ![r] = "sent"]
    /\ response' = [response EXCEPT ![r] = None]
    /\ responseData' = [responseData EXCEPT ![r] = Nil]
    /\ attempts' = [attempts EXCEPT ![r] = @ + 1]
    /\ arrived' = [arrived EXCEPT ![r] = FALSE]
    /\ UNCHANGED <<adfs, report, record, outcome, session, calls>>

\* The same handler, headers and body once more.
Resend(r) ==
    /\ Send(r)
    /\ UNCHANGED <<adfs, report, record, outcome, session, calls>>

\* Mutant: the record stays pending after it was taken.
AddClientMetrics_KeepsRecord(r) ==
    /\ report' = [report EXCEPT ![r] = IF r \in adfs THEN None ELSE record]
    /\ UNCHANGED record

\* A request to AAD takes the pending record along in its headers.
AddClientMetrics(r) ==
    IF r \in adfs
    THEN UNCHANGED <<report, record>>
    ELSE /\ report' = [report EXCEPT ![r] = record]
         /\ record' = None

\* The request begins.
SendRequest(r) ==
    /\ pc[r] = "idle"
    /\ AddClientMetrics(r)
    /\ Send(r)
    /\ UNCHANGED <<adfs, counts, outcome, session, calls>>

-----------------------------------------------------------------------------
(* Callbacks of the session *)

ReceiveResponse(r) ==
    /\ pc[r] = "sent"
    /\ pc' = [pc EXCEPT ![r] = "receiving"]
    /\ response' = [response EXCEPT ![r] = attempts[r]]
    /\ UNCHANGED <<adfs, responseData, arrived, counts, report, record, outcome,
                   session, attempts, calls>>

\* Bytes are appended to the buffer; appended to nil they are lost.
ReceiveData(r) ==
    /\ pc[r] = "receiving" /\ ~arrived[r]
    /\ responseData' = [responseData EXCEPT ![r] =
                          IF responseData[r].nil THEN Nil
                          ELSE Buffer(responseData[r].from \union {response[r]})]
    /\ arrived' = [arrived EXCEPT ![r] = TRUE]
    /\ UNCHANGED <<adfs, pc, response, counts, report, record, outcome, session,
                   attempts, calls>>

\* The record of this end replaces the one that is pending, except for AD FS.
EndClientMetricsRecord(r) == record' = IF r \in adfs THEN record ELSE r

\* The completion block of the caller is called.  Its last act is to invalidate
\* the session, except when the silent handler cannot read the response.
Finish(r, kind) ==
    /\ pc' = [pc EXCEPT ![r] = "done"]
    /\ response' = [response EXCEPT ![r] = None]
    /\ responseData' = [responseData EXCEPT ![r] = Nil]
    /\ outcome' = [outcome EXCEPT
                     ![r] = [kind |-> kind, body |-> responseData[r].from]]
    /\ calls' = [calls EXCEPT ![r] = @ + 1]
    /\ \/ session' = [session EXCEPT ![r] = "invalidated"]
       \/ kind = "response" /\ UNCHANGED session
    /\ EndClientMetricsRecord(r)
    /\ UNCHANGED <<adfs, report, attempts, arrived>>

\* The task fails: processError:.
FailTransport(r) ==
    /\ pc[r] \in {"sent", "receiving"}
    /\ Finish(r, "error")
    /\ UNCHANGED counts

\* 200, or 400 and 401 unless only 200 will do, and the body is a JSON dictionary.
Succeed(r) ==
    /\ pc[r] = "receiving" /\ arrived[r]
    /\ Finish(r, "response")
    /\ UNCHANGED counts

\* The body is not, the status is another one, or the device has no answer to a
\* challenge.
FailResponse(r) ==
    /\ pc[r] = "receiving"
    /\ Finish(r, "error")
    /\ UNCHANGED counts

\* Mutant: a challenge makes the request worth another retry.
AnswerChallenge_Rearms(r) ==
    /\ pc[r] = "receiving" /\ challenges[r] < MaxChallenges
    /\ challenges' = [challenges EXCEPT ![r] = @ + 1]
    /\ retryIfServerError' = [retryIfServerError EXCEPT ![r] = TRUE]
    /\ Resend(r)
    /\ UNCHANGED retries

\* 400 or 401 with a PKeyAuth challenge this device can answer.
AnswerChallenge(r) ==
    /\ pc[r] = "receiving" /\ challenges[r] < MaxChallenges
    /\ challenges' = [challenges EXCEPT ![r] = @ + 1]
    /\ Resend(r)
    /\ UNCHANGED <<retryIfServerError, retries>>

\* Mutant: the caller gets the error, too, and invalidates the session.
ScheduleRetry_Tells(r) ==
    /\ pc[r] = "receiving" /\ retryIfServerError[r]
    /\ retryIfServerError' = [retryIfServerError EXCEPT ![r] = FALSE]
    /\ retries' = [retries EXCEPT ![r] = @ + 1]
    /\ pc' = [pc EXCEPT ![r] = "delayed"]
    /\ calls' = [calls EXCEPT ![r] = @ + 1]
    /\ session' = [session EXCEPT ![r] = "invalidated"]
    /\ response' = [response EXCEPT ![r] = None]
    /\ responseData' = [responseData EXCEPT ![r] = Nil]
    /\ UNCHANGED <<adfs, challenges, arrived, report, record, outcome, attempts>>

\* 500 to 599 for the first time.
ScheduleRetry(r) ==
    /\ pc[r] = "receiving" /\ retryIfServerError[r]
    /\ retryIfServerError' = [retryIfServerError EXCEPT ![r] = FALSE]
    /\ retries' = [retries EXCEPT ![r] = @ + 1]
    /\ pc' = [pc EXCEPT ![r] = "delayed"]
    /\ response' = [response EXCEPT ![r] = None]
    /\ responseData' = [responseData EXCEPT ![r] = Nil]
    /\ UNCHANGED <<adfs, challenges, arrived, report, record, outcome, session,
                   attempts, calls>>

\* 500 to 599 again.
ServerError(r) ==
    /\ pc[r] = "receiving" /\ ~retryIfServerError[r]
    /\ Finish(r, "serverError")
    /\ UNCHANGED counts

\* Mutant: the block that waits does not keep the request alive.
DelayedResend_Weakly(r) == FALSE

\* Half a second later, on a global queue.
DelayedResend(r) ==
    /\ pc[r] = "delayed"
    /\ Resend(r)
    /\ UNCHANGED counts

-----------------------------------------------------------------------------
Step(r) ==
    \/ ReceiveResponse(r) \/ ReceiveData(r) \/ FailTransport(r)
    \/ Succeed(r) \/ FailResponse(r) \/ AnswerChallenge(r)
    \/ ScheduleRetry(r) \/ ServerError(r) \/ DelayedResend(r)

Next == \E r \in Requests : SendRequest(r) \/ Step(r)

Spec == Init /\ [][Next]_vars

\* A task is answered or times out, and dispatched blocks run.
Fairness == \A r \in Requests : WF_vars(Step(r))

FairSpec == Spec /\ Fairness

-----------------------------------------------------------------------------
\* However resends, retries and late callbacks follow each other, the caller is
\* called once, and only when no task is out and no resend scheduled
\* (handleResponse: either completes or sends again, never both).  The caller's
\* block invalidates the session, after which nothing may be sent (ADWebRequest.h)
\* and no handler is there for a task that ends.
CompletedOnce ==
    \A r \in Requests : calls[r] = IF pc[r] = "done" THEN 1 ELSE 0

\* Challenges do not give a request more retries: it is sent once, once for each
\* challenge, and once more after its first server error ("retry once after
\* half second").
SentAsNeeded ==
    \A r \in Requests :
      /\ retries[r] <= 1
      /\ pc[r] = "idle" => attempts[r] = 0
      /\ pc[r] = "delayed" => attempts[r] = challenges[r] + retries[r]
      /\ pc[r] \notin {"idle", "delayed"} => attempts[r] = 1 + challenges[r] + retries[r]

\* A server error reaches the caller only after the request was tried again: the
\* silent handler takes it for an outage and falls back on an expired token.
ServerErrorRetried ==
    \A r \in Requests : outcome[r].kind = "serverError" => retries[r] = 1

\* What is parsed are the bytes of the last attempt, all of them and none of an
\* earlier one (completeWithError: releases the buffers before it calls the
\* handler, which may send again).
BodyOfLastAttempt ==
    \A r \in Requests :
      outcome[r].kind = "response" => outcome[r].body = {attempts[r]}

\* The end of a request is reported by at most one other request, one that began
\* after it, and AD FS neither reports nor is reported.
ReportedOnce ==
    \A r \in Requests :
      report[r] # None =>
        /\ pc[report[r]] = "done" /\ {r, report[r]} \cap adfs = {}
        /\ \A s \in Requests \ {r} : report[s] # report[r]

\* Every request ends, after whatever challenges, retries and failures, and its
\* session with it, unless there was a response.  The server stops challenging at
\* some point: the code has no bound of its own.
EveryRequestEnds ==
    \A r \in Requests :
      pc[r] = "sent"
        ~> pc[r] = "done" /\ (session[r] = "invalidated" \/ outcome[r].kind = "response")

\* What is pending was not reported yet.
RecordFresh ==
    record # None =>
      /\ pc[record] = "done" /\ record \notin adfs
      /\ \A s \in Requests : report[s] # record

\* The buffers of a task that is out are those of this attempt.
BuffersMatch ==
    \A r \in Requests :
      /\ pc[r] \in {"sent", "receiving"} =>
           responseData[r] = Buffer(IF arrived[r] THEN {attempts[r]} ELSE {})
      /\ pc[r] = "sent" => ~arrived[r]
      /\ pc[r] = "receiving" => response[r] = attempts[r]

\* Only the completion block ends the session, and the retry is used up when it
\* is scheduled.
FlagsMatch ==
    \A r \in Requests :
      /\ session[r] = "invalidated" => pc[r] = "done"
      /\ retryIfServerError[r] <=> retries[r] = 0
      /\ outcome[r].kind # "none" => pc[r] = "done"
      /\ pc[r] = "idle" => challenges[r] = 0 /\ retries[r] = 0 /\ report[r] = None

\* The inductive invariant.
IInv ==
    /\ TypeOK /\ CompletedOnce /\ SentAsNeeded /\ ServerErrorRetried
    /\ BodyOfLastAttempt /\ ReportedOnce
    /\ RecordFresh /\ BuffersMatch /\ FlagsMatch
=============================================================================
