-------------------------- MODULE WebRequestProofs --------------------------
(***************************************************************************)
(* Theorems about WebRequest, for any number of requests and challenges.   *)
(*                                                                         *)
(* IInv is inductive.  All of it but the two facts on metrics is about one *)
(* request at a time (Local): an action of a request keeps Local of that   *)
(* request, and leaves the others as they are (Frame).                     *)
(*                                                                         *)
(* At the end, what is proved of the readers of the header a response may  *)
(* carry, for headers of any length: a state machine of its own,           *)
(* ChallengeHeaders, with variables of its own.                            *)
(***************************************************************************)
EXTENDS WebRequest, ChallengeHeaders, TLAPS, SequenceTheorems, WellFoundedInduction

\* What IInv says of one request by itself.
Local(r) ==
    /\ calls[r] = IF pc[r] = "done" THEN 1 ELSE 0
    /\ retries[r] <= 1
    /\ pc[r] = "idle" => attempts[r] = 0
    /\ pc[r] = "delayed" => attempts[r] = challenges[r] + retries[r]
    /\ pc[r] \notin {"idle", "delayed"} => attempts[r] = 1 + challenges[r] + retries[r]
    /\ outcome[r].kind = "serverError" => retries[r] = 1
    /\ outcome[r].kind = "response" => outcome[r].body = {attempts[r]}
    /\ pc[r] \in {"sent", "receiving"} =>
         responseData[r] = Buffer(IF arrived[r] THEN {attempts[r]} ELSE {})
    /\ pc[r] = "sent" => ~arrived[r]
    /\ pc[r] = "receiving" => response[r] = attempts[r]
    /\ session[r] = "invalidated" => pc[r] = "done"
    /\ retryIfServerError[r] <=> retries[r] = 0
    /\ outcome[r].kind # "none" => pc[r] = "done"
    /\ pc[r] = "idle" => challenges[r] = 0 /\ retries[r] = 0 /\ report[r] = None

\* An action of r leaves the other requests as they are.
Frame(r) ==
    \A s \in Requests \ {r} :
      /\ pc'[s] = pc[s] /\ calls'[s] = calls[s] /\ report'[s] = report[s]
      /\ attempts'[s] = attempts[s] /\ retries'[s] = retries[s]
      /\ challenges'[s] = challenges[s] /\ outcome'[s] = outcome[s]
      /\ responseData'[s] = responseData[s] /\ arrived'[s] = arrived[s]
      /\ response'[s] = response[s] /\ session'[s] = session[s]
      /\ retryIfServerError'[s] = retryIfServerError[s]

\* IInv is what it says of each request, and of the metrics.
LEMMA Split ==
    IInv <=> TypeOK /\ (\A r \in Requests : Local(r)) /\ ReportedOnce /\ RecordFresh
BY DEF IInv, Local, CompletedOnce, SentAsNeeded, ServerErrorRetried,
       BodyOfLastAttempt, BuffersMatch, FlagsMatch

\* The same of the next state.
LEMMA SplitPrime ==
    IInv' <=> TypeOK' /\ (\A r \in Requests : Local(r)') /\ ReportedOnce' /\ RecordFresh'
BY DEF IInv, Local, CompletedOnce, SentAsNeeded, ServerErrorRetried,
       BodyOfLastAttempt, BuffersMatch, FlagsMatch

\* What an action has to show of the request it belongs to and of the metrics.
LEMMA OneRequest ==
    ASSUME IInv, NEW r \in Requests,
           TypeOK', Local(r)', Frame(r), ReportedOnce', RecordFresh'
    PROVE  IInv'
<1>1. ASSUME NEW s \in Requests
      PROVE  Local(s)'
  <2>1. CASE s = r
    BY <2>1
  <2>2. CASE s # r
    <3>1. Local(s)
      BY Split
    <3> QED BY <2>2, <3>1 DEF Local, Frame
  <2> QED BY <2>1, <2>2
<1> QED BY <1>1, SplitPrime

\* At the start nothing is sent and nothing is pending.
LEMMA InitIInv == Init => IInv
BY AdfsAssumption
   DEF Init, IInv, TypeOK, CompletedOnce, SentAsNeeded, ServerErrorRetried,
       BodyOfLastAttempt, ReportedOnce, RecordFresh, BuffersMatch, FlagsMatch,
       Locations, Outcomes, Nil, Buffer

-----------------------------------------------------------------------------
\* An action that leaves the metrics alone and ends nothing keeps what is said
\* of the metrics.
LEMMA SameMetrics ==
    ASSUME IInv, NEW r \in Requests, TypeOK', Local(r)', Frame(r),
           UNCHANGED <<adfs, report, record>>, pc[r] # "done"
    PROVE  IInv'
<1>1. ReportedOnce /\ RecordFresh /\ TypeOK
  BY Split
<1>2. ReportedOnce'
  BY <1>1 DEF ReportedOnce, Frame, TypeOK
<1>3. RecordFresh'
  BY <1>1 DEF RecordFresh, Frame, TypeOK
<1> QED BY <1>2, <1>3, OneRequest

\* The end of a request puts its record in place of the pending one.
LEMMA NewRecord ==
    ASSUME IInv, NEW r \in Requests, TypeOK', Local(r)', Frame(r),
           UNCHANGED <<adfs, report>>, EndClientMetricsRecord(r),
           pc[r] # "done", pc'[r] = "done"
    PROVE  IInv'
<1>1. ReportedOnce /\ RecordFresh /\ TypeOK
  BY Split
<1>2. ReportedOnce'
  BY <1>1 DEF ReportedOnce, Frame, TypeOK
<1>3. \A s \in Requests : report[s] # r
  BY <1>1, NoneAssumption DEF ReportedOnce
<1>4. RecordFresh'
  BY <1>1, <1>3 DEF RecordFresh, EndClientMetricsRecord, Frame, TypeOK
<1> QED BY <1>2, <1>4, OneRequest

-----------------------------------------------------------------------------
\* The request begins, and takes the pending record along.
LEMMA SendRequestIInv ==
    ASSUME IInv, NEW r \in Requests, SendRequest(r)
    PROVE  IInv'
<1>1. TypeOK /\ Local(r) /\ ReportedOnce /\ RecordFresh
  BY Split
<1>2. /\ pc[r] = "idle"
      /\ pc' = [pc EXCEPT ![r] = "sent"]
      /\ response' = [response EXCEPT ![r] = None]
      /\ responseData' = [responseData EXCEPT ![r] = Buffer({})]
      /\ attempts' = [attempts EXCEPT ![r] = attempts[r] + 1]
      /\ arrived' = [arrived EXCEPT ![r] = FALSE]
      /\ UNCHANGED <<adfs, retryIfServerError, retries, challenges, outcome, session, calls>>
  BY DEF SendRequest, Send, counts
<1>3. \/ r \in adfs /\ UNCHANGED <<report, record>>
      \/ /\ r \notin adfs
         /\ report' = [report EXCEPT ![r] = record]
         /\ record' = None
  BY DEF SendRequest, AddClientMetrics
<1>4. TypeOK'
  <2>1. responseData' \in [Requests -> [nil : BOOLEAN, from : SUBSET Nat]]
    BY <1>1, <1>2 DEF TypeOK, Buffer
  <2>2. report' \in [Requests -> Requests \union {None}]
    BY <1>1, <1>3 DEF TypeOK
  <2>3. record' \in Requests \union {None}
    BY <1>1, <1>3 DEF TypeOK
  <2>4. attempts' \in [Requests -> Nat]
    BY <1>1, <1>2 DEF TypeOK
  <2>5. response' \in [Requests -> Nat \union {None}]
    BY <1>1, <1>2 DEF TypeOK
  <2> QED BY <1>1, <1>2, <2>1, <2>2, <2>3, <2>4, <2>5 DEF TypeOK, Locations
<1>5. Local(r)'
  BY <1>1, <1>2, <1>3 DEF Local, TypeOK, Buffer
<1>6. Frame(r)
  BY <1>1, <1>2, <1>3 DEF Frame, TypeOK
<1>7. ReportedOnce'
  <2>1. report[r] = None
    BY <1>1, <1>2 DEF Local
  <2> QED BY <1>1, <1>2, <1>3, <2>1 DEF ReportedOnce, RecordFresh, TypeOK
<1>8. RecordFresh'
  BY <1>1, <1>2, <1>3, NoneAssumption DEF RecordFresh, TypeOK
<1> QED BY <1>4, <1>5, <1>6, <1>7, <1>8, OneRequest

\* The response belongs to the attempt that is out.
LEMMA ReceiveResponseIInv ==
    ASSUME IInv, NEW r \in Requests, ReceiveResponse(r)
    PROVE  IInv'
<1>1. TypeOK /\ Local(r)
  BY Split
<1>2. /\ pc[r] = "sent"
      /\ pc' = [pc EXCEPT ![r] = "receiving"]
      /\ response' = [response EXCEPT ![r] = attempts[r]]
      /\ UNCHANGED <<responseData, arrived, retryIfServerError, retries, challenges>>
      /\ UNCHANGED <<adfs, report, record, outcome, session, attempts, calls>>
  BY <1>1 DEF ReceiveResponse, counts
<1>3. TypeOK'
  <2>1. responseData' \in [Requests -> [nil : BOOLEAN, from : SUBSET Nat]]
    BY <1>1, <1>2 DEF TypeOK, Buffer, Nil
  <2>2. outcome' \in [Requests -> [kind : Outcomes, body : SUBSET Nat]]
    BY <1>1, <1>2 DEF TypeOK, Outcomes
  <2> QED BY <1>1, <1>2, <2>1, <2>2 DEF TypeOK, Locations
<1>4. Local(r)'
  BY <1>1, <1>2 DEF Local, TypeOK, Buffer, Nil
<1>5. Frame(r)
  BY <1>1, <1>2 DEF Frame, TypeOK
<1>6. pc[r] # "done"
  BY <1>2
<1> QED BY <1>2, <1>3, <1>4, <1>5, <1>6, SameMetrics

\* The bytes are those of this attempt.
LEMMA ReceiveDataIInv ==
    ASSUME IInv, NEW r \in Requests, ReceiveData(r)
    PROVE  IInv'
<1>1. TypeOK /\ Local(r)
  BY Split
<1>2. /\ pc[r] = "receiving"
      /\ response[r] = attempts[r]
      /\ ~arrived[r]
      /\ responseData' = [responseData EXCEPT ![r] =
            IF responseData[r].nil THEN Nil
            ELSE Buffer(responseData[r].from \union {response[r]})]
      /\ arrived' = [arrived EXCEPT ![r] = TRUE]
      /\ UNCHANGED <<pc, response, retryIfServerError, retries, challenges>>
      /\ UNCHANGED <<adfs, report, record, outcome, session, attempts, calls>>
  BY <1>1 DEF ReceiveData, counts, Local
<1>3. TypeOK'
  <2>1. responseData' \in [Requests -> [nil : BOOLEAN, from : SUBSET Nat]]
    BY <1>1, <1>2 DEF TypeOK, Buffer, Nil
  <2>2. outcome' \in [Requests -> [kind : Outcomes, body : SUBSET Nat]]
    BY <1>1, <1>2 DEF TypeOK, Outcomes
  <2> QED BY <1>1, <1>2, <2>1, <2>2 DEF TypeOK, Locations
<1>4. Local(r)'
  <2>1. responseData[r] = Buffer({})
    BY <1>1, <1>2 DEF Local
  <2>2. ~responseData[r].nil /\ responseData[r].from = {}
    BY <2>1 DEF Buffer
  <2>3. arrived'[r] /\ responseData'[r] = Buffer({} \union {response[r]})
    BY <1>1, <1>2, <2>2 DEF TypeOK
  <2>4. responseData'[r] = Buffer({attempts[r]})
    <3>1. {} \union {response[r]} = {attempts[r]}
      BY <1>2
    <3> QED BY <2>3, <3>1
  <2>5. outcome[r].kind = "none"
    BY <1>1, <1>2 DEF Local
  <2> QED BY <1>1, <1>2, <2>3, <2>4, <2>5 DEF Local, TypeOK
<1>5. Frame(r)
  BY <1>1, <1>2 DEF Frame, TypeOK
<1>6. pc[r] # "done"
  BY <1>2
<1> QED BY <1>2, <1>3, <1>4, <1>5, <1>6, SameMetrics

\* The task fails.
LEMMA FailTransportIInv ==
    ASSUME IInv, NEW r \in Requests, FailTransport(r)
    PROVE  IInv'
<1>1. TypeOK /\ Local(r)
  BY Split
<1>2. /\ pc[r] \in {"sent", "receiving"}
      /\ pc' = [pc EXCEPT ![r] = "done"]
      /\ response' = [response EXCEPT ![r] = None]
      /\ responseData' = [responseData EXCEPT ![r] = Nil]
      /\ outcome' = [outcome EXCEPT
                     ![r] = [kind |-> "error", body |-> responseData[r].from]]
      /\ calls' = [calls EXCEPT ![r] = calls[r] + 1]
      /\ \/ session' = [session EXCEPT ![r] = "invalidated"]
         \/ UNCHANGED session
      /\ EndClientMetricsRecord(r)
      /\ UNCHANGED <<adfs, report, attempts, arrived>>
      /\ UNCHANGED <<retryIfServerError, retries, challenges>>
  BY <1>1 DEF FailTransport, Finish, counts
<1>3. TypeOK'
  <2>1. responseData' \in [Requests -> [nil : BOOLEAN, from : SUBSET Nat]]
    BY <1>1, <1>2 DEF TypeOK, Buffer, Nil
  <2>2. outcome' \in [Requests -> [kind : Outcomes, body : SUBSET Nat]]
    BY <1>1, <1>2 DEF TypeOK, Outcomes
  <2>3. record' \in Requests \union {None}
    BY <1>1, <1>2 DEF TypeOK, EndClientMetricsRecord
  <2>4. calls' \in [Requests -> Nat]
    BY <1>1, <1>2 DEF TypeOK
  <2>5. session' \in [Requests -> {"valid", "invalidated"}]
    BY <1>1, <1>2 DEF TypeOK
  <2> QED BY <1>1, <1>2, <2>1, <2>2, <2>3, <2>4, <2>5 DEF TypeOK, Locations
<1>4. Local(r)'
  BY <1>1, <1>2 DEF Local, TypeOK, Buffer, Nil
<1>5. Frame(r)
  BY <1>1, <1>2 DEF Frame, TypeOK
<1>6. pc[r] # "done" /\ pc'[r] = "done"
  BY <1>1, <1>2 DEF TypeOK
<1> QED BY <1>2, <1>3, <1>4, <1>5, <1>6, NewRecord

\* What is parsed is the buffer of this attempt.
LEMMA SucceedIInv ==
    ASSUME IInv, NEW r \in Requests, Succeed(r)
    PROVE  IInv'
<1>1. TypeOK /\ Local(r)
  BY Split
<1>2. /\ pc[r] = "receiving"
      /\ arrived[r]
      /\ pc' = [pc EXCEPT ![r] = "done"]
      /\ response' = [response EXCEPT ![r] = None]
      /\ responseData' = [responseData EXCEPT ![r] = Nil]
      /\ outcome' = [outcome EXCEPT
                     ![r] = [kind |-> "response", body |-> responseData[r].from]]
      /\ calls' = [calls EXCEPT ![r] = calls[r] + 1]
      /\ \/ session' = [session EXCEPT ![r] = "invalidated"]
         \/ UNCHANGED session
      /\ EndClientMetricsRecord(r)
      /\ UNCHANGED <<adfs, report, attempts, arrived>>
      /\ UNCHANGED <<retryIfServerError, retries, challenges>>
  BY <1>1 DEF Succeed, Finish, counts
<1>3. TypeOK'
  <2>1. responseData' \in [Requests -> [nil : BOOLEAN, from : SUBSET Nat]]
    BY <1>1, <1>2 DEF TypeOK, Buffer, Nil
  <2>2. outcome' \in [Requests -> [kind : Outcomes, body : SUBSET Nat]]
    BY <1>1, <1>2 DEF TypeOK, Outcomes
  <2>3. record' \in Requests \union {None}
    BY <1>1, <1>2 DEF TypeOK, EndClientMetricsRecord
  <2>4. calls' \in [Requests -> Nat]
    BY <1>1, <1>2 DEF TypeOK
  <2>5. session' \in [Requests -> {"valid", "invalidated"}]
    BY <1>1, <1>2 DEF TypeOK
  <2> QED BY <1>1, <1>2, <2>1, <2>2, <2>3, <2>4, <2>5 DEF TypeOK, Locations
<1>4. Local(r)'
  BY <1>1, <1>2 DEF Local, TypeOK, Buffer, Nil
<1>5. Frame(r)
  BY <1>1, <1>2 DEF Frame, TypeOK
<1>6. pc[r] # "done" /\ pc'[r] = "done"
  BY <1>1, <1>2 DEF TypeOK
<1> QED BY <1>2, <1>3, <1>4, <1>5, <1>6, NewRecord

\* The response is an error.
LEMMA FailResponseIInv ==
    ASSUME IInv, NEW r \in Requests, FailResponse(r)
    PROVE  IInv'
<1>1. TypeOK /\ Local(r)
  BY Split
<1>2. /\ pc[r] = "receiving"
      /\ pc' = [pc EXCEPT ![r] = "done"]
      /\ response' = [response EXCEPT ![r] = None]
      /\ responseData' = [responseData EXCEPT ![r] = Nil]
      /\ outcome' = [outcome EXCEPT
                     ![r] = [kind |-> "error", body |-> responseData[r].from]]
      /\ calls' = [calls EXCEPT ![r] = calls[r] + 1]
      /\ \/ session' = [session EXCEPT ![r] = "invalidated"]
         \/ UNCHANGED session
      /\ EndClientMetricsRecord(r)
      /\ UNCHANGED <<adfs, report, attempts, arrived>>
      /\ UNCHANGED <<retryIfServerError, retries, challenges>>
  BY <1>1 DEF FailResponse, Finish, counts
<1>3. TypeOK'
  <2>1. responseData' \in [Requests -> [nil : BOOLEAN, from : SUBSET Nat]]
    BY <1>1, <1>2 DEF TypeOK, Buffer, Nil
  <2>2. outcome' \in [Requests -> [kind : Outcomes, body : SUBSET Nat]]
    BY <1>1, <1>2 DEF TypeOK, Outcomes
  <2>3. record' \in Requests \union {None}
    BY <1>1, <1>2 DEF TypeOK, EndClientMetricsRecord
  <2>4. calls' \in [Requests -> Nat]
    BY <1>1, <1>2 DEF TypeOK
  <2>5. session' \in [Requests -> {"valid", "invalidated"}]
    BY <1>1, <1>2 DEF TypeOK
  <2> QED BY <1>1, <1>2, <2>1, <2>2, <2>3, <2>4, <2>5 DEF TypeOK, Locations
<1>4. Local(r)'
  BY <1>1, <1>2 DEF Local, TypeOK, Buffer, Nil
<1>5. Frame(r)
  BY <1>1, <1>2 DEF Frame, TypeOK
<1>6. pc[r] # "done" /\ pc'[r] = "done"
  BY <1>1, <1>2 DEF TypeOK
<1> QED BY <1>2, <1>3, <1>4, <1>5, <1>6, NewRecord

\* The second server error: the retry was used up by the first.
LEMMA ServerErrorIInv ==
    ASSUME IInv, NEW r \in Requests, ServerError(r)
    PROVE  IInv'
<1>1. TypeOK /\ Local(r)
  BY Split
<1>2. /\ pc[r] = "receiving"
      /\ ~retryIfServerError[r]
      /\ pc' = [pc EXCEPT ![r] = "done"]
      /\ response' = [response EXCEPT ![r] = None]
      /\ responseData' = [responseData EXCEPT ![r] = Nil]
      /\ outcome' = [outcome EXCEPT
                     ![r] = [kind |-> "serverError", body |-> responseData[r].from]]
      /\ calls' = [calls EXCEPT ![r] = calls[r] + 1]
      /\ \/ session' = [session EXCEPT ![r] = "invalidated"]
         \/ UNCHANGED session
      /\ EndClientMetricsRecord(r)
      /\ UNCHANGED <<adfs, report, attempts, arrived>>
      /\ UNCHANGED <<retryIfServerError, retries, challenges>>
  BY <1>1 DEF ServerError, Finish, counts
<1>3. TypeOK'
  <2>1. responseData' \in [Requests -> [nil : BOOLEAN, from : SUBSET Nat]]
    BY <1>1, <1>2 DEF TypeOK, Buffer, Nil
  <2>2. outcome' \in [Requests -> [kind : Outcomes, body : SUBSET Nat]]
    BY <1>1, <1>2 DEF TypeOK, Outcomes
  <2>3. record' \in Requests \union {None}
    BY <1>1, <1>2 DEF TypeOK, EndClientMetricsRecord
  <2>4. calls' \in [Requests -> Nat]
    BY <1>1, <1>2 DEF TypeOK
  <2>5. session' \in [Requests -> {"valid", "invalidated"}]
    BY <1>1, <1>2 DEF TypeOK
  <2> QED BY <1>1, <1>2, <2>1, <2>2, <2>3, <2>4, <2>5 DEF TypeOK, Locations
<1>4. Local(r)'
  <2>0. retries[r] \in Nat /\ retries[r] <= 1 /\ retries[r] # 0
    BY <1>1, <1>2 DEF Local, TypeOK
  <2>1. retries[r] = 1
    BY <2>0
  <2>2. calls[r] = 0
    BY <1>1, <1>2 DEF Local
  <2>3. pc'[r] = "done" /\ calls'[r] = 1
    BY <1>1, <1>2, <2>2 DEF TypeOK
  <2>4. outcome'[r].kind = "serverError"
    BY <1>1, <1>2 DEF TypeOK
  <2> QED BY <1>1, <1>2, <2>1, <2>3, <2>4 DEF Local, TypeOK
<1>5. Frame(r)
  BY <1>1, <1>2 DEF Frame, TypeOK
<1>6. pc[r] # "done" /\ pc'[r] = "done"
  BY <1>1, <1>2 DEF TypeOK
<1> QED BY <1>2, <1>3, <1>4, <1>5, <1>6, NewRecord

\* One more challenge, one more attempt.
LEMMA AnswerChallengeIInv ==
    ASSUME IInv, NEW r \in Requests, AnswerChallenge(r)
    PROVE  IInv'
<1>1. TypeOK /\ Local(r)
  BY Split
<1>2. /\ pc[r] = "receiving"
      /\ pc' = [pc EXCEPT ![r] = "sent"]
      /\ response' = [response EXCEPT ![r] = None]
      /\ responseData' = [responseData EXCEPT ![r] = Buffer({})]
      /\ attempts' = [attempts EXCEPT ![r] = attempts[r] + 1]
      /\ arrived' = [arrived EXCEPT ![r] = FALSE]
      /\ challenges' = [challenges EXCEPT ![r] = challenges[r] + 1]
      /\ UNCHANGED <<retryIfServerError, retries>>
      /\ UNCHANGED <<adfs, report, record, outcome, session, calls>>
  BY <1>1 DEF AnswerChallenge, Resend, Send
<1>3. TypeOK'
  <2>1. responseData' \in [Requests -> [nil : BOOLEAN, from : SUBSET Nat]]
    BY <1>1, <1>2 DEF TypeOK, Buffer, Nil
  <2>2. outcome' \in [Requests -> [kind : Outcomes, body : SUBSET Nat]]
    BY <1>1, <1>2 DEF TypeOK, Outcomes
  <2> QED BY <1>1, <1>2, <2>1, <2>2 DEF TypeOK, Locations
<1>4. Local(r)'
  <2>1. /\ pc'[r] = "sent"
        /\ responseData'[r] = Buffer({})
        /\ attempts'[r] = attempts[r] + 1
        /\ ~arrived'[r]
        /\ challenges'[r] = challenges[r] + 1
        /\ retries'[r] = retries[r]
    BY <1>1, <1>2 DEF TypeOK
  <2>2. outcome[r].kind = "none"
    BY <1>1, <1>2 DEF Local
  <2> QED BY <1>1, <1>2, <2>1, <2>2 DEF Local, TypeOK
<1>5. Frame(r)
  BY <1>1, <1>2 DEF Frame, TypeOK
<1>6. pc[r] # "done"
  BY <1>2
<1> QED BY <1>2, <1>3, <1>4, <1>5, <1>6, SameMetrics

\* The first server error uses the retry up.
LEMMA ScheduleRetryIInv ==
    ASSUME IInv, NEW r \in Requests, ScheduleRetry(r)
    PROVE  IInv'
<1>1. TypeOK /\ Local(r)
  BY Split
<1>2. /\ pc[r] = "receiving"
      /\ retryIfServerError[r]
      /\ retryIfServerError' = [retryIfServerError EXCEPT ![r] = FALSE]
      /\ retries' = [retries EXCEPT ![r] = retries[r] + 1]
      /\ pc' = [pc EXCEPT ![r] = "delayed"]
      /\ response' = [response EXCEPT ![r] = None]
      /\ responseData' = [responseData EXCEPT ![r] = Nil]
      /\ UNCHANGED <<challenges, arrived>>
      /\ UNCHANGED <<adfs, report, record, outcome, session, attempts, calls>>
  BY <1>1 DEF ScheduleRetry
<1>3. TypeOK'
  <2>1. responseData' \in [Requests -> [nil : BOOLEAN, from : SUBSET Nat]]
    BY <1>1, <1>2 DEF TypeOK, Buffer, Nil
  <2>2. outcome' \in [Requests -> [kind : Outcomes, body : SUBSET Nat]]
    BY <1>1, <1>2 DEF TypeOK, Outcomes
  <2> QED BY <1>1, <1>2, <2>1, <2>2 DEF TypeOK, Locations
<1>4. Local(r)'
  <2>1. /\ pc'[r] = "delayed"
        /\ retries'[r] = 1
        /\ ~retryIfServerError'[r]
        /\ challenges'[r] = challenges[r]
        /\ attempts'[r] = 1 + challenges[r] + retries[r]
    BY <1>1, <1>2 DEF Local, TypeOK, Buffer
  <2>2. outcome[r].kind = "none"
    BY <1>1, <1>2 DEF Local
  <2> QED BY <1>1, <1>2, <2>1, <2>2 DEF Local, TypeOK
<1>5. Frame(r)
  BY <1>1, <1>2 DEF Frame, TypeOK
<1>6. pc[r] # "done"
  BY <1>2
<1> QED BY <1>2, <1>3, <1>4, <1>5, <1>6, SameMetrics

\* The attempt that was counted when it was scheduled.
LEMMA DelayedResendIInv ==
    ASSUME IInv, NEW r \in Requests, DelayedResend(r)
    PROVE  IInv'
<1>1. TypeOK /\ Local(r)
  BY Split
<1>2. /\ pc[r] = "delayed"
      /\ pc' = [pc EXCEPT ![r] = "sent"]
      /\ response' = [response EXCEPT ![r] = None]
      /\ responseData' = [responseData EXCEPT ![r] = Buffer({})]
      /\ attempts' = [attempts EXCEPT ![r] = attempts[r] + 1]
      /\ arrived' = [arrived EXCEPT ![r] = FALSE]
      /\ UNCHANGED <<retryIfServerError, retries, challenges>>
      /\ UNCHANGED <<adfs, report, record, outcome, session, calls>>
  BY <1>1 DEF DelayedResend, Resend, Send, counts
<1>3. TypeOK'
  <2>1. responseData' \in [Requests -> [nil : BOOLEAN, from : SUBSET Nat]]
    BY <1>1, <1>2 DEF TypeOK, Buffer, Nil
  <2>2. outcome' \in [Requests -> [kind : Outcomes, body : SUBSET Nat]]
    BY <1>1, <1>2 DEF TypeOK, Outcomes
  <2> QED BY <1>1, <1>2, <2>1, <2>2 DEF TypeOK, Locations
<1>4. Local(r)'
  <2>1. /\ pc'[r] = "sent"
        /\ responseData'[r] = Buffer({})
        /\ attempts'[r] = attempts[r] + 1
        /\ ~arrived'[r]
        /\ challenges'[r] = challenges[r]
        /\ retries'[r] = retries[r]
    BY <1>1, <1>2 DEF TypeOK
  <2>2. outcome[r].kind = "none"
    BY <1>1, <1>2 DEF Local
  <2> QED BY <1>1, <1>2, <2>1, <2>2 DEF Local, TypeOK
<1>5. Frame(r)
  BY <1>1, <1>2 DEF Frame, TypeOK
<1>6. pc[r] # "done"
  BY <1>2
<1> QED BY <1>2, <1>3, <1>4, <1>5, <1>6, SameMetrics

-----------------------------------------------------------------------------
\* IInv is inductive.
LEMMA NextIInv == IInv /\ [Next]_vars => IInv'
<1> SUFFICES ASSUME IInv, [Next]_vars
             PROVE  IInv'
  OBVIOUS
<1>1. ASSUME NEW r \in Requests, SendRequest(r)
      PROVE  IInv'
  BY <1>1, SendRequestIInv
<1>2. ASSUME NEW r \in Requests, Step(r)
      PROVE  IInv'
  BY <1>2, ReceiveResponseIInv, ReceiveDataIInv, FailTransportIInv, SucceedIInv,
     FailResponseIInv, AnswerChallengeIInv, ScheduleRetryIInv, ServerErrorIInv,
     DelayedResendIInv
     DEF Step
<1>3. CASE UNCHANGED vars
  BY <1>3 DEF vars, delivery, counts, IInv, TypeOK, CompletedOnce, SentAsNeeded,
     ServerErrorRetried, BodyOfLastAttempt, ReportedOnce, RecordFresh,
     BuffersMatch, FlagsMatch
<1> QED BY <1>1, <1>2, <1>3 DEF Next

\* The inductive invariant holds for any number of requests.
THEOREM IInvAlways == Spec => []IInv
<1> QED BY InitIInv, NextIInv, PTL DEF Spec

\* The caller of a request is called once, at its end.
THEOREM CompletesOnce == Spec => []CompletedOnce
<1>1. IInv => CompletedOnce
  BY DEF IInv
<1> QED BY <1>1, IInvAlways, PTL

\* A request is sent once, once for each challenge, and once more after its first
\* server error.
THEOREM NotSentTooOften == Spec => []SentAsNeeded
<1>1. IInv => SentAsNeeded
  BY DEF IInv
<1> QED BY <1>1, IInvAlways, PTL

\* What is parsed are the bytes of the last attempt.
THEOREM NoStaleBytes == Spec => []BodyOfLastAttempt
<1>1. IInv => BodyOfLastAttempt
  BY DEF IInv
<1> QED BY <1>1, IInvAlways, PTL

\* The end of a request is reported by at most one other.
THEOREM NoRecordTwice == Spec => []ReportedOnce
<1>1. IInv => ReportedOnce
  BY DEF IInv
<1> QED BY <1>1, IInvAlways, PTL

---------------------------------------------------------------------------
(* The readers of the header of a challenge *)

\* A set of positions has a first one.
LEMMA FirstPosition ==
    ASSUME NEW positions \in SUBSET Nat, positions # {}
    PROVE  /\ FirstOf(positions) \in positions
           /\ \A i \in positions : FirstOf(positions) <= i
<1> DEFINE before == {ij \in Nat \X Nat : ij[1] < ij[2]}
<1>0. IsWellFoundedOn(before, Nat)
  BY NatLessThanWellFounded DEF OpToRel
<1> HIDE DEF before
<1>1. PICK first \in positions : \A i \in positions : ~(<<i, first>> \in before)
  BY <1>0, WFMin
<1>2. ASSUME NEW i \in positions, i < first
      PROVE  <<i, first>> \in before
  BY <1>2 DEF before
<1>3. ASSUME NEW i \in positions
      PROVE  first <= i
  <2>1. ~(i < first)
    BY <1>1, <1>2
  <2>2. i \in Nat /\ first \in Nat
    OBVIOUS
  <2>3. QED
    BY <2>1, <2>2
<1>4. QED
  BY <1>3 DEF FirstOf, Min

\* The search for a symbol finds none or one that is in the header, from where it began.
LEMMA SymbolFound ==
    ASSUME NEW symbol, NEW s \in Seq(STRING), NEW first \in Nat \ {0}
    PROVE  LET i == IndexOf(symbol, s, first)
           IN  i # NotFound => i \in first..Len(s) /\ s[i] = symbol
<1> DEFINE positions == {i \in first..Len(s) : s[i] = symbol}
<1>1. CASE positions = {}
  BY <1>1 DEF IndexOf, FirstOf, NotFound
<1>2. CASE positions # {}
  <2>1. positions \in SUBSET Nat
    OBVIOUS
  <2>2. FirstOf(positions) \in positions
    BY <1>2, <2>1, FirstPosition
  <2>3. QED
    BY <2>2 DEF IndexOf
<1>3. QED
  BY <1>1, <1>2

\* White is skipped from the given position on, and never behind the end.
LEMMA AfterWhiteBounds ==
    ASSUME NEW s \in Seq(STRING), NEW i \in Nat \ {0}
    PROVE  /\ AfterWhite(s, i) \in Nat /\ AfterWhite(s, i) >= i
<1> DEFINE end == Max({i, Len(s) + 1})
           positions == {j \in i..Len(s) : s[j] \notin White} \cup {end}
<1>1. end \in Nat /\ end >= i
  <2> DEFINE both == {i, Len(s) + 1}
  <2>1. \E m \in both : \A y \in both : m >= y
    <3>1. CASE i >= Len(s) + 1
      BY <3>1
    <3>2. CASE i < Len(s) + 1
      BY <3>2
    <3>3. QED
      BY <3>1, <3>2
  <2>2. end \in both /\ \A y \in both : end >= y
    BY <2>1 DEF Max
  <2>3. QED
    BY <2>2
<1>2. positions \in SUBSET Nat /\ positions # {}
  BY <1>1
<1>3. FirstOf(positions) \in positions
  BY <1>2, FirstPosition
<1> HIDE DEF end
<1>4. \A j \in positions : j \in Nat /\ j >= i
  BY <1>1
<1>5. AfterWhite(s, i) = FirstOf(positions)
  BY DEF AfterWhite, end
<1>6. QED
  BY <1>3, <1>4, <1>5

\* An NSUInteger that counts symbols of the header is what it is.
LEMMA NotCut ==
    ASSUME WordAssumption, NEW n \in 0..Word - 1
    PROVE  n % Word = n
BY DEF WordAssumption

\* Any difference, cut to an NSUInteger, is one.
LEMMA CutToWord ==
    ASSUME WordAssumption, NEW n \in Int
    PROVE  n % Word \in 0..Word - 1
BY DEF WordAssumption

\* A range that begins in the text and is moved on ends where it ended, unless it is moved out.
LEMMA AdvanceKeepsEnd ==
    ASSUME WordAssumption, NEW text \in Seq(STRING), Len(text) < Word, NEW n \in Nat,
           NEW r, EndsWith(text, r), r.location <= Len(text) + 1
    PROVE  /\ EndsWith(text, Advance(r, n))
           /\ Advance(r, n).location = r.location + n
<1>1. /\ Advance(r, n).location = r.location + n
      /\ Advance(r, n).length = (r.length - n) % Word
  BY DEF Advance
<1>2. /\ r.location \in Nat \ {0} /\ r.length \in 0..Word - 1 /\ r.length \in Int
      /\ r.location - 1 + r.length = Len(text) /\ Len(text) \in 0..Word - 1 /\ Len(text) \in Nat
  BY DEF EndsWith, WordAssumption
<1>3. (r.length - n) % Word \in 0..Word - 1
  <2>1. r.length - n \in Int
    BY <1>2
  <2>2. QED
    BY <2>1, CutToWord
<1>4. ASSUME r.location + n <= Len(text) + 1
      PROVE  r.location + n - 1 + ((r.length - n) % Word) = Len(text)
  <2>1. r.length - n \in 0..Word - 1
    BY <1>2, <1>4
  <2>2. (r.length - n) % Word = r.length - n
    BY <2>1, NotCut
  <2>3. r.location + n - 1 + (r.length - n) = Len(text)
    BY <1>2
  <2>4. QED
    BY <2>2, <2>3
<1>5. r.location + n \in Nat \ {0}
  BY <1>2
<1>6. QED
  BY <1>1, <1>3, <1>4, <1>5 DEF EndsWith

\* A symbol that is read is in the header.
LEMMA AtInHeader ==
    ASSUME NEW s \in Seq(STRING), NEW i \in Nat, At(s, i) # ""
    PROVE  i \in 1..Len(s) /\ At(s, i) = s[i]
<1>1. DOMAIN s = 1..Len(s)
  BY LenProperties
<1>2. i \in DOMAIN s
  BY Zenon DEF At
<1>3. QED
  BY <1>1, <1>2, Zenon DEF At

\* RaisesOnlyAtTheEnd with what it needs of the steps before.
HeaderInv == IndexInv /\ RaisesOnlyAtTheEnd

\* The places of parseAuthHeader:.
InParse == {"pkeyauth", "key", "plain", "quote", "quoted"}

\* The texts handlePKeyAuthChallenge: is given, whole.
LEMMA HeaderInit ==
    ASSUME WordAssumption, HeadersFit, ReaderInit
    PROVE  HeaderInv
<1>1. CASE reader = "items"
  BY <1>1 DEF HeaderInv, IndexInv, RaisesOnlyAtTheEnd
<1>2. CASE \E list \in PKeyAuthLists \cup {<<>>}, text \in PKeyAuthTexts :
              Start("pkeyauth", list, text)
  <2>1. header \in Seq(STRING) /\ Len(header) < Word
    BY <1>2 DEF HeadersFit, Start
  <2>2. reader = "pkeyauth" /\ range = [location |-> 1, length |-> Len(header)] /\ found = 1
    BY <1>2 DEF Start
  <2>3. EndsWith(header, range)
    BY <2>1, <2>2 DEF EndsWith, WordAssumption
  <2>4. QED
    BY <2>1, <2>2, <2>3 DEF HeaderInv, IndexInv, RaisesOnlyAtTheEnd
<1>3. QED
  BY <1>1, <1>2 DEF ReaderInit, Start, PKeyAuthTexts

\* The word and the symbol after it are cut off.
LEMMA CutOff ==
    ASSUME WordAssumption, HeaderInv, HandlePKeyAuthChallenge
    PROVE  HeaderInv'
<1>1. /\ reader = "pkeyauth" /\ header \in Seq(STRING) /\ Len(header) < Word /\ found \in Nat
      /\ found' = found
  BY DEF HeaderInv, IndexInv, HandlePKeyAuthChallenge
<1>2. CASE header = <<>>
  BY <1>2 DEF HandlePKeyAuthChallenge, EndWith, HeaderInv, IndexInv,
              RaisesOnlyAtTheEnd
<1>3. CASE header # <<>>
  <2>1. /\ reader' = "key" /\ header' = Tail(header)
        /\ range' = [location |-> 1, length |-> Len(header) - 1]
    BY <1>3 DEF HandlePKeyAuthChallenge
  <2>2. Tail(header) \in Seq(STRING) /\ Len(Tail(header)) = Len(header) - 1 /\ Len(header) \in Nat
    BY <1>1, <1>3
  <2>3. Len(header) - 1 \in 0..Word - 1
    BY <1>1, <2>2 DEF WordAssumption
  <2>4. EndsWith(Tail(header), [location |-> 1, length |-> Len(header) - 1])
    BY <2>2, <2>3 DEF EndsWith
  <2>5. QED
    BY <1>1, <2>1, <2>2, <2>4 DEF HeaderInv, IndexInv, RaisesOnlyAtTheEnd
<1>4. QED
  BY <1>2, <1>3

\* A pass of the loop of parseAuthHeader: begins in the header and goes on further right.
MovesOn == range.location <= Len(header) /\ range'.location > range.location

\* A name, and the first symbol of its value.
LEMMA ReadKeyKeeps ==
    ASSUME WordAssumption, HeaderInv, ReadKey
    PROVE  HeaderInv' /\ (reader' = "raised" \/ MovesOn)
<1> DEFINE equals == IndexOf("=", header, KeyAt)
           value == Advance(range, equals + 1 - range.location)
           text == Advance(value, 1)
<1>1. /\ reader = "key" /\ header' = header
      /\ header \in Seq(STRING) /\ Len(header) < Word /\ Len(header) \in Nat
      /\ EndsWith(header, range) /\ range.location \in Nat \ {0} /\ found \in Nat
  <2>1. reader = "key" /\ header' = header
    BY DEF ReadKey
  <2>2. QED
    BY <2>1 DEF HeaderInv, IndexInv, EndsWith
<1>2. KeyAt \in Nat \ {0} /\ KeyAt >= range.location
  BY <1>1, AfterWhiteBounds DEF KeyAt
<1>3. equals \in range.location..Len(header) /\ header[equals] = "="
  <2>1. equals # NotFound
    BY DEF ReadKey
  <2>2. equals \in KeyAt..Len(header) /\ header[equals] = "="
    BY <1>1, <1>2, <2>1, SymbolFound
  <2>3. QED
    BY <1>1, <1>2, <2>2
<1>4. \/ value.location > Len(header) /\ reader' = "raised"
      \/ /\ At(header, value.location) = Quote
         /\ reader' = "quote" /\ range' = text /\ found' = value.location + 1
      \/ /\ At(header, value.location) \notin {"", Quote}
         /\ reader' = "plain" /\ range' = value /\ found' = found
  BY DEF ReadKey, EndWith
<1> HIDE DEF equals
<1>5. EndsWith(header, value) /\ value.location = equals + 1
  <2>1. /\ equals + 1 - range.location \in Nat /\ range.location <= Len(header) + 1
        /\ range.location + (equals + 1 - range.location) = equals + 1
    BY <1>1, <1>3
  <2>2. QED
    BY <1>1, <2>1, AdvanceKeepsEnd
<1> HIDE DEF value
<1>6. value.location \in Nat \ {0} /\ value.location <= Len(header) + 1
  BY <1>1, <1>3, <1>5
<1>7. EndsWith(header, text) /\ text.location = value.location + 1
  BY <1>1, <1>5, <1>6, AdvanceKeepsEnd
<1> HIDE DEF text
<1>8. ASSUME At(header, value.location) # ""
      PROVE  value.location <= Len(header)
  <2>1. \A i \in Nat : At(header, i) # "" => i \in 1..Len(header)
    BY <1>1, AtInHeader
  <2>2. value.location \in 1..Len(header)
    BY <1>6, <1>8, <2>1
  <2>3. QED
    BY <1>1, <2>2
<1>9. CASE value.location > Len(header) /\ reader' = "raised"
  <2>1. equals = Len(header)
    BY <1>1, <1>3, <1>5, <1>9
  <2>2. Last(header)' = "="
    BY <1>1, <1>3, <2>1 DEF Last
  <2>3. QED
    BY <1>9, <2>2 DEF HeaderInv, IndexInv, RaisesOnlyAtTheEnd
<1>10. CASE /\ At(header, value.location) = Quote
            /\ reader' = "quote" /\ range' = text /\ found' = value.location + 1
  <2>1. value.location <= Len(header)
    BY <1>8, <1>10 DEF Quote
  <2>2. /\ EndsWith(header', range') /\ found' \in Nat
        /\ range'.location <= Len(header) + 1 /\ found' >= range'.location
    BY <1>1, <1>6, <1>7, <1>10, <2>1
  <2>3. QED
    BY <1>1, <1>3, <1>5, <1>7, <1>10, <2>2
    DEF HeaderInv, IndexInv, RaisesOnlyAtTheEnd, MovesOn
<1>11. CASE /\ At(header, value.location) \notin {"", Quote}
            /\ reader' = "plain" /\ range' = value /\ found' = found
  <2>1. HeaderInv'
    BY <1>1, <1>5, <1>6, <1>8, <1>11
    DEF HeaderInv, IndexInv, RaisesOnlyAtTheEnd
  <2>2. MovesOn
    <3>1. range' = value
      BY <1>11
    <3>2. QED
      BY <1>1, <1>3, <1>5, <3>1 DEF MovesOn
  <2>3. QED
    BY <2>1, <2>2
<1>12. QED
  BY <1>4, <1>9, <1>10, <1>11

\* The comma that is looked for in a range is in it.
LEMMA CommaInRange ==
    ASSUME NEW r, r.location \in Nat \ {0}, r.length \in Nat
    PROVE  CommaIn(r) # NotFound =>
             CommaIn(r) \in r.location..r.location + r.length - 1
<1> DEFINE positions == {i \in r.location..r.location + r.length - 1 : At(header, i) = ","}
<1>1. CASE positions = {}
  BY <1>1 DEF CommaIn, FirstOf, NotFound
<1>2. CASE positions # {}
  <2>1. ASSUME NEW i \in r.location..r.location + r.length - 1
        PROVE  i \in Nat
    OBVIOUS
  <2>2. positions \in SUBSET Nat
    BY <2>1
  <2>3. FirstOf(positions) \in positions
    BY <1>2, <2>2, FirstPosition
  <2>4. QED
    BY <2>3 DEF CommaIn
<1>3. QED
  BY <1>1, <1>2

\* Back at the head of the loop, where a name is looked for.
LEMMA AtNextKey ==
    ASSUME HeaderInv, reader \in InParse, reader' = "key", header' = header, found' = found,
           EndsWith(header, range')
    PROVE  HeaderInv'
BY DEF HeaderInv, InParse, IndexInv, RaisesOnlyAtTheEnd

\* A value without quotes.
LEMMA PlainKeeps ==
    ASSUME WordAssumption, HeaderInv, ReadPlainValue
    PROVE  HeaderInv' /\ MovesOn
<1> DEFINE comma == CommaIn(range)
           length == IF comma = NotFound THEN range.length ELSE comma - range.location
<1>1. /\ reader = "plain" /\ header' = header /\ found' = found
      /\ header \in Seq(STRING) /\ Len(header) < Word /\ Len(header) \in Nat
      /\ EndsWith(header, range) /\ range.location <= Len(header)
      /\ range.location \in Nat \ {0} /\ range.length \in Nat
      /\ range.location - 1 + range.length = Len(header)
  <2>1. reader = "plain" /\ header' = header /\ found' = found
    BY DEF ReadPlainValue
  <2>2. QED
    BY <2>1 DEF HeaderInv, IndexInv, EndsWith, WordAssumption
<1>2. InHeader(range)
  BY <1>1 DEF InHeader
<1>3. reader' = "key" /\ range' = Advance(range, length + 1)
  BY <1>2 DEF ReadPlainValue
<1>4. length \in Nat
  BY <1>1, CommaInRange
<1> HIDE DEF length
<1>5. /\ EndsWith(header, Advance(range, length + 1))
      /\ Advance(range, length + 1).location = range.location + (length + 1)
  <2>1. length + 1 \in Nat /\ range.location <= Len(header) + 1
    BY <1>1, <1>4
  <2>2. QED
    BY <1>1, <2>1, AdvanceKeepsEnd
<1>6. MovesOn
  BY <1>1, <1>3, <1>4, <1>5 DEF MovesOn
<1>7. QED
  BY <1>1, <1>3, <1>5, <1>6, AtNextKey DEF InParse

\* The search for the closing quote.
LEMMA FindQuoteKeeps ==
    ASSUME HeaderInv, FindQuote
    PROVE  /\ HeaderInv'
           /\ reader' = "quote" => found' \in found..Len(header)
<1> DEFINE quote == IndexOf(Quote, header, found)
<1>1. /\ reader = "quote" /\ header' = header /\ range' = range
      /\ header \in Seq(STRING) /\ Len(header) < Word /\ Len(header) \in Nat
      /\ EndsWith(header, range) /\ range.location \in Nat \ {0} /\ found \in Nat \ {0}
      /\ range.location <= Len(header) + 1 /\ found >= range.location
  <2>1. reader = "quote" /\ header' = header /\ range' = range
    BY DEF FindQuote
  <2>2. QED
    BY <2>1 DEF HeaderInv, IndexInv, EndsWith
<1>2. quote # NotFound => quote \in found..Len(header)
  BY <1>1, SymbolFound
<1>3. \/ reader' = "nil"
      \/ quote # NotFound /\ found' = quote /\ reader' \in {"quote", "quoted"}
  BY <1>1 DEF FindQuote, EndWith
<1> HIDE DEF quote
<1>4. QED
  BY <1>1, <1>2, <1>3 DEF HeaderInv, IndexInv, RaisesOnlyAtTheEnd

\* A value in quotes.
LEMMA QuotedKeeps ==
    ASSUME WordAssumption, HeaderInv, ReadQuotedValue
    PROVE  HeaderInv' /\ MovesOn
<1> DEFINE size == found - range.location
           rest == Advance(range, size + 1)
           comma == CommaIn(rest)
           length == IF comma = NotFound THEN size + 1 ELSE comma - rest.location
<1>1. /\ reader = "quoted" /\ header' = header /\ found' = found
      /\ header \in Seq(STRING) /\ Len(header) < Word /\ Len(header) \in Nat
      /\ EndsWith(header, range) /\ range.location \in Nat \ {0}
      /\ found \in range.location..Len(header)
  <2>1. reader = "quoted" /\ header' = header /\ found' = found
    BY DEF ReadQuotedValue
  <2>2. QED
    BY <2>1 DEF HeaderInv, IndexInv, EndsWith
<1>2. size \in Nat
  BY <1>1
<1>3. EndsWith(header, rest) /\ rest.location = found + 1
  <2>1. /\ size + 1 \in Nat /\ range.location <= Len(header) + 1
        /\ range.location + (size + 1) = found + 1
    BY <1>1
  <2>2. QED
    BY <1>1, <2>1, AdvanceKeepsEnd
<1> HIDE DEF size
<1>4. rest.location \in Nat \ {0} /\ rest.location <= Len(header) + 1
  BY <1>1, <1>3
<1>5. rest.location - 1 + rest.length = Len(header) /\ rest.length \in Nat
  BY <1>3, <1>4 DEF EndsWith, WordAssumption
<1>6. InHeader(rest)
  BY <1>1, <1>5 DEF InHeader
<1>7. reader' = "key" /\ range' = Advance(rest, length + 1)
  BY <1>6 DEF ReadQuotedValue, size
<1> HIDE DEF rest
<1>8. length \in Nat
  <2>1. CASE comma = NotFound
    BY <1>2, <2>1
  <2>2. CASE comma # NotFound
    BY <1>4, <1>5, <2>2, CommaInRange
  <2>3. QED
    BY <2>1, <2>2
<1> HIDE DEF length
<1>9. /\ EndsWith(header, Advance(rest, length + 1))
      /\ Advance(rest, length + 1).location = rest.location + (length + 1)
  <2>1. length + 1 \in Nat
    BY <1>8
  <2>2. QED
    BY <1>1, <1>3, <1>4, <2>1, AdvanceKeepsEnd
<1>10. MovesOn
  BY <1>1, <1>3, <1>7, <1>8, <1>9 DEF MovesOn
<1>11. QED
  BY <1>1, <1>7, <1>9, <1>10, AtNextKey DEF InParse

\* The other steps end the reader, or are of the reader of a resource's challenge.
LEMMA OthersKeep ==
    ASSUME HeaderInv,
           \/ EndOfHeader \/ MalformedKey
           \/ SkipQuoted \/ CutAtComma \/ OtherSymbol
           \/ ItemsRead \/ FindBearer \/ ExtractParameter
           \/ NextItem \/ InitWithParameters
    PROVE  HeaderInv'
<1>1. reader' \in {"returned", "nil", "items", "bearer", "error", "parameters"}
  <2>1. CASE EndOfHeader \/ MalformedKey
    BY <2>1 DEF EndOfHeader, MalformedKey, EndWith
  <2>2. CASE SkipQuoted \/ CutAtComma \/ OtherSymbol \/ ItemsRead
    BY <2>2 DEF SkipQuoted, CutAtComma, OtherSymbol, ItemsRead
  <2>3. CASE FindBearer
    BY <2>3, Zenon DEF FindBearer, EndWith
  <2>4. CASE ExtractParameter \/ NextItem
    BY <2>4, Zenon DEF ExtractParameter, NextItem
  <2>5. CASE InitWithParameters
    BY <2>5, Zenon DEF InitWithParameters, EndWith
  <2>6. QED
    BY <2>1, <2>2, <2>3, <2>4, <2>5
<1>2. QED
  BY <1>1 DEF HeaderInv, IndexInv, RaisesOnlyAtTheEnd

\* HeaderInv is kept by every step.
LEMMA HeaderNext ==
    ASSUME WordAssumption, HeaderInv, [ReaderNext]_readerVars
    PROVE  HeaderInv'
<1>1. CASE Reading
  BY <1>1, CutOff, ReadKeyKeeps, PlainKeeps, FindQuoteKeeps, QuotedKeeps, OthersKeep, Zenon
  DEF Reading
<1>2. CASE UNCHANGED readerVars
  BY <1>2 DEF readerVars, HeaderInv, IndexInv, RaisesOnlyAtTheEnd
<1>3. QED
  BY <1>1, <1>2 DEF ReaderNext, Ended

\* Whatever header a server sends, of any length: parseAuthHeader: raises only on one that ends after
\* the word PKeyAuth or after an =, and the reader of a resource's challenge never does.
THEOREM HeaderIndexesInBounds ==
    ASSUME WordAssumption, HeadersFit
    PROVE  ReaderSpec => []RaisesOnlyAtTheEnd
<1>1. ReaderInit => HeaderInv
  BY HeaderInit
<1>2. HeaderInv /\ [ReaderNext]_readerVars => HeaderInv'
  BY HeaderNext
<1>3. HeaderInv => RaisesOnlyAtTheEnd
  BY DEF HeaderInv
<1>4. QED
  BY <1>1, <1>2, <1>3, PTL DEF ReaderSpec

\* The texts extractItems: is given, whole.
LEMMA ItemsInit ==
    ASSUME HeadersFit, ReaderInit
    PROVE  ItemsInv
<1>1. CASE reader = "pkeyauth"
  BY <1>1 DEF ItemsInv
<1>2. CASE \E list \in BearerLists \cup {<<>>}, text \in BearerTexts :
              Start("items", list, text)
  <2>1. /\ reader = "items" /\ header \in Seq(STRING) /\ found = 1
        /\ range \in [location : Nat \ {0}, length : Nat] /\ range.location = 1
    BY <1>2 DEF HeadersFit, Start
  <2>2. items = <<>>
    BY <1>2 DEF Start
  <2>3. items \in Seq(Seq(STRING))
    BY <2>2
  <2>4. found \in range.location..Len(header) + 1
    BY <2>1
  <2>5. QED
    BY <2>1, <2>3, <2>4 DEF ItemsInv
<1>3. QED
  BY <1>1, <1>2 DEF ReaderInit, Start, BearerTexts

\* What is cut from the header lies in it.
LEMMA ItemCut ==
    ASSUME ItemsInv, reader = "items"
    PROVE  /\ Item \in Seq(STRING)
           /\ \A item \in Seq(STRING) : Append(items, item) \in Seq(Seq(STRING))
<1>1. /\ header \in Seq(STRING) /\ Len(header) \in Nat /\ items \in Seq(Seq(STRING))
      /\ range.location \in Nat \ {0} /\ found \in range.location..Len(header) + 1
  BY DEF ItemsInv
<1>2. \A i \in range.location..found - 1 : i \in 1..Len(header)
  BY <1>1
<1>3. SubSeq(header, range.location, found - 1) \in Seq(STRING)
  BY <1>1, <1>2, SubSeqProperties
<1>4. QED
  BY <1>1, <1>3 DEF Item

\* A symbol of the header is passed: rightIndex moves on, behind a closing quote if there is one.
LEMMA SymbolPassed ==
    ASSUME ItemsInv, SkipQuoted \/ CutAtComma \/ OtherSymbol
    PROVE  /\ reader = "items" /\ reader' = "items" /\ header' = header
           /\ found' \in found + 1..Len(header) + 1
           /\ range' \in {range, [range EXCEPT !.location = found + 1]}
           /\ items' \in {items, Append(items, Item)}
<1>1. /\ reader = "items" /\ reader' = "items" /\ header' = header
  BY DEF SkipQuoted, CutAtComma, OtherSymbol
<1>2. /\ header \in Seq(STRING) /\ Len(header) \in Nat
      /\ range.location \in Nat \ {0} /\ found \in range.location..Len(header) + 1
      /\ found \in Nat \ {0}
  BY <1>1 DEF ItemsInv
<1>3. ASSUME At(header, found) # ""
      PROVE  found \in 1..Len(header)
  BY <1>2, <1>3, AtInHeader
<1>4. CASE SkipQuoted
  <2> DEFINE close == IndexOf(header[found], header, found + 1)
             last == Max({found, close})
  <2>1. found \in 1..Len(header)
    BY <1>3, <1>4 DEF SkipQuoted, Quote
  <2>2. close \in {0} \cup found + 1..Len(header)
    BY <1>2, SymbolFound DEF NotFound
  <2> HIDE DEF close
  <2>3. last \in {found, close} /\ last >= found
    <3>1. \E m \in {found, close} : \A y \in {found, close} : m >= y
      <4>1. CASE close = 0
        BY <1>2, <4>1
      <4>2. CASE close \in found + 1..Len(header)
        BY <1>2, <4>2
      <4>3. QED
        BY <2>2, <4>1, <4>2
    <3>2. QED
      BY <3>1 DEF Max
  <2> HIDE DEF last
  <2>4. found' = last + 1 /\ range' = range /\ items' = items
    BY <1>4 DEF SkipQuoted, last, close
  <2>5. QED
    BY <1>1, <1>2, <2>1, <2>2, <2>3, <2>4
<1>5. CASE CutAtComma
  <2>1. found \in 1..Len(header) /\ range \in [location : Nat \ {0}, length : Nat]
    BY <1>1, <1>3, <1>5 DEF CutAtComma, ItemsInv
  <2>2. found' = found + 1 /\ items' = Append(items, Item)
    BY <1>5 DEF CutAtComma
  <2>3. range' = [range EXCEPT !.location = found + 1]
    BY <1>5 DEF CutAtComma
  <2>4. found' \in found + 1..Len(header) + 1
    BY <1>2, <2>1, <2>2
  <2>5. QED
    BY <1>1, <2>2, <2>3, <2>4
<1>6. CASE OtherSymbol
  <2>1. found <= Len(header) /\ found' = found + 1 /\ range' = range /\ items' = items
    BY <1>6 DEF OtherSymbol
  <2>2. QED
    BY <1>1, <1>2, <2>1
<1>7. QED
  BY <1>4, <1>5, <1>6

\* Until the end of the header the items are cut from it.
LEMMA SymbolKeeps ==
    ASSUME ItemsInv, SkipQuoted \/ CutAtComma \/ OtherSymbol
    PROVE  ItemsInv'
<1>1. /\ reader = "items" /\ reader' = "items" /\ header' = header
      /\ found' \in found + 1..Len(header) + 1
      /\ range' \in {range, [range EXCEPT !.location = found + 1]}
      /\ items' \in {items, Append(items, Item)}
  BY SymbolPassed
<1>2. /\ header \in Seq(STRING) /\ Len(header) \in Nat /\ items \in Seq(Seq(STRING))
      /\ range \in [location : Nat \ {0}, length : Nat] /\ found \in Nat \ {0}
      /\ found \in range.location..Len(header) + 1
  BY <1>1 DEF ItemsInv
<1>3. items' \in Seq(Seq(STRING))
  BY <1>1, <1>2, ItemCut
<1>4. /\ range' \in [location : Nat \ {0}, length : Nat]
      /\ range'.location \in {range.location, found + 1}
  BY <1>1, <1>2
<1>5. found' \in range'.location..Len(header) + 1
  BY <1>1, <1>2, <1>4
<1>6. QED
  BY <1>1, <1>2, <1>3, <1>4, <1>5 DEF ItemsInv

\* At its end they are a sequence, perhaps an empty one.
LEMMA ItemsReadKeeps ==
    ASSUME ItemsInv, ItemsRead
    PROVE  ItemsInv'
<1>1. reader = "items" /\ reader' = "bearer" /\ range' = range
  BY DEF ItemsRead
<1>2. items' \in {<<>>, Append(items, Item)}
  BY DEF ItemsRead
<1>3. Append(items, Item) \in Seq(Seq(STRING))
  BY <1>1, ItemCut
<1>4. <<>> \in Seq(Seq(STRING))
  OBVIOUS
<1>5. items' \in Seq(Seq(STRING))
  BY <1>2, <1>3, <1>4
<1>6. range \in [location : Nat \ {0}, length : Nat]
  BY <1>1 DEF ItemsInv
<1>7. QED
  BY <1>1, <1>5, <1>6 DEF ItemsInv

\* The Bearer item is one of them, and without the word still is.
LEMMA FindBearerKeeps ==
    ASSUME ItemsInv, FindBearer
    PROVE  ItemsInv'
<1>1. /\ reader = "bearer" /\ items \in Seq(Seq(STRING))
      /\ range \in [location : Nat \ {0}, length : Nat]
  BY DEF FindBearer, ItemsInv
<1>2. CASE reader' = "error"
  BY <1>2 DEF ItemsInv
<1>3. CASE reader' # "error"
  <2>1. PICK first \in DOMAIN items :
          /\ items' = [items EXCEPT ![first] = WithoutBearer(items[first])]
          /\ found' = first /\ range' = [range EXCEPT !.location = 1]
          /\ reader' = "parameters"
    BY <1>3, Zenon DEF FindBearer, EndWith
  <2> DEFINE rest == WithoutBearer(items[first])
             all == Seq(STRING) \cup {rest}
  <2>2. items \in Seq(all) /\ rest \in all
    BY <1>1
  <2> HIDE DEF all, rest
  <2>3. /\ [items EXCEPT ![first] = rest] \in Seq(all)
        /\ Len([items EXCEPT ![first] = rest]) = Len(items)
        /\ first \in 1..Len(items) /\ Len(items) \in Nat
    BY <2>2
  <2>4. items' = [items EXCEPT ![first] = rest]
    BY <2>1 DEF rest
  <2>5. range' \in [location : Nat \ {0}, length : Nat]
    <3>1. range' = [range EXCEPT !.location = 1]
      BY <2>1, Zenon
    <3>2. QED
      BY <1>1, <3>1
  <2>6. QED
    BY <2>1, <2>3, <2>4, <2>5 DEF ItemsInv
<1>4. QED
  BY <1>2, <1>3

\* A match ends behind the place from which it was looked for.
LEMMA MatchBehind ==
    ASSUME NEW s, NEW i \in Nat \ {0}, NEW match \in FirstMatch(s, i)
    PROVE  match.next \in Nat /\ match.next > i
<1>1. PICK j \in i..Len(s) : match \in MatchAt(s, j)
  BY DEF FirstMatch
<1>2. PICK q \in QuotesAt(s, j) : match.next = q[2] + 1
  BY <1>1 DEF MatchAt
<1>3. q \in (j..Len(s)) \X (j..Len(s))
  BY <1>2 DEF QuotesAt
<1>4. j \in Int /\ j >= i /\ q[2] \in Int /\ q[2] >= j
  BY <1>1, <1>3
<1>5. QED
  BY <1>2, <1>4

\* The parameters of an item are taken from left to right.
LEMMA ParameterTaken ==
    ASSUME ItemsInv, ExtractParameter
    PROVE  /\ reader = "parameters" /\ UNCHANGED <<reader, found, items>>
           /\ range' \in [location : Nat \ {0}, length : Nat]
           /\ range'.location > range.location
<1>1. reader = "parameters" /\ UNCHANGED <<reader, found, items>>
  BY Zenon DEF ExtractParameter
<1>2. PICK match \in Matches : range' = [range EXCEPT !.location = match.next]
  BY Zenon DEF ExtractParameter
<1>3. range \in [location : Nat \ {0}, length : Nat]
  BY <1>1 DEF ItemsInv
<1>4. match.next \in Nat /\ match.next > range.location
  BY <1>3, MatchBehind DEF Matches
<1>5. QED
  BY <1>1, <1>2, <1>3, <1>4

\* The items are taken in turn.
LEMMA ItemTaken ==
    ASSUME ItemsInv, NextItem
    PROVE  /\ reader = "parameters" /\ UNCHANGED <<reader, items>>
           /\ range' \in [location : Nat \ {0}, length : Nat]
           /\ found' \in found + 1..Len(items)
<1>1. /\ reader = "parameters" /\ UNCHANGED <<reader, items>>
      /\ found' = found + 1 /\ range' = [range EXCEPT !.location = 1]
  BY Zenon DEF NextItem
<1>2. found < Len(items)
  BY Zenon DEF NextItem, MoreParameters
<1>3. range \in [location : Nat \ {0}, length : Nat]
      /\ Len(items) \in Nat /\ found \in 1..Len(items)
  BY <1>1 DEF ItemsInv
<1>4. QED
  BY <1>1, <1>2, <1>3

\* The places of parseAuthHeader: and the ends are none of the other reader's.
LEMMA ItemsElsewhere ==
    ASSUME reader' \notin {"items", "bearer", "parameters"}
    PROVE  ItemsInv'
BY DEF ItemsInv

\* Steps of parseAuthHeader: stay there.
LEMMA ParseStays ==
    ASSUME \/ HandlePKeyAuthChallenge \/ EndOfHeader \/ MalformedKey
           \/ ReadKey \/ ReadPlainValue \/ FindQuote
           \/ ReadQuotedValue
    PROVE  /\ reader \in InParse
           /\ reader' \notin {"items", "bearer", "parameters"}
<1>1. CASE HandlePKeyAuthChallenge \/ EndOfHeader \/ MalformedKey
  BY <1>1 DEF HandlePKeyAuthChallenge, EndOfHeader, MalformedKey,
              EndWith, InParse
<1>2. CASE ReadKey
  BY <1>2, Zenon DEF ReadKey, EndWith, InParse
<1>3. CASE ReadPlainValue
  BY <1>3, Zenon DEF ReadPlainValue, EndWith, InParse
<1>4. CASE FindQuote
  BY <1>4 DEF FindQuote, EndWith, InParse
<1>5. CASE ReadQuotedValue
  BY <1>5, Zenon DEF ReadQuotedValue, EndWith, InParse
<1>6. QED
  BY <1>1, <1>2, <1>3, <1>4, <1>5

\* ItemsInv is kept by every step.
LEMMA ItemsNext ==
    ASSUME ItemsInv, [ReaderNext]_readerVars
    PROVE  ItemsInv'
<1>1. CASE ExtractParameter \/ NextItem
  <2>1. /\ reader = "parameters" /\ UNCHANGED <<reader, items>>
        /\ range' \in [location : Nat \ {0}, length : Nat]
        /\ found' \in {found} \cup found + 1..Len(items)
    BY <1>1, ParameterTaken, ItemTaken
  <2>2. Len(items) \in Nat /\ found \in 1..Len(items)
    BY <2>1 DEF ItemsInv
  <2>3. QED
    BY <2>1, <2>2 DEF ItemsInv
<1>2. CASE InitWithParameters
  BY <1>2, ItemsElsewhere, Zenon DEF InitWithParameters, EndWith
<1>3. CASE Reading
  BY <1>1, <1>2, <1>3, SymbolKeeps, ItemsReadKeeps, FindBearerKeeps, ParseStays, ItemsElsewhere,
     Zenon
  DEF Reading
<1>4. CASE UNCHANGED readerVars
  BY <1>4 DEF readerVars, ItemsInv
<1>5. QED
  BY <1>3, <1>4 DEF ReaderNext, Ended

\* The two invariants, and the steps that begin, pass and end the loops.
LEMMA StepsMoveOn ==
    ASSUME WordAssumption, HeaderInv, ItemsInv, Reading,
           ~UNCHANGED readerVars
    PROVE  LoopsMoveOn
<1> USE DEF LoopsMoveOn
<1>1. CASE \/ HandlePKeyAuthChallenge \/ EndOfHeader \/ MalformedKey
           \/ ItemsRead \/ FindBearer \/ InitWithParameters
  <2>1. /\ reader \in {"pkeyauth", "key", "items", "bearer", "parameters"}
        /\ reader = "key" => reader' \in {"returned", "nil"}
        /\ reader = "items" => reader' = "bearer"
        /\ reader = "parameters" => reader' \in {"returned", "error"}
    <3>1. CASE HandlePKeyAuthChallenge
      BY <3>1, Zenon DEF HandlePKeyAuthChallenge
    <3>2. CASE EndOfHeader \/ MalformedKey
      BY <3>2 DEF EndOfHeader, MalformedKey, EndWith
    <3>3. CASE ItemsRead
      BY <3>3, Zenon DEF ItemsRead
    <3>4. CASE FindBearer
      BY <3>4, Zenon DEF FindBearer
    <3>5. CASE InitWithParameters
      BY <3>5, Zenon DEF InitWithParameters, EndWith
    <3>6. QED
      BY <1>1, <3>1, <3>2, <3>3, <3>4, <3>5
  <2>2. QED
    BY <2>1
<1>2. CASE ReadKey
  <2>1. reader = "key" /\ (reader' = "raised" \/ MovesOn)
    BY <1>2, ReadKeyKeeps DEF ReadKey
  <2>2. QED
    BY <2>1 DEF MovesOn
<1>3. CASE ReadPlainValue \/ ReadQuotedValue
  <2>1. reader \in {"plain", "quoted"} /\ MovesOn
    <3>1. CASE ReadPlainValue
      BY <3>1, PlainKeeps, Zenon DEF ReadPlainValue
    <3>2. CASE ReadQuotedValue
      BY <3>2, QuotedKeeps, Zenon DEF ReadQuotedValue
    <3>3. QED
      BY <1>3, <3>1, <3>2
  <2>2. QED
    BY <2>1 DEF MovesOn
\* Found where the search began, it is the escaped quote that was found before: nothing changes.
<1>4. CASE FindQuote
  <2>1. /\ reader = "quote"
        /\ UNCHANGED <<header, meant, range, key, params, items>>
    BY <1>4 DEF FindQuote
  <2>2. ASSUME reader' = "quote"
        PROVE  found' \in found + 1..Len(header)
    <3>1. found' \in found..Len(header)
      BY <1>4, <2>2, FindQuoteKeeps
    <3>2. found' # found
      BY <2>1, <2>2 DEF readerVars
    <3>3. found \in Nat
      BY <2>1 DEF HeaderInv, IndexInv
    <3>4. QED
      BY <3>1, <3>2, <3>3
  <2>3. QED
    BY <2>1, <2>2
<1>5. CASE SkipQuoted \/ CutAtComma \/ OtherSymbol
  <2>1. reader = "items" /\ found' \in found + 1..Len(header) + 1
    BY <1>5, SymbolPassed
  <2>2. QED
    BY <2>1
<1>6. CASE ExtractParameter
  <2>1. reader = "parameters" /\ found' = found /\ range'.location > range.location
    BY <1>6, ParameterTaken
  <2>2. QED
    BY <2>1
<1>7. CASE NextItem
  <2>1. reader = "parameters" /\ found' \in found + 1..Len(items)
    BY <1>7, ItemTaken
  <2>2. QED
    BY <2>1
<1>8. QED
  BY <1>1, <1>2, <1>3, <1>4, <1>5, <1>6, <1>7, Zenon DEF Reading

\* Whatever header a server sends: no loop of either reader comes back to where it was, so that none
\* goes on for ever but the search for a quote that has found an escaped one.
THEOREM ReadersAlwaysMoveOn ==
    ASSUME WordAssumption, HeadersFit
    PROVE  ReaderSpec => ReadersMoveOn
<1>1. ReaderInit => HeaderInv /\ ItemsInv
  BY HeaderInit, ItemsInit
<1>2. HeaderInv /\ ItemsInv /\ [ReaderNext]_readerVars => (HeaderInv /\ ItemsInv)'
  BY HeaderNext, ItemsNext
<1>3. HeaderInv /\ ItemsInv /\ [ReaderNext]_readerVars => [LoopsMoveOn]_readerVars
  BY StepsMoveOn DEF ReaderNext, Ended
<1>4. QED
  BY <1>1, <1>2, <1>3, PTL DEF ReaderSpec, ReadersMoveOn

---------------------------------------------------------------------------
\* The places of the header that the items so far lie between, the one before it included.
CutBetween(cuts) ==
    /\ cuts[0] = 0
    /\ \A n \in 1..Len(items) :
         /\ cuts[n - 1] < cuts[n]
         /\ items[n] = SubSeq(header, cuts[n - 1] + 1, cuts[n] - 1)

Cuts == [0..Len(items) -> 0..Len(header) + 1]

CommaAt(i) == i \in 1..Len(header) /\ header[i] = ","

\* extractItems: loses nothing of the header and takes nothing twice: its items are the pieces
\* between one comma and a later one, each beginning where the one before it ended; leftIndex is
\* behind the last of these commas; and if there are items at the end, they reach the end.
NothingLost ==
    /\ reader = "items" => \E cuts \in Cuts :
         /\ CutBetween(cuts)
         /\ \A n \in 1..Len(items) : CommaAt(cuts[n])
         /\ range.location = cuts[Len(items)] + 1
    /\ reader = "bearer" /\ items # <<>> => \E cuts \in Cuts :
         /\ CutBetween(cuts)
         /\ \A n \in 1..Len(items) - 1 : CommaAt(cuts[n])
         /\ cuts[Len(items)] = Len(header) + 1

\* An item more, up to a place that is behind leftIndex.
LEMMA OneMoreItem ==
    ASSUME ItemsInv, reader = "items", header' = header, items' = Append(items, Item),
           NEW cuts \in Cuts, CutBetween(cuts), range.location = cuts[Len(items)] + 1,
           \A n \in 1..Len(items) : CommaAt(cuts[n])
    PROVE  \E more \in Cuts' :
             /\ CutBetween(more)'
             /\ \A n \in 1..Len(items)' - 1 : CommaAt(more[n])
             /\ more[Len(items)'] = found
<1>1. /\ header \in Seq(STRING) /\ Len(header) \in Nat
      /\ items \in Seq(Seq(STRING)) /\ Len(items) \in Nat
      /\ range.location \in Nat \ {0} /\ found \in range.location..Len(header) + 1
  BY DEF ItemsInv
<1>2. /\ items' \in Seq(Seq(STRING)) /\ Len(items') = Len(items) + 1
      /\ \A n \in 1..Len(items) : items'[n] = items[n]
      /\ items'[Len(items) + 1] = Item
  BY <1>1, ItemCut
<1>3. cuts \in [0..Len(items) -> 0..Len(header) + 1]
  BY DEF Cuts
<1>4. PICK more \in [0..Len(items) + 1 -> 0..Len(header) + 1] :
        /\ \A n \in 0..Len(items) : more[n] = cuts[n]
        /\ more[Len(items) + 1] = found
  <2> DEFINE longer ==
        [n \in 0..Len(items) + 1 |-> IF n = Len(items) + 1 THEN found ELSE cuts[n]]
  <2>1. longer \in [0..Len(items) + 1 -> 0..Len(header) + 1]
    BY <1>1, <1>3
  <2>2. \A n \in 0..Len(items) : longer[n] = cuts[n]
    BY <1>1
  <2>3. longer[Len(items) + 1] = found
    BY <1>1
  <2>4. QED
    BY <2>1, <2>2, <2>3
<1>5. more \in Cuts'
  BY <1>2, <1>4 DEF Cuts
<1>6. more[0] = 0
  BY <1>1, <1>4 DEF CutBetween
<1>7. ASSUME NEW n \in 1..Len(items) + 1
      PROVE  /\ more[n - 1] < more[n]
             /\ items'[n] = SubSeq(header, more[n - 1] + 1, more[n] - 1)
  <2>1. CASE n \in 1..Len(items)
    <3>1. n - 1 \in 0..Len(items) /\ n \in 0..Len(items)
      BY <1>1, <2>1
    <3>2. more[n - 1] = cuts[n - 1] /\ more[n] = cuts[n] /\ items'[n] = items[n]
      BY <1>2, <1>4, <2>1, <3>1
    <3>3. QED
      BY <2>1, <3>2 DEF CutBetween
  <2>2. CASE n = Len(items) + 1
    <3>1. n - 1 = Len(items) /\ Len(items) \in 0..Len(items)
      BY <1>1, <2>2
    <3>2. more[n - 1] = cuts[Len(items)] /\ more[n] = found /\ items'[n] = Item
      BY <1>2, <1>4, <2>2, <3>1
    <3>3. cuts[Len(items)] \in Nat /\ range.location = cuts[Len(items)] + 1
      BY <1>3, <3>1
    <3>4. more[n - 1] < more[n]
      BY <1>1, <3>2, <3>3
    <3>5. items'[n] = SubSeq(header, more[n - 1] + 1, more[n] - 1)
      BY <3>2, <3>3 DEF Item
    <3>6. QED
      BY <3>4, <3>5
  <2>3. QED
    BY <1>1, <2>1, <2>2
<1>8. CutBetween(more)'
  BY <1>2, <1>6, <1>7 DEF CutBetween
<1>9. \A n \in 1..Len(items') - 1 : CommaAt(more[n])
  <2>1. Len(items') - 1 = Len(items) /\ \A n \in 1..Len(items) : n \in 0..Len(items)
    BY <1>1, <1>2
  <2>2. ASSUME NEW n \in 1..Len(items) PROVE CommaAt(more[n])
    BY <1>4, <2>1, <2>2
  <2>3. QED
    BY <2>1, <2>2
<1>10. QED
  BY <1>2, <1>4, <1>5, <1>8, <1>9

\* NothingLost is kept by every step.
LEMMA NothingLostNext ==
    ASSUME ItemsInv, NothingLost, [ReaderNext]_readerVars
    PROVE  NothingLost'
<1>1. CASE reader' \notin {"items", "bearer"}
  BY <1>1 DEF NothingLost
<1>2. CASE UNCHANGED readerVars
  BY <1>2 DEF readerVars, NothingLost, Cuts, CutBetween, CommaAt
<1>3. ASSUME reader = "items"
      PROVE  \E cuts \in Cuts :
               /\ CutBetween(cuts)
               /\ \A n \in 1..Len(items) : CommaAt(cuts[n])
               /\ range.location = cuts[Len(items)] + 1
  BY <1>3 DEF NothingLost
<1>4. CASE SkipQuoted \/ OtherSymbol
  <2>1. reader = "items" /\ reader' = "items" /\ UNCHANGED <<header, range, items>>
    BY <1>4 DEF SkipQuoted, OtherSymbol
  <2>2. QED
    BY <1>3, <2>1 DEF NothingLost, Cuts, CutBetween, CommaAt
<1>5. CASE CutAtComma
  <2>1. /\ reader = "items" /\ reader' = "items" /\ header' = header
        /\ items' = Append(items, Item) /\ At(header, found) = ","
        /\ range' = [range EXCEPT !.location = found + 1]
    BY <1>5 DEF CutAtComma
  <2>2. /\ header \in Seq(STRING) /\ items \in Seq(Seq(STRING)) /\ found \in Nat
        /\ range \in [location : Nat \ {0}, length : Nat]
    <3>1. /\ header \in Seq(STRING) /\ items \in Seq(Seq(STRING))
          /\ found \in range.location..Len(header) + 1
          /\ range \in [location : Nat \ {0}, length : Nat]
      BY <2>1 DEF ItemsInv
    <3>2. range.location \in Nat /\ Len(header) \in Nat
      BY <3>1
    <3>3. QED
      BY <3>1, <3>2
  <2>3. CommaAt(found)
    BY <2>1, <2>2, AtInHeader DEF CommaAt
  <2>4. PICK more \in Cuts' :
          /\ CutBetween(more)'
          /\ \A n \in 1..Len(items)' - 1 : CommaAt(more[n])
          /\ more[Len(items)'] = found
    BY <1>3, <2>1, OneMoreItem
  <2>5. Len(items') = Len(items) + 1 /\ Len(items) \in Nat
    <3>1. Item \in Seq(STRING)
      BY <2>1, ItemCut
    <3>2. \A item \in Seq(STRING) : Len(Append(items, item)) = Len(items) + 1
      BY <2>2
    <3>3. Len(Append(items, Item)) = Len(items) + 1
      BY <3>1, <3>2
    <3>4. Len(items') = Len(Append(items, Item))
      BY <2>1, Zenon
    <3>5. Len(items) \in Nat
      BY <2>2
    <3>6. QED
      BY <3>3, <3>4, <3>5, Zenon
  <2>6. \A n \in 1..Len(items') : CommaAt(more[n])
    <3>1. \A n \in 1..Len(items') : n \in 1..Len(items') - 1 \/ n = Len(items')
      BY <2>5
    <3>2. QED
      BY <2>3, <2>4, <3>1
  <2>7. range'.location = found + 1
    BY <2>1, <2>2
  <2>8. \A n \in 1..Len(items') : CommaAt(more[n])'
    BY <2>1, <2>6 DEF CommaAt
  <2>9. QED
    BY <2>1, <2>4, <2>7, <2>8 DEF NothingLost
<1>6. CASE ItemsRead
  <2>1. /\ reader = "items" /\ reader' = "bearer" /\ header' = header
        /\ found > Len(header) /\ items' \in {<<>>, Append(items, Item)}
    BY <1>6 DEF ItemsRead
  <2>2. found = Len(header) + 1
    <3>1. Len(header) \in Nat /\ found \in range.location..Len(header) + 1
          /\ range.location \in Nat
      BY <2>1 DEF ItemsInv
    <3>2. QED
      BY <2>1, <3>1
  <2>3. CASE items' = <<>>
    BY <2>1, <2>3 DEF NothingLost
  <2>4. CASE items' = Append(items, Item)
    <3>1. PICK more \in Cuts' :
            /\ CutBetween(more)'
            /\ \A n \in 1..Len(items)' - 1 : CommaAt(more[n])
            /\ more[Len(items)'] = found
      BY <1>3, <2>1, <2>4, OneMoreItem
    <3>2. \A n \in 1..Len(items') - 1 : CommaAt(more[n])'
      BY <2>1, <3>1 DEF CommaAt
    <3>3. QED
      BY <2>1, <2>2, <3>1, <3>2 DEF NothingLost
  <2>5. QED
    BY <2>1, <2>3, <2>4
<1>7. CASE FindBearer \/ ExtractParameter \/ NextItem \/ InitWithParameters
  <2>1. reader' \in {"error", "parameters", "returned"}
    <3>1. CASE FindBearer
      BY <3>1, Zenon DEF FindBearer, EndWith
    <3>2. CASE ExtractParameter \/ NextItem
      BY <3>2, Zenon DEF ExtractParameter, NextItem
    <3>3. CASE InitWithParameters
      BY <3>3, Zenon DEF InitWithParameters, EndWith
    <3>4. QED
      BY <1>7, <3>1, <3>2, <3>3
  <2>2. QED
    BY <1>1, <2>1
<1>8. QED
  BY <1>1, <1>2, <1>4, <1>5, <1>6, <1>7, ParseStays, Zenon DEF ReaderNext, Reading, Ended

\* Whatever header a resource answers with, of any length: what extractItems: makes of it is the
\* header, cut at some of its commas, and nothing less.
THEOREM ItemsAreTheHeader ==
    ASSUME WordAssumption, HeadersFit
    PROVE  ReaderSpec => []NothingLost
<1>1. ReaderInit => ItemsInv /\ NothingLost
  <2> SUFFICES ASSUME ReaderInit PROVE ItemsInv /\ NothingLost
    OBVIOUS
  <2>1. CASE reader = "pkeyauth"
    BY <2>1, ItemsInit DEF NothingLost
  <2>2. CASE reader # "pkeyauth"
    <3>1. PICK list, text : Start("items", list, text)
      <4>1. \A list, text : Start("pkeyauth", list, text) => reader = "pkeyauth"
        BY DEF Start
      <4>2. QED
        BY <2>2, <4>1, Zenon DEF ReaderInit
    <3>2. reader = "items" /\ items = <<>> /\ range.location = 1
      BY <3>1 DEF Start
    <3>3. ItemsInv /\ Len(header) \in Nat /\ Len(items) = 0
      BY <3>2, ItemsInit DEF ItemsInv
    <3> DEFINE cuts == [n \in 0..Len(items) |-> 0]
    <3>4. cuts \in Cuts /\ cuts[0] = 0
      BY <3>3 DEF Cuts
    <3> HIDE DEF cuts
    <3>5. CutBetween(cuts) /\ \A n \in 1..Len(items) : CommaAt(cuts[n])
      BY <3>3, <3>4 DEF CutBetween
    <3>6. QED
      BY <3>2, <3>3, <3>4, <3>5 DEF NothingLost
  <2>3. QED
    BY <2>1, <2>2
<1>2. ItemsInv /\ NothingLost /\ [ReaderNext]_readerVars => (ItemsInv /\ NothingLost)'
  BY ItemsNext, NothingLostNext
<1>3. QED
  BY <1>1, <1>2, PTL DEF ReaderSpec

=============================================================================
