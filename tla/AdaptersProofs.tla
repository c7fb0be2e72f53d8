--------------------------- MODULE AdaptersProofs ---------------------------
(***************************************************************************)
(* Proofs about the provider adapters, for any retry budget and any delay. *)
(***************************************************************************)
EXTENDS Adapters, TLAPS

(***************************************************************************)
(* What the four adapters make of an event                                 *)
(***************************************************************************)
\* No adapter calls a push sent that the provider did not accept, or a token
\* invalid that the provider did not blame.
LEMMA FcmVerdicts ==
  ASSUME NEW e \in FcmEvents
  PROVE  /\ FcmSend(e) = "Sent" => Accepting(e)
         /\ FcmSend(e) = "InvalidToken" => BlamesToken(e)
<1>1. e.stage = "answer" /\ e.http = 200 => e.code \in {"name", "garbled"}
  <2>1. CASE e \in {Failure(s) : s \in {"credential", "token", "transport"}}
    <3>1. PICK s \in {"credential", "token", "transport"} : e = Failure(s)
      BY <2>1
    <3>2. e.http = 0
      BY <3>1 DEF Failure
    <3>3. e.http # 200
      BY <3>2
    <3>4. QED
      BY <3>2, <3>3, Zenon
  <2>2. CASE e \in TooMany
    <3>1. e.http = 429
      BY <2>2 DEF TooMany
    <3>2. e.stage = "answer"
      BY <2>2 DEF TooMany
    <3>3. e.code = ""
      BY <2>2 DEF TooMany
    <3>4. e.http # 200
      BY <3>1
    <3>5. QED
      BY <3>1, <3>2, <3>3, <3>4, Zenon
  <2>3. CASE e \in Answers({200}, {"name", "garbled"})
    BY <2>3 DEF Answers
  <2>4. CASE e \in Answers({400, 403, 404, 500},
                           {"UNREGISTERED", "SENDER_ID_MISMATCH", "INVALID_ARGUMENT", ""})
    <3>1. e.http \in {400, 403, 404, 500}
      BY <2>4 DEF Answers
    <3>2. e.http # 200
      BY <3>1
    <3>3. QED
      BY <3>1, <3>2, Zenon
  <2>5. QED
    BY <2>1, <2>2, <2>3, <2>4, Zenon DEF FcmEvents
<1>2. FcmSend(e) = IF e.stage = "credential" THEN "Unknown"
                   ELSE IF e.stage \in {"token", "transport"} THEN "TransientError"
                   ELSE IF e.stage = "answer" /\ e.http = 200
                        THEN IF e.code = "garbled" THEN "Unknown" ELSE "Sent"
                   ELSE ClassifyError(e)
  BY Zenon DEF FcmSend, EarlyReturn
<1>3. e.http = 400 => e.http # 429
  OBVIOUS
<1>4. ClassifyError(e) =
        IF e.http = 429 THEN "Throttled"
        ELSE IF e.code \in {"UNREGISTERED", "SENDER_ID_MISMATCH"} THEN "InvalidToken"
        ELSE IF e.http = 400 /\ e.code = "INVALID_ARGUMENT" THEN "InvalidToken"
        ELSE "TransientError"
  BY <1>3, Zenon DEF ClassifyError
<1>5. QED
  BY <1>1, <1>2, <1>4 DEF Accepting, BlamesToken

LEMMA ApnsVerdicts ==
  ASSUME NEW e \in ApnsEvents
  PROVE  /\ ApnsSend(e) = "Sent" => Accepting(e)
         /\ ApnsSend(e) = "InvalidToken" => BlamesToken(e)
<1>1. /\ e.stage \in {"credential", "transport"} => e.http # 200 /\ e.code = ""
      /\ e.http = 200 => e.code = ""
  <2>1. CASE e \in {Failure(s) : s \in {"credential", "transport"}}
    <3>1. PICK s \in {"credential", "transport"} : e = Failure(s)
      BY <2>1
    <3>2. e.http = 0
      BY <3>1 DEF Failure
    <3>3. e.code = ""
      BY <3>1 DEF Failure
    <3>4. e.http # 200
      BY <3>2
    <3>5. QED
      BY <3>2, <3>3, <3>4, Zenon
  <2>2. CASE e \in Answers({200}, {""})
    <3>1. e.http = 200
      BY <2>2 DEF Answers
    <3>2. e.stage = "answer"
      BY <2>2 DEF Answers
    <3>3. e.code = ""
      BY <2>2 DEF Answers
    <3>4. e.stage \notin {"credential", "transport"}
      BY <3>2
    <3>5. QED
      BY <3>1, <3>2, <3>3, <3>4, Zenon
  <2>3. CASE e \in Answers({400, 410, 429, 503},
                           {"BadDeviceToken", "Unregistered", "DeviceTokenNotForTopic",
                            "TooManyRequests", "InternalServerError", "PayloadTooLarge"})
    <3>1. e.http \in {400, 410, 429, 503}
      BY <2>3 DEF Answers
    <3>2. e.stage = "answer"
      BY <2>3 DEF Answers
    <3>3. e.http # 200
      BY <3>1
    <3>4. e.stage \notin {"credential", "transport"}
      BY <3>2
    <3>5. QED
      BY <3>1, <3>2, <3>3, <3>4, Zenon
  <2>4. QED
    BY <2>1, <2>2, <2>3, Zenon DEF ApnsEvents
<1>2. ApnsSend(e) =
        IF e.stage = "credential" THEN "Unknown"
        ELSE IF e.stage = "transport" THEN "TransientError"
        ELSE IF e.http = 200 THEN "Sent"
        ELSE IF e.code \in {"BadDeviceToken", "Unregistered", "DeviceTokenNotForTopic"}
             THEN "InvalidToken"
        ELSE IF e.code = "TooManyRequests" THEN "Throttled" ELSE "TransientError"
  BY <1>1, Zenon DEF ApnsSend, EarlyReturn
<1>3. QED
  BY <1>1, <1>2 DEF Accepting, BlamesToken

LEMMA ExpoVerdicts ==
  ASSUME NEW e \in ExpoEvents
  PROVE  /\ ExpoSend(e) = "Sent" => Accepting(e)
         /\ ExpoSend(e) = "InvalidToken" => BlamesToken(e)
<1>1. /\ e.stage = "transport" => e.http # 429 /\ e.http # 200
      /\ e.http = 429 => e.http # 500 /\ e.http # 200
      /\ e.http = 500 => e.http # 200
      /\ e.code = "ok" => e.http = 200
  <2>1. CASE e = Failure("transport")
    <3>1. e.http = 0
      BY <2>1 DEF Failure
    <3>2. e.code = ""
      BY <2>1 DEF Failure
    <3>3. e.http # 429 /\ e.http # 500 /\ e.http # 200
      BY <3>1
    <3>4. e.code # "ok"
      BY <3>2
    <3>5. QED
      BY <3>1, <3>2, <3>3, <3>4, Zenon
  <2>2. CASE e \in TooMany
    <3>1. e.http = 429
      BY <2>2 DEF TooMany
    <3>2. e.stage = "answer"
      BY <2>2 DEF TooMany
    <3>3. e.code = ""
      BY <2>2 DEF TooMany
    <3>4. e.http # 500 /\ e.http # 200
      BY <3>1
    <3>5. e.stage \notin {"transport"}
      BY <3>2
    <3>6. e.code # "ok"
      BY <3>3
    <3>7. QED
      BY <3>1, <3>2, <3>3, <3>4, <3>5, <3>6, Zenon
  <2>3. CASE e \in Answers({500}, {""})
    <3>1. e.http = 500
      BY <2>3 DEF Answers
    <3>2. e.stage = "answer"
      BY <2>3 DEF Answers
    <3>3. e.code = ""
      BY <2>3 DEF Answers
    <3>4. e.http # 429 /\ e.http # 200
      BY <3>1
    <3>5. e.stage \notin {"transport"}
      BY <3>2
    <3>6. e.code # "ok"
      BY <3>3
    <3>7. QED
      BY <3>1, <3>2, <3>3, <3>4, <3>5, <3>6, Zenon
  <2>4. CASE e \in Answers({200}, {"garbled", "errors", "empty", "ok", "DeviceNotRegistered",
                                  "MessageRateExceeded", "MessageTooBig", "pending"})
    <3>1. e.http \in {200}
      BY <2>4 DEF Answers
    <3>2. e.stage = "answer"
      BY <2>4 DEF Answers
    <3>3. e.http # 429 /\ e.http # 500
      BY <3>1
    <3>4. e.stage \notin {"transport"}
      BY <3>2
    <3>5. QED
      BY <3>1, <3>2, <3>3, <3>4, Zenon
  <2>5. QED
    BY <2>1, <2>2, <2>3, <2>4, Zenon DEF ExpoEvents
<1>2. ExpoSend(e) =
        IF e.stage = "transport" THEN "TransientError"
        ELSE IF e.http = 429 THEN "Throttled"
        ELSE IF e.http = 500 THEN "TransientError"
        ELSE IF e.http = 200 /\ e.code \in {"garbled", "empty"} THEN "Unknown"
        ELSE IF e.http = 200 /\ e.code = "errors" THEN "TransientError"
        ELSE ClassifyTicket(e)
  BY <1>1, Zenon DEF ExpoSend, EarlyReturn
<1>3. ClassifyTicket(e) = IF e.code = "ok" THEN "Sent"
                          ELSE IF e.code = "DeviceNotRegistered" THEN "InvalidToken"
                          ELSE IF e.code = "MessageRateExceeded" THEN "Throttled"
                          ELSE "TransientError"
  BY Zenon DEF ClassifyTicket
<1>4. QED
  BY <1>1, <1>2, <1>3 DEF Accepting, BlamesToken

LEMMA HmsVerdicts ==
  ASSUME NEW e \in HmsEvents
  PROVE  /\ HmsSend(e) = "Sent" => Accepting(e)
         /\ HmsSend(e) = "InvalidToken" => BlamesToken(e)
<1>1. /\ e.stage \in {"credential", "token", "transport"} =>
           e.http # 429 /\ e.http # 500 /\ e.http # 200
      /\ e.http = 429 => e.http # 500 /\ e.http # 200
      /\ e.http = 500 => e.http # 200
      /\ e.code = "80000000" => e.http = 200
  <2>1. CASE e \in {Failure(s) : s \in {"credential", "token", "transport"}}
    <3>1. PICK s \in {"credential", "token", "transport"} : e = Failure(s)
      BY <2>1
    <3>2. e.http = 0
      BY <3>1 DEF Failure
    <3>3. e.code = ""
      BY <3>1 DEF Failure
    <3>4. e.http # 429 /\ e.http # 500 /\ e.http # 200
      BY <3>2
    <3>5. e.code # "80000000"
      BY <3>3
    <3>6. QED
      BY <3>2, <3>3, <3>4, <3>5, Zenon
  <2>2. CASE e \in TooMany
    <3>1. e.http = 429
      BY <2>2 DEF TooMany
    <3>2. e.stage = "answer"
      BY <2>2 DEF TooMany
    <3>3. e.code = ""
      BY <2>2 DEF TooMany
    <3>4. e.http # 500 /\ e.http # 200
      BY <3>1
    <3>5. e.stage \notin {"credential", "token", "transport"}
      BY <3>2
    <3>6. e.code # "80000000"
      BY <3>3
    <3>7. QED
      BY <3>1, <3>2, <3>3, <3>4, <3>5, <3>6, Zenon
  <2>3. CASE e \in Answers({500}, {""})
    <3>1. e.http = 500
      BY <2>3 DEF Answers
    <3>2. e.stage = "answer"
      BY <2>3 DEF Answers
    <3>3. e.code = ""
      BY <2>3 DEF Answers
    <3>4. e.http # 429 /\ e.http # 200
      BY <3>1
    <3>5. e.stage \notin {"credential", "token", "transport"}
      BY <3>2
    <3>6. e.code # "80000000"
      BY <3>3
    <3>7. QED
      BY <3>1, <3>2, <3>3, <3>4, <3>5, <3>6, Zenon
  <2>4. CASE e \in Answers({200}, {"garbled", "80000000", "80100000", "80200001", "80200003",
                                  "80300007", "81000001", "80300008"})
    <3>1. e.http \in {200}
      BY <2>4 DEF Answers
    <3>2. e.stage = "answer"
      BY <2>4 DEF Answers
    <3>3. e.http # 429 /\ e.http # 500
      BY <3>1
    <3>4. e.stage \notin {"credential", "token", "transport"}
      BY <3>2
    <3>5. QED
      BY <3>1, <3>2, <3>3, <3>4, Zenon
  <2>5. QED
    BY <2>1, <2>2, <2>3, <2>4, Zenon DEF HmsEvents
<1>2. HmsSend(e) =
        IF e.stage = "credential" THEN "Unknown"
        ELSE IF e.stage \in {"token", "transport"} THEN "TransientError"
        ELSE IF e.http = 429 THEN "Throttled"
        ELSE IF e.http = 500 THEN "TransientError"
        ELSE IF e.http = 200 /\ e.code = "garbled" THEN "Unknown"
        ELSE Classify(e)
  BY <1>1, Zenon DEF HmsSend, EarlyReturn
<1>3. Classify(e) = IF e.code = "80000000" THEN "Sent"
                    ELSE IF e.code \in {"80300007", "80100000"} THEN "InvalidToken"
                    ELSE "TransientError"
  BY Zenon DEF Classify
<1>4. QED
  BY <1>1, <1>2, <1>3 DEF Accepting, BlamesToken

LEMMA Verdicts ==
  ASSUME NEW p \in Providers, NEW e \in Events(p)
  PROVE  /\ Send(p, e) = "Sent" => Accepting(e)
         /\ Send(p, e) = "InvalidToken" => BlamesToken(e)
<1>1. CASE p = "fcm"
  <2>1. Events(p) = FcmEvents /\ Send(p, e) = FcmSend(e)
    BY <1>1, Zenon DEF Events, Send
  <2>2. QED
    BY <2>1, FcmVerdicts
<1>2. CASE p = "apns"
  <2>1. Events(p) = ApnsEvents /\ Send(p, e) = ApnsSend(e)
    BY <1>2, Zenon DEF Events, Send
  <2>2. QED
    BY <2>1, ApnsVerdicts
<1>3. CASE p = "expo"
  <2>1. Events(p) = ExpoEvents /\ Send(p, e) = ExpoSend(e)
    BY <1>3, Zenon DEF Events, Send
  <2>2. QED
    BY <2>1, ExpoVerdicts
<1>4. CASE p = "hms"
  <2>1. Events(p) = HmsEvents /\ Send(p, e) = HmsSend(e)
    BY <1>4, Zenon DEF Events, Send
  <2>2. QED
    BY <2>1, HmsVerdicts
<1>5. QED
  BY <1>1, <1>2, <1>3, <1>4 DEF Providers

\* RetryDelayFunc: whatever the header holds, the delay is not 0.
LEMMA DelayPositive == \A header : RetryDelay(header) \in Nat \ {0}
BY AdaptersAssumption DEF RetryDelay, RetryAfter

(***************************************************************************)
(* The attempts of one recipient                                           *)
(***************************************************************************)
AttemptsInv ==
  /\ provider \in Providers
  /\ recipient \in {"sending", "sent", "failed"}
  /\ device \in {"active", "invalid"}
  /\ retried \in 0..MaxRetry
  /\ delay \in Nat
  /\ throttles \in Nat
  /\ VerdictsMeanWhatTheySay
  /\ NoHotRetry

LEMMA InitAttempts == Init => AttemptsInv
BY AdaptersAssumption DEF Init, AttemptsInv, VerdictsMeanWhatTheySay, NoHotRetry

LEMMA AttemptsStep ==
  ASSUME AttemptsInv, [Next]_vars
  PROVE  AttemptsInv'
<1> USE AdaptersAssumption
<1>1. ASSUME NEW e \in Events(provider), Attempt(e)
      PROVE  AttemptsInv'
  <2>1. /\ Send(provider, e) = "Sent" => Accepting(e)
        /\ Send(provider, e) = "InvalidToken" => BlamesToken(e)
    BY Verdicts DEF AttemptsInv
  <2>2. /\ events' = events \cup {e} /\ UNCHANGED provider /\ recipient = "sending"
    BY <1>1 DEF Attempt
  <2>3. CASE Sent(e)
    BY <2>1, <2>2, <2>3 DEF Sent, AttemptsInv, VerdictsMeanWhatTheySay, NoHotRetry
  <2>4. CASE InvalidToken(e)
    BY <2>1, <2>2, <2>4 DEF InvalidToken, AttemptsInv, VerdictsMeanWhatTheySay, NoHotRetry
  <2>5. CASE Throttled(e)
    <3>1. /\ delay' \in Nat \ {0} /\ retried' = retried /\ throttles' = throttles + 1
          /\ UNCHANGED <<recipient, device>>
      BY <2>5, DelayPositive DEF Throttled, Counts
    <3>2. QED
      BY <2>2, <3>1 DEF AttemptsInv, VerdictsMeanWhatTheySay, NoHotRetry
  <2>6. CASE TransientError(e)
    BY <2>2, <2>6 DEF TransientError, AttemptsInv, VerdictsMeanWhatTheySay, NoHotRetry
  <2>7. QED
    BY <1>1, <2>3, <2>4, <2>5, <2>6 DEF Attempt
<1>2. CASE UNCHANGED vars
  BY <1>2 DEF vars, AttemptsInv, VerdictsMeanWhatTheySay, NoHotRetry
<1>3. QED
  BY <1>1, <1>2 DEF Next

\* The statuses the adapters return mean what they say: a recipient is sent only when
\* an answer accepted the push, a device invalid only when an answer blamed its token,
\* and a recipient is given up only for such a device or with its retries used up.
THEOREM VerdictsMeanWhatTheySayAlways == Spec => []VerdictsMeanWhatTheySay
<1>1. AttemptsInv => VerdictsMeanWhatTheySay
  BY DEF AttemptsInv
<1>2. QED
  BY <1>1, InitAttempts, AttemptsStep, PTL DEF Spec

\* RetryDelayFunc: an open recipient is never retried at once, whatever Retry-After
\* header the answers carried.
THEOREM NoHotRetryAlways == Spec => []NoHotRetry
<1>1. AttemptsInv => NoHotRetry
  BY DEF AttemptsInv
<1>2. QED
  BY <1>1, InitAttempts, AttemptsStep, PTL DEF Spec
=============================================================================
