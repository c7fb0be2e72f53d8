------------------------------ MODULE Adapters ------------------------------
(***************************************************************************)
(* The provider adapters (internal/provider/{fcm,apns,expo,hms}): how each *)
(* one turns what happens to a push, from a credential it cannot use to an *)
(* answer it cannot read, into a provider.Status, and what HandleSend and  *)
(* asynq make of it over the attempts of one recipient.                    *)
(*                                                                         *)
(* An event is the first thing that goes wrong, or the provider's answer:  *)
(* [stage, http, code, after].  `after` is its Retry-After header.         *)
(* Dispatch leaves the status to chance; this module checks that the ones  *)
(* the adapters produce mean what they say.                                *)
(***************************************************************************)
EXTENDS Integers

CONSTANTS
  MaxRetry,      \* retry budget of a send task
  DefaultDelay,  \* asynq.DefaultRetryDelayFunc, in seconds
  MaxThrottles   \* bound: throttled attempts in a row

ASSUME AdaptersAssumption ==
  /\ MaxRetry \in Nat
  /\ DefaultDelay \in Nat \ {0}
  /\ MaxThrottles \in Nat

Providers == {"fcm", "apns", "expo", "hms"}
Statuses == {"Unknown", "Sent", "InvalidToken", "TransientError", "Throttled"}

(***************************************************************************)
(* Events                                                                  *)
(***************************************************************************)
Headers == {"absent", "seconds", "zero", "negative", "date"}

Failure(stage) == [stage |-> stage, http |-> 0, code |-> "", after |-> "absent"]
Answers(http, codes) == [stage : {"answer"}, http : http, code : codes, after : {"absent"}]
TooMany == [stage : {"answer"}, http : {429}, code : {""}, after : Headers]

\* "garbled": a body that does not parse.
FcmEvents ==
  {Failure(s) : s \in {"credential", "token", "transport"}} \cup TooMany
  \cup Answers({200}, {"name", "garbled"})
  \cup Answers({400, 403, 404, 500},
               {"UNREGISTERED", "SENDER_ID_MISMATCH", "INVALID_ARGUMENT", ""})

ApnsEvents ==
  {Failure(s) : s \in {"credential", "transport"}} \cup Answers({200}, {""})
  \cup Answers({400, 410, 429, 503},
               {"BadDeviceToken", "Unregistered", "DeviceTokenNotForTopic",
                "TooManyRequests", "InternalServerError", "PayloadTooLarge"})

ExpoEvents ==
  {Failure("transport")} \cup TooMany \cup Answers({500}, {""})
  \cup Answers({200}, {"garbled", "errors", "empty", "ok", "DeviceNotRegistered",
                       "MessageRateExceeded", "MessageTooBig", "pending"})

HmsEvents ==
  {Failure(s) : s \in {"credential", "token", "transport"}} \cup TooMany
  \cup Answers({500}, {""})
  \cup Answers({200}, {"garbled", "80000000", "80100000", "80200001", "80200003",
                       "80300007", "81000001", "80300008"})

Events(p) == CASE p = "fcm" -> FcmEvents
               [] p = "apns" -> ApnsEvents
               [] p = "expo" -> ExpoEvents
               [] p = "hms" -> HmsEvents

(***************************************************************************)
(* The adapters                                                            *)
(***************************************************************************)
\* retryAfter: whole seconds, or 0 for a header that is absent or no number.
RetryAfter(header) == CASE header = "seconds" -> 5
                        [] header = "negative" -> -1
                        [] OTHER -> 0

\* A SendResult{} with an error: the zero Status.
EarlyReturn == "Unknown"

ClassifyError(e) ==
  CASE e.http = 429 -> "Throttled"
    [] e.http # 429 /\ e.code \in {"UNREGISTERED", "SENDER_ID_MISMATCH"} -> "InvalidToken"
    [] e.http = 400 /\ e.code = "INVALID_ARGUMENT" -> "InvalidToken"
    [] OTHER -> "TransientError"

FcmSend(e) ==
  CASE e.stage = "credential" -> EarlyReturn
    [] e.stage \in {"token", "transport"} -> "TransientError"
    [] e.stage = "answer" /\ e.http = 200 -> IF e.code = "garbled" THEN EarlyReturn ELSE "Sent"
    [] OTHER -> ClassifyError(e)

ApnsSend(e) ==
  CASE e.stage = "credential" -> EarlyReturn
    [] e.stage = "transport" -> "TransientError"
    [] e.http = 200 -> "Sent"
    [] e.code \in {"BadDeviceToken", "Unregistered", "DeviceTokenNotForTopic"} -> "InvalidToken"
    [] e.code = "TooManyRequests" -> "Throttled"
    [] OTHER -> "TransientError"

ClassifyTicket_errorsInvalid(e) ==
  CASE e.code = "ok" -> "Sent"
    [] e.code = "pending" -> "TransientError"
    [] e.code = "MessageRateExceeded" -> "Throttled"
    [] OTHER -> "InvalidToken"
ClassifyTicket(e) ==
  CASE e.code = "ok" -> "Sent"
    [] e.code = "DeviceNotRegistered" -> "InvalidToken"
    [] e.code = "MessageRateExceeded" -> "Throttled"
    [] OTHER -> "TransientError"

ExpoSend(e) ==
  CASE e.stage = "transport" -> "TransientError"
    [] e.http = 429 -> "Throttled"
    [] e.http = 500 -> "TransientError"
    [] e.http = 200 /\ e.code \in {"garbled", "empty"} -> EarlyReturn
    [] e.http = 200 /\ e.code = "errors" -> "TransientError"
    [] OTHER -> ClassifyTicket(e)

Classify(e) ==
  CASE e.code = "80000000" -> "Sent"
    [] e.code \in {"80300007", "80100000"} -> "InvalidToken"
    [] OTHER -> "TransientError"

HmsSend(e) ==
  CASE e.stage = "credential" -> EarlyReturn
    [] e.stage \in {"token", "transport"} -> "TransientError"
    [] e.http = 429 -> "Throttled"
    [] e.http = 500 -> "TransientError"
    [] e.http = 200 /\ e.code = "garbled" -> EarlyReturn
    [] OTHER -> Classify(e)

\* provider.Get(name).Send
Send(p, e) == CASE p = "fcm" -> FcmSend(e)
                [] p = "apns" -> ApnsSend(e)
                [] p = "expo" -> ExpoSend(e)
                [] p = "hms" -> HmsSend(e)

\* RetryDelayFunc on a *ThrottledError or any other error.
RetryDelay_header(header) == RetryAfter(header)
RetryDelay(header) == IF RetryAfter(header) > 0 THEN RetryAfter(header) ELSE DefaultDelay

(***************************************************************************)
(* The attempts of one recipient                                           *)
(***************************************************************************)
VARIABLES
  provider,   \* the device's provider_type
  recipient,  \* status of the recipient
  device,     \* status of the device
  retried,    \* failures counted so far
  delay,      \* seconds until the next attempt, 0 when there is none
  events,     \* history: what happened to the attempts, without repetition
  throttles   \* history: throttled attempts so far

vars == <<provider, recipient, device, retried, delay, events, throttles>>

Init ==
  /\ provider \in Providers
  /\ recipient = "sending"
  /\ device = "active"
  /\ retried = 0
  /\ delay = 0
  /\ events = {}
  /\ throttles = 0

\* HandleSend's switch on result.Status; an error counts unless it is a ThrottledError.
Counts(status) == status # "Throttled"

Sent(e) ==
  /\ Send(provider, e) = "Sent"
  /\ recipient' = "sent"
  /\ delay' = 0
  /\ UNCHANGED <<device, retried, throttles>>

InvalidToken(e) ==
  /\ Send(provider, e) = "InvalidToken"
  /\ device' = "invalid"
  /\ recipient' = "failed"
  /\ delay' = 0
  /\ UNCHANGED <<retried, throttles>>

Throttled(e) ==
  /\ Send(provider, e) = "Throttled"
  /\ throttles < MaxThrottles
  /\ throttles' = throttles + 1
  /\ delay' = RetryDelay(e.after)
  /\ retried' = IF Counts("Throttled") THEN retried + 1 ELSE retried
  /\ UNCHANGED <<recipient, device>>

TransientError(e) ==
  /\ Send(provider, e) \in {"TransientError", "Unknown"}
  /\ IF retried >= MaxRetry
     THEN recipient' = "failed" /\ delay' = 0 /\ UNCHANGED retried
     ELSE delay' = DefaultDelay /\ retried' = retried + 1 /\ UNCHANGED recipient
  /\ UNCHANGED <<device, throttles>>

Attempt(e) ==
  /\ recipient = "sending"
  /\ events' = events \cup {e}
  /\ \/ Sent(e)
     \/ InvalidToken(e)
     \/ Throttled(e)
     \/ TransientError(e)
  /\ UNCHANGED provider

Next == \E e \in Events(provider) : Attempt(e)

Spec == Init /\ [][Next]_vars

(***************************************************************************)
(* Properties                                                              *)
(***************************************************************************)
\* What an answer says of the push and of the token.
Accepting(e) == e.http = 200 /\ e.code \in {"", "name", "ok", "80000000"}
BlamesToken(e) ==
  e.code \in {"UNREGISTERED", "SENDER_ID_MISMATCH", "INVALID_ARGUMENT", "BadDeviceToken",
              "Unregistered", "DeviceTokenNotForTopic", "DeviceNotRegistered",
              "80100000", "80300007"}

\* StatusUnknown: no path of an adapter, early returns included, records a send
\* as sent, or a device as invalid, that the provider did not accept or reject so.
VerdictsMeanWhatTheySay ==
  /\ recipient = "sent" => \E e \in events : Accepting(e)
  /\ device = "invalid" => \E e \in events : BlamesToken(e)
  /\ recipient = "failed" =>
       device = "invalid" \/ retried = MaxRetry

\* RetryDelayFunc: an open recipient is never retried at once, whatever the
\* Retry-After header holds.
NoHotRetry == recipient = "sending" /\ events # {} => delay > 0
=============================================================================
