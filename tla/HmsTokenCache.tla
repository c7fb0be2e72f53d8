---------------------------- MODULE HmsTokenCache ----------------------------
(***************************************************************************)
(* The OAuth2 access token cache of the HMS adapter (internal/provider/    *)
(* hms), shared by the concurrent sends of one worker process for one      *)
(* credential: accessTokenFor looks a token up under the mutex, fetches    *)
(* one without it and stores what it got under the mutex again; an         *)
(* authentication error evicts whatever is cached.                         *)
(*                                                                         *)
(* Tokens are recycled: a token nobody holds can stand for a new one.      *)
(***************************************************************************)
EXTENDS Naturals, FiniteSets

CONSTANTS
  Sends,      \* concurrent calls of adapter.Send, each retried until it gets through
  Tokens,     \* access tokens
  NoToken,    \* no token
  MaxDrops    \* bound: how often the provider drops the tokens it issued

ASSUME TokensAssumption ==
  /\ IsFiniteSet(Sends)
  /\ NoToken \notin Tokens
  /\ MaxDrops \in Nat

VARIABLES
  cache,      \* a.tokens[key]: the token, and whether now is before its expiresAt
  valid,      \* the tokens the provider honours
  send,       \* each send: pc and the token it uses
  errors,     \* history: authentication errors of each send since the last drop,
              \* counted up to one past ErrorBound
  drops       \* history: how often the provider dropped its tokens

vars == <<cache, valid, send, errors, drops>>

ErrorBound == Cardinality(Sends)

Hit == cache.token # NoToken /\ cache.fresh

\* accessTokenFor: a cached token that has not expired, or a fetch.
Lookup(s) ==
  /\ send[s].pc = "idle"
  /\ send' = [send EXCEPT ![s] = IF Hit THEN [pc |-> "push", token |-> cache.token]
                                 ELSE [pc |-> "fetch", token |-> NoToken]]
  /\ UNCHANGED <<cache, valid, errors, drops>>

Held == {cache.token} \cup {send[s].token : s \in Sends}

\* The provider issues a token; its answer is on the way.
FetchToken(s, t) ==
  /\ send[s].pc = "fetch"
  /\ t \notin Held
  /\ valid' = valid \cup {t}
  /\ send' = [send EXCEPT ![s] = [pc |-> "store", token |-> t]]
  /\ UNCHANGED <<cache, errors, drops>>

\* The token request fails: a transient error, and a retry later.
FetchFails(s) ==
  /\ send[s].pc = "fetch"
  /\ send' = [send EXCEPT ![s].pc = "idle"]
  /\ UNCHANGED <<cache, valid, errors, drops>>

\* expires_in may be less than the minute accessTokenFor subtracts from it.
StoreToken(s, fresh) ==
  /\ send[s].pc = "store"
  /\ cache' = [token |-> send[s].token, fresh |-> fresh]
  /\ send' = [send EXCEPT ![s].pc = "push"]
  /\ UNCHANGED <<valid, errors, drops>>

\* The push gets through to the provider: the send's own outcome follows.
PushAuthorized(s) ==
  /\ send[s].pc = "push"
  /\ send[s].token \in valid
  /\ send' = [send EXCEPT ![s] = [pc |-> "idle", token |-> NoToken]]
  /\ UNCHANGED <<cache, valid, errors, drops>>

Evicted_keep == cache
Evicted == [token |-> NoToken, fresh |-> FALSE]

\* codeOAuthAuthError or codeOAuthTokenExpired: invalidateToken, and a transient error.
PushUnauthorized(s) ==
  /\ send[s].pc = "push"
  /\ send[s].token \notin valid
  /\ send' = [send EXCEPT ![s].pc = "evict"]
  /\ errors' = [errors EXCEPT ![s] = IF @ > ErrorBound THEN @ ELSE @ + 1]
  /\ UNCHANGED <<cache, valid, drops>>

InvalidateToken(s) ==
  /\ send[s].pc = "evict"
  /\ cache' = Evicted
  /\ send' = [send EXCEPT ![s] = [pc |-> "idle", token |-> NoToken]]
  /\ UNCHANGED <<valid, errors, drops>>

\* The push fails for another reason, transport errors included.
PushFails(s) ==
  /\ send[s].pc = "push"
  /\ send' = [send EXCEPT ![s] = [pc |-> "idle", token |-> NoToken]]
  /\ UNCHANGED <<cache, valid, errors, drops>>

\* The provider drops the tokens it issued (a rotated app secret, or expiry).
DropTokens ==
  /\ drops < MaxDrops
  /\ drops' = drops + 1
  /\ valid' = {}
  /\ errors' = [s \in Sends |-> 0]
  /\ UNCHANGED <<cache, send>>

CacheExpires ==
  /\ cache.fresh
  /\ cache' = [cache EXCEPT !.fresh = FALSE]
  /\ UNCHANGED <<valid, send, errors, drops>>

Init ==
  /\ cache = [token |-> NoToken, fresh |-> FALSE]
  /\ valid = {}
  /\ send = [s \in Sends |-> [pc |-> "idle", token |-> NoToken]]
  /\ errors = [s \in Sends |-> 0]
  /\ drops = 0

Push(s) == PushAuthorized(s) \/ PushUnauthorized(s)

Next ==
  \/ \E s \in Sends :
       \/ Lookup(s)
       \/ \E t \in Tokens : FetchToken(s, t)
       \/ FetchFails(s)
       \/ \E fresh \in BOOLEAN : StoreToken(s, fresh)
       \/ Push(s)
       \/ PushFails(s)
       \/ InvalidateToken(s)
  \/ DropTokens
  \/ CacheExpires

Spec == Init /\ [][Next]_vars

\* asynq retries a send, its code runs on, and a fetch and a push that are
\* tried again and again get their answer some day.
Fairness ==
  \A s \in Sends :
    /\ WF_vars(Lookup(s))
    /\ SF_vars(\E t \in Tokens : FetchToken(s, t))
    /\ WF_vars(\E fresh \in BOOLEAN : StoreToken(s, fresh))
    /\ SF_vars(Push(s))
    /\ WF_vars(InvalidateToken(s))

FairSpec == Spec /\ Fairness

(***************************************************************************)
(* Properties                                                              *)
(***************************************************************************)
\* A drop of the tokens costs a send at most one authentication error of its own
\* and one for each other send that still stores a dropped token afterwards:
\* so many of its retries, and no more.
AuthErrorsBounded == \A s \in Sends : errors[s] <= ErrorBound

\* Once the provider keeps its tokens, every send gets through to it again and
\* again: no dropped token stays in the cache for good.
Recovers == \A s \in Sends : []<>(send[s].pc = "push" /\ send[s].token \in valid)
=============================================================================
