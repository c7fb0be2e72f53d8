------------------------ MODULE HmsTokenCacheProofs ------------------------
(***************************************************************************)
(* Proof that a drop of the access tokens costs each send a bounded number *)
(* of authentication errors, for any number of concurrent sends.           *)
(*                                                                         *)
(* The argument is a debt: after a drop, a send can still run into one     *)
(* error through what it holds or what is cached, and into one for each    *)
(* other send that is about to store a dropped token.  An error pays one,  *)
(* its eviction clears the cache, and no step but a drop makes new debt.   *)
(***************************************************************************)
EXTENDS HmsTokenCache, FiniteSetTheorems, TLAPS

SendRecords == [pc : {"idle", "fetch", "store", "push", "evict"}, token : Tokens \cup {NoToken}]

StateOK ==
  /\ cache \in [token : Tokens \cup {NoToken}, fresh : BOOLEAN]
  /\ valid \subseteq Tokens
  /\ send \in [Sends -> SendRecords]
  /\ errors \in [Sends -> Nat]

\* A token some send or the cache holds and the provider does not honour.
Dropped(t) == t # NoToken /\ t \notin valid

\* The other sends that are about to store a dropped token.
Storing(s) == {r \in Sends \ {s} : send[r].pc = "store" /\ Dropped(send[r].token)}

\* Whether s runs into an error by what it holds, or by what is cached when it
\* looks it up next.
Exposed(s) ==
  \/ send[s].pc \in {"store", "push"} /\ Dropped(send[s].token)
  \/ send[s].pc # "evict" /\ Dropped(cache.token)

Own(s) == IF Exposed(s) THEN 1 ELSE 0

\* A send that stores or pushes has a token.
HoldsInv == \A s \in Sends : send[s].pc \in {"store", "push"} => send[s].token # NoToken

DebtInv == \A s \in Sends : errors[s] + Cardinality(Storing(s)) + Own(s) <= ErrorBound

CacheInv == StateOK /\ HoldsInv /\ DebtInv

(***************************************************************************)
(* Counting                                                                *)
(***************************************************************************)
LEMMA OthersFinite ==
  ASSUME NEW s \in Sends, NEW S \in SUBSET (Sends \ {s})
  PROVE  /\ IsFiniteSet(S) /\ Cardinality(S) \in Nat
         /\ Cardinality(S) + 1 <= ErrorBound /\ ErrorBound \in Nat
<1>1. IsFiniteSet(Sends \ {s}) /\ Cardinality(Sends \ {s}) = Cardinality(Sends) - 1
  BY TokensAssumption, FS_RemoveElement
<1>2. IsFiniteSet(S) /\ Cardinality(S) <= Cardinality(Sends \ {s})
  BY <1>1, FS_Subset
<1>3. Cardinality(S) \in Nat /\ Cardinality(Sends) \in Nat
  BY <1>2, TokensAssumption, FS_CardinalityType
<1>4. QED
  BY <1>1, <1>2, <1>3 DEF ErrorBound

LEMMA StoringFinite ==
  ASSUME NEW s \in Sends
  PROVE  /\ IsFiniteSet(Storing(s)) /\ Cardinality(Storing(s)) \in Nat
         /\ Cardinality(Storing(s)) + 1 <= ErrorBound /\ ErrorBound \in Nat
<1>1. Storing(s) \in SUBSET (Sends \ {s})
  BY DEF Storing
<1>2. QED
  BY <1>1, OthersFinite

\* What is enough to keep s within its bound.
LEMMA DebtKept ==
  ASSUME StateOK, DebtInv, NEW s \in Sends, errors'[s] = errors[s],
         Storing(s)' \subseteq Storing(s), Exposed(s)' => Exposed(s)
  PROVE  errors'[s] + Cardinality(Storing(s)') + Own(s)' <= ErrorBound
<1>1. Cardinality(Storing(s)') <= Cardinality(Storing(s)) /\ IsFiniteSet(Storing(s)')
  BY StoringFinite, FS_Subset
<1>2. Cardinality(Storing(s)') \in Nat /\ Cardinality(Storing(s)) \in Nat
  BY <1>1, StoringFinite, FS_CardinalityType
<1>3. Own(s)' <= Own(s) /\ Own(s) \in {0, 1} /\ Own(s)' \in {0, 1}
  BY DEF Own
<1>4. errors[s] \in Nat /\ ErrorBound \in Nat
  BY StoringFinite DEF StateOK
<1>5. errors[s] + Cardinality(Storing(s)) + Own(s) <= ErrorBound
  BY DEF DebtInv
<1>6. QED
  BY <1>1, <1>2, <1>3, <1>4, <1>5

\* Another send r stores a dropped token: its debt becomes the cache's.
LEMMA DebtMoved ==
  ASSUME StateOK, DebtInv, NEW s \in Sends, errors'[s] = errors[s],
         NEW r \in Storing(s), Storing(s)' = Storing(s) \ {r}
  PROVE  errors'[s] + Cardinality(Storing(s)') + Own(s)' <= ErrorBound
<1>1. Cardinality(Storing(s)') = Cardinality(Storing(s)) - 1
  BY StoringFinite, FS_RemoveElement
<1>2. Own(s) \in {0, 1} /\ Own(s)' \in {0, 1}
  BY DEF Own
<1>3. errors[s] \in Nat /\ ErrorBound \in Nat /\ Cardinality(Storing(s)) \in Nat
  BY StoringFinite DEF StateOK
<1>4. errors[s] + Cardinality(Storing(s)) + Own(s) <= ErrorBound
  BY DEF DebtInv
<1>5. QED
  BY <1>1, <1>2, <1>3, <1>4

LEMMA InitInv == Init => CacheInv
<1> SUFFICES ASSUME Init
             PROVE  CacheInv
  OBVIOUS
<1>1. StateOK
  BY DEF Init, StateOK, SendRecords
<1>2. HoldsInv
  BY DEF Init, HoldsInv
<1>3. ASSUME NEW s \in Sends
      PROVE  errors[s] + Cardinality(Storing(s)) + Own(s) <= ErrorBound
  <2>1. errors[s] = 0 /\ Own(s) \in {0, 1}
    BY DEF Init, Own
  <2>2. QED
    BY <2>1, StoringFinite
<1>4. QED
  BY <1>1, <1>2, <1>3 DEF CacheInv, DebtInv

(***************************************************************************)
(* The actions                                                             *)
(***************************************************************************)
\* A step of s that leaves the errors alone and brings no send into "store".
LEMMA QuietStep ==
  ASSUME CacheInv, NEW s \in Sends,
         \/ Lookup(s) \/ FetchFails(s) \/ PushAuthorized(s) \/ PushFails(s) \/ InvalidateToken(s)
  PROVE  CacheInv'
<1> USE DEF CacheInv
<1>1. /\ errors' = errors /\ valid' = valid
      /\ cache' = cache \/ (InvalidateToken(s) /\ cache' = Evicted)
      /\ \A r \in Sends : r # s => send'[r] = send[r]
      /\ send' \in [Sends -> SendRecords] /\ send'[s].pc \in {"idle", "fetch", "push"}
      /\ send'[s].pc = "push" => Lookup(s) /\ send'[s].token = cache.token /\ cache.token # NoToken
  <2>1. CASE Lookup(s)
    <3>1. /\ send' = [send EXCEPT ![s] = IF Hit THEN [pc |-> "push", token |-> cache.token]
                                        ELSE [pc |-> "fetch", token |-> NoToken]]
          /\ UNCHANGED <<cache, valid, errors, drops>>
      BY <2>1 DEF Lookup
    <3>2. CASE Hit
      BY <2>1, <3>1, <3>2 DEF Hit, StateOK, SendRecords
    <3>3. CASE ~Hit
      BY <2>1, <3>1, <3>3 DEF StateOK, SendRecords
    <3>4. QED
      BY <3>2, <3>3
  <2>2. CASE FetchFails(s)
    BY <2>2 DEF FetchFails, StateOK, SendRecords
  <2>3. CASE PushAuthorized(s) \/ PushFails(s)
    BY <2>3 DEF PushAuthorized, PushFails, StateOK, SendRecords
  <2>4. CASE InvalidateToken(s)
    BY <2>4 DEF InvalidateToken, StateOK, SendRecords
  <2>5. QED
    BY <2>1, <2>2, <2>3, <2>4
<1>2. cache' \in [token : Tokens \cup {NoToken}, fresh : BOOLEAN]
  <2>1. Evicted \in [token : Tokens \cup {NoToken}, fresh : BOOLEAN]
    BY DEF Evicted
  <2>2. QED
    BY <1>1, <2>1 DEF StateOK
<1>3. StateOK'
  BY <1>1, <1>2 DEF StateOK
<1>4. HoldsInv'
  BY <1>1 DEF HoldsInv
<1>5. ASSUME NEW r \in Sends
      PROVE  errors'[r] + Cardinality(Storing(r)') + Own(r)' <= ErrorBound
  <2>1. ASSUME NEW q \in Sends, send'[q].pc = "store"
        PROVE  q # s /\ send'[q] = send[q]
    BY <1>1, <2>1
  <2>2. Storing(r)' \subseteq Storing(r)
    BY <1>1, <2>1 DEF Storing, Dropped
  <2>3. Dropped(cache.token)' => Dropped(cache.token) /\ cache' = cache
    BY <1>1 DEF Dropped, Evicted
  <2>4. Exposed(r)' => Exposed(r)
    <3>1. CASE r # s
      BY <1>1, <2>3, <3>1 DEF Exposed, Dropped
    <3>2. CASE r = s
      <4>1. send[s].pc = "evict" => ~Dropped(cache.token)'
        BY DEF Lookup, FetchFails, PushAuthorized, PushFails, InvalidateToken, Evicted, Dropped
      <4>2. send'[s].pc = "push" => send[s].pc # "evict"
        BY <1>1 DEF Lookup
      <4>3. QED
        BY <1>1, <2>3, <3>2, <4>1, <4>2 DEF Exposed, Dropped
    <3>3. QED
      BY <3>1, <3>2
  <2>5. QED
    BY <1>1, <2>2, <2>4, DebtKept
<1>6. QED
  BY <1>3, <1>4, <1>5 DEF DebtInv

\* A new token is one nobody holds: it makes no held token valid or dropped but its own.
LEMMA FetchTokenStep ==
  ASSUME CacheInv, NEW s \in Sends, NEW t \in Tokens, FetchToken(s, t)
  PROVE  CacheInv'
<1> USE DEF CacheInv
<1>1. /\ errors' = errors /\ cache' = cache /\ valid' = valid \cup {t} /\ t \notin Held
      /\ send' = [send EXCEPT ![s] = [pc |-> "store", token |-> t]] /\ send[s].pc = "fetch"
  BY DEF FetchToken
<1>2. /\ send' \in [Sends -> SendRecords] /\ send'[s] = [pc |-> "store", token |-> t]
      /\ \A r \in Sends : r # s => send'[r] = send[r]
  BY <1>1 DEF StateOK, SendRecords
<1>3. StateOK'
  BY <1>1, <1>2 DEF StateOK
<1>4. HoldsInv'
  BY <1>2, TokensAssumption DEF HoldsInv
<1>5. ~Dropped(send[s].token)'
  BY <1>1, <1>2 DEF Dropped
<1>6. \A r \in Sends : r # s => (Dropped(send[r].token)' => Dropped(send[r].token))
  BY <1>1, <1>2 DEF Dropped
<1>7. Dropped(cache.token)' => Dropped(cache.token)
  BY <1>1 DEF Dropped
<1>8. ASSUME NEW r \in Sends
      PROVE  errors'[r] + Cardinality(Storing(r)') + Own(r)' <= ErrorBound
  <2>1. Storing(r)' \subseteq Storing(r)
    BY <1>2, <1>5, <1>6 DEF Storing
  <2>2. Exposed(r)' => Exposed(r)
    <3>1. CASE r = s
      BY <1>1, <1>5, <1>7, <3>1 DEF Exposed
    <3>2. CASE r # s
      BY <1>2, <1>6, <1>7, <3>2 DEF Exposed
    <3>3. QED
      BY <3>1, <3>2
  <2>3. QED
    BY <1>1, <2>1, <2>2, DebtKept
<1>9. QED
  BY <1>3, <1>4, <1>8 DEF DebtInv

\* The one step that puts a dropped token into the cache.
LEMMA StoreTokenStep ==
  ASSUME CacheInv, NEW s \in Sends, NEW fresh \in BOOLEAN, StoreToken(s, fresh)
  PROVE  CacheInv'
<1> USE DEF CacheInv
<1>1. /\ errors' = errors /\ valid' = valid /\ send[s].pc = "store"
      /\ cache' = [token |-> send[s].token, fresh |-> fresh]
      /\ send' = [send EXCEPT ![s].pc = "push"]
  BY DEF StoreToken
<1>2. PICK t \in Tokens \cup {NoToken} : t = send[s].token
  BY DEF StateOK, SendRecords
<1>3. /\ send' \in [Sends -> SendRecords] /\ send'[s].pc = "push" /\ send'[s].token = t
      /\ \A r \in Sends : r # s => send'[r] = send[r]
  BY <1>1, <1>2 DEF StateOK, SendRecords
<1>4. cache' \in [token : Tokens \cup {NoToken}, fresh : BOOLEAN] /\ cache'.token = t
  BY <1>1, <1>2
<1>5. StateOK'
  BY <1>1, <1>3, <1>4 DEF StateOK
<1>6. t # NoToken
  BY <1>1, <1>2 DEF HoldsInv
<1>7. HoldsInv'
  BY <1>3, <1>6 DEF HoldsInv
<1>8. /\ Dropped(cache.token)' <=> Dropped(t)
      /\ Dropped(send[s].token)' <=> Dropped(t)
      /\ \A r \in Sends : r # s => (Dropped(send[r].token)' <=> Dropped(send[r].token))
  BY <1>1, <1>3, <1>4 DEF Dropped
<1>9. ASSUME NEW r \in Sends
      PROVE  errors'[r] + Cardinality(Storing(r)') + Own(r)' <= ErrorBound
  <2>1. Storing(r)' = Storing(r) \ {s}
    BY <1>1, <1>3, <1>8 DEF Storing
  <2>2. CASE r # s /\ Dropped(t)
    <3>1. s \in Storing(r)
      BY <1>1, <1>2, <2>2 DEF Storing
    <3>2. QED
      BY <1>1, <2>1, <3>1, DebtMoved
  <2>3. CASE r = s \/ ~Dropped(t)
    <3>1. Exposed(r)' => Exposed(r)
      <4>1. CASE r = s
        BY <1>1, <1>2, <1>8, <4>1 DEF Exposed
      <4>2. CASE r # s
        BY <1>3, <1>8, <2>3, <4>2 DEF Exposed
      <4>3. QED
        BY <4>1, <4>2
    <3>2. QED
      BY <1>1, <2>1, <3>1, DebtKept
  <2>4. QED
    BY <2>2, <2>3
<1>10. QED
  BY <1>5, <1>7, <1>9 DEF DebtInv

\* An error is paid for by the send's own exposure.
LEMMA PushUnauthorizedStep ==
  ASSUME CacheInv, NEW s \in Sends, PushUnauthorized(s)
  PROVE  CacheInv'
<1> USE DEF CacheInv
<1>1. /\ cache' = cache /\ valid' = valid /\ send[s].pc = "push" /\ send[s].token \notin valid
      /\ send' = [send EXCEPT ![s].pc = "evict"]
      /\ errors' = [errors EXCEPT ![s] = IF errors[s] > ErrorBound THEN errors[s] ELSE errors[s] + 1]
  BY DEF PushUnauthorized
<1>2. /\ send' \in [Sends -> SendRecords] /\ send'[s].pc = "evict"
      /\ \A r \in Sends : r # s => send'[r] = send[r]
  BY <1>1 DEF StateOK, SendRecords
<1>3. Exposed(s)
  BY <1>1 DEF Exposed, Dropped, HoldsInv
<1>4. errors[s] + Cardinality(Storing(s)) + 1 <= ErrorBound /\ errors[s] \in Nat
  BY <1>3 DEF DebtInv, Own, StateOK
<1>5. Cardinality(Storing(s)) \in Nat /\ ErrorBound \in Nat
  BY StoringFinite
<1>6. errors' = [errors EXCEPT ![s] = errors[s] + 1]
  <2>1. ~(errors[s] > ErrorBound)
    BY <1>4, <1>5
  <2>2. (IF errors[s] > ErrorBound THEN errors[s] ELSE errors[s] + 1) = errors[s] + 1
    BY <2>1
  <2>3. QED
    BY <1>1, <2>2
<1>7. errors' \in [Sends -> Nat]
  BY <1>4, <1>6 DEF StateOK
<1>8. StateOK'
  BY <1>1, <1>2, <1>7 DEF StateOK
<1>9. HoldsInv'
  BY <1>2 DEF HoldsInv
<1>10. ASSUME NEW r \in Sends
       PROVE  errors'[r] + Cardinality(Storing(r)') + Own(r)' <= ErrorBound
  <2>1. Storing(r)' = Storing(r)
    BY <1>1, <1>2 DEF Storing, Dropped
  <2>2. CASE r = s
    <3>1. Own(r)' = 0
      BY <1>2, <2>2 DEF Own, Exposed
    <3>2. errors'[r] = errors[s] + 1
      BY <1>6, <2>2 DEF StateOK
    <3>3. QED
      BY <1>4, <1>5, <2>1, <2>2, <3>1, <3>2
  <2>3. CASE r # s
    <3>1. errors'[r] = errors[r]
      BY <1>6, <2>3 DEF StateOK
    <3>2. Exposed(r)' => Exposed(r)
      BY <1>1, <1>2, <2>3 DEF Exposed, Dropped
    <3>3. QED
      BY <2>1, <3>1, <3>2, DebtKept
  <2>4. QED
    BY <2>2, <2>3
<1>11. QED
  BY <1>8, <1>9, <1>10 DEF DebtInv

LEMMA NextInv ==
  ASSUME CacheInv, [Next]_vars
  PROVE  CacheInv'
<1> USE DEF CacheInv
<1>1. ASSUME NEW s \in Sends,
             \/ Lookup(s) \/ FetchFails(s) \/ PushAuthorized(s) \/ PushFails(s)
             \/ InvalidateToken(s)
      PROVE  CacheInv'
  BY <1>1, QuietStep
<1>2. ASSUME NEW s \in Sends, NEW t \in Tokens, FetchToken(s, t)
      PROVE  CacheInv'
  BY <1>2, FetchTokenStep
<1>3. ASSUME NEW s \in Sends, NEW fresh \in BOOLEAN, StoreToken(s, fresh)
      PROVE  CacheInv'
  BY <1>3, StoreTokenStep
<1>4. ASSUME NEW s \in Sends, PushUnauthorized(s)
      PROVE  CacheInv'
  BY <1>4, PushUnauthorizedStep
<1>5. CASE DropTokens
  <2>1. valid' = {} /\ errors' = [s \in Sends |-> 0] /\ UNCHANGED <<cache, send>>
    BY <1>5 DEF DropTokens
  <2>2. StateOK' /\ HoldsInv'
    BY <2>1 DEF StateOK, HoldsInv
  <2>3. ASSUME NEW s \in Sends
        PROVE  errors'[s] + Cardinality(Storing(s)') + Own(s)' <= ErrorBound
    <3>1. errors'[s] = 0 /\ Own(s)' \in {0, 1}
      BY <2>1 DEF Own
    <3>2. Cardinality(Storing(s)') \in Nat /\ Cardinality(Storing(s)') + 1 <= ErrorBound
          /\ ErrorBound \in Nat
      <4>1. Storing(s)' \in SUBSET (Sends \ {s})
        BY DEF Storing
      <4>2. QED
        BY <4>1, OthersFinite
    <3>3. QED
      BY <3>1, <3>2
  <2>4. QED
    BY <2>2, <2>3 DEF DebtInv
<1>6. CASE CacheExpires
  <2>1. /\ cache' \in [token : Tokens \cup {NoToken}, fresh : BOOLEAN]
        /\ cache'.token = cache.token /\ UNCHANGED <<valid, send, errors>>
    BY <1>6 DEF CacheExpires, StateOK
  <2>2. StateOK' /\ HoldsInv'
    BY <2>1 DEF StateOK, HoldsInv
  <2>3. ASSUME NEW s \in Sends
        PROVE  errors'[s] + Cardinality(Storing(s)') + Own(s)' <= ErrorBound
    <3>1. Storing(s)' = Storing(s) /\ (Exposed(s)' <=> Exposed(s))
      BY <2>1 DEF Storing, Exposed, Dropped
    <3>2. QED
      BY <2>1, <3>1, DebtKept
  <2>4. QED
    BY <2>2, <2>3 DEF DebtInv
<1>7. CASE UNCHANGED vars
  BY <1>7 DEF vars, StateOK, HoldsInv, DebtInv, Storing, Own, Exposed, Dropped
<1>8. QED
  BY <1>1, <1>2, <1>3, <1>4, <1>5, <1>6, <1>7 DEF Next, Push

\* invalidateToken: after a drop of its tokens a send sees at most one authentication
\* error of its own and one for each other send that stores a dropped token.
THEOREM AuthErrorsBoundedAlways == Spec => []AuthErrorsBounded
<1>1. CacheInv => AuthErrorsBounded
  <2> SUFFICES ASSUME CacheInv, NEW s \in Sends
               PROVE  errors[s] <= ErrorBound
    BY DEF AuthErrorsBounded
  <2>1. errors[s] \in Nat /\ Own(s) \in {0, 1}
    BY DEF CacheInv, StateOK, Own
  <2>2. Cardinality(Storing(s)) \in Nat /\ ErrorBound \in Nat
    BY StoringFinite
  <2>3. errors[s] + Cardinality(Storing(s)) + Own(s) <= ErrorBound
    BY DEF CacheInv, DebtInv
  <2>4. QED
    BY <2>1, <2>2, <2>3
<1>2. QED
  BY <1>1, InitInv, NextInv, PTL DEF Spec
=============================================================================
