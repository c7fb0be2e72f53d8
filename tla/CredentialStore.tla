--------------------------- MODULE CredentialStore ---------------------------
(***************************************************************************)
(* Provider credentials: sealed by a dashboard or by the seed-credential   *)
(* command, stored in provider_credentials, opened by a credential test of *)
(* the dashboard or by a send of a worker, and turned into a client that   *)
(* the adapter keeps (internal/crypto, internal/dashboard/providers.go,    *)
(* the first half of HandleSend, the client caches of the FCM and APNs     *)
(* adapters).                                                              *)
(*                                                                         *)
(* Sealing makes a random data encryption key (DEK) per save, encrypts the *)
(* credential with it and wraps it with the master key the process was     *)
(* started with.  Processes are started at different times and may run     *)
(* with different values of APP_MASTER_KEY.  Saves, tests and sends        *)
(* overlap, and a save can come between the read of a row and its use.     *)
(*                                                                         *)
(* A credential is a member of Texts; all of them are valid JSON, which is *)
(* all that is checked when one is saved: each adapter finds out by itself *)
(* which ones it can use.  AES-GCM is modelled by what it guarantees: with *)
(* another key than the one that sealed, opening fails.  What a test tells *)
(* the browser is not kept anywhere.                                       *)
(***************************************************************************)
EXTENDS Naturals, FiniteSets

CONSTANTS
  Dashboards, Workers,   \* processes: serve-dashboard or serve-all, and worker
  Ops,                   \* saves, tests and sends that are under way at the same time
  Creds,                 \* rows: a project and a provider type
  Types, TypeOf,         \* provider types, and the one of each row
  Texts, NoText,         \* credentials, and none
  Usable,                \* the credentials the adapter of each type accepts
  Caching,               \* the types whose adapter keeps clients (fcm, apns)
  Testing,               \* the types whose adapter has a tester (fcm, apns, hms)
  MasterKeys,            \* values of APP_MASTER_KEY
  MaxDek                 \* bound: DEKs in use at the same time

ASSUME CredentialStoreAssumption ==
  /\ Dashboards \cap Workers = {}
  /\ NoText \notin Texts
  /\ TypeOf \in [Creds -> Types]
  /\ Usable \in [Types -> SUBSET Texts]
  /\ MaxDek \in Nat

Procs == Dashboards \cup Workers
Deks == 1..MaxDek

VARIABLES
  row,        \* provider_credentials: the columns wrapped_dek and credential
  masterKey,  \* the master key each process runs with
  clients,    \* the client caches of each process: the adapter's type, the key, and
              \* what the client was built from
  op          \* each save, test or send

vars == <<row, masterKey, clients, op>>

\* The columns of a row; dek 0 is no key.
NoRow == [wrapped |-> [by |-> NoText, dek |-> 0], credential |-> [dek |-> 0, text |-> NoText]]
Idle == [pc |-> "idle"]

(***************************************************************************)
(* Envelope encryption                                                     *)
(***************************************************************************)
\* MasterKey.Seal with DEK d.
Seal(mk, d, t) == [wrapped |-> [by |-> mk, dek |-> d], credential |-> [dek |-> d, text |-> t]]

\* MasterKey.Open; NoText is the error.
Open(mk, sealed) ==
  IF sealed.wrapped.by = mk /\ sealed.wrapped.dek = sealed.credential.dek
  THEN sealed.credential.text ELSE NoText

InUse(sealed) == {sealed.wrapped.dek, sealed.credential.dek}
DeksInUse == UNION ({InUse(row[c]) : c \in Creds}
                    \cup {InUse(op[o].sealed) : o \in {q \in Ops : op[q].pc \in {"saving", "read"}}})

\* A random DEK is one nobody has; which one makes no difference.
FreshDek(d) == d \notin DeksInUse /\ \A e \in Deks \ DeksInUse : d <= e

(***************************************************************************)
(* Saving a credential                                                     *)
(***************************************************************************)
StartSave(o, mk, c, t) ==
  /\ op[o].pc = "idle"
  /\ \E d \in Deks :
       /\ FreshDek(d)
       /\ op' = [op EXCEPT ![o] = [pc |-> "saving", cred |-> c, sealed |-> Seal(mk, d, t)]]
  /\ UNCHANGED <<row, masterKey, clients>>

\* handleUpsertProviderCredential, up to the statement.
SaveCredential(o, p, c, t) == StartSave(o, masterKey[p], c, t)

\* The seed-credential command: a process of its own, with the key of its environment.
SeedCredential(o, mk, c, t) == StartSave(o, mk, c, t)

Upserted_dek(old, new) == IF old = NoRow THEN new ELSE [old EXCEPT !.credential = new.credential]
\* insert ... on conflict do update: both columns.
Upserted(old, new) == new

UpsertProviderCredential(o) ==
  /\ op[o].pc = "saving"
  /\ row' = [row EXCEPT ![op[o].cred] = Upserted(@, op[o].sealed)]
  /\ op' = [op EXCEPT ![o] = Idle]
  /\ UNCHANGED <<masterKey, clients>>

\* The statement fails, or the command ends without it.
UpsertFails(o) ==
  /\ op[o].pc = "saving"
  /\ op' = [op EXCEPT ![o] = Idle]
  /\ UNCHANGED <<row, masterKey, clients>>

(***************************************************************************)
(* Using a credential                                                      *)
(***************************************************************************)
\* GetActiveProviderCredential; without a row the test or the send ends with an error.
StartUse(o, kind, p, c) ==
  /\ op[o].pc = "idle"
  /\ row[c] # NoRow
  /\ op' = [op EXCEPT ![o] = [pc |-> "read", kind |-> kind, proc |-> p, cred |-> c,
                             sealed |-> row[c]]]
  /\ UNCHANGED <<row, masterKey, clients>>

\* handleTestProviderCredential and HandleSend, up to the read of the row.
StartTest(o, p, c) == StartUse(o, "test", p, c)
StartSend(o, p, c) == StartUse(o, "send", p, c)

WithText(use, t) ==
  [pc |-> "opened", kind |-> use.kind, proc |-> use.proc, cred |-> use.cred, text |-> t]

OpenCredential_unchecked(o) ==
  /\ op[o].pc = "read"
  /\ op' = [op EXCEPT ![o] = WithText(@, Open(masterKey[@.proc], @.sealed))]
  /\ UNCHANGED <<row, masterKey, clients>>
\* A credential that does not open ends the test with a message, the send for good.
OpenCredential(o) ==
  LET t == Open(masterKey[op[o].proc], op[o].sealed)
  IN /\ op[o].pc = "read"
     /\ op' = [op EXCEPT ![o] = IF t = NoText THEN Idle ELSE WithText(@, t)]
     /\ UNCHANGED <<row, masterKey, clients>>

CacheKey_provider(t) == CHOOSE u \in Texts : TRUE
\* The caches are keyed by the hash of the credential.
CacheKey(t) == t

\* Every adapter has a cache of its own.
Cached(p, type, t) == {e \in clients[p] : e.type = type /\ e.key = CacheKey(t)}

WithClient(use, t) ==
  [pc |-> "client", kind |-> use.kind, proc |-> use.proc, cred |-> use.cred,
   text |-> use.text, client |-> t]

\* A test whose adapter has no tester: "credential shape looks valid".
TestShape(o) ==
  /\ op[o].pc = "opened" /\ op[o].kind = "test"
  /\ TypeOf[op[o].cred] \notin Testing
  /\ op' = [op EXCEPT ![o] = Idle]
  /\ UNCHANGED <<row, masterKey, clients>>

\* tokenSourceFor and clientFor, one critical section: the cached client, or one
\* built from the credential; a credential the adapter does not accept is an
\* error.  The adapters that keep no clients make one for each use.
ClientFor(o) ==
  LET t == op[o].text
      p == op[o].proc
      type == TypeOf[op[o].cred]
      entry == [type |-> type, key |-> CacheKey(t), client |-> t]
  IN /\ op[o].pc = "opened"
     /\ op[o].kind = "send" \/ type \in Testing
     /\ \/ \E e \in Cached(p, type, t) :
             /\ op' = [op EXCEPT ![o] = WithClient(@, e.client)]
             /\ UNCHANGED clients
        \/ /\ Cached(p, type, t) = {} /\ t \in Usable[type]
           /\ op' = [op EXCEPT ![o] = WithClient(@, t)]
           /\ clients' = IF type \in Caching
                         THEN [clients EXCEPT ![p] = @ \cup {entry}] ELSE clients
        \/ /\ Cached(p, type, t) = {} /\ t \notin Usable[type]
           /\ op' = [op EXCEPT ![o] = Idle]
           /\ UNCHANGED clients
     /\ UNCHANGED <<row, masterKey>>

\* "credential test passed", or "test failed": the FCM and HMS adapters also ask for
\* an access token.
TestCredential(o) ==
  /\ op[o].pc = "client" /\ op[o].kind = "test"
  /\ op' = [op EXCEPT ![o] = Idle]
  /\ UNCHANGED <<row, masterKey, clients>>

\* The push itself, and what the send makes of the answer.
Push(o) ==
  /\ op[o].pc = "client" /\ op[o].kind = "send"
  /\ op' = [op EXCEPT ![o] = Idle]
  /\ UNCHANGED <<row, masterKey, clients>>

\* A process does not start without a valid key.
LoadMasterKey(p, mk) == masterKey' = [masterKey EXCEPT ![p] = mk]

\* A process ends, with the tests and the sends it had under way, and is started
\* again with the master key its environment then has.
Restart(p, mk) ==
  /\ LoadMasterKey(p, mk)
  /\ clients' = [clients EXCEPT ![p] = {}]
  /\ op' = [o \in Ops |-> IF op[o].pc \notin {"idle", "saving"} /\ op[o].proc = p
                          THEN Idle ELSE op[o]]
  /\ UNCHANGED row

Init ==
  /\ row = [c \in Creds |-> NoRow]
  /\ masterKey \in [Procs -> MasterKeys]
  /\ clients = [p \in Procs |-> {}]
  /\ op = [o \in Ops |-> Idle]

Next ==
  \/ \E o \in Ops :
       \/ \E c \in Creds, t \in Texts :
            \/ \E p \in Dashboards : SaveCredential(o, p, c, t)
            \/ \E mk \in MasterKeys : SeedCredential(o, mk, c, t)
       \/ UpsertProviderCredential(o)
       \/ UpsertFails(o)
       \/ \E c \in Creds :
            \/ \E p \in Dashboards : StartTest(o, p, c)
            \/ \E p \in Workers : StartSend(o, p, c)
       \/ OpenCredential(o)
       \/ ClientFor(o)
       \/ TestShape(o)
       \/ TestCredential(o)
       \/ Push(o)
  \/ \E p \in Procs, mk \in MasterKeys : Restart(p, mk)

Spec == Init /\ [][Next]_vars

(***************************************************************************)
(* Properties                                                              *)
(***************************************************************************)
Sealed == [wrapped : [by : MasterKeys, dek : Deks], credential : [dek : Deks, text : Texts]]

\* The types; DEK 0 and NoText stand for nothing that is stored.
TypeOK ==
  /\ row \in [Creds -> Sealed \cup {NoRow}]
  /\ masterKey \in [Procs -> MasterKeys]
  /\ \A p \in Procs : \A e \in clients[p] :
       e.type \in Caching /\ e.key \in Texts /\ e.client \in Usable[e.type]
  /\ \A o \in Ops :
       \/ op[o] = Idle
       \/ op[o].pc = "saving" /\ op[o].cred \in Creds /\ op[o].sealed \in Sealed
       \/ /\ op[o].pc \in {"read", "opened", "client"}
          /\ op[o].kind \in {"test", "send"} /\ op[o].proc \in Procs /\ op[o].cred \in Creds
          /\ op[o].pc = "read" => op[o].sealed \in Sealed
          /\ op[o].pc # "read" => op[o].text \in Texts
          /\ op[o].pc = "client" => op[o].client \in Usable[TypeOf[op[o].cred]]

\* Seal, Open and the upsert: whatever saves race with each other, a stored row is
\* the work of one Seal: every process that runs with the key the row was sealed
\* under opens it, and no two rows share a DEK.
RowsOpen ==
  \A c \in Creds : row[c] # NoRow =>
    /\ \A p \in Procs : masterKey[p] = row[c].wrapped.by => Open(masterKey[p], row[c]) \in Texts
    /\ \A b \in Creds \ {c} : InUse(row[b]) \cap InUse(row[c]) = {}

\* tokenSourceFor and clientFor: a push goes out with the credential of the row its
\* own send read, whatever the process has cached from earlier contents of the row
\* and from the rows of other projects.
PushUsesTheRowRead ==
  \A o \in Ops : op[o].pc = "client" => op[o].client = op[o].text
=============================================================================
