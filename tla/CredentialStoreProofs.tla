------------------------ MODULE CredentialStoreProofs ------------------------
(***************************************************************************)
(* Proofs about the provider credentials, for any number of processes,     *)
(* rows, master keys and overlapping saves, tests and sends.               *)
(***************************************************************************)
EXTENDS CredentialStore, TLAPS

Kinds == {"test", "send"}
Saving == [pc : {"saving"}, cred : Creds, sealed : Sealed]
Reading == [pc : {"read"}, kind : Kinds, proc : Procs, cred : Creds, sealed : Sealed]
Opened == [pc : {"opened"}, kind : Kinds, proc : Procs, cred : Creds, text : Texts]
Clients == [pc : {"client"}, kind : Kinds, proc : Procs, cred : Creds, text : Texts,
            client : Texts]
Entries == [type : Caching, key : Texts, client : Texts]

OpState == {Idle} \cup Saving \cup Reading \cup Opened \cup Clients

StateOK ==
  /\ row \in [Creds -> Sealed \cup {NoRow}]
  /\ masterKey \in [Procs -> MasterKeys]
  /\ clients \in [Procs -> SUBSET Entries]
  /\ op \in [Ops -> OpState]

\* A sealed credential is the work of one Seal.
OneSeal(sealed) == sealed.wrapped.dek = sealed.credential.dek

\* The rows and the saves under way have a DEK each.
SealInv ==
  /\ \A c \in Creds : row[c] # NoRow =>
       /\ OneSeal(row[c])
       /\ \A b \in Creds \ {c} : row[b].wrapped.dek # row[c].wrapped.dek
  /\ \A o \in Ops : op[o].pc = "saving" =>
       /\ OneSeal(op[o].sealed)
       /\ \A c \in Creds : row[c].wrapped.dek # op[o].sealed.wrapped.dek
       /\ \A q \in Ops \ {o} : op[q].pc = "saving" =>
            op[q].sealed.wrapped.dek # op[o].sealed.wrapped.dek

\* A client is built by the adapter of its row's type.
Built(e) == e.client = e.key /\ e.client \in Usable[e.type]
BuiltFor(h) == h.client = h.text /\ h.client \in Usable[TypeOf[h.cred]]

\* A cached client was built from the credential it is cached under, and so is
\* the client a test or a send goes on with.
ClientInv ==
  /\ \A p \in Procs : \A e \in clients[p] : Built(e)
  /\ \A o \in Ops : op[o].pc = "client" => BuiltFor(op[o])

StoreInv == StateOK /\ SealInv /\ ClientInv

LEMMA InitStore == Init => StoreInv
BY DEF Init, StoreInv, StateOK, SealInv, ClientInv, OpState, Idle

\* What each place of an operation holds.
LEMMA OpFields ==
  ASSUME NEW h \in OpState
  PROVE  /\ h.pc = "saving" => h \in Saving
         /\ h.pc = "read" => h \in Reading
         /\ h.pc = "opened" => h \in Opened
         /\ h.pc = "client" => h \in Clients
         /\ h.pc = "idle" => h = Idle
BY DEF OpState, Idle, Saving, Reading, Opened, Clients

\* The invariant says what the properties say.
LEMMA StoreImpliesTypes == StoreInv => TypeOK
<1> SUFFICES ASSUME StoreInv
             PROVE  TypeOK
  OBVIOUS
<1>1. ASSUME NEW o \in Ops
      PROVE  \/ op[o] = Idle
             \/ op[o].pc = "saving" /\ op[o].cred \in Creds /\ op[o].sealed \in Sealed
             \/ /\ op[o].pc \in {"read", "opened", "client"}
                /\ op[o].kind \in {"test", "send"} /\ op[o].proc \in Procs /\ op[o].cred \in Creds
                /\ op[o].pc = "read" => op[o].sealed \in Sealed
                /\ op[o].pc # "read" => op[o].text \in Texts
                /\ op[o].pc = "client" => op[o].client \in Usable[TypeOf[op[o].cred]]
  <2>1. op[o] \in OpState /\ (op[o].pc = "client" => BuiltFor(op[o]))
    BY DEF StoreInv, StateOK, ClientInv
  <2>2. QED
    BY <2>1 DEF OpState, Saving, Reading, Opened, Clients, Kinds, BuiltFor
<1>2. ASSUME NEW p \in Procs, NEW e \in clients[p]
      PROVE  e.type \in Caching /\ e.key \in Texts /\ e.client \in Usable[e.type]
  BY <1>2 DEF StoreInv, StateOK, ClientInv, Built, Entries
<1>3. QED
  BY <1>1, <1>2 DEF StoreInv, StateOK, TypeOK

LEMMA StoreImpliesRowsOpen == StoreInv => RowsOpen
<1> SUFFICES ASSUME StoreInv, NEW c \in Creds, row[c] # NoRow
             PROVE  /\ \A p \in Procs : masterKey[p] = row[c].wrapped.by =>
                         Open(masterKey[p], row[c]) \in Texts
                    /\ \A b \in Creds \ {c} : InUse(row[b]) \cap InUse(row[c]) = {}
  BY DEF RowsOpen
<1>1. row[c] \in Sealed /\ OneSeal(row[c])
  BY DEF StoreInv, StateOK, SealInv
<1>2. ASSUME NEW b \in Creds \ {c}
      PROVE  InUse(row[b]) \cap InUse(row[c]) = {}
  <2>1. row[b].wrapped.dek # row[c].wrapped.dek /\ row[b].wrapped.dek = row[b].credential.dek
    BY DEF StoreInv, SealInv, OneSeal, NoRow
  <2>2. QED
    BY <1>1, <2>1 DEF InUse, OneSeal
<1>3. QED
  BY <1>1, <1>2 DEF Open, OneSeal, Sealed

\* A step of operation o that leaves the rows alone and does not start a save.
LEMMA OpStep ==
  ASSUME StoreInv, UNCHANGED <<row, masterKey>>, NEW o \in Ops, NEW h \in OpState,
         op' = [op EXCEPT ![o] = h], h.pc # "saving",
         clients' \in [Procs -> SUBSET Entries],
         \A p \in Procs : \A e \in clients'[p] : Built(e),
         h.pc = "client" => BuiltFor(h)
  PROVE  StoreInv'
<1>1. StateOK'
  BY DEF StoreInv, StateOK
<1>2. \A q \in Ops : op'[q] = op[q] \/ (q = o /\ op'[q] = h)
  BY DEF StoreInv, StateOK
<1>3. SealInv'
  BY <1>2 DEF StoreInv, SealInv
<1>4. ClientInv'
  BY <1>2 DEF StoreInv, ClientInv
<1>5. QED
  BY <1>1, <1>3, <1>4 DEF StoreInv

LEMMA BackToIdle ==
  ASSUME StoreInv, UNCHANGED <<row, masterKey, clients>>, NEW o \in Ops,
         op' = [op EXCEPT ![o] = Idle]
  PROVE  StoreInv'
<1>1. Idle \in OpState /\ Idle.pc = "idle"
  BY DEF Idle, OpState
<1>2. QED
  BY <1>1, OpStep DEF StoreInv, StateOK, ClientInv

\* A save takes a DEK that no row and no save has.
LEMMA StartSaveStep ==
  ASSUME StoreInv, NEW o \in Ops, NEW mk \in MasterKeys, NEW c \in Creds, NEW t \in Texts,
         StartSave(o, mk, c, t)
  PROVE  StoreInv'
<1>1. PICK d \in Deks :
        /\ d \notin DeksInUse
        /\ op' = [op EXCEPT ![o] = [pc |-> "saving", cred |-> c, sealed |-> Seal(mk, d, t)]]
  BY DEF StartSave, FreshDek
<1> DEFINE h == [pc |-> "saving", cred |-> c, sealed |-> Seal(mk, d, t)]
<1>2. UNCHANGED <<row, masterKey, clients>>
  BY DEF StartSave
<1>3. /\ h \in OpState /\ h.pc = "saving" /\ OneSeal(h.sealed) /\ h.sealed.wrapped.dek = d
      /\ h.pc # "client"
  BY DEF Seal, OpState, Saving, Sealed, OneSeal
<1>4. \A b \in Creds : row[b].wrapped.dek # d
  <2>1. \A b \in Creds : InUse(row[b]) \subseteq DeksInUse
    BY DEF DeksInUse
  <2>2. QED
    BY <1>1, <2>1 DEF InUse
<1>5. \A q \in Ops : op[q].pc = "saving" => op[q].sealed.wrapped.dek # d
  <2>1. \A q \in Ops : op[q].pc = "saving" => InUse(op[q].sealed) \subseteq DeksInUse
    BY DEF DeksInUse
  <2>2. QED
    BY <1>1, <2>1 DEF InUse
<1> HIDE DEF h
<1>6. op'[o] = h /\ \A q \in Ops \ {o} : op'[q] = op[q]
  BY <1>1 DEF StoreInv, StateOK, h
<1>7. StateOK'
  BY <1>1, <1>2, <1>3 DEF StoreInv, StateOK, h
<1>8. SealInv'
  BY <1>2, <1>3, <1>4, <1>5, <1>6 DEF StoreInv, SealInv
<1>9. ClientInv'
  BY <1>2, <1>3, <1>6 DEF StoreInv, ClientInv
<1>10. QED
  BY <1>7, <1>8, <1>9 DEF StoreInv

\* The upsert writes both columns of a row with what one Seal made.
LEMMA UpsertStep ==
  ASSUME StoreInv, NEW o \in Ops, UpsertProviderCredential(o)
  PROVE  StoreInv'
<1>1. op[o] \in OpState /\ op[o].pc = "saving"
  BY DEF StoreInv, StateOK, UpsertProviderCredential
<1>2. op[o].cred \in Creds /\ op[o].sealed \in Sealed
  BY <1>1, OpFields DEF Saving
<1>3. PICK c \in Creds, sealed \in Sealed : c = op[o].cred /\ sealed = op[o].sealed
  BY <1>2
<1>4. /\ row' = [row EXCEPT ![c] = sealed] /\ op' = [op EXCEPT ![o] = Idle]
      /\ UNCHANGED <<masterKey, clients>>
  BY <1>3 DEF UpsertProviderCredential, Upserted
<1>5. /\ row'[c] = sealed /\ \A b \in Creds \ {c} : row'[b] = row[b]
      /\ op'[o].pc = "idle" /\ \A q \in Ops \ {o} : op'[q] = op[q]
  BY <1>4 DEF StoreInv, StateOK, Idle
<1>6. StateOK'
  BY <1>4 DEF StoreInv, StateOK, OpState
<1>7. /\ OneSeal(sealed) /\ \A b \in Creds : row[b].wrapped.dek # sealed.wrapped.dek
      /\ \A q \in Ops \ {o} : op[q].pc = "saving" =>
           op[q].sealed.wrapped.dek # sealed.wrapped.dek
  BY <1>1, <1>3 DEF StoreInv, SealInv
<1>8. SealInv'
  <2>1. ASSUME NEW b \in Creds, row'[b] # NoRow
        PROVE  OneSeal(row'[b]) /\ \A a \in Creds \ {b} : row'[a].wrapped.dek # row'[b].wrapped.dek
    BY <1>5, <1>7, <2>1 DEF StoreInv, SealInv
  <2>2. ASSUME NEW q \in Ops, op'[q].pc = "saving"
        PROVE  /\ OneSeal(op'[q].sealed)
               /\ \A b \in Creds : row'[b].wrapped.dek # op'[q].sealed.wrapped.dek
               /\ \A w \in Ops \ {q} : op'[w].pc = "saving" =>
                    op'[w].sealed.wrapped.dek # op'[q].sealed.wrapped.dek
    <3>1. q # o /\ op'[q] = op[q]
      BY <1>5, <2>2
    <3>2. QED
      BY <1>5, <1>7, <2>2, <3>1 DEF StoreInv, SealInv
  <2>3. QED
    BY <2>1, <2>2 DEF SealInv
<1>9. ClientInv'
  BY <1>4, <1>5 DEF StoreInv, ClientInv
<1>10. QED
  BY <1>6, <1>8, <1>9 DEF StoreInv

\* The read of a row that a test or a send begins with.
LEMMA StartUseStep ==
  ASSUME StoreInv, NEW o \in Ops, NEW kind \in Kinds, NEW p \in Procs, NEW c \in Creds,
         StartUse(o, kind, p, c)
  PROVE  StoreInv'
<1> DEFINE h == [pc |-> "read", kind |-> kind, proc |-> p, cred |-> c, sealed |-> row[c]]
<1>1. row[c] \in Sealed /\ op' = [op EXCEPT ![o] = h] /\ UNCHANGED <<row, masterKey, clients>>
  BY DEF StartUse, StoreInv, StateOK
<1>2. h \in OpState /\ h.pc = "read"
  BY <1>1 DEF OpState, Reading
<1> HIDE DEF h
<1>3. QED
  BY <1>1, <1>2, OpStep DEF StoreInv, StateOK, ClientInv

LEMMA OpenStep ==
  ASSUME StoreInv, NEW o \in Ops, OpenCredential(o)
  PROVE  StoreInv'
<1> DEFINE t == Open(masterKey[op[o].proc], op[o].sealed)
           h == WithText(op[o], t)
<1>1. UNCHANGED <<row, masterKey, clients>> /\ op[o].pc = "read"
  BY DEF OpenCredential
<1>2. op[o] \in Reading
  BY <1>1, OpFields DEF StoreInv, StateOK
<1>3. CASE t = NoText
  BY <1>1, <1>3, BackToIdle DEF OpenCredential, StoreInv, ClientInv
<1>4. CASE t # NoText
  <2>1. op' = [op EXCEPT ![o] = h]
    BY <1>4 DEF OpenCredential
  <2>2. t \in Texts
    BY <1>2, <1>4 DEF Open, Reading, Sealed
  <2>3. h \in OpState /\ h.pc = "opened"
    BY <1>2, <2>2 DEF Reading, OpState, Opened, WithText
  <2> HIDE DEF h
  <2>4. QED
    BY <1>1, <2>1, <2>3, OpStep DEF StoreInv, StateOK, ClientInv
<1>5. QED
  BY <1>3, <1>4

\* The cached client, or one built from the credential.
LEMMA ClientForStep ==
  ASSUME StoreInv, NEW o \in Ops, ClientFor(o)
  PROVE  StoreInv'
<1>1. op[o] \in Opened /\ UNCHANGED <<row, masterKey>>
  BY OpFields DEF ClientFor, StoreInv, StateOK
<1>2. PICK t \in Texts, p \in Procs, c \in Creds, type \in Types :
        t = op[o].text /\ p = op[o].proc /\ c = op[o].cred /\ type = TypeOf[c]
  BY <1>1, CredentialStoreAssumption DEF Opened
<1> DEFINE entry == [type |-> type, key |-> t, client |-> t]
<1>3. ASSUME t \in Usable[type], op' = [op EXCEPT ![o] = WithClient(op[o], t)],
             \/ clients' = clients
             \/ type \in Caching /\ clients' = [clients EXCEPT ![p] = @ \cup {entry}]
      PROVE  StoreInv'
  <2> DEFINE h == WithClient(op[o], t)
  <2>1. h \in OpState /\ h.pc = "client" /\ BuiltFor(h)
    BY <1>1, <1>2, <1>3 DEF WithClient, OpState, Clients, Opened, BuiltFor
  <2> HIDE DEF h
  <2>2. Built(entry) /\ (type \in Caching => entry \in Entries)
    BY <1>3 DEF Built, Entries
  <2> HIDE DEF entry
  <2>3. clients' \in [Procs -> SUBSET Entries]
    BY <1>3, <2>2 DEF StoreInv, StateOK
  <2>4. ASSUME NEW q \in Procs, NEW e \in clients'[q]
        PROVE  Built(e)
    BY <1>3, <2>2, <2>4 DEF StoreInv, StateOK, ClientInv
  <2>5. QED
    BY <1>1, <1>3, <2>1, <2>3, <2>4, OpStep DEF h
<1>4. CASE \E e \in Cached(p, type, t) :
             op' = [op EXCEPT ![o] = WithClient(@, e.client)] /\ UNCHANGED clients
  <2>1. PICK e \in Cached(p, type, t) :
          op' = [op EXCEPT ![o] = WithClient(op[o], e.client)] /\ UNCHANGED clients
    BY <1>4
  <2>2. e.client = t /\ t \in Usable[type]
    BY <2>1 DEF Cached, CacheKey, StoreInv, StateOK, ClientInv, Built
  <2>3. QED
    BY <1>3, <2>1, <2>2
<1>5. CASE /\ t \in Usable[type] /\ op' = [op EXCEPT ![o] = WithClient(@, t)]
           /\ clients' = IF type \in Caching THEN [clients EXCEPT ![p] = @ \cup {entry}]
                         ELSE clients
  BY <1>3, <1>5
<1>6. CASE op' = [op EXCEPT ![o] = Idle] /\ UNCHANGED clients
  BY <1>1, <1>6, BackToIdle
<1>7. QED
  BY <1>2, <1>4, <1>5, <1>6 DEF ClientFor, CacheKey

LEMMA RestartStep ==
  ASSUME StoreInv, NEW p \in Procs, NEW mk \in MasterKeys, Restart(p, mk)
  PROVE  StoreInv'
<1>1. /\ masterKey' = [masterKey EXCEPT ![p] = mk] /\ clients' = [clients EXCEPT ![p] = {}]
      /\ \A o \in Ops : op'[o] = op[o] \/ op'[o] = Idle
      /\ op' \in [Ops -> OpState] /\ UNCHANGED row
  BY DEF Restart, LoadMasterKey, StoreInv, StateOK, OpState
<1>2. Idle.pc = "idle"
  BY DEF Idle
<1>3. StateOK'
  BY <1>1 DEF StoreInv, StateOK
<1>4. SealInv'
  BY <1>1, <1>2 DEF StoreInv, SealInv
<1>5. ClientInv'
  BY <1>1, <1>2 DEF StoreInv, StateOK, ClientInv
<1>6. QED
  BY <1>3, <1>4, <1>5 DEF StoreInv

LEMMA StoreStep ==
  ASSUME StoreInv, [Next]_vars
  PROVE  StoreInv'
<1>1. ASSUME NEW o \in Ops, NEW c \in Creds, NEW t \in Texts,
             \/ \E p \in Dashboards : SaveCredential(o, p, c, t)
             \/ \E mk \in MasterKeys : SeedCredential(o, mk, c, t)
      PROVE  StoreInv'
  <2>1. \A p \in Dashboards : masterKey[p] \in MasterKeys
    BY DEF StoreInv, StateOK, Procs
  <2>2. PICK mk \in MasterKeys : StartSave(o, mk, c, t)
    BY <1>1, <2>1 DEF SaveCredential, SeedCredential
  <2>3. QED
    BY <2>2, StartSaveStep
<1>2. ASSUME NEW o \in Ops, UpsertProviderCredential(o)
      PROVE  StoreInv'
  BY <1>2, UpsertStep
<1>3. ASSUME NEW o \in Ops, UpsertFails(o) \/ TestShape(o) \/ TestCredential(o) \/ Push(o)
      PROVE  StoreInv'
  BY <1>3, BackToIdle DEF UpsertFails, TestShape, TestCredential, Push
<1>4. ASSUME NEW o \in Ops, NEW c \in Creds,
             \/ \E p \in Dashboards : StartTest(o, p, c)
             \/ \E p \in Workers : StartSend(o, p, c)
      PROVE  StoreInv'
  BY <1>4, StartUseStep DEF StartTest, StartSend, Procs, Kinds
<1>5. ASSUME NEW o \in Ops, OpenCredential(o) \/ ClientFor(o)
      PROVE  StoreInv'
  BY <1>5, OpenStep, ClientForStep
<1>6. ASSUME NEW p \in Procs, NEW mk \in MasterKeys, Restart(p, mk)
      PROVE  StoreInv'
  BY <1>6, RestartStep
<1>7. CASE UNCHANGED vars
  BY <1>7 DEF vars, StoreInv, StateOK, SealInv, ClientInv
<1>8. QED
  BY <1>1, <1>2, <1>3, <1>4, <1>5, <1>6, <1>7 DEF Next

LEMMA StoreInvariant == Spec => []StoreInv
BY InitStore, StoreStep, PTL DEF Spec

\* The rows, the caches and the operations under way have their types.
THEOREM StoreTypeCorrect == Spec => []TypeOK
BY StoreInvariant, StoreImpliesTypes, PTL

\* Seal, Open and the upsert: whatever saves race, a stored row opens under the
\* master key it was sealed with, and no two rows share a data encryption key.
THEOREM RowsOpenAlways == Spec => []RowsOpen
BY StoreInvariant, StoreImpliesRowsOpen, PTL

\* tokenSourceFor and clientFor: a push goes out with the credential of the row its
\* own send read, whatever was cached before.
THEOREM PushUsesTheRowReadAlways == Spec => []PushUsesTheRowRead
<1>1. StoreInv => PushUsesTheRowRead
  BY DEF StoreInv, ClientInv, BuiltFor, PushUsesTheRowRead
<1>2. QED
  BY <1>1, StoreInvariant, PTL
=============================================================================
