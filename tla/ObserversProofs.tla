-------------------------- MODULE ObserversProofs --------------------------
(***************************************************************************)
(* Proofs about the observers of a notification, for any number of         *)
(* devices, notifications, tabs and slots.                                 *)
(*                                                                         *)
(* As long as a notification is steady, a total that was set, the targets  *)
(* it counts and a closed row never change again (DbStable).  So a total   *)
(* an observer has read, when it is not 0, is still the total, and         *)
(* counting as many closed rows as it says means that the closed rows are  *)
(* all the targets.  The notifications of the load test are always steady. *)
(***************************************************************************)
EXTENDS Observers, FiniteSetTheorems, TLAPS

PollRecords == [pc : {"none", "get", "counts", "check", "completed", "timedout"},
                total : Nat, late : BOOLEAN]

PageRecords == [pc : {"closed", "notification", "rows", "counts", "waiting", "stopped"},
                notif : Notifs \cup {NoNotif}, total : Nat,
                shown : SUBSET Devices, first : BOOLEAN]

Outstanding == {c \in Calls : call[c] = "sent"}

\* The database.
DbOK ==
  /\ devices \subseteq Devices /\ IsFiniteSet(devices)
  /\ targets \in [Notifs -> SUBSET Devices]
  /\ total \in [Notifs -> Nat]
  /\ recip \in [Notifs -> [Devices -> {"absent", "open", "closed"}]]

RowOK(n) ==
  /\ IsFiniteSet(targets[n]) /\ targets[n] \subseteq devices
  /\ Rows(n) \subseteq devices
  /\ total[n] <= Cardinality(Rows(n))
  /\ n \in group => targets[n] # {}
  /\ n \notin group => Rows(n) \subseteq targets[n]
  /\ n \notin group /\ total[n] # 0 =>
       Rows(n) = targets[n] /\ total[n] = Cardinality(targets[n])

RowInv == \A n \in Notifs : RowOK(n)

\* The calls of the load test: one slot for each outstanding call, no target before
\* the call that creates the notification, no device in use that is not registered, and
\* its notifications are steady.
CallInv ==
  /\ phase \in {"register", "create", "poll", "done", "aborted"}
  /\ call \in [Calls -> {"todo", "sent", "ok", "err"}]
  /\ IsFiniteSet(Outstanding) /\ sem = Cardinality(Outstanding) /\ sem \in 0..Concurrency
  /\ \A n \in LoadNotifs : call[n] \in {"todo", "sent"} => targets[n] = {}
  /\ \A d \in LoadDevices : call[d] = "ok" => d \in devices
  /\ \A n \in LoadNotifs : Steady(n) /\ targets[n] \subseteq LoadDevices

\* A total that was read is the total; a completion is one.
PollInv ==
  /\ poll \in [LoadNotifs -> PollRecords]
  /\ \A n \in LoadNotifs :
       /\ poll[n].total # 0 => poll[n].total = total[n]
       /\ poll[n].pc = "completed" => total[n] # 0 /\ AllTerminal(n)

PageOK(v) ==
  /\ page[v].pc # "closed" => page[v].notif \in Notifs
  /\ page[v].pc # "closed" /\ page[v].total # 0 /\ Steady(page[v].notif) =>
       /\ page[v].total = total[page[v].notif]
       /\ page[v].pc \in {"counts", "stopped"} => page[v].shown = targets[page[v].notif]
       /\ page[v].pc = "stopped" => AllTerminal(page[v].notif)

PageInv == page \in [Pages -> PageRecords] /\ \A v \in Pages : PageOK(v)

ObserversInv == DbOK /\ RowInv /\ CallInv /\ PollInv /\ PageInv

\* What no step undoes.
DbStable ==
  \A n \in Notifs :
    Steady(n)' =>
      /\ Steady(n)
      /\ total[n] # 0 =>
           total'[n] = total[n] /\ targets'[n] = targets[n] /\ (AllTerminal(n) => AllTerminal(n)')

(***************************************************************************)
(* Counting                                                                *)
(***************************************************************************)
\* As many closed rows as the total says: all targets are closed.
LEMMA CountedAll ==
  ASSUME DbOK, RowInv, NEW n \in Notifs, n \notin group, total[n] # 0,
         TerminalCount(n) >= total[n]
  PROVE  AllTerminal(n)
<1> DEFINE C == {d \in Devices : recip[n][d] = "closed"}
<1>1. C \subseteq Rows(n)
  BY DEF Rows
<1>2. Rows(n) = targets[n] /\ total[n] = Cardinality(targets[n]) /\ IsFiniteSet(targets[n])
  BY DEF RowInv, RowOK
<1>3. C \subseteq targets[n]
  BY <1>1, <1>2
<1>4. /\ IsFiniteSet(C) /\ Cardinality(C) <= Cardinality(targets[n])
      /\ Cardinality(C) = Cardinality(targets[n]) => C = targets[n]
  BY <1>2, <1>3, FS_Subset
<1>5. Cardinality(C) \in Nat /\ Cardinality(targets[n]) \in Nat
  BY <1>2, <1>4, FS_CardinalityType
<1>6. Cardinality(C) >= Cardinality(targets[n])
  BY <1>2 DEF TerminalCount
<1>7. C = targets[n]
  BY <1>4, <1>5, <1>6
<1>8. QED
  BY <1>2, <1>7 DEF AllTerminal

\* A notification that does not exist has no rows and no total.
LEMMA NothingBefore ==
  ASSUME DbOK, RowInv, NEW n \in Notifs, targets[n] = {}
  PROVE  n \notin group /\ Rows(n) = {} /\ total[n] = 0
<1>1. n \notin group /\ Rows(n) = {} /\ total[n] <= Cardinality(Rows(n)) /\ total[n] \in Nat
  BY DEF RowInv, RowOK, DbOK
<1>2. Cardinality(Rows(n)) = 0
  BY <1>1, FS_EmptySet
<1>3. QED
  BY <1>1, <1>2

LEMMA InitInv == Init => ObserversInv
<1> SUFFICES ASSUME Init
             PROVE  ObserversInv
  OBVIOUS
<1>1. DbOK
  BY ObserversAssumption DEF Init, DbOK, Devices
<1>2. RowInv
  <2>1. \A n \in Notifs : Rows(n) = {} /\ targets[n] = {} /\ total[n] = 0
    BY DEF Init, Rows
  <2>2. QED
    BY <2>1, FS_EmptySet DEF Init, RowInv, RowOK
<1>3. CallInv
  <2>1. Outstanding = {}
    BY DEF Init, Outstanding
  <2>2. sem = 0 /\ sem \in 0..Concurrency
    BY ObserversAssumption DEF Init
  <2>3. IsFiniteSet(Outstanding) /\ sem = Cardinality(Outstanding)
    BY <2>1, <2>2, FS_EmptySet
  <2>4. call \in [Calls -> {"todo", "sent", "ok", "err"}]
    BY DEF Init
  <2>5. \A d \in LoadDevices : call[d] # "ok"
    BY DEF Init, Calls
  <2>6. \A n \in LoadNotifs : targets[n] = {} /\ Steady(n)
    BY DEF Init, Notifs, Steady
  <2>7. QED
    BY <2>2, <2>3, <2>4, <2>5, <2>6 DEF Init, CallInv
<1>4. PollInv
  BY DEF Init, PollInv, NoPoll, PollRecords
<1>5. PageInv
  BY DEF Init, PageInv, PageOK, NoPage, PageRecords
<1>6. QED
  BY <1>1, <1>2, <1>3, <1>4, <1>5 DEF ObserversInv

(***************************************************************************)
(* The database                                                            *)
(***************************************************************************)
LEMMA DbUnchanged ==
  ASSUME DbOK, RowInv, UNCHANGED db
  PROVE  DbOK' /\ RowInv' /\ DbStable
BY DEF db, DbOK, RowInv, RowOK, DbStable, Steady, AllTerminal, Rows

\* A notification of which a step changes nothing.
LEMMA OtherRow ==
  ASSUME DbOK, NEW m \in Notifs, RowOK(m), devices \subseteq devices',
         m \in group' <=> m \in group, targets'[m] = targets[m], total'[m] = total[m],
         recip'[m] = recip[m]
  PROVE  RowOK(m)' /\ (AllTerminal(m) => AllTerminal(m)')
BY DEF RowOK, Rows, AllTerminal

\* A group is made or resolved: devs are its devices now.
LEMMA TargetsStep ==
  ASSUME DbOK, RowInv, NEW n \in Notifs, NEW devs \in (SUBSET devices) \ {{}},
         targets' = [targets EXCEPT ![n] = devs],
         \A m \in Notifs : m # n => (m \in group' <=> m \in group),
         n \in group => n \in group',
         n \notin group' => targets[n] = {},
         UNCHANGED <<devices, reopened, total, recip>>
  PROVE  DbOK' /\ RowInv' /\ DbStable
<1>1. DbOK'
  BY DEF DbOK
<1>2. IsFiniteSet(devs)
  BY FS_Subset DEF DbOK
<1>3. targets'[n] = devs /\ \A m \in Notifs : m # n => targets'[m] = targets[m]
  BY DEF DbOK
<1>4. Rows(n)' = Rows(n)
  BY DEF Rows
<1>5. RowOK(n)'
  <2>1. CASE n \in group'
    <3>1. total[n] <= Cardinality(Rows(n)') /\ Rows(n)' \subseteq devices
      BY <1>4 DEF RowInv, RowOK
    <3>2. QED
      BY <1>2, <1>3, <2>1, <3>1 DEF RowOK
  <2>2. CASE n \notin group'
    <3>1. Rows(n) = {} /\ total[n] = 0
      BY <2>2, NothingBefore
    <3>2. total[n] <= Cardinality(Rows(n)')
      BY <1>4 DEF RowInv, RowOK
    <3>3. QED
      BY <1>2, <1>3, <1>4, <2>2, <3>1, <3>2 DEF RowOK
  <2>3. QED
    BY <2>1, <2>2
<1>6. \A m \in Notifs : m # n => RowOK(m)' /\ (AllTerminal(m) => AllTerminal(m)')
  BY <1>3, OtherRow DEF RowInv
<1>7. RowInv'
  BY <1>5, <1>6 DEF RowInv
<1>8. Steady(n)' => Steady(n) /\ total[n] = 0
  BY NothingBefore DEF Steady
<1>9. \A m \in Notifs : m # n => (Steady(m)' <=> Steady(m))
  BY DEF Steady
<1>10. DbStable
  BY <1>3, <1>6, <1>8, <1>9 DEF DbStable
<1>11. QED
  BY <1>1, <1>7, <1>10

LEMMA CreateOtherStep ==
  ASSUME ObserversInv, NEW n \in Notifs, NEW devs \in (SUBSET devices) \ {{}},
         NEW groups \in {{}, {n}}, CreateOther(n, devs, groups)
  PROVE  DbOK' /\ RowInv' /\ DbStable /\ CallInv'
<1> USE DEF ObserversInv
<1>1. /\ targets' = [targets EXCEPT ![n] = devs] /\ n \in OtherNotifs /\ targets[n] = {}
      /\ group' = group \cup groups
      /\ UNCHANGED <<devices, reopened, total, recip, phase, call, sem>>
  BY DEF CreateOther, loadtest
<1>2. DbOK' /\ RowInv' /\ DbStable
  BY <1>1, TargetsStep
<1>3. \A m \in LoadNotifs : m # n /\ m \in Notifs
  BY <1>1, ObserversAssumption DEF Notifs
<1>4. \A m \in LoadNotifs : targets'[m] = targets[m] /\ (Steady(m)' <=> Steady(m))
  BY <1>1, <1>3 DEF DbOK, Steady
<1>5. Outstanding' = Outstanding
  BY <1>1 DEF Outstanding
<1>6. CallInv'
  BY <1>1, <1>4, <1>5 DEF CallInv
<1>7. QED
  BY <1>2, <1>6

LEMMA ResolveGroupStep ==
  ASSUME ObserversInv, NEW n \in Notifs, NEW devs \in (SUBSET devices) \ {{}},
         ResolveGroup(n, devs)
  PROVE  DbOK' /\ RowInv' /\ DbStable /\ CallInv'
<1> USE DEF ObserversInv
<1>1. /\ targets' = [targets EXCEPT ![n] = devs] /\ n \in group
      /\ UNCHANGED <<devices, group, reopened, total, recip, phase, call, sem>>
  BY DEF ResolveGroup, loadtest
<1>2. DbOK' /\ RowInv' /\ DbStable
  BY <1>1, TargetsStep
<1>3. \A m \in LoadNotifs : m # n /\ m \in Notifs
  BY <1>1 DEF CallInv, Steady, Notifs
<1>4. \A m \in LoadNotifs : targets'[m] = targets[m] /\ (Steady(m)' <=> Steady(m))
  BY <1>1, <1>3 DEF DbOK, Steady
<1>5. Outstanding' = Outstanding
  BY <1>1 DEF Outstanding
<1>6. CallInv'
  BY <1>1, <1>4, <1>5 DEF CallInv
<1>7. QED
  BY <1>2, <1>6

\* The fan-out and the sends write one row, or the total.
LEMMA CallsUnchanged ==
  ASSUME CallInv, UNCHANGED <<devices, group, reopened, targets, phase, call, sem>>
  PROVE  CallInv'
BY DEF CallInv, Outstanding, Steady

LEMMA InsertRowStep ==
  ASSUME ObserversInv, NEW n \in Notifs, NEW d \in Devices, InsertRow(n, d)
  PROVE  DbOK' /\ RowInv' /\ DbStable /\ CallInv'
<1> USE DEF ObserversInv
<1>1. /\ recip' = [recip EXCEPT ![n][d] = "open"] /\ d \in targets[n] /\ recip[n][d] = "absent"
      /\ UNCHANGED <<devices, group, reopened, targets, total, phase, call, sem>>
  BY DEF InsertRow, loadtest
<1>2. recip' \in [Notifs -> [Devices -> {"absent", "open", "closed"}]]
  BY <1>1 DEF DbOK
<1>3. DbOK'
  BY <1>1, <1>2 DEF DbOK
<1>4. d \notin Rows(n)
  BY <1>1 DEF Rows
<1>5. n \notin group => total[n] = 0
  BY <1>1, <1>4 DEF RowInv, RowOK
<1>6. \A m \in Notifs : m # n => recip'[m] = recip[m]
  BY <1>1 DEF DbOK
<1>7. recip'[n] = [recip[n] EXCEPT ![d] = "open"]
  BY <1>1 DEF DbOK
<1>8. Rows(n)' = Rows(n) \cup {d}
  BY <1>7 DEF Rows, DbOK
<1>9. total[n] <= Cardinality(Rows(n)')
  <2>1. IsFiniteSet(Rows(n))
    BY FS_Subset DEF DbOK, RowInv, RowOK
  <2>2. Cardinality(Rows(n)') = Cardinality(Rows(n)) + 1
    BY <1>4, <1>8, <2>1, FS_AddElement
  <2>3. Cardinality(Rows(n)) \in Nat /\ total[n] \in Nat
    BY <2>1, FS_CardinalityType DEF DbOK
  <2>4. QED
    BY <2>2, <2>3 DEF RowInv, RowOK
<1>10. RowOK(n)'
  BY <1>1, <1>5, <1>8, <1>9 DEF RowInv, RowOK
<1>11. \A m \in Notifs : m # n => RowOK(m)' /\ (AllTerminal(m) => AllTerminal(m)')
  BY <1>1, <1>6, OtherRow DEF RowInv
<1>12. RowInv'
  BY <1>10, <1>11 DEF RowInv
<1>13. DbStable
  BY <1>1, <1>5, <1>11 DEF DbStable, Steady
<1>14. QED
  BY <1>1, <1>3, <1>12, <1>13, CallsUnchanged

LEMMA SetTotalsStep ==
  ASSUME ObserversInv, NEW n \in Notifs, SetTotals(n)
  PROVE  DbOK' /\ RowInv' /\ DbStable /\ CallInv'
<1> USE DEF ObserversInv
<1>1. /\ total' = [total EXCEPT ![n] = Cardinality(targets[n])] /\ targets[n] \subseteq Rows(n)
      /\ UNCHANGED <<devices, group, reopened, targets, recip, phase, call, sem>>
  BY DEF SetTotals, loadtest
<1>2. Cardinality(targets[n]) \in Nat
  BY FS_CardinalityType DEF RowInv, RowOK
<1>3. DbOK'
  BY <1>1, <1>2 DEF DbOK
<1>4. Rows(n)' = Rows(n)
  BY <1>1 DEF Rows
<1>5. total'[n] = Cardinality(targets[n]) /\ \A m \in Notifs : m # n => total'[m] = total[m]
  BY <1>1 DEF DbOK
<1>6. IsFiniteSet(Rows(n))
  BY FS_Subset DEF DbOK, RowInv, RowOK
<1>7. Cardinality(targets[n]) <= Cardinality(Rows(n))
  BY <1>1, <1>6, FS_Subset
<1>8. n \notin group => Rows(n) = targets[n]
  BY <1>1 DEF RowInv, RowOK
<1>9. total'[n] <= Cardinality(Rows(n)')
  BY <1>4, <1>5, <1>7
<1>10. RowOK(n)'
  BY <1>1, <1>4, <1>5, <1>8, <1>9 DEF RowInv, RowOK
<1>11. \A m \in Notifs : m # n => RowOK(m)' /\ (AllTerminal(m) => AllTerminal(m)')
  BY <1>1, <1>5, OtherRow DEF RowInv
<1>12. RowInv'
  BY <1>10, <1>11 DEF RowInv
<1>13. n \notin group /\ total[n] # 0 => total'[n] = total[n]
  BY <1>5 DEF RowInv, RowOK
<1>14. AllTerminal(n) => AllTerminal(n)'
  BY <1>1, <1>4 DEF AllTerminal
<1>15. DbStable
  BY <1>1, <1>5, <1>11, <1>13, <1>14 DEF DbStable, Steady
<1>16. QED
  BY <1>1, <1>3, <1>12, <1>15, CallsUnchanged

\* A row that exists changes.
LEMMA RowStep ==
  ASSUME DbOK, RowInv, NEW n \in Notifs, NEW d \in Devices, NEW status \in {"open", "closed"},
         recip' = [recip EXCEPT ![n][d] = status], recip[n][d] # "absent",
         UNCHANGED <<devices, group, targets, total>>
  PROVE  /\ DbOK' /\ RowInv'
         /\ \A m \in Notifs : m # n \/ status = "closed" => (AllTerminal(m) => AllTerminal(m)')
<1>1. recip' \in [Notifs -> [Devices -> {"absent", "open", "closed"}]]
  BY DEF DbOK
<1>2. DbOK'
  BY <1>1 DEF DbOK
<1>3. \A m \in Notifs : m # n => recip'[m] = recip[m]
  BY DEF DbOK
<1>4. recip'[n] = [recip[n] EXCEPT ![d] = status]
  BY DEF DbOK
<1>5. Rows(n)' = Rows(n)
  BY <1>4 DEF Rows, DbOK
<1>6. RowOK(n)'
  BY <1>5 DEF RowInv, RowOK
<1>7. \A m \in Notifs : m # n => RowOK(m)' /\ (AllTerminal(m) => AllTerminal(m)')
  BY <1>3, OtherRow DEF RowInv
<1>8. status = "closed" => (AllTerminal(n) => AllTerminal(n)')
  <2>1. targets[n] \cup Rows(n) \subseteq Devices
    BY DEF DbOK, Rows
  <2>2. status = "closed" => \A e \in Devices : recip[n][e] = "closed" => recip'[n][e] = "closed"
    BY <1>4 DEF DbOK
  <2>3. QED
    BY <1>5, <2>1, <2>2 DEF AllTerminal
<1>9. QED
  BY <1>2, <1>6, <1>7, <1>8 DEF RowInv

LEMMA CloseRecipientStep ==
  ASSUME ObserversInv, NEW n \in Notifs, NEW d \in Devices, CloseRecipient(n, d)
  PROVE  DbOK' /\ RowInv' /\ DbStable /\ CallInv'
<1> USE DEF ObserversInv
<1>1. /\ recip' = [recip EXCEPT ![n][d] = "closed"] /\ recip[n][d] # "absent"
      /\ UNCHANGED <<devices, group, reopened, targets, total, phase, call, sem>>
  BY DEF CloseRecipient, loadtest
<1>2. DbOK' /\ RowInv' /\ \A m \in Notifs : AllTerminal(m) => AllTerminal(m)'
  BY <1>1, RowStep
<1>3. DbStable
  BY <1>1, <1>2 DEF DbStable, Steady
<1>4. QED
  BY <1>1, <1>2, <1>3, CallsUnchanged

LEMMA ReopenRecipientStep ==
  ASSUME ObserversInv, NEW n \in Notifs, NEW d \in Devices, ReopenRecipient(n, d)
  PROVE  DbOK' /\ RowInv' /\ DbStable /\ CallInv'
<1> USE DEF ObserversInv
<1>1. /\ recip' = [recip EXCEPT ![n][d] = "open"] /\ recip[n][d] # "absent"
      /\ d \in OtherDevices /\ reopened' = reopened \cup {n}
      /\ UNCHANGED <<devices, group, targets, total, phase, call, sem>>
  BY DEF ReopenRecipient, loadtest
<1>2. DbOK' /\ RowInv' /\ \A m \in Notifs : m # n => (AllTerminal(m) => AllTerminal(m)')
  BY <1>1, RowStep
<1>3. ~Steady(n)' /\ \A m \in Notifs : m # n => (Steady(m)' <=> Steady(m))
  BY <1>1 DEF Steady
<1>4. DbStable
  BY <1>1, <1>2, <1>3 DEF DbStable
<1>5. n \notin LoadNotifs
  <2>1. SUFFICES ASSUME n \in LoadNotifs
                 PROVE  FALSE
    OBVIOUS
  <2>2. n \notin group /\ targets[n] \subseteq LoadDevices
    BY <2>1 DEF CallInv, Steady
  <2>3. d \in Rows(n)
    BY <1>1 DEF Rows
  <2>4. QED
    BY <1>1, <2>2, <2>3, ObserversAssumption DEF RowInv, RowOK
<1>6. \A m \in LoadNotifs : Steady(m)' <=> Steady(m)
  BY <1>3, <1>5 DEF Notifs
<1>7. Outstanding' = Outstanding
  BY <1>1 DEF Outstanding
<1>8. CallInv'
  BY <1>1, <1>6, <1>7 DEF CallInv
<1>9. QED
  BY <1>2, <1>4, <1>8

(***************************************************************************)
(* The calls of the load test                                              *)
(***************************************************************************)
\* A slot is taken with the call and given back with it.
LEMMA StartCallStep ==
  ASSUME ObserversInv, NEW c \in Calls, StartCall(c)
  PROVE  DbOK' /\ RowInv' /\ DbStable /\ CallInv' /\ UNCHANGED <<poll, page>>
<1> USE DEF ObserversInv
<1>1. /\ call' = [call EXCEPT ![c] = "sent"] /\ call[c] = "todo" /\ sem < Concurrency
      /\ sem' = sem + 1 /\ UNCHANGED <<db, phase, poll, page>>
  BY DEF StartCall
<1>2. DbOK' /\ RowInv' /\ DbStable
  BY <1>1, DbUnchanged
<1>3. Outstanding' = Outstanding \cup {c} /\ c \notin Outstanding
  BY <1>1 DEF Outstanding, CallInv
<1>4. IsFiniteSet(Outstanding') /\ Cardinality(Outstanding') = Cardinality(Outstanding) + 1
  BY <1>3, FS_AddElement DEF CallInv
<1>5. sem' \in 0..Concurrency
  BY <1>1, ObserversAssumption DEF CallInv
<1>6. \A k \in Calls : call'[k] = IF k = c THEN "sent" ELSE call[k]
  BY <1>1 DEF CallInv
<1>7. \A n \in LoadNotifs : call'[n] \in {"todo", "sent"} => targets'[n] = {}
  BY <1>1, <1>6 DEF CallInv, db, Calls
<1>8. \A d \in LoadDevices : call'[d] = "ok" => d \in devices'
  BY <1>1, <1>6 DEF CallInv, db, Calls
<1>9. call' \in [Calls -> {"todo", "sent", "ok", "err"}]
  BY <1>1 DEF CallInv
<1>10. CallInv'
  BY <1>1, <1>4, <1>5, <1>7, <1>8, <1>9 DEF CallInv, Steady, db
<1>11. QED
  BY <1>1, <1>2, <1>10

LEMMA ReturnedStep ==
  ASSUME CallInv, NEW c \in Calls, NEW outcome \in {"ok", "err"}, call[c] = "sent",
         Returned(c, outcome)
  PROVE  /\ call' \in [Calls -> {"todo", "sent", "ok", "err"}]
         /\ \A k \in Calls : call'[k] = IF k = c THEN outcome ELSE call[k]
         /\ IsFiniteSet(Outstanding') /\ sem' = Cardinality(Outstanding')
         /\ sem' \in 0..Concurrency
         /\ phase' \in {"register", "create", "poll", "done", "aborted"}
         /\ UNCHANGED <<poll, page>>
<1>1. call' = [call EXCEPT ![c] = outcome] /\ sem' = sem - 1 /\ UNCHANGED <<phase, poll, page>>
  BY DEF Returned, Released
<1>2. Outstanding' = Outstanding \ {c} /\ c \in Outstanding
  BY <1>1 DEF Outstanding, CallInv
<1>3. IsFiniteSet(Outstanding') /\ Cardinality(Outstanding') = Cardinality(Outstanding) - 1
  BY <1>2, FS_RemoveElement DEF CallInv
<1>4. Cardinality(Outstanding') \in Nat
  BY <1>3, FS_CardinalityType
<1>5. sem' = Cardinality(Outstanding') /\ sem' \in 0..Concurrency
  BY <1>1, <1>3, <1>4, ObserversAssumption DEF CallInv
<1>6. QED
  BY <1>1, <1>3, <1>5 DEF CallInv

LEMMA RegisterDeviceStep ==
  ASSUME ObserversInv, NEW d \in Calls, NEW outcome \in {"ok", "err"},
         RegisterDevice(d, outcome)
  PROVE  DbOK' /\ RowInv' /\ DbStable /\ CallInv' /\ UNCHANGED <<poll, page>>
<1> USE DEF ObserversInv
<1>1. /\ d \in LoadDevices /\ call[d] = "sent" /\ devices' = devices \cup {d}
      /\ Returned(d, outcome) /\ UNCHANGED <<group, reopened, targets, total, recip>>
  BY DEF RegisterDevice
<1>2. IsFiniteSet(devices')
  BY <1>1, FS_AddElement DEF DbOK
<1>3. DbOK'
  BY <1>1, <1>2 DEF DbOK, Devices
<1>4. \A m \in Notifs : RowOK(m)' /\ (AllTerminal(m) => AllTerminal(m)')
  BY <1>1, OtherRow DEF RowInv
<1>5. RowInv'
  BY <1>4 DEF RowInv
<1>6. DbStable
  BY <1>1, <1>4 DEF DbStable, Steady
<1>7. d \notin LoadNotifs
  BY <1>1, ObserversAssumption
<1>8. \A k \in Calls : call'[k] = IF k = d THEN outcome ELSE call[k]
  BY <1>1, ReturnedStep
<1>9. \A n \in LoadNotifs : call'[n] \in {"todo", "sent"} => targets'[n] = {}
  BY <1>1, <1>7, <1>8 DEF CallInv, Calls
<1>10. \A k \in LoadDevices : call'[k] = "ok" => k \in devices'
  BY <1>1, <1>8 DEF CallInv, Calls
<1>11. CallInv'
  BY <1>1, <1>9, <1>10, ReturnedStep DEF CallInv, Steady
<1>12. QED
  BY <1>1, <1>3, <1>5, <1>6, <1>11, ReturnedStep

LEMMA CreateNotificationStep ==
  ASSUME ObserversInv, NEW n \in Calls, NEW d \in LoadDevices, NEW outcome \in {"ok", "err"},
         CreateNotification(n, d, outcome)
  PROVE  DbOK' /\ RowInv' /\ DbStable /\ CallInv' /\ UNCHANGED <<poll, page>>
<1> USE DEF ObserversInv
<1>1. /\ n \in LoadNotifs /\ call[n] = "sent" /\ call[d] = "ok"
      /\ targets' = [targets EXCEPT ![n] = {d}]
      /\ Returned(n, outcome) /\ UNCHANGED <<devices, group, reopened, total, recip>>
  BY DEF CreateNotification
<1>2. n \in Notifs /\ targets[n] = {} /\ d \in devices
  BY <1>1 DEF CallInv, Notifs
<1>3. {d} \in (SUBSET devices) \ {{}} /\ n \notin group
  <2>1. d \in {d} /\ {d} \subseteq devices
    BY <1>2
  <2>2. {d} # {}
    BY <2>1
  <2>3. n \notin group
    BY <1>2, NothingBefore
  <2>4. QED
    BY <2>1, <2>2, <2>3
<1>4. DbOK' /\ RowInv' /\ DbStable
  BY <1>1, <1>2, <1>3, TargetsStep
<1>5. \A m \in Notifs : targets'[m] = IF m = n THEN {d} ELSE targets[m]
  BY <1>1, <1>2 DEF DbOK
<1>6. \A k \in Calls : call'[k] = IF k = n THEN outcome ELSE call[k]
  BY <1>1, ReturnedStep
<1>7. \A m \in LoadNotifs : call'[m] \in {"todo", "sent"} => targets'[m] = {}
  BY <1>5, <1>6 DEF CallInv, Calls, Notifs
<1>8. n \notin LoadDevices
  BY <1>1, ObserversAssumption
<1>9. \A k \in LoadDevices : call'[k] = "ok" => k \in devices'
  BY <1>1, <1>6, <1>8 DEF CallInv, Calls
<1>10. \A m \in LoadNotifs : Steady(m)' /\ targets'[m] \subseteq LoadDevices
  BY <1>1, <1>5 DEF CallInv, Steady, Notifs
<1>11. CallInv'
  BY <1>1, <1>7, <1>9, <1>10, ReturnedStep DEF CallInv
<1>12. QED
  BY <1>1, <1>4, <1>11, ReturnedStep

LEMMA CallFailsStep ==
  ASSUME ObserversInv, NEW c \in Calls, CallFails(c)
  PROVE  DbOK' /\ RowInv' /\ DbStable /\ CallInv' /\ UNCHANGED <<poll, page>>
<1> USE DEF ObserversInv
<1>1. call[c] = "sent" /\ Returned(c, "err") /\ UNCHANGED db
  BY DEF CallFails
<1>2. DbOK' /\ RowInv' /\ DbStable
  BY <1>1, DbUnchanged
<1>3. /\ \A k \in Calls : call'[k] = IF k = c THEN "err" ELSE call[k]
      /\ UNCHANGED <<poll, page>>
  BY <1>1, ReturnedStep
<1>4. CallInv'
  BY <1>1, <1>3, ReturnedStep DEF CallInv, Calls, Steady, db
<1>5. QED
  BY <1>2, <1>3, <1>4

(***************************************************************************)
(* The observers                                                           *)
(***************************************************************************)
\* What the pipeline does leaves the observers right.
LEMMA PollKept ==
  ASSUME PollInv, CallInv', DbStable, UNCHANGED poll
  PROVE  PollInv'
<1>1. \A n \in LoadNotifs : n \in Notifs /\ Steady(n)'
  BY DEF Notifs, CallInv
<1>2. QED
  BY <1>1 DEF PollInv, DbStable

LEMMA PageKept ==
  ASSUME PageInv, DbStable, UNCHANGED page
  PROVE  PageInv'
<1>1. SUFFICES ASSUME NEW v \in Pages
               PROVE  PageOK(v)'
  BY DEF PageInv
<1>2. PageOK(v) /\ page'[v] = page[v]
  BY DEF PageInv
<1>3. CASE page[v].pc = "closed"
  BY <1>2, <1>3 DEF PageOK
<1>4. CASE page[v].pc # "closed"
  <2>1. PICK n \in Notifs : n = page[v].notif
    BY <1>2, <1>4 DEF PageOK
  <2>2. AllTerminal(page[v].notif)' <=> AllTerminal(n)'
    BY <1>2, <2>1 DEF AllTerminal, Rows
  <2>3. Steady(page[v].notif)' <=> Steady(n)'
    BY <1>2, <2>1 DEF Steady
  <2>4. CASE page[v].total = 0 \/ ~Steady(n)'
    BY <1>2, <2>1, <2>3, <2>4 DEF PageOK
  <2>5. CASE page[v].total # 0 /\ Steady(n)'
    <3>1. Steady(n)
      BY <2>5 DEF DbStable
    <3>2. total[n] # 0 /\ page[v].total = total[n]
      BY <1>2, <1>4, <2>1, <2>5, <3>1 DEF PageOK
    <3>3. total'[n] = total[n] /\ targets'[n] = targets[n] /\ (AllTerminal(n) => AllTerminal(n)')
      BY <2>5, <3>2 DEF DbStable
    <3>4. /\ page[v].pc \in {"counts", "stopped"} => page[v].shown = targets[n]
          /\ page[v].pc = "stopped" => AllTerminal(n)
      BY <1>2, <1>4, <2>1, <2>5, <3>1 DEF PageOK
    <3>5. QED
      BY <1>2, <2>1, <2>2, <3>2, <3>3, <3>4 DEF PageOK
  <2>6. QED
    BY <2>4, <2>5
<1>5. QED
  BY <1>3, <1>4

\* A step of a poller or of a phase.
LEMMA PollStepInv ==
  ASSUME ObserversInv, NEW n \in LoadNotifs, PollStep(n) \/ DeadlinePasses(n)
  PROVE  PollInv' /\ UNCHANGED <<db, phase, call, sem, page>>
<1> USE DEF ObserversInv
<1>1. /\ UNCHANGED <<db, phase, call, sem, page>>
      /\ poll' \in [LoadNotifs -> PollRecords]
      /\ \A m \in LoadNotifs : m # n => poll'[m] = poll[m]
      /\ \/ poll'[n].total = total[n] /\ poll'[n].pc = "counts"
         \/ poll'[n].total = 0 /\ poll'[n].pc # "completed"
         \/ poll'[n].total = poll[n].total /\ poll'[n].pc = poll[n].pc
         \/ /\ poll'[n].total = 0
            /\ NotificationDone(poll[n].total, TerminalCount(n))
  <2>1. CASE GetNotification(n)
    <3>1. total[n] \in Nat
      BY DEF DbOK, Notifs
    <3>2. QED
      BY <2>1, <3>1 DEF GetNotification, PollInv, PollRecords
  <2>2. CASE GetCounts(n)
    BY <2>2 DEF GetCounts, PollGoto, PollInv, PollRecords
  <2>3. CASE GetFails(n)
    BY <2>3 DEF GetFails, PollGoto, PollInv, PollRecords
  <2>4. CASE CheckDeadline(n)
    BY <2>4 DEF CheckDeadline, PollGoto, PollInv, PollRecords
  <2>5. CASE DeadlinePasses(n)
    BY <2>5 DEF DeadlinePasses, PollInv, PollRecords
  <2>6. QED
    BY <2>1, <2>2, <2>3, <2>4, <2>5 DEF PollStep
<1>2. total' = total /\ \A m \in LoadNotifs : AllTerminal(m)' <=> AllTerminal(m)
  BY <1>1 DEF db, AllTerminal, Rows
<1>3. n \in Notifs /\ n \notin group
  BY DEF Notifs, CallInv, Steady
<1>4. /\ poll'[n].total # 0 => poll'[n].total = total[n]
      /\ poll'[n].pc = "completed" => total[n] # 0 /\ AllTerminal(n)
  <2>1. CASE poll'[n].total = total[n] /\ poll'[n].pc = "counts"
    BY <2>1
  <2>2. CASE poll'[n].total = 0 /\ poll'[n].pc # "completed"
    BY <2>2
  <2>3. CASE poll'[n].total = poll[n].total /\ poll'[n].pc = poll[n].pc
    BY <2>3 DEF PollInv
  <2>4. CASE poll'[n].total = 0 /\ NotificationDone(poll[n].total, TerminalCount(n))
    <3>1. poll[n].total # 0 /\ TerminalCount(n) >= poll[n].total
      BY <2>4 DEF NotificationDone
    <3>2. poll[n].total = total[n]
      BY <3>1 DEF PollInv
    <3>3. AllTerminal(n)
      BY <1>3, <3>1, <3>2, CountedAll
    <3>4. QED
      BY <2>4, <3>1, <3>2, <3>3
  <2>5. QED
    BY <1>1, <2>1, <2>2, <2>3, <2>4
<1>5. PollInv'
  BY <1>1, <1>2, <1>4 DEF PollInv
<1>6. QED
  BY <1>1, <1>5

LEMMA PhaseStepInv ==
  ASSUME ObserversInv, PhaseStep
  PROVE  /\ PollInv' /\ UNCHANGED <<db, call, sem, page>>
         /\ phase' \in {"register", "create", "poll", "done", "aborted"}
<1> USE DEF ObserversInv
<1>1. CASE EndRegister \/ EndPoll
  <2>1. /\ UNCHANGED <<db, call, sem, poll, page>>
        /\ phase' \in {"register", "create", "poll", "done", "aborted"}
    BY <1>1 DEF EndRegister, EndPoll
  <2>2. PollInv'
    BY <2>1 DEF PollInv, AllTerminal, Rows, db
  <2>3. QED
    BY <2>1, <2>2
<1>2. CASE \E sample \in SUBSET LoadNotifs : EndCreate(sample)
  <2>1. PICK sample \in SUBSET LoadNotifs : EndCreate(sample)
    BY <1>2
  <2>2. UNCHANGED <<db, call, sem, page>> /\ phase' = "poll"
    BY <2>1 DEF EndCreate
  <2>3. poll' = [n \in LoadNotifs |->
          IF n \in sample /\ call[n] = "ok" THEN [poll[n] EXCEPT !.pc = "get"] ELSE poll[n]]
    BY <2>1 DEF EndCreate
  <2>4. /\ poll' \in [LoadNotifs -> PollRecords]
        /\ \A n \in LoadNotifs :
             /\ poll'[n].total = poll[n].total
             /\ poll'[n].pc = "get" \/ poll'[n].pc = poll[n].pc
    <3>1. SUFFICES ASSUME NEW n \in LoadNotifs
                   PROVE  /\ poll'[n] \in PollRecords
                          /\ poll'[n].total = poll[n].total
                          /\ poll'[n].pc = "get" \/ poll'[n].pc = poll[n].pc
      BY <2>3
    <3>2. poll[n] \in PollRecords
      BY DEF PollInv
    <3>3. CASE n \in sample /\ call[n] = "ok"
      <4>1. poll'[n] = [poll[n] EXCEPT !.pc = "get"]
        BY <2>3, <3>3
      <4>2. QED
        BY <3>2, <4>1 DEF PollRecords
    <3>4. CASE ~(n \in sample /\ call[n] = "ok")
      <4>1. poll'[n] = poll[n]
        BY <2>3, <3>4
      <4>2. QED
        BY <3>2, <4>1
    <3>5. QED
      BY <3>3, <3>4
  <2>5. total' = total /\ \A m \in LoadNotifs : AllTerminal(m)' <=> AllTerminal(m)
    BY <2>2 DEF db, AllTerminal, Rows
  <2>6. ASSUME NEW n \in LoadNotifs
        PROVE  /\ poll'[n].total # 0 => poll'[n].total = total'[n]
               /\ poll'[n].pc = "completed" => total'[n] # 0 /\ AllTerminal(n)'
    <3>1. /\ poll'[n].total = poll[n].total
          /\ poll'[n].pc = "get" \/ poll'[n].pc = poll[n].pc
      BY <2>4
    <3>2. CASE poll'[n].pc = "get"
      BY <2>5, <3>1, <3>2 DEF PollInv
    <3>3. CASE poll'[n].pc = poll[n].pc
      BY <2>5, <3>1, <3>3 DEF PollInv
    <3>4. QED
      BY <3>1, <3>2, <3>3
  <2>7. PollInv'
    BY <2>4, <2>6 DEF PollInv
  <2>8. QED
    BY <2>2, <2>7
<1>3. QED
  BY <1>1, <1>2 DEF PhaseStep

\* A step of one tab, whose own facts hold after it.
LEMMA PageUpdate ==
  ASSUME PageInv, UNCHANGED db, NEW v \in Pages, NEW n \in Notifs \cup {NoNotif},
         page' \in [Pages -> PageRecords],
         \A w \in Pages : w # v => page'[w] = page[w],
         page'[v].notif = n,
         page'[v].pc # "closed" => n \in Notifs,
         page'[v].pc # "closed" /\ page'[v].total # 0 /\ Steady(n) =>
           /\ page'[v].total = total[n]
           /\ page'[v].pc \in {"counts", "stopped"} => page'[v].shown = targets[n]
           /\ page'[v].pc = "stopped" => AllTerminal(n)
  PROVE  PageInv'
<1>1. /\ total' = total /\ targets' = targets /\ recip' = recip
      /\ group' = group /\ reopened' = reopened
  BY DEF db
<1>2. ASSUME NEW w \in Pages
      PROVE  PageOK(w)'
  <2>1. CASE w = v
    BY <1>1, <2>1 DEF PageOK, AllTerminal, Rows, Steady
  <2>2. CASE w # v
    BY <1>1, <2>2 DEF PageInv, PageOK, AllTerminal, Rows, Steady
  <2>3. QED
    BY <2>1, <2>2
<1>3. QED
  BY <1>2 DEF PageInv

\* A tab opens, reads, renders or fails.
LEMMA OpenPageStep ==
  ASSUME ObserversInv, NEW v \in Pages, NEW n \in Notifs, OpenPage(v, n)
  PROVE  PageInv' /\ UNCHANGED <<db, loadtest>>
<1> USE DEF ObserversInv
<1>1. /\ page' = [page EXCEPT ![v] = [NoPage EXCEPT !.pc = "notification", !.notif = n,
                                                    !.first = TRUE]]
      /\ UNCHANGED <<db, loadtest>>
  BY DEF OpenPage
<1>2. /\ page'[v].pc = "notification" /\ page'[v].notif = n /\ page'[v].total = 0
      /\ page'[v] \in PageRecords
  BY <1>1 DEF PageInv, NoPage, PageRecords
<1>3. \A w \in Pages : w # v => page'[w] = page[w]
  BY <1>1 DEF PageInv
<1>4. page' \in [Pages -> PageRecords]
  BY <1>1, <1>2, <1>3 DEF PageInv
<1>5. PageInv'
  BY <1>1, <1>2, <1>3, <1>4, PageUpdate
<1>6. QED
  BY <1>1, <1>5

\* What each step of a tab does to its record; n is the notification it shows.
LEMMA PageStepInv ==
  ASSUME ObserversInv, NEW v \in Pages, PageStep(v)
  PROVE  PageInv' /\ UNCHANGED <<db, loadtest>>
<1> USE DEF ObserversInv
<1>1. UNCHANGED <<db, loadtest>> /\ page[v].pc # "closed"
  BY DEF PageStep, PollFragment, ReadNotification, ReadRows, Render, ReadFails
<1>2. PICK n \in Notifs : n = page[v].notif
  BY <1>1 DEF PageInv, PageOK
<1>3. /\ page[v] \in PageRecords
      /\ page[v].total # 0 /\ Steady(n) =>
           /\ page[v].total = total[n]
           /\ page[v].pc \in {"counts", "stopped"} => page[v].shown = targets[n]
  BY <1>1, <1>2 DEF PageInv, PageOK
<1>4. total[n] \in Nat /\ Rows(n) \subseteq Devices
  BY DEF DbOK, Rows
<1>0. ASSUME page'[v] = Waiting(v), \A w \in Pages : w # v => page'[w] = page[w],
              DOMAIN page' = Pages, page' = [w \in Pages |-> page'[w]]
       PROVE  PageInv'
  <2>1. page'[v] = [NoPage EXCEPT !.pc = "waiting", !.notif = n]
    BY <1>2, <1>0 DEF Waiting
  <2>2. /\ page'[v] \in PageRecords /\ page'[v].pc = "waiting" /\ page'[v].notif = n
        /\ page'[v].total = 0
    <3>1. PICK q : q = NoPage
      OBVIOUS
    <3>2. q \in PageRecords /\ q.total = 0
      BY <3>1 DEF NoPage, PageRecords
    <3>3. page'[v] = [q EXCEPT !.pc = "waiting", !.notif = n]
      BY <2>1, <3>1
    <3>4. QED
      BY <3>2, <3>3 DEF PageRecords
  <2>3. \A w \in Pages : page'[w] \in PageRecords
    BY <1>0, <2>2 DEF PageInv
  <2>4. page' \in [Pages -> PageRecords]
    BY <1>0, <2>3
  <2>5. QED
    BY <1>1, <1>0, <2>2, <2>4, PageUpdate
<1>5. CASE PollFragment(v)
  <2>1. page' = [page EXCEPT ![v].pc = "notification"]
    BY <1>5 DEF PollFragment
  <2>2. /\ page' \in [Pages -> PageRecords]
        /\ page'[v].pc = "notification" /\ page'[v].notif = n /\ page'[v].total = page[v].total
        /\ \A w \in Pages : w # v => page'[w] = page[w]
    BY <1>2, <2>1 DEF PageInv, PageRecords
  <2>3. QED
    BY <1>1, <1>3, <2>2, PageUpdate
<1>6. CASE ReadNotification(v)
  <2>1. PICK t \in Nat : t = total[n]
    BY <1>4
  <2>2. page' = [page EXCEPT ![v].pc = "rows", ![v].total = t]
    BY <1>2, <1>6, <2>1 DEF ReadNotification
  <2>3. /\ page' \in [Pages -> PageRecords]
        /\ page'[v].pc = "rows" /\ page'[v].notif = n
        /\ \A w \in Pages : w # v => page'[w] = page[w]
    BY <1>2, <2>2 DEF PageInv, PageRecords
  <2>4. page'[v].total = total[n]
    BY <2>1, <2>2 DEF PageInv, PageRecords
  <2>5. QED
    BY <1>1, <2>3, <2>4, PageUpdate
<1>7. CASE ReadRows(v)
  <2>1. page' = [page EXCEPT ![v].pc = "counts", ![v].shown = Rows(n)]
    BY <1>2, <1>7 DEF ReadRows
  <2>2. /\ page' \in [Pages -> PageRecords]
        /\ page'[v].pc = "counts" /\ page'[v].notif = n /\ page'[v].total = page[v].total
        /\ page'[v].shown = Rows(n)
        /\ \A w \in Pages : w # v => page'[w] = page[w]
    BY <1>2, <1>4, <2>1 DEF PageInv, PageRecords
  <2>3. page[v].total # 0 /\ Steady(n) => Rows(n) = targets[n]
    BY <1>3 DEF RowInv, RowOK, Steady
  <2>4. QED
    BY <1>1, <1>3, <2>2, <2>3, PageUpdate
<1>8. CASE Render(v)
  <2> DEFINE done == TerminalAt(page[v].total, TerminalCount(n))
  <2>1. /\ page' = [page EXCEPT ![v] = IF done THEN [@ EXCEPT !.pc = "stopped", !.first = FALSE]
                                            ELSE Waiting(v)]
        /\ page[v].pc = "counts"
    BY <1>2, <1>8 DEF Render
  <2>2. \A w \in Pages : w # v => page'[w] = page[w]
    BY <2>1 DEF PageInv
  <2>3. CASE done
    <3>1. page'[v] = [page[v] EXCEPT !.pc = "stopped", !.first = FALSE]
      BY <2>1, <2>3 DEF PageInv
    <3>2. /\ page'[v] \in PageRecords /\ page'[v].pc = "stopped" /\ page'[v].notif = n
          /\ page'[v].total = page[v].total /\ page'[v].shown = page[v].shown
      BY <1>2, <1>3, <3>1 DEF PageRecords
    <3>3. page' \in [Pages -> PageRecords]
      BY <2>1, <2>2, <3>2 DEF PageInv
    <3>4. page[v].total # 0 /\ Steady(n) => AllTerminal(n)
      BY <1>3, <2>3, CountedAll DEF TerminalAt, Steady
    <3>5. QED
      BY <1>1, <1>3, <2>1, <2>2, <3>2, <3>3, <3>4, PageUpdate
  <2>4. CASE ~done
    <3>1. page'[v] = Waiting(v)
      BY <2>1, <2>4 DEF PageInv
    <3>2. DOMAIN page' = Pages /\ page' = [w \in Pages |-> page'[w]]
      BY <2>1 DEF PageInv
    <3>3. QED
      BY <1>1, <1>0, <2>2, <3>1, <3>2
  <2>5. QED
    BY <2>3, <2>4
<1>9. CASE ReadFails(v)
  <2>1. page' = [page EXCEPT ![v] = IF page[v].first THEN NoPage ELSE Waiting(v)]
    BY <1>9 DEF ReadFails
  <2>2. \A w \in Pages : w # v => page'[w] = page[w]
    BY <2>1 DEF PageInv
  <2>3. CASE page[v].first
    <3>1. page'[v] = NoPage
      BY <2>1, <2>3 DEF PageInv
    <3>2. page'[v] \in PageRecords /\ page'[v].pc = "closed" /\ page'[v].notif = NoNotif
      BY <3>1 DEF NoPage, PageRecords
    <3>3. page' \in [Pages -> PageRecords]
      BY <2>1, <2>2, <3>2 DEF PageInv
    <3>4. QED
      BY <1>1, <2>2, <3>2, <3>3, PageUpdate
  <2>4. CASE ~page[v].first
    <3>1. page'[v] = Waiting(v)
      BY <2>1, <2>4 DEF PageInv
    <3>2. DOMAIN page' = Pages /\ page' = [w \in Pages |-> page'[w]]
      BY <2>1 DEF PageInv
    <3>3. QED
      BY <1>1, <1>0, <2>2, <3>1, <3>2
  <2>5. QED
    BY <2>3, <2>4
<1>10. QED
  BY <1>1, <1>5, <1>6, <1>7, <1>8, <1>9 DEF PageStep

(***************************************************************************)
(* Every step, and the theorems                                            *)
(***************************************************************************)
LEMMA NextInv ==
  ASSUME ObserversInv, [Next]_vars
  PROVE  ObserversInv'
<1>1. ASSUME DbOK', RowInv', DbStable, CallInv', UNCHANGED <<poll, page>>
      PROVE  ObserversInv'
  BY <1>1, PollKept, PageKept DEF ObserversInv
<1>2. ASSUME NEW n \in Notifs, PipelineStep(n)
      PROVE  ObserversInv'
  <2>1. UNCHANGED <<poll, page>>
    BY <1>2 DEF PipelineStep, SetTotals, ResolveGroup, CreateOther, InsertRow, CloseRecipient,
                ReopenRecipient, loadtest
  <2>2. CASE SetTotals(n)
    BY <1>1, <2>1, <2>2, SetTotalsStep
  <2>3. ASSUME NEW d \in Devices, InsertRow(n, d)
        PROVE  ObserversInv'
    BY <1>1, <2>1, <2>3, InsertRowStep
  <2>4. ASSUME NEW d \in Devices, CloseRecipient(n, d)
        PROVE  ObserversInv'
    BY <1>1, <2>1, <2>4, CloseRecipientStep
  <2>5. ASSUME NEW d \in Devices, ReopenRecipient(n, d)
        PROVE  ObserversInv'
    BY <1>1, <2>1, <2>5, ReopenRecipientStep
  <2>6. ASSUME NEW devs \in (SUBSET devices) \ {{}}, ResolveGroup(n, devs)
        PROVE  ObserversInv'
    BY <1>1, <2>1, <2>6, ResolveGroupStep
  <2>7. ASSUME NEW devs \in (SUBSET devices) \ {{}}, NEW groups \in {{}, {n}},
               CreateOther(n, devs, groups)
        PROVE  ObserversInv'
    BY <1>1, <2>1, <2>7, CreateOtherStep
  <2>8. QED
    BY <1>2, <2>2, <2>3, <2>4, <2>5, <2>6, <2>7 DEF PipelineStep
<1>4. ASSUME UNCHANGED <<db, loadtest>>, PageInv'
      PROVE  ObserversInv'
  <2>1. DbOK' /\ RowInv' /\ DbStable
    BY <1>4, DbUnchanged DEF ObserversInv
  <2>2. CallInv'
    BY <1>4, CallsUnchanged DEF ObserversInv, loadtest, db
  <2>3. PollInv'
    BY <1>4, <2>1, <2>2, PollKept DEF ObserversInv, loadtest
  <2>4. QED
    BY <1>4, <2>1, <2>2, <2>3 DEF ObserversInv
<1>5. ASSUME NEW n \in Notifs, NEW v \in Pages, OpenPage(v, n)
      PROVE  ObserversInv'
  BY <1>4, <1>5, OpenPageStep
<1>6. ASSUME NEW v \in Pages, PageStep(v)
      PROVE  ObserversInv'
  BY <1>4, <1>6, PageStepInv
<1>7. ASSUME NEW c \in Calls, StartCall(c) \/ CallReturns(c)
      PROVE  ObserversInv'
  <2>1. CASE StartCall(c)
    BY <1>1, <2>1, StartCallStep
  <2>2. CASE CallFails(c)
    BY <1>1, <2>2, CallFailsStep
  <2>3. ASSUME NEW outcome \in {"ok", "err"}, RegisterDevice(c, outcome)
        PROVE  ObserversInv'
    BY <1>1, <2>3, RegisterDeviceStep
  <2>4. ASSUME NEW outcome \in {"ok", "err"}, NEW d \in LoadDevices,
               CreateNotification(c, d, outcome)
        PROVE  ObserversInv'
    BY <1>1, <2>4, CreateNotificationStep
  <2>5. QED
    BY <1>7, <2>1, <2>2, <2>3, <2>4 DEF CallReturns
<1>8. ASSUME PollInv', UNCHANGED <<db, call, sem, page>>,
             phase' \in {"register", "create", "poll", "done", "aborted"}
      PROVE  ObserversInv'
  <2>1. DbOK' /\ RowInv' /\ DbStable
    BY <1>8, DbUnchanged DEF ObserversInv
  <2>2. PageInv'
    BY <1>8, <2>1, PageKept DEF ObserversInv
  <2>3. CallInv'
    BY <1>8 DEF ObserversInv, CallInv, Outstanding, Steady, db
  <2>4. QED
    BY <1>8, <2>1, <2>2, <2>3 DEF ObserversInv
<1>9. ASSUME NEW n \in LoadNotifs, PollStep(n) \/ DeadlinePasses(n)
      PROVE  ObserversInv'
  <2>1. PollInv' /\ UNCHANGED <<db, phase, call, sem, page>>
    BY <1>9, PollStepInv
  <2>2. phase' \in {"register", "create", "poll", "done", "aborted"}
    BY <2>1 DEF ObserversInv, CallInv
  <2>3. QED
    BY <1>8, <2>1, <2>2
<1>10. CASE PhaseStep
  BY <1>8, <1>10, PhaseStepInv
<1>11. CASE UNCHANGED vars
  <2>1. UNCHANGED <<db, loadtest>> /\ UNCHANGED page
    BY <1>11 DEF vars, db, loadtest
  <2>2. DbStable
    BY <2>1, DbUnchanged DEF ObserversInv
  <2>3. PageInv'
    BY <2>1, <2>2, PageKept DEF ObserversInv
  <2>4. QED
    BY <1>4, <2>1, <2>3
<1>12. QED
  BY <1>2, <1>5, <1>6, <1>7, <1>9, <1>10, <1>11 DEF Next

\* The load test and the page as they run: semaphore slots are never lost or made up,
\* and a notification's rows and total come from its targets.
THEOREM ObserversTypeCorrect == Spec => []TypeOK
<1>1. ObserversInv => TypeOK
  <2> SUFFICES ASSUME ObserversInv
               PROVE  TypeOK
    OBVIOUS
  <2> USE DEF ObserversInv
  <2>1. \A n \in LoadNotifs :
          poll[n].pc \in {"none", "get", "counts", "check", "completed", "timedout"}
    BY DEF PollInv, PollRecords
  <2>2. \A v \in Pages :
          page[v].pc \in {"closed", "notification", "rows", "counts", "waiting", "stopped"}
    BY DEF PageInv, PageRecords
  <2>3. QED
    BY <2>1, <2>2 DEF TypeOK, CallInv, RowInv, RowOK
<1>2. QED
  BY <1>1, InitInv, NextInv, PTL DEF Spec

\* notificationDone: a completion the load test records is one, although total and
\* counts are read at two times and the pipeline works on in between.
THEOREM CompletionTruthfulAlways == Spec => []CompletionTruthful
<1>1. ObserversInv => CompletionTruthful
  BY DEF ObserversInv, PollInv, CompletionTruthful
<1>2. QED
  BY <1>1, InitInv, NextInv, PTL DEF Spec

\* The notification page: one that stopped polling over a total it had read lists every
\* recipient, and all of them are terminal.
THEOREM FinalPageCompleteAlways == Spec => []FinalPageComplete
<1>1. ObserversInv => FinalPageComplete
  BY DEF ObserversInv, PageInv, PageOK, FinalPageComplete
<1>2. QED
  BY <1>1, InitInv, NextInv, PTL DEF Spec
=============================================================================
