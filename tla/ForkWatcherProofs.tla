--------------------------- MODULE ForkWatcherProofs ---------------------------
(***************************************************************************)
(* The fork controller implements ForkExpiry for any forks, times, buffer, *)
(* edits and faults: no notification, stale cache, retry or restart makes  *)
(* it remove a fork no deadline of which has passed.                       *)
(***************************************************************************)
EXTENDS ForkWatcher, FiniteSetTheorems, TLAPS

\* The part of the state the deadlines depend on: a cached deadline is one
\* that was written for the fork, and the reconciler deletes a fork only with
\* a deadline in hand that has passed.
ExpiryInv ==
    /\ now \in Instants
    /\ fork \in [Keys -> Deadlines \cup {Gone}]
    /\ carried \in [Keys -> SUBSET Instants]
    /\ \A k \in Keys : fork[k] \in Instants => fork[k] \in carried[k]
    /\ seen \in [Keys -> Deadlines \cup {Gone}]
    /\ \A k \in Keys : seen[k] \in Instants => seen[k] \in carried[k]
    /\ rkey \in Keys
    /\ rpc = "delete" => \E d \in carried[rkey] : d < now

\* A deadline is an instant or none, and none is not an instant.
LEMMA NeverIsNoInstant == Never \notin Instants /\ Gone \notin Instants /\ Never # Gone
BY ConstantsAssumption DEF Instants

LEMMA InitExpiry == Init => ExpiryInv /\ Expiry!Init
<1> SUFFICES ASSUME Init PROVE ExpiryInv /\ Expiry!Init
  OBVIOUS
<1>1. fork \in [Keys -> Deadlines \cup {Gone}] /\ now = 0
  BY DEF Init
<1>2. \A k \in Keys : carried[k] = {fork[k]} \ {Never, Gone}
  BY DEF Init
<1>3. carried \in [Keys -> SUBSET Instants]
  BY <1>1, <1>2 DEF Init, Deadlines
<1>4. 0 \in Instants
  BY ConstantsAssumption DEF Instants
<1>5. ExpiryInv
  BY <1>1, <1>2, <1>3, <1>4, NeverIsNoInstant DEF Init, ExpiryInv
<1> QED
  BY <1>1, <1>5 DEF Init, Expiry!Init, Expiry!Deadlines, Expiry!Instants, Deadlines, Instants

\* A step that writes no fork, no cached fork and no clock, and does not set
\* the reconciler to delete, keeps the invariant.
LEMMA FrameExpiry ==
    ASSUME ExpiryInv, UNCHANGED <<now, fork, carried, writer, seen, rkey>>,
           rpc' = rpc \/ rpc' = "idle"
    PROVE  ExpiryInv'
BY DEF ExpiryInv

\* Every step keeps the invariant, and is a step of ForkExpiry or changes
\* nothing it sees.
LEMMA NextExpiry ==
    ASSUME ExpiryInv, [Next]_vars
    PROVE  ExpiryInv' /\ [Expiry!Next]_<<now, fork, carried, writer>>
<1> DEFINE Hidden == UNCHANGED <<now, fork, carried, writer>>
<1>1. CASE UNCHANGED vars
  BY <1>1, FrameExpiry DEF vars, reconciler
<1>2. CASE WatcherStep \/ Handle
  BY <1>2, FrameExpiry DEF WatcherStep, Tick, NextItem, Send, EndScan, Handle, reconciler
<1>3. ASSUME NEW k \in Keys, ReconcileOutdated(k)
      PROVE  ExpiryInv' /\ Hidden
  <2>1. seen[k] \in carried[k] /\ seen[k] < now
    BY <1>3 DEF ReconcileOutdated, Outdated, ExpiryInv
  <2> QED
    BY <1>3, <2>1 DEF ReconcileOutdated, Dequeue, ExpiryInv
<1>4. ASSUME NEW k \in Keys, ReconcileOther(k) \/ ReconcileFails(k) \/ Resync(k)
      PROVE  ExpiryInv' /\ Hidden
  BY <1>4, FrameExpiry DEF ReconcileOther, ReconcileFails, Resync, reconciler
<1>5. ASSUME NEW k \in Keys, SyncFork(k)
      PROVE  ExpiryInv' /\ Hidden
  BY <1>5 DEF SyncFork, ExpiryInv, reconciler
<1>6. CASE DeleteFails
  BY <1>6, FrameExpiry DEF DeleteFails, EndReconcile
<1>7. CASE Restart
  BY <1>7 DEF Restart, EndReconcile, ExpiryInv
<1>8. CASE Delete
  <2>1. ExpiryInv'
    <3>1. /\ fork' = [fork EXCEPT ![rkey] = Gone] /\ rpc' = "idle"
          /\ UNCHANGED <<now, carried, seen, rkey>>
      BY <1>8 DEF Delete, EndReconcile
    <3> QED
      BY <3>1, NeverIsNoInstant DEF ExpiryInv
  <2>2. Expiry!Expire(rkey)
    BY <1>8 DEF Delete, ExpiryInv, Expiry!Expire
  <2> QED
    BY <2>1, <2>2 DEF Expiry!Next, ExpiryInv
<1>9. CASE Clock
  <2>1. now' \in Instants /\ now < now'
    BY <1>9, ConstantsAssumption DEF Clock, ExpiryInv, Instants
  <2>2. ExpiryInv'
    <3>1. \A d \in Instants : d < now => d < now'
      BY <1>9 DEF Clock, ExpiryInv, Instants
    <3> QED
      BY <1>9, <2>1, <3>1 DEF Clock, ExpiryInv, reconciler
  <2>3. Expiry!Clock
    BY <1>9 DEF Clock, Expiry!Clock
  <2> QED
    BY <2>2, <2>3 DEF Expiry!Next
<1>10. ASSUME NEW k \in ForkKeys, NEW d \in Deadlines, UserPut(k, d)
       PROVE  ExpiryInv' /\ Expiry!Next
  <2>1. k \in Keys
    BY ConstantsAssumption
  <2>2. /\ fork' = [fork EXCEPT ![k] = d]
        /\ carried' = [carried EXCEPT ![k] = carried[k] \cup ({d} \ {Never})]
        /\ writer' = [writer EXCEPT ![k] = "user"]
        /\ UNCHANGED <<now, seen, rpc, rkey>>
    BY <1>10 DEF UserPut
  <2>3. {d} \ {Never} \subseteq Instants
    BY DEF Deadlines
  <2>4. carried' \in [Keys -> SUBSET Instants] /\ \A x \in Keys : carried[x] \subseteq carried'[x]
    BY <2>1, <2>2, <2>3 DEF ExpiryInv
  <2>5. fork' \in [Keys -> Deadlines \cup {Gone}]
    BY <2>1, <2>2 DEF ExpiryInv
  <2>6. \A x \in Keys : fork'[x] \in Instants => fork'[x] \in carried'[x]
    BY <2>1, <2>2, <2>4, NeverIsNoInstant DEF ExpiryInv
  <2>7. ExpiryInv'
    BY <2>2, <2>4, <2>5, <2>6 DEF ExpiryInv
  <2>8. Expiry!Put(k, d)
    BY <2>2 DEF Expiry!Put
  <2> QED
    BY <2>1, <2>7, <2>8 DEF Expiry!Next, Expiry!Deadlines, Expiry!Instants, Deadlines, Instants
<1>11. ASSUME NEW k \in ForkKeys, UserDelete(k)
       PROVE  ExpiryInv' /\ Expiry!Next
  <2>1. k \in Keys
    BY ConstantsAssumption
  <2>2. ExpiryInv'
    BY <1>11, <2>1, NeverIsNoInstant DEF UserDelete, ExpiryInv
  <2>3. Expiry!UserDelete(k)
    BY <1>11 DEF UserDelete, Expiry!UserDelete
  <2> QED
    BY <2>1, <2>2, <2>3 DEF Expiry!Next
<1> QED
  BY <1>1, <1>2, <1>3, <1>4, <1>5, <1>6, <1>7, <1>8, <1>9, <1>10, <1>11,
     FrameExpiry DEF Next, vars

\* The fork controller implements ForkExpiry.
THEOREM RemovesOnlyAfterADeadline == Spec => ImplementsExpiry
<1>1. Init => ExpiryInv /\ Expiry!Init
  BY InitExpiry
<1>2. ExpiryInv /\ [Next]_vars => ExpiryInv' /\ [Expiry!Next]_<<now, fork, carried, writer>>
  BY NextExpiry
<1> QED
  BY <1>1, <1>2, PTL DEF Spec, ImplementsExpiry, Expiry!Spec, Expiry!expiryVars

-----------------------------------------------------------------------------
\* As long as no one edited the fork since the reconciler's cached copy was
\* taken, the fork about to be deleted is outdated.
FreshInv == rpc = "delete" /\ fresh => Expired(rkey)

LEMMA NextFresh == ExpiryInv /\ FreshInv /\ [Next]_vars => FreshInv'
<1> SUFFICES ASSUME ExpiryInv, FreshInv, [Next]_vars PROVE FreshInv'
  OBVIOUS
<1>1. ASSUME UNCHANGED <<now, fork, reconciler>> PROVE FreshInv'
  BY <1>1 DEF FreshInv, Expired, reconciler
<1>2. ASSUME EndReconcile PROVE FreshInv'
  BY <1>2 DEF FreshInv, EndReconcile
<1>3. CASE UNCHANGED vars
  BY <1>1, <1>3 DEF vars
<1>4. CASE WatcherStep \/ Handle
  BY <1>1, <1>4 DEF WatcherStep, Tick, NextItem, Send, EndScan, Handle
<1>5. CASE Delete \/ DeleteFails \/ Restart
  BY <1>2, <1>5 DEF Delete, DeleteFails, Restart
<1>6. CASE Clock
  <2>1. \A d \in Instants : d < now => d < now'
    BY <1>6 DEF Clock, ExpiryInv, Instants
  <2> QED
    BY <1>6, <2>1 DEF Clock, FreshInv, Expired, reconciler
<1>7. ASSUME NEW k \in Keys, ReconcileOutdated(k) PROVE FreshInv'
  BY <1>7 DEF ReconcileOutdated, Outdated, FreshInv, Expired
<1>8. ASSUME NEW k \in Keys,
             ReconcileOther(k) \/ ReconcileFails(k) \/ SyncFork(k) \/ Resync(k)
      PROVE  FreshInv'
  BY <1>1, <1>8 DEF ReconcileOther, ReconcileFails, SyncFork, Resync
<1>9. ASSUME NEW k \in ForkKeys, UserDelete(k) \/ \E d \in Deadlines : UserPut(k, d)
      PROVE  FreshInv'
  <2>1. \A x \in Keys : x # k => fork'[x] = fork[x]
    BY <1>9 DEF UserDelete, UserPut, ExpiryInv
  <2>2. fresh' = (fresh /\ rkey # k) /\ rkey' = rkey /\ rpc' = rpc /\ now' = now
    BY <1>9 DEF UserDelete, UserPut
  <2>3. CASE rkey = k
    BY <2>2, <2>3 DEF FreshInv
  <2>4. CASE rkey # k
    <3>1. fork'[rkey] = fork[rkey]
      BY <2>1, <2>4 DEF ExpiryInv
    <3>2. Expired(rkey)' <=> Expired(rkey)
      BY <2>2, <3>1 DEF Expired
    <3> QED
      BY <2>2, <3>2 DEF FreshInv
  <2> QED
    BY <2>3, <2>4
<1> QED
  BY <1>3, <1>4, <1>5, <1>6, <1>7, <1>8, <1>9 DEF Next

\* Unless the fork was edited after the copy the reconciler read, what Delete
\* removes is a fork whose deadline has passed.
THEOREM RemovesOnlyExpired == Spec => DeletesOnlyExpired
<1>1. Init => ExpiryInv /\ FreshInv
  BY InitExpiry DEF Init, FreshInv
<1>2. ExpiryInv /\ FreshInv /\ [Next]_vars => (ExpiryInv /\ FreshInv)'
  BY NextExpiry, NextFresh
<1>3. ExpiryInv /\ FreshInv => (Delete /\ fresh => Expired(rkey))
  BY DEF Delete, FreshInv
<1> QED
  BY <1>1, <1>2, <1>3, PTL DEF Spec, DeletesOnlyExpired

-----------------------------------------------------------------------------
(* Types *)

ItemType == [key : Keys, deadline : Deadlines]
EventType == [may : SUBSET Keys, live : BOOLEAN]

\* TypeOK in four parts: the forks and the clock, the watcher, the reconciler,
\* the bounds.
ForksType ==
    /\ now \in Instants
    /\ fork \in [Keys -> Deadlines \cup {Gone}] /\ seen \in [Keys -> Deadlines \cup {Gone}]
    /\ carried \in [Keys -> SUBSET Instants] /\ writer \in [Keys -> {"user", "controller"}]

WatcherType ==
    /\ tickNow \in Instants
    /\ wpc \in {"wait", "scan", "send"} /\ (wpc = "send" => items # <<>>)
    /\ items \in Seq(ItemType)
    /\ buffer \in Seq(EventType) /\ Len(buffer) <= Cap

WorkType ==
    /\ queue \subseteq Keys
    /\ rpc \in {"idle", "delete"} /\ rkey \in Keys /\ fresh \in BOOLEAN

BudgetType == edits \in 0..MaxEdits /\ faults \in 0..MaxFaults

LEMMA TypeParts == TypeOK <=> ForksType /\ WatcherType /\ WorkType /\ BudgetType
BY DEF TypeOK, ForksType, WatcherType, WorkType, BudgetType, ItemType, EventType

LEMMA SeqDef == ASSUME NEW S, NEW n \in Nat, NEW l \in [1..n -> S] PROVE l \in Seq(S)
OBVIOUS

\* The list that a tick makes is a sequence of forks.
LEMMA ListType ==
    ASSUME ForksType
    PROVE  SetToSeqs({[key |-> k, deadline |-> seen[k]] : k \in {x \in Keys : seen[x] # Gone}})
             \subseteq Seq(ItemType)
<1> PICK K : K = {x \in Keys : seen[x] # Gone}
  OBVIOUS
<1> PICK listed : listed = {[key |-> k, deadline |-> seen[k]] : k \in K}
  OBVIOUS
<1>1. IsFiniteSet(K)
  <2>1. IsFiniteSet(Keys)
    BY ConstantsAssumption, FS_Product DEF Keys
  <2> QED
    BY <2>1, FS_Subset
<1>2. Cardinality(listed) \in Nat
  <2>1. IsFiniteSet({[key |-> k, deadline |-> seen[k]] : k \in K})
    <3> DEFINE item == [k \in K |-> [key |-> k, deadline |-> seen[k]]]
    <3>1. item \in Surjection(K, listed)
      BY DEF Surjection
    <3> QED
      BY <1>1, <3>1, FS_Surjection
  <2> QED
    BY <2>1, FS_CardinalityType
<1>3. listed \subseteq ItemType
  <2> SUFFICES ASSUME NEW k \in K PROVE [key |-> k, deadline |-> seen[k]] \in ItemType
    OBVIOUS
  <2>1. k \in Keys /\ seen[k] \in Deadlines
    BY DEF ForksType
  <2> QED
    BY <2>1 DEF ItemType
<1>4. ASSUME NEW l \in [1..Cardinality(listed) -> listed]
      PROVE  l \in Seq(ItemType)
  <2>1. PICK n \in Nat : n = Cardinality(listed)
    BY <1>2
  <2>2. l \in [1..n -> ItemType]
    BY <1>3, <1>4, <2>1
  <2> QED
    BY <2>2, SeqDef
<1> QED
  BY <1>4 DEF SetToSeqs

LEMMA InitType == Init => TypeOK
<1> SUFFICES ASSUME Init PROVE TypeOK
  OBVIOUS
<1>1. fork \in [Keys -> Deadlines \cup {Gone}] /\ 0 \in Instants
  BY ConstantsAssumption DEF Init, Instants
<1>2. carried \in [Keys -> SUBSET Instants]
  BY <1>1 DEF Init, Deadlines
<1>3. ForksType
  BY <1>1, <1>2 DEF Init, ForksType
<1>4. WatcherType
  BY <1>1, ConstantsAssumption DEF Init, WatcherType
<1>5. WorkType
  BY DEF Init, WorkType
<1>6. BudgetType
  BY ConstantsAssumption DEF Init, BudgetType
<1> QED
  BY <1>3, <1>4, <1>5, <1>6, TypeParts

LEMMA NextBudget == BudgetType /\ [Next]_vars => BudgetType'
<1> SUFFICES ASSUME BudgetType, [Next]_vars PROVE BudgetType'
  OBVIOUS
<1>1. CASE UNCHANGED budget
  BY <1>1 DEF BudgetType, budget
<1>2. CASE faults < MaxFaults /\ faults' = faults + 1 /\ UNCHANGED edits
  BY <1>2, ConstantsAssumption DEF BudgetType
<1>3. CASE edits < MaxEdits /\ edits' = edits + 1 /\ UNCHANGED faults
  BY <1>3, ConstantsAssumption DEF BudgetType
<1>4. CASE WatcherStep \/ Handle \/ Delete \/ Clock
  BY <1>1, <1>4 DEF WatcherStep, Tick, NextItem, Send, EndScan, Handle, Delete, Clock
<1>5. CASE DeleteFails \/ Restart
  BY <1>1, <1>2, <1>5 DEF DeleteFails, Restart, budget
<1>6. ASSUME NEW k \in Keys,
             ReconcileOutdated(k) \/ ReconcileOther(k) \/ ReconcileFails(k) \/ SyncFork(k) \/ Resync(k)
      PROVE  BudgetType'
  BY <1>1, <1>2, <1>6 DEF ReconcileOutdated, ReconcileOther, ReconcileFails, SyncFork, Resync
<1>7. ASSUME NEW k \in ForkKeys, UserDelete(k) \/ \E d \in Deadlines : UserPut(k, d)
      PROVE  BudgetType'
  BY <1>3, <1>7 DEF UserDelete, UserPut
<1> QED
  BY <1>1, <1>4, <1>5, <1>6, <1>7 DEF Next, vars

\* The watcher's variables after a step that leaves it alone.
LEMMA WatcherRests ==
    ASSUME WatcherType, UNCHANGED <<watcher, buffer>>
    PROVE  WatcherType'
BY DEF WatcherType, watcher

LEMMA NextType == TypeOK /\ [Next]_vars => TypeOK'
<1> SUFFICES ASSUME ForksType, WatcherType, WorkType, [Next]_vars
             PROVE  ForksType' /\ WatcherType' /\ WorkType'
  <2>1. BudgetType /\ [Next]_vars => BudgetType'
    BY NextBudget
  <2>2. (TypeOK <=> ForksType /\ WatcherType /\ WorkType /\ BudgetType)
        /\ (TypeOK' <=> ForksType' /\ WatcherType' /\ WorkType' /\ BudgetType')
    BY TypeParts DEF TypeOK, ForksType, WatcherType, WorkType, BudgetType, ItemType, EventType
  <2> QED
    BY <2>1, <2>2
<1> USE DEF reconciler
<1>1. ASSUME UNCHANGED <<now, fork, carried, writer, seen>> PROVE ForksType'
  BY <1>1 DEF ForksType
<1>2. ASSUME UNCHANGED <<queue, reconciler>> PROVE WorkType'
  BY <1>2 DEF WorkType
<1>3. CASE UNCHANGED vars
  BY <1>1, <1>2, <1>3, WatcherRests DEF vars
<1>4. CASE Tick
  <2>1. items' \in Seq(ItemType)
    BY <1>4, ListType DEF Tick
  <2>2. WatcherType'
    BY <1>4, <2>1 DEF Tick, WatcherType, ForksType
  <2> QED
    BY <1>1, <1>2, <1>4, <2>2 DEF Tick
<1>5. CASE NextItem
  <2>1. Head(items) \in ItemType /\ Tail(items) \in Seq(ItemType)
    BY <1>5 DEF NextItem, WatcherType
  <2>2. PICK h : h = Head(items).key
    OBVIOUS
  <2>3. h \in Keys
    BY <2>1, <2>2 DEF ItemType
  <2>4. buffer' \in Seq(EventType) /\ Len(buffer') = Len(buffer)
    <3>1. buffer' = [i \in DOMAIN buffer |->
                       IF buffer[i].live THEN [buffer[i] EXCEPT !.may = @ \cup {h}] ELSE buffer[i]]
      BY <1>5, <2>2 DEF NextItem
    <3>2. ASSUME NEW e \in EventType
          PROVE  [e EXCEPT !.may = @ \cup {h}] \in EventType
      BY <2>3 DEF EventType
    <3>3. buffer \in Seq(EventType) /\ \A i \in DOMAIN buffer : buffer[i] \in EventType
      BY DEF WatcherType
    <3>4. \A i \in DOMAIN buffer :
              (IF buffer[i].live THEN [buffer[i] EXCEPT !.may = @ \cup {h}] ELSE buffer[i]) \in EventType
      BY <3>2, <3>3
    <3>5. buffer' \in [1..Len(buffer) -> EventType] /\ Len(buffer) \in Nat
      BY <3>1, <3>3, <3>4
    <3> QED
      BY <3>5
  <2>5. WatcherType'
    BY <1>5, <2>1, <2>4 DEF NextItem, WatcherType
  <2> QED
    BY <1>1, <1>2, <1>5, <2>5 DEF NextItem
<1>6. CASE Send
  <2>1. items # <<>>
    BY <1>6 DEF Send, WatcherType
  <2>2. Head(items) \in ItemType /\ Tail(items) \in Seq(ItemType)
    BY <2>1 DEF WatcherType
  <2>3. PICK e : e = [may |-> {Head(items).key}, live |-> TRUE]
    OBVIOUS
  <2>4. e \in EventType
    BY <2>2, <2>3 DEF ItemType, EventType
  <2>5. buffer' \in Seq(EventType) /\ Len(buffer') <= Cap
    <3>1. buffer' = Append(buffer, e) /\ Len(buffer) < Cap
      BY <1>6, <2>3 DEF Send
    <3>2. buffer \in Seq(EventType) /\ Len(buffer) \in Nat /\ Cap \in Nat
      BY ConstantsAssumption DEF WatcherType
    <3> QED
      BY <2>4, <3>1, <3>2
  <2>6. WatcherType'
    BY <1>6, <2>2, <2>5 DEF Send, WatcherType
  <2> QED
    BY <1>1, <1>2, <1>6, <2>6 DEF Send
<1>7. CASE EndScan
  <2>1. buffer' \in Seq(EventType) /\ Len(buffer') = Len(buffer)
    <3>1. buffer' = [i \in DOMAIN buffer |-> [buffer[i] EXCEPT !.live = FALSE]]
      BY <1>7 DEF EndScan
    <3>2. ASSUME NEW e \in EventType
          PROVE  [e EXCEPT !.live = FALSE] \in EventType
      BY DEF EventType
    <3>3. buffer \in Seq(EventType) /\ \A i \in DOMAIN buffer : buffer[i] \in EventType
      BY DEF WatcherType
    <3>4. buffer' \in [1..Len(buffer) -> EventType] /\ Len(buffer) \in Nat
      BY <3>1, <3>2, <3>3
    <3> QED
      BY <3>4
  <2>2. WatcherType'
    BY <1>7, <2>1 DEF EndScan, WatcherType
  <2> QED
    BY <1>1, <1>2, <1>7, <2>2 DEF EndScan
<1>8. CASE Handle
  <2>1. buffer[1] \in EventType /\ buffer # <<>>
    BY <1>8 DEF Handle, WatcherType
  <2>2. Requests(Head(buffer)) \subseteq Keys
    BY <2>1 DEF Requests, EventType, Keys
  <2>3. WorkType'
    BY <1>8, <2>2 DEF Handle, WorkType
  <2>4. WatcherType'
    BY <1>8, <2>1, ConstantsAssumption DEF Handle, WatcherType, watcher
  <2> QED
    BY <1>1, <1>8, <2>3, <2>4 DEF Handle
<1>9. CASE Delete
  <2>1. ForksType'
    BY <1>9 DEF Delete, ForksType, WorkType
  <2>2. WorkType'
    BY <1>9 DEF Delete, EndReconcile, WorkType
  <2> QED
    BY <1>9, <2>1, <2>2, WatcherRests DEF Delete
<1>10. CASE DeleteFails
  <2>1. WorkType'
    BY <1>10 DEF DeleteFails, EndReconcile, WorkType
  <2> QED
    BY <1>1, <1>10, <2>1, WatcherRests DEF DeleteFails
<1>11. CASE Clock
  <2>1. ForksType'
    BY <1>11, ConstantsAssumption DEF Clock, ForksType, Instants
  <2> QED
    BY <1>2, <1>11, <2>1, WatcherRests DEF Clock
<1>12. CASE Restart
  <2>1. ForksType'
    BY <1>12 DEF Restart, ForksType
  <2>2. WorkType'
    BY <1>12 DEF Restart, EndReconcile, WorkType
  <2>3. WatcherType'
    BY <1>12, ConstantsAssumption DEF Restart, WatcherType
  <2> QED
    BY <2>1, <2>2, <2>3
<1>13. ASSUME NEW k \in Keys, ReconcileOutdated(k) \/ ReconcileOther(k) \/ ReconcileFails(k) \/ Resync(k)
       PROVE  ForksType' /\ WatcherType' /\ WorkType'
  <2>1. WorkType'
    BY <1>13 DEF ReconcileOutdated, ReconcileOther, ReconcileFails, Resync, Dequeue, WorkType
  <2> QED
    BY <1>1, <1>13, <2>1, WatcherRests DEF ReconcileOutdated, ReconcileOther, ReconcileFails, Resync
<1>14. ASSUME NEW k \in Keys, SyncFork(k)
       PROVE  ForksType' /\ WatcherType' /\ WorkType'
  <2>1. ForksType' /\ WorkType'
    BY <1>14 DEF SyncFork, ForksType, WorkType
  <2> QED
    BY <1>14, <2>1, WatcherRests DEF SyncFork
<1>15. ASSUME NEW k \in ForkKeys, NEW d \in Deadlines, UserPut(k, d)
       PROVE  ForksType' /\ WatcherType' /\ WorkType'
  <2>1. k \in Keys /\ {d} \ {Never} \subseteq Instants
    BY ConstantsAssumption DEF Deadlines
  <2>2. ForksType'
    BY <1>15, <2>1 DEF UserPut, ForksType
  <2>3. WorkType'
    BY <1>15 DEF UserPut, WorkType
  <2> QED
    BY <1>15, <2>2, <2>3, WatcherRests DEF UserPut
<1>16. ASSUME NEW k \in ForkKeys, UserDelete(k)
       PROVE  ForksType' /\ WatcherType' /\ WorkType'
  <2>1. k \in Keys
    BY ConstantsAssumption
  <2>2. ForksType'
    BY <1>16, <2>1 DEF UserDelete, ForksType
  <2>3. WorkType'
    BY <1>16 DEF UserDelete, WorkType
  <2> QED
    BY <1>16, <2>2, <2>3, WatcherRests DEF UserDelete
<1> QED
  BY <1>3, <1>4, <1>5, <1>6, <1>7, <1>8, <1>9, <1>10, <1>11, <1>12, <1>13, <1>14, <1>15, <1>16
     DEF Next, WatcherStep

\* Every reachable state is well typed: the events between the watcher and the
\* handler never exceed the channel's capacity, and the watcher has a fork in
\* hand while it sends (Send waits for room).
THEOREM TypeCorrect == Spec => []TypeOK
BY InitType, NextType, PTL DEF Spec
=============================================================================
