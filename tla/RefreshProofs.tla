----------------------------- MODULE RefreshProofs -----------------------------
(***************************************************************************)
(* What Refresh guarantees for any number of parents, names, identities,   *)
(* edits and faults: its types, that a successful undisturbed pass leaves  *)
(* exactly the wanted children, that it deletes nothing still wanted, and  *)
(* that parents with distinct names do not touch each other's children.    *)
(***************************************************************************)
EXTENDS Refresh, TLAPS

\* A child cannot be mistaken for the absence of one.
LEMMA AbsentIsNoObject == Absent \notin Objects
BY ConstantsAssumption

\* The bounds are numbers.
LEMMA NatBounds == MaxUid \in Nat \ {0} /\ MaxEdits \in Nat /\ MaxFaults \in Nat
BY ConstantsAssumption

\* Zero is an incarnation (and one is), an amount of edits and of faults.
LEMMA ZeroInBounds == {0, 1} \subseteq 0..MaxUid /\ 0 \in 0..MaxEdits /\ 0 \in 0..MaxFaults
BY NatBounds

\* What the mutate function produces is a child.
LEMMA GeneratedType ==
    ASSUME NEW p \in Parents, NEW u \in 0..MaxUid, NEW i \in Ids
    PROVE  Generated(p, u, i) \in Objects /\ Generated(p, u, i) # Absent
<1>1. Generated(p, u, i) \in Objects
  BY DEF Generated, Objects, Identities
<1> QED
  BY <1>1, AbsentIsNoObject

\* The name CreateOrUpdate works on is a name.
LEMMA TargetType ==
    ASSUME TypeOK, NEW i \in Ids
    PROVE  Target(i) \in Names
BY ConstantsAssumption DEF TypeOK, Target

\* Every write of one child by an object of the right type, or by its
\* deletion, keeps the types of store and view.
LEMMA WriteType ==
    ASSUME TypeOK, NEW n \in Names, NEW obj \in Objects \cup {Absent},
           Write(n, obj)
    PROVE  /\ store' \in [Names -> Objects \cup {Absent}]
           /\ view' \in [Names -> Views]
           /\ \A m \in Names : view'[m] = "current" => store'[m] # Absent
<1> USE DEF TypeOK
<1>1. store' = [store EXCEPT ![n] = obj]
  BY DEF Write
<1>2. store' \in [Names -> Objects \cup {Absent}]
  BY <1>1
<1>3. CASE store[n] # obj /\ view[n] = "current"
  <2>1. view' = [view EXCEPT ![n] = "outdated"]
    BY <1>3 DEF Write
  <2> QED
    BY <1>1, <1>2, <2>1 DEF Views, Exists
<1>4. CASE ~(store[n] # obj /\ view[n] = "current")
  <2>1. view' = view
    BY <1>4 DEF Write
  <2>2. ASSUME NEW m \in Names, view'[m] = "current"
        PROVE  store'[m] # Absent
    BY <1>1, <1>4, <2>1, <2>2 DEF Exists
  <2> QED
    BY <1>2, <2>1, <2>2
<1> QED
  BY <1>3, <1>4

\* A pass that ends, well or badly, leaves its variables well typed.
LEMMA LeaveType ==
    ASSUME TypeOK, Leave
    PROVE  /\ pc' = "idle" /\ cur' \in Parents /\ curUid' \in 0..MaxUid
           /\ wanted' \subseteq Ids /\ todo' \subseteq Ids /\ doomed' \subseteq Names
           /\ existing' \in [Ids -> Names \cup {NoName}]
           /\ quiet' \in BOOLEAN
<1>1. existing' \in [Ids -> Names \cup {NoName}]
  BY DEF Leave, NoneExisting
<1> QED
  BY <1>1, ZeroInBounds DEF Leave, TypeOK

LEMMA InitType == Init => TypeOK
<1> SUFFICES ASSUME Init PROVE TypeOK
  OBVIOUS
<1> USE DEF Init
<1>1. uid \in [Parents -> 0..MaxUid]
  BY ZeroInBounds
<1>2. seen \in [Parents -> [uid : 0..MaxUid, want : SUBSET Ids]]
  BY <1>1
<1>3. store \in [Names -> Objects \cup {Absent}] /\ view \in [Names -> Views]
  BY DEF Views
<1>4. existing \in [Ids -> Names \cup {NoName}]
  BY DEF NoneExisting
<1>5. \A n \in Names : view[n] = "current" => Exists(n)
  BY DEF Exists
<1> QED
  BY <1>1, <1>2, <1>3, <1>4, <1>5, ZeroInBounds DEF TypeOK

\* One step of the worker keeps the types.
LEMMA WorkerType == TypeOK /\ WorkerStep => TypeOK'
<1> SUFFICES ASSUME TypeOK, WorkerStep PROVE TypeOK'
  OBVIOUS
<1>1. CASE List
  BY <1>1 DEF List, TypeOK, parentVars, budget, Exists
<1>2. CASE Finish
  BY <1>2 DEF Finish, TypeOK, parentVars, budget, Exists
<1>3. CASE Return
  BY <1>3, LeaveType DEF Return, TypeOK, parentVars, budget, Exists
<1>4. ASSUME NEW n \in Names, DeleteDoomed(n)
      PROVE  TypeOK'
  <2>1. Write(n, Absent)
    BY <1>4 DEF DeleteDoomed
  <2> QED
    BY <1>4, <2>1, WriteType DEF DeleteDoomed, TypeOK, parentVars, budget, Exists
<1>5. ASSUME NEW n \in Names, DeleteMissing(n)
      PROVE  TypeOK'
  BY <1>5, LeaveType DEF DeleteMissing, Fail, TypeOK, parentVars, budget, Exists
<1>6. ASSUME NEW i \in Ids, SyncItem(i)
      PROVE  TypeOK'
  <2>1. /\ Write(Target(i), Generated(cur, curUid, i))
        /\ Target(i) \in Names
        /\ Generated(cur, curUid, i) \in Objects
    BY <1>6, TargetType, GeneratedType DEF SyncItem, TypeOK
  <2>2. /\ store' \in [Names -> Objects \cup {Absent}]
        /\ view' \in [Names -> Views]
        /\ \A m \in Names : view'[m] = "current" => store'[m] # Absent
    BY <2>1, WriteType
  <2> QED
    BY <1>6, <2>2 DEF SyncItem, TypeOK, parentVars, budget, Exists
<1>7. ASSUME NEW i \in Ids, SyncStale(i)
      PROVE  TypeOK'
  BY <1>7, LeaveType DEF SyncStale, Fail, TypeOK, parentVars, budget, Exists
<1> QED
  BY <1>1, <1>2, <1>3, <1>4, <1>5, <1>6, <1>7 DEF WorkerStep

\* One step of the environment keeps the types.
LEMMA EnvironmentType == TypeOK /\ Environment => TypeOK'
<1> SUFFICES ASSUME TypeOK, Environment PROVE TypeOK'
  OBVIOUS
<1>1. ASSUME NEW n \in Names, NEW obj \in Objects \cup {Absent}, UserPut(n, obj)
      PROVE  TypeOK'
  <2>1. Write(n, obj)
    BY <1>1 DEF UserPut
  <2>2. /\ store' \in [Names -> Objects \cup {Absent}]
        /\ view' \in [Names -> Views]
        /\ \A m \in Names : view'[m] = "current" => store'[m] # Absent
    BY <2>1, WriteType
  <2>3. edits' \in 0..MaxEdits
    BY <1>1, NatBounds DEF UserPut, TypeOK
  <2> QED
    BY <1>1, <2>2, <2>3 DEF UserPut, TypeOK, parentVars, pass, Exists
<1>2. ASSUME NEW n \in Names, UserDelete(n)
      PROVE  TypeOK'
  BY <1>1, <1>2 DEF UserDelete
<1>3. ASSUME NEW n \in Names, UserDrift(n)
      PROVE  TypeOK'
  <2>1. store[n] \in Objects
    BY <1>3 DEF UserDrift, TypeOK, Exists
  <2>2. [store[n] EXCEPT !.made = FALSE] \in Objects
    BY <2>1 DEF Objects
  <2> QED
    BY <1>1, <1>3, <2>2 DEF UserDrift
<1>4. ASSUME NEW n \in Names, UserRelabel(n)
      PROVE  TypeOK'
  <2>1. store[n] \in Objects
    BY <1>4 DEF UserRelabel, TypeOK, Exists
  <2>2. PICK i \in Identities : UserPut(n, [store[n] EXCEPT !.item = i, !.made = FALSE])
    BY <1>4 DEF UserRelabel
  <2>3. [store[n] EXCEPT !.item = i, !.made = FALSE] \in Objects
    BY <2>1 DEF Objects
  <2> QED
    BY <1>1, <2>2, <2>3
<1>5. ASSUME NEW n \in Names, UserDisown(n)
      PROVE  TypeOK'
  <2>1. store[n] \in Objects
    BY <1>5 DEF UserDisown, TypeOK, Exists
  <2>2. [store[n] EXCEPT !.owner = NoOwner, !.ouid = 0, !.made = FALSE] \in Objects
    BY <2>1, ZeroInBounds DEF Objects
  <2> QED
    BY <1>1, <1>5, <2>2 DEF UserDisown
<1>6. ASSUME NEW p \in Parents, ParentCreate(p) \/ ParentDelete(p) \/ ParentChange(p)
      PROVE  TypeOK'
  <2>1. uid' \in [Parents -> 0..MaxUid]
    BY <1>6, NatBounds DEF ParentCreate, ParentDelete, ParentChange, TypeOK
  <2>2. desired' \in [Parents -> SUBSET Ids]
    <3>1. Wants[p] \subseteq Ids
      BY ConstantsAssumption
    <3> QED
      BY <1>6, <3>1 DEF ParentCreate, ParentDelete, ParentChange, TypeOK
  <2>3. edits' \in 0..MaxEdits
    BY <1>6, NatBounds DEF ParentCreate, ParentDelete, ParentChange, TypeOK
  <2> QED
    BY <1>6, <2>1, <2>2, <2>3
    DEF ParentCreate, ParentDelete, ParentChange, TypeOK, pass, Exists
<1>7. CASE ApiFault
  BY <1>7, LeaveType, NatBounds DEF ApiFault, Fail, TypeOK, parentVars, Exists
<1>8. CASE Crash
  <2>1. seen' \in [Parents -> [uid : 0..MaxUid, want : SUBSET Ids]]
    BY <1>8 DEF Crash, TypeOK
  <2>2. view' \in [Names -> Views] /\ \A n \in Names : view'[n] = "current" => store'[n] # Absent
    BY <1>8 DEF Crash, Views, Exists
  <2> QED
    BY <1>8, <2>1, <2>2, LeaveType, NatBounds DEF Crash, TypeOK, Exists
<1> QED
  BY <1>2, <1>3, <1>4, <1>5, <1>6, <1>7, <1>8 DEF Environment

\* Every step keeps the types.
LEMMA NextType == TypeOK /\ [Next]_vars => TypeOK'
<1> SUFFICES ASSUME TypeOK, [Next]_vars PROVE TypeOK'
  OBVIOUS
<1>1. CASE UNCHANGED vars
  BY <1>1 DEF vars, TypeOK, parentVars, pass, budget, Exists
<1>2. ASSUME NEW p \in Parents, Begin(p) \/ Skip(p)
      PROVE  TypeOK'
  BY <1>2 DEF Begin, Skip, TypeOK, parentVars, pass, budget, Exists
<1>3. ASSUME NEW p \in Parents, SyncParent(p) \/ Resync(p)
      PROVE  TypeOK'
  <2>1. seen' \in [Parents -> [uid : 0..MaxUid, want : SUBSET Ids]]
    BY <1>3 DEF SyncParent, Resync, TypeOK, parentVars
  <2> QED
    BY <1>3, <2>1 DEF SyncParent, Resync, TypeOK, parentVars, pass, budget, Exists
<1>4. ASSUME NEW n \in Names, SyncChild(n)
      PROVE  TypeOK'
  BY <1>4 DEF SyncChild, TypeOK, parentVars, pass, budget, Exists, Views
<1>5. ASSUME NEW n \in Names, Collect(n)
      PROVE  TypeOK'
  <2>1. Write(n, Absent)
    BY <1>5 DEF Collect
  <2>2. /\ store' \in [Names -> Objects \cup {Absent}]
        /\ view' \in [Names -> Views]
        /\ \A m \in Names : view'[m] = "current" => store'[m] # Absent
    BY <2>1, WriteType
  <2> QED
    BY <1>5, <2>2 DEF Collect, TypeOK, parentVars, pass, budget, Exists
<1> QED
  BY <1>1, <1>2, <1>3, <1>4, <1>5, WorkerType, EnvironmentType DEF Next

\* Every reachable state is well typed, and a current cached copy is a copy
\* of something (Refresh, every action).
THEOREM TypeCorrect == Spec => []TypeOK
BY InitType, NextType, PTL DEF Spec

-----------------------------------------------------------------------------
(* A successful pass *)

\* What the listers owe Refresh: a new child reads back the identity it was
\* created for, and rewriting a child in place keeps the identity it was
\* found by.  It holds for kinds identified by a field or label, and for kinds
\* identified by a name that fits in 63 characters.
WellNamed ==
    /\ \A p \in Parents, i \in Ids : StoredId[ObjName[p][i]][i] = i
    /\ \A n \in Names, i \in Ids, j \in Identities :
         StoredId[n][j] = i => StoredId[n][i] = i

\* What is still to be deleted is, as long as no one else wrote, owned by the
\* parent and not wanted.
DoomedInv ==
    pc = "sync" /\ quiet =>
        \A n \in doomed : OwnedBy(n, cur) /\ IdentityOf(n) \notin wanted

\* The deletes come before the items, and the list of items is the wish list.
OrderInv ==
    /\ pc \in {"sync", "done"} =>
         todo \subseteq wanted /\ (doomed = {} \/ todo = wanted)
    /\ pc = "done" => doomed = {} /\ todo = {}

\* What is listed as existing is the child of that identity; any other child
\* the parent owns is doomed; items already handled are in place.
ProgressInv ==
    pc \in {"sync", "done"} /\ quiet /\ DistinctTargets =>
        /\ \A i \in wanted : existing[i] # NoName =>
             OwnedBy(existing[i], cur) /\ IdentityOf(existing[i]) = i
        /\ \A n \in Names : OwnedBy(n, cur) => n \in doomed \/ IdentityOf(n) \in wanted
        /\ \A i \in wanted \ todo :
             /\ store[Target(i)] = Generated(cur, curUid, i)
             /\ IdentityOf(Target(i)) = i

PassInv == TypeOK /\ DoomedInv /\ OrderInv /\ ProgressInv

\* A step that leaves the pass and the children alone keeps the invariant.
LEMMA FrameKeepsPassInv ==
    ASSUME PassInv, TypeOK', UNCHANGED <<store, pass, quiet>>
    PROVE  PassInv'
BY DEF PassInv, DoomedInv, OrderInv, ProgressInv, DistinctTargets, Target, OwnedBy,
       Exists, IdentityOf, Generated, pass

\* So does one that ends the pass, or during which someone else wrote.
LEMMA IdleKeepsPassInv ==
    ASSUME TypeOK', pc' = "idle" \/ pc' = "list"
    PROVE  PassInv'
BY DEF PassInv, DoomedInv, OrderInv, ProgressInv

LEMMA DisturbedKeepsPassInv ==
    ASSUME PassInv, TypeOK', UNCHANGED pass, quiet' = FALSE
    PROVE  PassInv'
BY DEF PassInv, DoomedInv, OrderInv, ProgressInv, pass

\* The list starts the invariant.
LEMMA ListPassInv ==
    ASSUME PassInv, TypeOK', List
    PROVE  PassInv'
<1> USE DEF PassInv
<1>1. DoomedInv'
  BY DEF List, DoomedInv, OwnedBy, Exists, IdentityOf
<1>2. OrderInv'
  BY DEF List, OrderInv
<1>3. ProgressInv'
  <2>1. PICK f \in [Ids -> Names \cup {NoName}] : IsExistingMap(f) /\ existing' = f
    BY DEF List
  <2>2. ASSUME NEW i \in wanted, f[i] # NoName
        PROVE  OwnedBy(f[i], cur) /\ IdentityOf(f[i]) = i
    <3>1. i \in Ids
      BY DEF TypeOK
    <3> DEFINE of == {n \in Names : i \in wanted /\ OwnedBy(n, cur) /\ IdentityOf(n) = i}
    <3>2. IF of = {} THEN f[i] = NoName ELSE f[i] \in of
      BY <2>1, <3>1 DEF IsExistingMap
    <3> QED
      BY <2>2, <3>2
  <2> QED
    BY <2>1, <2>2 DEF List, ProgressInv, OwnedBy, Exists, IdentityOf
<1> QED
  BY <1>1, <1>2, <1>3

\* Deleting a doomed child keeps it: no child of a wanted identity is doomed.
LEMMA DeletePassInv ==
    ASSUME PassInv, TypeOK', NEW n \in Names, DeleteDoomed(n)
    PROVE  PassInv'
<1> USE DEF PassInv
<1>1. /\ store' = [store EXCEPT ![n] = Absent] /\ doomed' = doomed \ {n}
      /\ pc = "sync" /\ n \in doomed
      /\ UNCHANGED <<pc, cur, curUid, wanted, existing, todo, quiet>>
  BY DEF DeleteDoomed, Write
<1>2. \A m \in Names : m # n => store'[m] = store[m]
  BY <1>1 DEF TypeOK
<1>3. store'[n] = Absent
  BY <1>1 DEF TypeOK
<1>4. DoomedInv'
  BY <1>1, <1>2 DEF DoomedInv, TypeOK, OwnedBy, Exists, IdentityOf
<1>5. OrderInv'
  BY <1>1 DEF OrderInv
<1>6. ProgressInv'
  <2>1. SUFFICES ASSUME quiet, DistinctTargets
                 PROVE  ProgressInv'
    BY <1>1 DEF ProgressInv, DistinctTargets, Target
  <2>2. OwnedBy(n, cur) /\ IdentityOf(n) \notin wanted
    BY <1>1, <2>1 DEF DoomedInv
  <2>3. ASSUME NEW i \in wanted, existing[i] # NoName
        PROVE  OwnedBy(existing[i], cur)' /\ IdentityOf(existing[i])' = i
    <3>1. OwnedBy(existing[i], cur) /\ IdentityOf(existing[i]) = i
      BY <1>1, <2>1, <2>3 DEF ProgressInv
    <3>2. existing[i] # n
      BY <2>2, <3>1
    <3>3. existing[i] \in Names
      BY <2>3 DEF TypeOK
    <3> QED
      BY <1>1, <1>2, <3>1, <3>2, <3>3 DEF OwnedBy, Exists, IdentityOf
  <2>4. ASSUME NEW m \in Names, OwnedBy(m, cur)'
        PROVE  m \in doomed' \/ IdentityOf(m)' \in wanted
    <3>1. m # n
      BY <1>3, <2>4 DEF OwnedBy, Exists
    <3> QED
      BY <1>1, <1>2, <2>1, <2>4, <3>1 DEF ProgressInv, OwnedBy, Exists, IdentityOf
  <2>5. todo = wanted
    BY <1>1 DEF OrderInv
  <2> QED
    BY <1>1, <2>3, <2>4, <2>5 DEF ProgressInv
<1> QED
  BY <1>4, <1>5, <1>6

\* An item that is created or updated is in place, and with distinct targets
\* it takes no other item's place.
LEMMA ItemPassInv ==
    ASSUME WellNamed, PassInv, TypeOK', NEW i \in Ids, SyncItem(i)
    PROVE  PassInv'
<1> USE DEF PassInv
<1>0. PICK t \in Names : t = Target(i)
  BY TargetType
<1>1. /\ store' = [store EXCEPT ![t] = Generated(cur, curUid, i)]
      /\ todo' = todo \ {i} /\ i \in todo
      /\ pc = "sync" /\ doomed = {}
      /\ UNCHANGED <<pc, cur, curUid, wanted, doomed, existing, quiet>>
  BY <1>0 DEF SyncItem, Write
<1>3. /\ \A m \in Names : m # t => store'[m] = store[m]
      /\ store'[t] = Generated(cur, curUid, i)
  BY <1>1, <1>0 DEF TypeOK
<1>4. i \in wanted
  BY <1>1 DEF OrderInv
<1>5. DoomedInv' /\ OrderInv'
  BY <1>1 DEF DoomedInv, OrderInv
<1>6. ProgressInv'
  <2>1. SUFFICES ASSUME quiet, DistinctTargets
                 PROVE  ProgressInv'
    BY <1>1 DEF ProgressInv, DistinctTargets, Target
  <2>2. /\ \A j \in wanted : existing[j] # NoName =>
             OwnedBy(existing[j], cur) /\ IdentityOf(existing[j]) = j
        /\ \A n \in Names : OwnedBy(n, cur) => IdentityOf(n) \in wanted
        /\ \A j \in wanted \ todo :
             store[Target(j)] = Generated(cur, curUid, j) /\ IdentityOf(Target(j)) = j
    BY <1>1, <2>1 DEF ProgressInv
  <2>3. OwnedBy(t, cur)'
    <3>1. Generated(cur, curUid, i).owner = cur
      BY DEF Generated
    <3>2. Generated(cur, curUid, i) # Absent
      BY GeneratedType DEF TypeOK
    <3> QED
      BY <1>1, <1>3, <3>1, <3>2 DEF OwnedBy, Exists
  <2>4. IdentityOf(t)' = i
    <3>1. IdentityOf(t)' = StoredId[t][i]
      BY <1>3 DEF IdentityOf, Generated
    <3>2. CASE existing[i] = NoName
      BY <1>0, <3>1, <3>2 DEF Target, WellNamed, TypeOK
    <3>3. CASE existing[i] # NoName
      <4>1. t = existing[i] /\ OwnedBy(t, cur) /\ IdentityOf(t) = i
        BY <1>0, <1>4, <2>2, <3>3 DEF Target
      <4>2. store[t].item \in Identities
        BY <1>0, <4>1 DEF OwnedBy, Exists, TypeOK, Objects
      <4> QED
        BY <1>0, <3>1, <4>1, <4>2 DEF IdentityOf, WellNamed
    <3> QED
      BY <3>2, <3>3
  <2>5. ASSUME NEW j \in wanted, j # i
        PROVE  Target(j) # t /\ Target(j) \in Names /\ Target(j)' = Target(j)
    <3>1. Target(j) \in Names
      BY TargetType DEF TypeOK
    <3> QED
      BY <1>1, <1>0, <1>4, <2>1, <2>5, <3>1 DEF DistinctTargets, Target
  <2>6. ASSUME NEW j \in wanted, existing[j] # NoName
        PROVE  OwnedBy(existing[j], cur)' /\ IdentityOf(existing[j])' = j
    <3>1. CASE j = i
      <4>1. t = existing[j] /\ existing'[j] = existing[j]
        BY <1>1, <1>0, <2>6, <3>1 DEF Target
      <4> QED
        BY <2>3, <2>4, <3>1, <4>1 DEF OwnedBy, Exists, IdentityOf
    <3>2. CASE j # i
      <4>1. Target(j) = existing[j]
        BY <2>6 DEF Target
      <4> QED
        BY <1>1, <1>3, <2>2, <2>5, <2>6, <3>2, <4>1 DEF OwnedBy, Exists, IdentityOf
    <3> QED
      BY <3>1, <3>2
  <2>7. ASSUME NEW n \in Names, OwnedBy(n, cur)'
        PROVE  IdentityOf(n)' \in wanted
    <3>1. CASE n = t
      BY <1>4, <2>4, <3>1
    <3>2. CASE n # t
      BY <1>1, <1>3, <2>2, <2>7, <3>2 DEF OwnedBy, Exists, IdentityOf
    <3> QED
      BY <3>1, <3>2
  <2>8. ASSUME NEW j \in wanted \ todo'
        PROVE  /\ (store[Target(j)])' = Generated(cur, curUid, j)
               /\ IdentityOf(Target(j))' = j
    <3>1. CASE j = i
      <4>1. Target(j)' = t
        BY <1>1, <1>0, <3>1 DEF Target
      <4> QED
        BY <1>3, <2>4, <3>1, <4>1 DEF IdentityOf
    <3>2. CASE j # i
      <4>1. j \in wanted \ todo
        BY <1>1, <2>8, <3>2
      <4> QED
        BY <1>3, <2>2, <2>5, <3>2, <4>1 DEF IdentityOf
    <3> QED
      BY <3>1, <3>2
  <2> QED
    BY <1>1, <2>6, <2>7, <2>8 DEF ProgressInv, Generated
<1> QED
  BY <1>5, <1>6

\* Every step keeps the invariant of the pass.
LEMMA NextPassInv == WellNamed /\ PassInv /\ [Next]_vars => PassInv'
<1> SUFFICES ASSUME WellNamed, PassInv, [Next]_vars PROVE PassInv'
  OBVIOUS
<1>1. TypeOK'
  BY NextType DEF PassInv
<1>2. CASE UNCHANGED vars
  BY <1>1, <1>2, FrameKeepsPassInv DEF vars
<1>3. ASSUME NEW p \in Parents, Begin(p) \/ Skip(p) \/ SyncParent(p) \/ Resync(p)
      PROVE  PassInv'
  <2>1. CASE Begin(p)
    BY <1>1, <2>1, IdleKeepsPassInv DEF Begin
  <2>2. CASE Skip(p) \/ SyncParent(p) \/ Resync(p)
    BY <1>1, <2>2, FrameKeepsPassInv DEF Skip, SyncParent, Resync
  <2> QED
    BY <1>3, <2>1, <2>2
<1>4. ASSUME NEW n \in Names, SyncChild(n) \/ Collect(n)
      PROVE  PassInv'
  <2>1. CASE SyncChild(n)
    BY <1>1, <2>1, FrameKeepsPassInv DEF SyncChild
  <2>2. CASE Collect(n)
    BY <1>1, <2>2, DisturbedKeepsPassInv DEF Collect
  <2> QED
    BY <1>4, <2>1, <2>2
<1>5. CASE WorkerStep
  <2>1. CASE List
    BY <1>1, <2>1, ListPassInv
  <2>2. CASE Finish
    BY <1>1, <2>2 DEF Finish, PassInv, DoomedInv, OrderInv, ProgressInv,
       DistinctTargets, Target, OwnedBy, Exists, IdentityOf
  <2>3. CASE Return
    BY <1>1, <2>3, IdleKeepsPassInv DEF Return, Leave
  <2>4. ASSUME NEW n \in Names, DeleteDoomed(n) PROVE PassInv'
    BY <1>1, <2>4, DeletePassInv
  <2>5. ASSUME NEW n \in Names, DeleteMissing(n) PROVE PassInv'
    BY <1>1, <2>5, IdleKeepsPassInv DEF DeleteMissing, Fail, Leave
  <2>6. ASSUME NEW i \in Ids, SyncItem(i) PROVE PassInv'
    BY <1>1, <2>6, ItemPassInv
  <2>7. ASSUME NEW i \in Ids, SyncStale(i) PROVE PassInv'
    BY <1>1, <2>7, IdleKeepsPassInv DEF SyncStale, Fail, Leave
  <2> QED
    BY <1>5, <2>1, <2>2, <2>3, <2>4, <2>5, <2>6, <2>7 DEF WorkerStep
<1>6. CASE Environment
  <2>1. ASSUME NEW n \in Names,
               UserDelete(n) \/ UserDrift(n) \/ UserRelabel(n) \/ UserDisown(n)
        PROVE  PassInv'
    <3>1. UNCHANGED pass /\ quiet' = FALSE
      BY <2>1 DEF UserDelete, UserDrift, UserRelabel, UserDisown, UserPut
    <3> QED
      BY <1>1, <3>1, DisturbedKeepsPassInv
  <2>2. ASSUME NEW p \in Parents, ParentCreate(p) \/ ParentDelete(p) \/ ParentChange(p)
        PROVE  PassInv'
    BY <1>1, <2>2, FrameKeepsPassInv DEF ParentCreate, ParentDelete, ParentChange
  <2>3. CASE ApiFault \/ Crash
    BY <1>1, <2>3, IdleKeepsPassInv DEF ApiFault, Crash, Fail, Leave
  <2> QED
    BY <1>6, <2>1, <2>2, <2>3 DEF Environment
<1> QED
  BY <1>2, <1>3, <1>4, <1>5, <1>6 DEF Next

LEMMA InitPassInv == Init => PassInv
BY InitType DEF Init, PassInv, DoomedInv, OrderInv, ProgressInv

\* Refresh keeps its promise: when its names are in order, a pass that
\* reports success and was not disturbed leaves exactly the wanted children.
THEOREM PassSyncs ==
    ASSUME WellNamed
    PROVE  Spec => []SyncedWhenDone
<1>1. PassInv => SyncedWhenDone
  <2> SUFFICES ASSUME PassInv, pc = "done", quiet, DistinctTargets
               PROVE  Synced(cur, curUid, wanted)
    BY DEF SyncedWhenDone
  <2>1. \A i \in wanted : Target(i) \in Names
    BY TargetType DEF PassInv, TypeOK
  <2> QED
    BY <2>1 DEF PassInv, OrderInv, ProgressInv, Synced
<1>2. Init => PassInv
  BY InitPassInv
<1>3. PassInv /\ [Next]_vars => PassInv'
  BY NextPassInv
<1> QED
  BY <1>1, <1>2, <1>3, PTL DEF Spec

\* For kinds identified by a field, an undisturbed pass deletes only children
\* of its parent that it no longer wants.
THEOREM PassDeletesOnlyUnwanted ==
    ASSUME \A n \in Names, i \in Ids : StoredId[n][i] = i
    PROVE  Spec => DeletesOnlyUnwanted
<1>1. WellNamed
  <2>1. \A p \in Parents, i \in Ids : ObjName[p][i] \in Names
    BY ConstantsAssumption
  <2> QED
    BY <2>1 DEF WellNamed
<1>2. PassInv /\ [Next]_vars =>
        \A n \in Names : PassDeletes(n) /\ quiet =>
            store[n].owner = cur /\ store[n].item \notin wanted
  <2> SUFFICES ASSUME PassInv, NEW n \in Names, PassDeletes(n), quiet
               PROVE  store[n].owner = cur /\ store[n].item \notin wanted
    OBVIOUS
  <2>1. OwnedBy(n, cur) /\ IdentityOf(n) \notin wanted
    BY DEF PassDeletes, PassInv, DoomedInv
  <2> QED
    BY <2>1 DEF OwnedBy, IdentityOf, PassInv, TypeOK
<1>3. Init => PassInv
  BY InitPassInv
<1>4. PassInv /\ [Next]_vars => PassInv'
  BY <1>1, NextPassInv
<1> QED
  BY <1>2, <1>3, <1>4, PTL DEF Spec, DeletesOnlyUnwanted

-----------------------------------------------------------------------------
(* Parents do not touch each other's children *)

\* No two parents ever give a child the same name.
ExclusiveNames ==
    \A p, q \in Parents, i, j \in Ids : ObjName[p][i] = ObjName[q][j] => p = q

IsNameOf(n, p) == \E i \in Ids : n = ObjName[p][i]

\* A child with an owner sits at a name of that owner, and what a pass listed
\* sits at names of its parent.
NamesInv ==
    /\ \A n \in Names : \A p \in Parents : OwnedBy(n, p) => IsNameOf(n, p)
    /\ pc = "sync" =>
         /\ \A n \in doomed : IsNameOf(n, cur)
         /\ \A i \in Ids : existing[i] # NoName => IsNameOf(existing[i], cur)

\* Deletions, and writes of a child under the owner it had, keep names and
\* owners together.
LEMMA WriteNamesInv ==
    ASSUME TypeOK, NamesInv, NEW n \in Names, NEW obj, Write(n, obj),
           \A p \in Parents : obj # Absent /\ obj.owner = p => IsNameOf(n, p)
    PROVE  \A m \in Names : \A p \in Parents : OwnedBy(m, p)' => IsNameOf(m, p)
<1>1. store' = [store EXCEPT ![n] = obj]
  BY DEF Write
<1> QED
  BY <1>1 DEF NamesInv, TypeOK, OwnedBy, Exists

\* The name of an item is a name of the parent.
LEMMA TargetIsName ==
    ASSUME TypeOK, NamesInv, pc = "sync", NEW i \in Ids
    PROVE  IsNameOf(Target(i), cur)
BY DEF NamesInv, Target, IsNameOf, TypeOK

LEMMA NextNamesInv == TypeOK /\ NamesInv /\ [Next]_vars => NamesInv'
<1> SUFFICES ASSUME TypeOK, NamesInv, [Next]_vars PROVE NamesInv'
  OBVIOUS
<1>1. ASSUME UNCHANGED store, pc' # "sync"
      PROVE  NamesInv'
  BY <1>1 DEF NamesInv, OwnedBy, Exists
<1>2. ASSUME UNCHANGED <<store, pass>>
      PROVE  NamesInv'
  BY <1>2 DEF NamesInv, OwnedBy, Exists, pass
<1>3. ASSUME NEW n \in Names, NEW obj, Write(n, obj),
             \A p \in Parents : obj # Absent /\ obj.owner = p => OwnedBy(n, p),
             UNCHANGED pass
      PROVE  NamesInv'
  <2>1. \A p \in Parents : obj # Absent /\ obj.owner = p => IsNameOf(n, p)
    BY <1>3 DEF NamesInv
  <2> QED
    BY <1>3, <2>1, WriteNamesInv DEF NamesInv, pass
<1>4. CASE UNCHANGED vars
  BY <1>2, <1>4 DEF vars
<1>5. ASSUME NEW p \in Parents, Begin(p) \/ Skip(p) \/ SyncParent(p) \/ Resync(p)
      PROVE  NamesInv'
  <2>1. CASE Begin(p)
    BY <1>1, <2>1 DEF Begin
  <2>2. CASE Skip(p) \/ SyncParent(p) \/ Resync(p)
    BY <1>2, <2>2 DEF Skip, SyncParent, Resync
  <2> QED
    BY <1>5, <2>1, <2>2
<1>6. ASSUME NEW n \in Names, SyncChild(n) \/ Collect(n)
      PROVE  NamesInv'
  <2>1. CASE SyncChild(n)
    BY <1>2, <2>1 DEF SyncChild
  <2>2. CASE Collect(n)
    BY <1>3, <2>2 DEF Collect
  <2> QED
    BY <1>6, <2>1, <2>2
<1>7. CASE WorkerStep
  <2>1. CASE List
    <3>1. PICK f \in [Ids -> Names \cup {NoName}] : IsExistingMap(f) /\ existing' = f
      BY <2>1 DEF List
    <3>2. ASSUME NEW i \in Ids, f[i] # NoName
          PROVE  IsNameOf(f[i], cur)
      <4> DEFINE of == {n \in Names : i \in wanted /\ OwnedBy(n, cur) /\ IdentityOf(n) = i}
      <4>1. IF of = {} THEN f[i] = NoName ELSE f[i] \in of
        BY <3>1 DEF IsExistingMap
      <4> QED
        BY <3>2, <4>1 DEF NamesInv, TypeOK
    <3> QED
      BY <2>1, <3>1, <3>2 DEF List, NamesInv, TypeOK, OwnedBy, Exists
  <2>2. CASE Finish \/ Return
    BY <1>1, <2>2 DEF Finish, Return, Leave
  <2>3. ASSUME NEW n \in Names, DeleteDoomed(n) PROVE NamesInv'
    <3>1. \A m \in Names : \A p \in Parents : OwnedBy(m, p)' => IsNameOf(m, p)
      BY <2>3, WriteNamesInv DEF DeleteDoomed
    <3> QED
      BY <2>3, <3>1 DEF DeleteDoomed, NamesInv
  <2>4. ASSUME NEW n \in Names, DeleteMissing(n) PROVE NamesInv'
    BY <1>1, <2>4 DEF DeleteMissing, Fail, Leave
  <2>5. ASSUME NEW i \in Ids, SyncItem(i) PROVE NamesInv'
    <3>1. Target(i) \in Names /\ IsNameOf(Target(i), cur)
      BY <2>5, TargetType, TargetIsName DEF SyncItem
    <3>2. Generated(cur, curUid, i).owner = cur
      BY DEF Generated
    <3>3. \A m \in Names : \A p \in Parents : OwnedBy(m, p)' => IsNameOf(m, p)
      BY <2>5, <3>1, <3>2, WriteNamesInv DEF SyncItem
    <3> QED
      BY <2>5, <3>3 DEF SyncItem, NamesInv
  <2>6. ASSUME NEW i \in Ids, SyncStale(i) PROVE NamesInv'
    BY <1>1, <2>6 DEF SyncStale, Fail, Leave
  <2> QED
    BY <1>7, <2>1, <2>2, <2>3, <2>4, <2>5, <2>6 DEF WorkerStep
<1>8. CASE Environment
  <2>1. ASSUME NEW n \in Names, UserDelete(n) PROVE NamesInv'
    BY <1>3, <2>1 DEF UserDelete, UserPut
  <2>2. ASSUME NEW n \in Names, UserDrift(n) \/ UserRelabel(n) PROVE NamesInv'
    <3>1. store[n] \in Objects /\ Exists(n)
      BY <2>2 DEF UserDrift, UserRelabel, TypeOK, Exists
    <3>2. ASSUME NEW obj, UserPut(n, obj), obj.owner = store[n].owner
          PROVE  NamesInv'
      BY <1>3, <3>1, <3>2 DEF UserPut, OwnedBy
    <3>3. CASE UserDrift(n)
      <4>1. [store[n] EXCEPT !.made = FALSE].owner = store[n].owner
        BY <3>1 DEF Objects
      <4> QED
        BY <3>2, <3>3, <4>1 DEF UserDrift
    <3>4. CASE UserRelabel(n)
      <4>1. PICK i \in Identities : UserPut(n, [store[n] EXCEPT !.item = i, !.made = FALSE])
        BY <3>4 DEF UserRelabel
      <4>2. [store[n] EXCEPT !.item = i, !.made = FALSE].owner = store[n].owner
        BY <3>1 DEF Objects
      <4> QED
        BY <3>2, <4>1, <4>2
    <3> QED
      BY <2>2, <3>3, <3>4
  <2>3. ASSUME NEW n \in Names, UserDisown(n) PROVE NamesInv'
    <3>1. store[n] \in Objects
      BY <2>3 DEF UserDisown, TypeOK, Exists
    <3>2. ASSUME NEW obj, UserPut(n, obj), obj.owner = NoOwner
          PROVE  NamesInv'
      <4>1. NoOwner \notin Parents
        BY ConstantsAssumption
      <4> QED
        BY <1>3, <3>2, <4>1 DEF UserPut
    <3>3. [store[n] EXCEPT !.owner = NoOwner, !.ouid = 0, !.made = FALSE].owner = NoOwner
      BY <3>1 DEF Objects
    <3> QED
      BY <2>3, <3>2, <3>3 DEF UserDisown
  <2>4. ASSUME NEW p \in Parents, ParentCreate(p) \/ ParentDelete(p) \/ ParentChange(p)
        PROVE  NamesInv'
    BY <1>2, <2>4 DEF ParentCreate, ParentDelete, ParentChange
  <2>5. CASE ApiFault \/ Crash
    BY <1>1, <2>5 DEF ApiFault, Crash, Fail, Leave
  <2> QED
    BY <1>8, <2>1, <2>2, <2>3, <2>4, <2>5 DEF Environment
<1> QED
  BY <1>4, <1>5, <1>6, <1>7, <1>8 DEF Next

\* With names of its own a parent's pass writes no child that another parent
\* owns, whatever users and the cache do.
THEOREM ParentsIsolated ==
    ASSUME ExclusiveNames
    PROVE  Spec => OthersUntouched
<1> DEFINE Untouched ==
      \A n \in Names : PassWrites(n) /\ Exists(n) => store[n].owner \in {cur, NoOwner}
<1>1. Init => TypeOK /\ NamesInv
  BY InitType DEF Init, NamesInv, OwnedBy, Exists
<1>2. TypeOK /\ NamesInv /\ [Next]_vars => (TypeOK /\ NamesInv)'
  BY NextType, NextNamesInv
<1>3. TypeOK /\ NamesInv /\ [Next]_vars => Untouched
  <2> SUFFICES ASSUME TypeOK, NamesInv, [Next]_vars,
                      NEW n \in Names, PassWrites(n), Exists(n)
               PROVE  store[n].owner \in {cur, NoOwner}
    OBVIOUS
  <2>1. IsNameOf(n, cur)
    <3>1. \/ \E m \in Names : DeleteDoomed(m)
          \/ \E i \in Ids : SyncItem(i)
      <4>1. pc = "sync" /\ pc' = "sync" /\ <<doomed, todo>>' # <<doomed, todo>>
        BY DEF PassWrites
      <4>2. ~ UNCHANGED vars /\ ~ UNCHANGED pass
        BY <4>1 DEF vars, pass
      <4>3. ~ \E p \in Parents : Begin(p) \/ Skip(p) \/ SyncParent(p) \/ Resync(p)
        BY <4>1, <4>2 DEF Begin, Skip, SyncParent, Resync
      <4>4. ~ \E m \in Names : SyncChild(m) \/ Collect(m)
        BY <4>2 DEF SyncChild, Collect
      <4>5. ~ Environment
        BY <4>1, <4>2 DEF Environment, UserDelete, UserDrift, UserRelabel, UserDisown,
           UserPut, ParentCreate, ParentDelete, ParentChange, ApiFault, Crash, Fail, Leave
      <4>6. WorkerStep
        BY <4>2, <4>3, <4>4, <4>5 DEF Next
      <4> QED
        BY <4>1, <4>6 DEF WorkerStep, List, Finish, Return, Leave, DeleteMissing,
           SyncStale, Fail
    <3>2. ASSUME NEW m \in Names, DeleteDoomed(m) PROVE IsNameOf(n, cur)
      <4>1. n = m
        BY <3>2 DEF DeleteDoomed, Write, PassWrites, TypeOK
      <4> QED
        BY <3>2, <4>1 DEF DeleteDoomed, NamesInv
    <3>3. ASSUME NEW i \in Ids, SyncItem(i) PROVE IsNameOf(n, cur)
      <4>1. n = Target(i)
        BY <3>3 DEF SyncItem, Write, PassWrites, TypeOK
      <4> QED
        BY <3>3, <4>1, TargetIsName DEF SyncItem
    <3> QED
      BY <3>1, <3>2, <3>3
  <2>2. store[n].owner \in Parents \cup {NoOwner}
    BY DEF TypeOK, Exists, Objects
  <2>3. CASE store[n].owner \in Parents
    <3>1. IsNameOf(n, store[n].owner)
      BY <2>3 DEF NamesInv, OwnedBy
    <3> QED
      BY <2>1, <2>3, <3>1 DEF IsNameOf, ExclusiveNames, TypeOK
  <2> QED
    BY <2>2, <2>3
<1> QED
  BY <1>1, <1>2, <1>3, PTL DEF Spec, OthersUntouched
=============================================================================
