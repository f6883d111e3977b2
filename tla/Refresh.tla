------------------------------- MODULE Refresh -------------------------------
(***************************************************************************)
(* pkg/refresh: the engine both updaters share.  Given a parent object and *)
(* the list of children it should have, one pass                           *)
(*   - lists the children of the namespace from the API server,            *)
(*   - deletes those owned by the parent whose identity is not wanted,     *)
(*   - creates or updates one child per wanted identity (CreateOrUpdate:   *)
(*     a read of the informer cache, then a Create or an Update).          *)
(* The pass runs on the single worker of a controller, which takes parents *)
(* from its work queue; around it, users edit children, the cache lags,    *)
(* the garbage collector reaps, parents come, go and come back under the   *)
(* same name, requests fail and the controller crashes.                    *)
(*                                                                         *)
(* A child is abstracted to its owner reference (name and UID), the wanted *)
(* identity it was generated from and whether it still has the generated   *)
(* content.  Resource versions are abstracted to what the code can learn   *)
(* from them: whether the cached copy is the stored version (view).  The   *)
(* cached read of CreateOrUpdate and its write are one step: no one else   *)
(* reads the cache, so the time between them is more cache lag.            *)
(***************************************************************************)
EXTENDS Naturals

CONSTANTS
    Parents,       \* parent objects (Forks, or Services) of one namespace
    Names,         \* names of children, as stored (at most 63 characters)
    Ids,           \* identities: what ObjectList.Identity returns
    NoId,          \* the identity of an object that carries none ("")
    NoName,        \* no existing child
    NoOwner,       \* no owner reference
    Absent,        \* no object
    Wants,         \* [Parents -> SUBSET Ids]: what a parent may come to want
    ObjName,       \* [Parents -> [Ids -> Names]]: name a new child is given
    StoredId,      \* the identity read back from a child stored under a name
    UserOps,       \* what users do to children
    MaxUid,        \* bound: incarnations of a parent
    MaxEdits,      \* bound: edits by users, of children and of parents
    MaxFaults      \* bound: failed requests and crashes

\* What a lister promises: the names and identities it gives its children.
Identities == Ids \cup {NoId}

Views == {"absent", "current", "outdated"}

Objects == [owner : Parents \cup {NoOwner}, ouid : 0..MaxUid,
            item : Identities, made : BOOLEAN]

ASSUME ConstantsAssumption ==
    /\ NoId \notin Ids
    /\ NoName \notin Names
    /\ NoOwner \notin Parents
    /\ Absent \notin Objects
    /\ Wants \in [Parents -> SUBSET Ids]
    /\ ObjName \in [Parents -> [Ids -> Names]]
    /\ StoredId \in [Names -> [Identities -> Identities]]
    /\ UserOps \subseteq {"delete", "drift", "relabel", "disown"}
    /\ MaxUid \in Nat \ {0} /\ MaxEdits \in Nat /\ MaxFaults \in Nat

VARIABLES
    store,      \* the API server's children
    view,       \* how the informer cache's copy of a child relates to store
    uid,        \* incarnation of each parent, 0 when it does not exist
    desired,    \* the identities a parent's spec and targets call for
    seen,       \* the cached parent: its incarnation and what it calls for
    queue,      \* the controller's work queue
    pc,         \* where the worker is in Refresh
    cur,        \* the parent of the running pass
    curUid,     \* its incarnation as read
    wanted,     \* desiredIds
    doomed,     \* listed children still to be deleted
    existing,   \* existingMap: the listed child of each wanted identity
    todo,       \* wanted identities not yet created or updated
    quiet,      \* history: no one else wrote a child since the list
    edits,      \* edits spent
    faults      \* faults spent

pass == <<pc, cur, curUid, wanted, doomed, existing, todo>>
parentVars == <<uid, desired, seen>>
budget == <<edits, faults>>
vars == <<store, view, parentVars, queue, pass, quiet, budget>>

-----------------------------------------------------------------------------
(* Children *)

Exists(n) == store[n] # Absent

\* The identity of a stored child.
IdentityOf(n) == StoredId[n][store[n].item]

\* Mutant: ownedByParent forgets to compare the owner's name.
OwnedByAnyone(n, p) == Exists(n) /\ store[n].owner # NoOwner

\* ownedByParent compares the owner reference's name, never its UID.
OwnedBy(n, p) == Exists(n) /\ store[n].owner = p

\* Mutant: the owner reference is set without the parent's UID.
GeneratedWithoutUid(p, u, i) == [owner |-> p, ouid |-> 0, item |-> i, made |-> TRUE]

\* The child the mutate function produces: the generated object, converted
\* over whatever was read, with the parent as its one controller.
Generated(p, u, i) == [owner |-> p, ouid |-> u, item |-> i, made |-> TRUE]

\* The name CreateOrUpdate works on.
Target(i) == IF existing[i] # NoName THEN existing[i] ELSE ObjName[cur][i]

\* Mutant: a cached copy is taken for current although it was overwritten.
WriteUnseen(n, obj) ==
    /\ store' = [store EXCEPT ![n] = obj]
    /\ view' = view

\* A write of name n: the cached copy of the old version is now outdated.
Write(n, obj) ==
    /\ store' = [store EXCEPT ![n] = obj]
    /\ view' = IF store[n] # obj /\ view[n] = "current"
                 THEN [view EXCEPT ![n] = "outdated"] ELSE view

NoneExisting == [i \in Ids |-> NoName]

-----------------------------------------------------------------------------
\* The controller starts in a cluster where some parents exist already.
Init ==
    /\ store = [n \in Names |-> Absent]
    /\ view = [n \in Names |-> "absent"]
    /\ uid \in [Parents -> {0, 1}]
    /\ desired \in [Parents -> SUBSET Ids]
    /\ \A p \in Parents : desired[p] \subseteq (IF uid[p] = 0 THEN {} ELSE Wants[p])
    /\ seen = [p \in Parents |-> [uid |-> uid[p], want |-> desired[p]]]
    /\ queue = {p \in Parents : uid[p] # 0}
    /\ pc = "idle"
    /\ cur \in Parents
    /\ curUid = 0
    /\ wanted = {}
    /\ doomed = {}
    /\ existing = NoneExisting
    /\ todo = {}
    /\ quiet = FALSE
    /\ edits = 0
    /\ faults = 0

(* The pass *)

\* Reconcile of a parent the cache knows: the lister's wish list is computed
\* from cached objects, then Refresh is called.
Begin(p) ==
    /\ pc = "idle" /\ p \in queue /\ seen[p].uid # 0
    /\ queue' = queue \ {p}
    /\ pc' = "list"
    /\ cur' = p /\ curUid' = seen[p].uid /\ wanted' = seen[p].want
    /\ UNCHANGED <<store, view, parentVars, doomed, existing, todo, quiet, budget>>

\* A parent that is gone: its children are left to the garbage collector.
Skip(p) ==
    /\ pc = "idle" /\ p \in queue /\ seen[p].uid = 0
    /\ queue' = queue \ {p}
    /\ UNCHANGED <<store, view, parentVars, pass, quiet, budget>>

\* Refresh returns: its locals are gone.
Leave ==
    /\ pc' = "idle"
    /\ curUid' = 0 /\ wanted' = {} /\ doomed' = {} /\ todo' = {}
    /\ existing' = NoneExisting
    /\ quiet' = FALSE
    /\ UNCHANGED cur

\* An error ends the pass and the work queue retries the parent.
Fail == Leave /\ queue' = queue \cup {cur}

\* existingMap holds one listed child of each wanted identity: when two
\* children share an identity the one listed last.
IsExistingMap(f) ==
    \A i \in Ids :
        LET of == {n \in Names : i \in wanted /\ OwnedBy(n, cur) /\ IdentityOf(n) = i}
        IN  IF of = {} THEN f[i] = NoName ELSE f[i] \in of

\* The live List of handleExisting.
List ==
    /\ pc = "list"
    /\ pc' = "sync"
    /\ doomed' = {n \in Names : OwnedBy(n, cur) /\ IdentityOf(n) \notin wanted}
    /\ \E f \in [Ids -> Names \cup {NoName}] : IsExistingMap(f) /\ existing' = f
    /\ todo' = wanted
    /\ quiet' = TRUE
    /\ UNCHANGED <<store, view, parentVars, queue, cur, curUid, wanted, budget>>

\* Delete by name: nothing of what was listed is checked again.
DeleteDoomed(n) ==
    /\ pc = "sync" /\ n \in doomed /\ Exists(n)
    /\ Write(n, Absent)
    /\ doomed' = doomed \ {n}
    /\ UNCHANGED <<parentVars, queue, pc, cur, curUid, wanted, existing, todo, quiet, budget>>

\* A child someone else deleted first makes Delete fail with NotFound.
DeleteMissing(n) ==
    /\ pc = "sync" /\ n \in doomed /\ ~Exists(n)
    /\ Fail
    /\ UNCHANGED <<store, view, parentVars, budget>>

\* CreateOrUpdate succeeds: the cache shows no object and there is none, or
\* it shows the stored version.
SyncItem(i) ==
    /\ pc = "sync" /\ doomed = {} /\ i \in todo
    /\ \/ view[Target(i)] = "absent" /\ ~Exists(Target(i))
       \/ view[Target(i)] = "current"
    /\ Write(Target(i), Generated(cur, curUid, i))
    /\ todo' = todo \ {i}
    /\ UNCHANGED <<parentVars, queue, pc, cur, curUid, wanted, doomed, existing, quiet, budget>>

\* Mutant: an error of CreateOrUpdate is swallowed and the loop goes on.
SyncStaleSwallowed(i) ==
    /\ pc = "sync" /\ doomed = {} /\ i \in todo
    /\ \/ view[Target(i)] = "absent" /\ Exists(Target(i))
       \/ view[Target(i)] = "outdated"
    /\ todo' = todo \ {i}
    /\ UNCHANGED <<store, view, parentVars, queue, pc, cur, curUid, wanted, doomed,
                   existing, quiet, budget>>

\* The cache is behind: Create fails with AlreadyExists, or Update with
\* Conflict or NotFound.
SyncStale(i) ==
    /\ pc = "sync" /\ doomed = {} /\ i \in todo
    /\ \/ view[Target(i)] = "absent" /\ Exists(Target(i))
       \/ view[Target(i)] = "outdated"
    /\ Fail
    /\ UNCHANGED <<store, view, parentVars, budget>>

Finish ==
    /\ pc = "sync" /\ doomed = {} /\ todo = {}
    /\ pc' = "done"
    /\ UNCHANGED <<store, view, parentVars, queue, cur, curUid, wanted, doomed,
                   existing, todo, quiet, budget>>

Return ==
    /\ pc = "done"
    /\ Leave
    /\ UNCHANGED <<store, view, parentVars, queue, budget>>

\* A request fails.  One that took effect although its answer was lost is
\* the step of that request followed by this one.
ApiFault ==
    /\ pc \in {"list", "sync"} /\ faults < MaxFaults
    /\ faults' = faults + 1
    /\ Fail
    /\ UNCHANGED <<store, view, parentVars, edits>>

\* A crash loses the pass and the queue; the restarted controller lists the
\* cluster anew and reconciles every parent that exists.
Crash ==
    /\ faults < MaxFaults
    /\ faults' = faults + 1
    /\ Leave
    /\ view' = [n \in Names |-> IF Exists(n) THEN "current" ELSE "absent"]
    /\ seen' = [p \in Parents |-> [uid |-> uid[p], want |-> desired[p]]]
    /\ queue' = {p \in Parents : uid[p] # 0}
    /\ UNCHANGED <<store, uid, desired, edits>>

WorkerStep ==
    \/ List \/ Finish \/ Return
    \/ \E n \in Names : DeleteDoomed(n) \/ DeleteMissing(n)
    \/ \E i \in Ids : SyncItem(i) \/ SyncStale(i)

(* The cluster *)

SyncChild(n) ==
    /\ view[n] # (IF Exists(n) THEN "current" ELSE "absent")
    /\ view' = [view EXCEPT ![n] = IF Exists(n) THEN "current" ELSE "absent"]
    /\ UNCHANGED <<store, parentVars, queue, pass, quiet, budget>>

\* The cache catches up with a parent, whose watch event queues it, or with
\* what its wish list is computed from, which the controllers do not watch.
SyncParent(p) ==
    /\ seen[p] # [uid |-> uid[p], want |-> desired[p]]
    /\ seen' = [seen EXCEPT ![p] = [uid |-> uid[p], want |-> desired[p]]]
    /\ \/ queue' = queue \cup {p}
       \/ seen[p].uid = uid[p] /\ queue' = queue
    /\ UNCHANGED <<store, view, uid, desired, pass, quiet, budget>>

Resync(p) ==
    /\ seen[p].uid # 0 /\ p \notin queue
    /\ queue' = queue \cup {p}
    /\ UNCHANGED <<store, view, parentVars, pass, quiet, budget>>

\* The garbage collector reaps children of an owner that is gone.
Collect(n) ==
    /\ Exists(n) /\ store[n].owner # NoOwner
    /\ store[n].ouid # uid[store[n].owner]
    /\ Write(n, Absent)
    /\ quiet' = FALSE
    /\ UNCHANGED <<parentVars, queue, pass, budget>>

ParentCreate(p) ==
    /\ uid[p] = 0 /\ edits < MaxEdits
    /\ \E u \in 1..MaxUid :
        /\ \A n \in Names : OwnedBy(n, p) => store[n].ouid < u
        /\ (cur = p => curUid < u) /\ seen[p].uid < u
        /\ uid' = [uid EXCEPT ![p] = u]
    /\ \E w \in SUBSET Wants[p] : desired' = [desired EXCEPT ![p] = w]
    /\ edits' = edits + 1
    /\ UNCHANGED <<store, view, seen, queue, pass, quiet, faults>>

ParentDelete(p) ==
    /\ uid[p] # 0 /\ edits < MaxEdits
    /\ uid' = [uid EXCEPT ![p] = 0]
    /\ desired' = [desired EXCEPT ![p] = {}]
    /\ edits' = edits + 1
    /\ UNCHANGED <<store, view, seen, queue, pass, quiet, faults>>

ParentChange(p) ==
    /\ uid[p] # 0 /\ edits < MaxEdits
    /\ \E w \in SUBSET Wants[p] \ {desired[p]} :
        desired' = [desired EXCEPT ![p] = w]
    /\ edits' = edits + 1
    /\ UNCHANGED <<store, view, uid, seen, queue, pass, quiet, faults>>

UserPut(n, obj) ==
    /\ edits < MaxEdits
    /\ Write(n, obj)
    /\ edits' = edits + 1
    /\ quiet' = FALSE
    /\ UNCHANGED <<parentVars, queue, pass, faults>>

UserDelete(n) == "delete" \in UserOps /\ Exists(n) /\ UserPut(n, Absent)

UserDrift(n) ==
    /\ "drift" \in UserOps /\ Exists(n) /\ store[n].made
    /\ UserPut(n, [store[n] EXCEPT !.made = FALSE])

\* The user moves the identity (a label, a host) to another one, or drops it.
UserRelabel(n) ==
    /\ "relabel" \in UserOps /\ Exists(n)
    /\ \E i \in Identities \ {store[n].item} :
        UserPut(n, [store[n] EXCEPT !.item = i, !.made = FALSE])

\* The user takes the child over: it has no owner any more.
UserDisown(n) ==
    /\ "disown" \in UserOps /\ Exists(n) /\ store[n].owner # NoOwner
    /\ UserPut(n, [store[n] EXCEPT !.owner = NoOwner, !.ouid = 0, !.made = FALSE])

Environment ==
    \/ \E n \in Names : \/ UserDelete(n) \/ UserDrift(n)
                        \/ UserRelabel(n) \/ UserDisown(n)
    \/ \E p \in Parents : ParentCreate(p) \/ ParentDelete(p) \/ ParentChange(p)
    \/ ApiFault \/ Crash

Next ==
    \/ WorkerStep \/ Environment
    \/ \E p \in Parents : Begin(p) \/ Skip(p) \/ SyncParent(p) \/ Resync(p)
    \/ \E n \in Names : SyncChild(n) \/ Collect(n)

Spec == Init /\ [][Next]_vars

\* The work queue is first in, first out, so a queued parent gets its turn
\* (strong fairness: its turn comes and goes with every other pass); caches
\* catch up, the garbage collector and the periodic resync run.
Fairness ==
    /\ WF_vars(WorkerStep)
    /\ \A p \in Parents : /\ SF_vars(Begin(p) \/ Skip(p))
                          /\ WF_vars(SyncParent(p)) /\ WF_vars(Resync(p))
    /\ \A n \in Names : WF_vars(SyncChild(n)) /\ WF_vars(Collect(n))

FairSpec == Spec /\ Fairness

-----------------------------------------------------------------------------
(* Properties *)

\* Every variable has its type, and the cache never shows a current copy of
\* an object that is not there.
TypeOK ==
    /\ store \in [Names -> Objects \cup {Absent}]
    /\ view \in [Names -> Views]
    /\ uid \in [Parents -> 0..MaxUid]
    /\ desired \in [Parents -> SUBSET Ids]
    /\ seen \in [Parents -> [uid : 0..MaxUid, want : SUBSET Ids]]
    /\ queue \subseteq Parents
    /\ pc \in {"idle", "list", "sync", "done"}
    /\ cur \in Parents /\ curUid \in 0..MaxUid
    /\ wanted \subseteq Ids /\ todo \subseteq Ids
    /\ doomed \subseteq Names
    /\ existing \in [Ids -> Names \cup {NoName}]
    /\ quiet \in BOOLEAN
    /\ edits \in 0..MaxEdits /\ faults \in 0..MaxFaults
    /\ \A n \in Names : view[n] = "current" => Exists(n)

\* No two wanted identities are to be kept under one name in this pass.
DistinctTargets ==
    \A i, j \in wanted : i # j => Target(i) # Target(j)

\* Parent p, incarnation u, has exactly the children w.
Synced(p, u, w) ==
    /\ \A i \in w : \E n \in Names :
         store[n] = Generated(p, u, i) /\ IdentityOf(n) = i
    /\ \A n \in Names : OwnedBy(n, p) => IdentityOf(n) \in w

\* A pass that reports success, during which no one else wrote a child, has
\* left the parent with exactly the children it wanted: however far the
\* cache lagged, whatever an earlier pass left half done (Refresh returns
\* nil only past every Delete and every CreateOrUpdate).
SyncedWhenDone ==
    pc = "done" /\ quiet /\ DistinctTargets => Synced(cur, curUid, wanted)

\* The same without the proviso on names: an identity that did not exist has
\* been created ("when it doesn't exist, it will be created").
MissingCreated ==
    pc = "done" /\ quiet =>
        \A i \in wanted : \E n \in Names : OwnedBy(n, cur) /\ IdentityOf(n) = i

\* The running pass deletes child n in this step.
PassDeletes(n) ==
    pc = "sync" /\ pc' = "sync" /\ n \in doomed /\ n \notin doomed'

\* The running pass writes or deletes child n in this step.
PassWrites(n) ==
    /\ pc = "sync" /\ pc' = "sync" /\ <<doomed, todo>>' # <<doomed, todo>>
    /\ store'[n] # store[n]

\* Unless a child is edited between the list and its Delete, a pass deletes
\* only children of its own parent made for an identity no longer wanted: a
\* child that is still wanted is updated in place.
DeletesOnlyUnwanted ==
    [][\A n \in Names : PassDeletes(n) /\ quiet =>
           store[n].owner = cur /\ store[n].item \notin wanted]_vars

\* What a pass deletes is owned by its parent, at that moment.
DeletesOnlyOwned ==
    [][\A n \in Names : PassDeletes(n) => OwnedBy(n, cur)]_vars

\* Parents of one namespace do not touch each other's children: a pass
\* writes a child only if its parent, or no one, owns it.
OthersUntouched ==
    [][\A n \in Names : PassWrites(n) /\ Exists(n) =>
           store[n].owner \in {cur, NoOwner}]_vars

\* Once users and faults rest, every parent that exists ends up with exactly
\* the children it calls for, owned by its current incarnation, and none
\* remains of a parent that is gone.
Converged ==
    /\ \A p \in Parents : uid[p] # 0 => Synced(p, uid[p], desired[p])
    /\ \A n \in Names : \A p \in Parents : OwnedBy(n, p) => uid[p] # 0

EventuallyConverged == <>[]Converged

=============================================================================
