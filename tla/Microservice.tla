------------------------------ MODULE Microservice ------------------------------
(***************************************************************************)
(* The workload half of the Fork reconciler: the microservice updater      *)
(* (domain/updater/microservice.go) and the application it builds          *)
(* (domain/lister/internal).  A Fork selects Services and Deployments of   *)
(* its namespace.  It is to own a DeploymentCopy of every selected         *)
(* Deployment that some selected Service routes to, a copy of every        *)
(* selected Service that selects the copied Pods by label, and a VSConfig  *)
(* that sends the Fork's requests to that copy, made in this order.        *)
(*                                                                         *)
(* Each of the three kinds is brought about by one call of Refresh, whose  *)
(* steps are kept; names and identities are one here (module Refresh has   *)
(* them apart).  What a Fork selects is part of its value: it changes with *)
(* the Fork and with the labels of the cluster's Services.  The cached     *)
(* reads of Build are one step.  Of a child the identifier, the Services   *)
(* named in its labels, selector or host, and its owner's incarnation are  *)
(* kept.                                                                   *)
(***************************************************************************)
EXTENDS Naturals, Sequences

CONSTANTS
    Forks, Services, Deployments, Identifiers,
    Labels,        \* labels of Pods
    Selector,      \* [Services -> SUBSET Labels]: spec.selector
    PodLabels,     \* [Deployments -> SUBSET Labels]: spec.template.labels
    Relabelled,    \* labels that the Forks' Pod templates give other values
    ForkSpecs,     \* [Forks -> set of specs its user may give it]
    Gone,          \* no such object
    MaxUid,        \* bound: incarnations of a Fork
    MaxEdits,      \* bound: edits by users
    MaxFaults      \* bound: failed requests and restarts

Specs == [id : Identifiers, services : SUBSET Services, deployments : SUBSET Deployments]

Kinds == {"DeploymentCopy", "Service", "VSConfig"}

\* A child is known by its kind, its Fork and the original it is made for.
Children ==
    ({"DeploymentCopy"} \X Forks \X Deployments) \cup ({"Service", "VSConfig"} \X Forks \X Services)

Objects == [owner : 1..MaxUid, id : Identifiers, from : SUBSET Services]

ASSUME ConstantsAssumption ==
    /\ Services \cap Deployments = {}
    /\ Selector \in [Services -> SUBSET Labels] /\ PodLabels \in [Deployments -> SUBSET Labels]
    /\ Relabelled \subseteq Labels /\ ForkSpecs \in [Forks -> SUBSET Specs]
    /\ Gone \notin Objects \cup Forks /\ Gone \notin [uid : 1..MaxUid, spec : Specs]
    /\ MaxUid \in Nat \ {0} /\ MaxEdits \in Nat /\ MaxFaults \in Nat

VARIABLES
    fork,      \* the API server's Forks: incarnation and spec, or Gone
    seen,      \* the cached Forks
    store,     \* the API server's children of Forks
    view,      \* how the cached copy of a child relates to the stored one
    queue,     \* the work queue, of Forks
    rpc,       \* the updater: "idle", "list" or "sync"
    cur, val,  \* the Fork being updated and its cached value, or Gone
    kind,      \* position in GenerateLists
    doomed,    \* listed children still to be deleted
    todo,      \* items still to be created or updated
    fresh,     \* history: the update read, and still has, the stored inputs
    edits, faults

objects == <<store, view>>
locals == <<cur, val, kind, doomed, todo>>
vars == <<fork, seen, objects, queue, rpc, locals, fresh, edits, faults>>

Exists(c) == store[c] # Gone

-----------------------------------------------------------------------------
(* The application of a Fork *)

\* Mutant: a Service routes to a Deployment with which it shares a label.
RoutableByAny(d, s) == Selector[s] \cap PodLabels[d] # {}

\* routableFrom: the Service's selector matches the Pods' labels.
Routable(d, s) == Selector[s] \subseteq PodLabels[d]

\* deployNameToServiceNames, the inverse of what Build collects by Service.
ServicesOf(d, spec) == {s \in spec.services : Routable(d, s)}

\* Mutant: VSConfigs are made first.
VSConfigsFirst == <<"VSConfig", "DeploymentCopy", "Service">>

GenerateLists == <<"DeploymentCopy", "Service", "VSConfig">>

\* The items of the list of kind k.
Items(k, f, spec) ==
    IF k = "DeploymentCopy"
      THEN {<<k, f, d>> : d \in {x \in spec.deployments : ServicesOf(x, spec) # {}}}
      ELSE {<<k, f, s>> : s \in spec.services}

\* buildCopy and buildVSConfig: a copied Deployment's labels name every
\* Service that routes to it, a copied Service's selector and a VSConfig name
\* their original; all carry the identifier.
Built(c, v) ==
    [owner |-> v.uid, id |-> v.spec.id,
     from |-> IF c[1] = "DeploymentCopy" THEN ServicesOf(c[3], v.spec) ELSE {c[3]}]

\* buildDeploymentCopySpec: the Pods of a copy of d keep the labels of d's Pods
\* except those the Fork's template overrides.
CopyLabels(d) == PodLabels[d] \ Relabelled

-----------------------------------------------------------------------------
\* The controller starts beside Forks that exist already.
Init ==
    /\ fork \in [Forks -> [uid : {1}, spec : UNION {ForkSpecs[f] : f \in Forks}] \cup {Gone}]
    /\ \A f \in Forks : fork[f] # Gone => fork[f].spec \in ForkSpecs[f]
    /\ seen = fork
    /\ store = [c \in Children |-> Gone] /\ view = [c \in Children |-> "absent"]
    /\ queue = {f \in Forks : fork[f] # Gone}
    /\ rpc = "idle" /\ cur = Gone /\ val = Gone /\ kind = 1
    /\ doomed = {} /\ todo = {} /\ fresh = FALSE
    /\ edits = 0 /\ faults = 0

(* Update *)

\* The Fork is read from the cache and its application built.
Build(f) ==
    /\ rpc = "idle" /\ f \in queue /\ seen[f] # Gone
    /\ queue' = queue \ {f}
    /\ rpc' = "list" /\ kind' = 1
    /\ cur' = f /\ val' = seen[f]
    /\ UNCHANGED <<fork, seen, objects, doomed, todo, edits, faults>>

\* "When not found, all child resources should be cleaned with ownerf refs".
ForkGone(f) ==
    /\ rpc = "idle" /\ f \in queue /\ seen[f] = Gone
    /\ queue' = queue \ {f}
    /\ UNCHANGED <<fork, seen, objects, rpc, locals, edits, faults>>

Leave ==
    /\ rpc' = "idle" /\ kind' = 1 /\ cur' = Gone /\ val' = Gone
    /\ doomed' = {} /\ todo' = {}

\* Update returns an error, later lists are not refreshed, and the work queue
\* retries the Fork.
Fail == Leave /\ queue' = queue \cup {cur}

Wanted == Items(GenerateLists[kind], cur, val.spec)

\* Refresh of the next list begins with the live list of the Fork's children.
List ==
    /\ rpc = "list" /\ kind \in DOMAIN GenerateLists
    /\ rpc' = "sync"
    /\ doomed' = {c \in Children : /\ c[1] = GenerateLists[kind] /\ c[2] = cur
                                   /\ Exists(c) /\ c \notin Wanted}
    /\ todo' = Wanted
    /\ UNCHANGED <<fork, seen, objects, queue, cur, val, kind, edits, faults>>

\* Mutant: a cached copy is taken for current although it was overwritten.
StoreUnlagged(c, obj) ==
    /\ store' = [store EXCEPT ![c] = obj]
    /\ view' = view

Store(c, obj) ==
    /\ store' = [store EXCEPT ![c] = obj]
    /\ view' = IF store[c] # obj /\ view[c] = "current"
                 THEN [view EXCEPT ![c] = "outdated"] ELSE view

DeleteChild(c) ==
    /\ rpc = "sync" /\ c \in doomed
    /\ IF Exists(c)
         THEN /\ Store(c, Gone) /\ doomed' = doomed \ {c}
              /\ UNCHANGED <<queue, rpc, cur, val, kind, todo>>
         ELSE Fail /\ UNCHANGED objects              \* NotFound
    /\ UNCHANGED <<fork, seen, edits, faults>>

\* CreateOrUpdate takes the cached copy for the stored one.
SyncChild(c) ==
    /\ rpc = "sync" /\ doomed = {} /\ c \in todo
    /\ IF view[c] = "current" \/ (view[c] = "absent" /\ ~Exists(c))
         THEN /\ Store(c, Built(c, val)) /\ todo' = todo \ {c}
              /\ UNCHANGED <<queue, rpc, cur, val, kind, doomed>>
         ELSE Fail /\ UNCHANGED objects              \* AlreadyExists, Conflict, NotFound
    /\ UNCHANGED <<fork, seen, edits, faults>>

\* Mutant: the next list is not refreshed.
ListDoneSkipping ==
    /\ rpc = "sync" /\ doomed = {} /\ todo = {}
    /\ rpc' = "list" /\ kind' = kind + 2
    /\ UNCHANGED <<fork, seen, objects, queue, cur, val, doomed, todo, edits, faults>>

ListDone ==
    /\ rpc = "sync" /\ doomed = {} /\ todo = {}
    /\ rpc' = "list" /\ kind' = kind + 1
    /\ UNCHANGED <<fork, seen, objects, queue, cur, val, doomed, todo, edits, faults>>

UpdateDone ==
    /\ rpc = "list" /\ kind \notin DOMAIN GenerateLists
    /\ Leave
    /\ UNCHANGED <<fork, seen, objects, queue, edits, faults>>

ApiFault ==
    /\ rpc # "idle" /\ faults < MaxFaults
    /\ faults' = faults + 1
    /\ Fail
    /\ UNCHANGED <<fork, seen, objects, edits>>

UpdateStep ==
    \/ List \/ ListDone \/ UpdateDone
    \/ \E c \in Children : DeleteChild(c) \/ SyncChild(c)

(* The cluster *)

\* The cache catches up with a Fork, whose event queues it, or with what it
\* selects, which the controller does not watch.
SyncFork(f) ==
    /\ seen[f] # fork[f]
    /\ seen' = [seen EXCEPT ![f] = fork[f]]
    /\ \/ queue' = queue \cup {f}
       \/ /\ seen[f] # Gone /\ fork[f] # Gone
          /\ seen[f].uid = fork[f].uid /\ seen[f].spec.id = fork[f].spec.id
          /\ queue' = queue
    /\ UNCHANGED <<fork, objects, rpc, locals, edits, faults>>

Current(c) == IF Exists(c) THEN "current" ELSE "absent"

SyncView(c) ==
    /\ view[c] # Current(c)
    /\ view' = [view EXCEPT ![c] = Current(c)]
    /\ UNCHANGED <<fork, seen, store, queue, rpc, locals, edits, faults>>

Resync(f) ==
    /\ seen[f] # Gone /\ f \notin queue
    /\ queue' = queue \cup {f}
    /\ UNCHANGED <<fork, seen, objects, rpc, locals, edits, faults>>

\* The garbage collector reaps children of an incarnation that is gone.
Collect(c) ==
    /\ Exists(c)
    /\ \/ fork[c[2]] = Gone
       \/ fork[c[2]] # Gone /\ fork[c[2]].uid # store[c].owner
    /\ Store(c, Gone)
    /\ UNCHANGED <<fork, seen, queue, rpc, locals, edits, faults>>

Edit == edits < MaxEdits /\ edits' = edits + 1

\* A Fork, or what it selects, is changed; or the Fork is created, under an
\* incarnation no trace of it has.
PutFork(f) ==
    /\ Edit
    /\ \E u \in 1..MaxUid, spec \in ForkSpecs[f] :
         /\ fork[f] # Gone => u = fork[f].uid /\ spec # fork[f].spec
         /\ fork[f] = Gone => /\ seen[f] # Gone => seen[f].uid < u
                              /\ cur = f /\ val # Gone => val.uid < u
                              /\ \A c \in Children : c[2] = f /\ Exists(c) => store[c].owner < u
         /\ fork' = [fork EXCEPT ![f] = [uid |-> u, spec |-> spec]]
    /\ UNCHANGED <<seen, objects, queue, rpc, locals, faults>>

DeleteFork(f) ==
    /\ Edit /\ fork[f] # Gone
    /\ fork' = [fork EXCEPT ![f] = Gone]
    /\ UNCHANGED <<seen, objects, queue, rpc, locals, faults>>

UserDeleteChild(c) ==
    /\ Edit /\ Exists(c)
    /\ Store(c, Gone)
    /\ UNCHANGED <<fork, seen, queue, rpc, locals, faults>>

\* The restarted controller lists the cluster anew and reconciles every Fork.
Relist ==
    /\ seen' = fork /\ view' = [c \in Children |-> Current(c)]
    /\ queue' = {f \in Forks : fork[f] # Gone}
    /\ Leave
    /\ UNCHANGED <<fork, store, edits>>

Restart == faults < MaxFaults /\ faults' = faults + 1 /\ Relist

Environment ==
    \/ \E f \in Forks : PutFork(f) \/ DeleteFork(f)
    \/ \E c \in Children : UserDeleteChild(c)
    \/ ApiFault \/ Restart

Step ==
    \/ UpdateStep \/ Environment
    \/ \E f \in Forks : Build(f) \/ ForkGone(f) \/ SyncFork(f) \/ Resync(f)
    \/ \E c \in Children : SyncView(c) \/ Collect(c)

\* An update is fresh while what it read is what is stored and nobody else
\* writes.
Watch ==
    fresh' = (/\ rpc' # "idle"
              /\ IF rpc = "idle" THEN val' = fork[cur']
                 ELSE fresh /\ fork' = fork /\ (store' = store \/ <<doomed, todo>>' # <<doomed, todo>>))

Watched(A) == A /\ Watch

Next == Watched(Step)

Spec == Init /\ [][Next]_vars

\* The updater runs, the queue is first in, first out, caches catch up,
\* garbage is collected and the periodic resync queues every Fork again.
Fairness ==
    /\ WF_vars(Watched(UpdateStep))
    /\ \A f \in Forks :
          /\ SF_vars(Watched(Build(f) \/ ForkGone(f)))
          /\ WF_vars(Watched(SyncFork(f))) /\ WF_vars(Watched(Resync(f)))
    /\ \A c \in Children : WF_vars(Watched(SyncView(c))) /\ WF_vars(Watched(Collect(c)))

FairSpec == Spec /\ Fairness

-----------------------------------------------------------------------------
(* Properties *)

\* Every variable has its type, and a child that is gone is nowhere
\* taken for current.
TypeOK ==
    LET Values == [uid : 1..MaxUid, spec : Specs] \cup {Gone}
    IN  /\ fork \in [Forks -> Values] /\ seen \in [Forks -> Values]
        /\ store \in [Children -> Objects \cup {Gone}]
        /\ view \in [Children -> {"absent", "current", "outdated"}]
        /\ \A c \in Children : view[c] = "current" => Exists(c)
        /\ queue \subseteq Forks /\ rpc \in {"idle", "list", "sync"}
        /\ cur \in Forks \cup {Gone} /\ val \in Values /\ (rpc # "idle" => cur # Gone /\ val # Gone)
        /\ kind \in 1..4 /\ doomed \subseteq Children /\ todo \subseteq Children
        /\ fresh \in BOOLEAN /\ edits \in 0..MaxEdits /\ faults \in 0..MaxFaults

\* The copies whose Pods a copied Service selects, of whatever Fork.
Selects(c) ==
    {d \in Children : /\ d[1] = "DeploymentCopy" /\ Exists(d)
                      /\ store[d].id = store[c].id /\ store[c].from \subseteq store[d].from}

\* The Deployments a Service routes to: none when it has no selector.
RoutedBy(s) == {d \in Deployments : Selector[s] # {} /\ Selector[s] \subseteq PodLabels[d]}

\* The copy of s for Fork f, of value v, is in place and selects, of the
\* Fork's Pods, those of every selected Deployment that s routes to.
Backed(f, s, v) ==
    LET c == <<"Service", f, s>>
    IN  /\ Exists(c) /\ store[c].owner = v.uid /\ store[c].id = v.spec.id
        /\ {d[3] : d \in {x \in Selects(c) : x[2] = f}} = v.spec.deployments \cap RoutedBy(s)

\* The VSConfig of s sends the Fork's requests to the copy of s.
Trapped(f, s, v) ==
    LET c == <<"VSConfig", f, s>>
    IN  Exists(c) /\ store[c].owner = v.uid /\ store[c].id = v.spec.id /\ store[c].from = {s}

\* The whole application of f: every selected Service trapped and backed, and
\* no child left over.
InPlace(f, v) ==
    /\ \A s \in v.spec.services : Trapped(f, s, v) /\ Backed(f, s, v)
    /\ \A c \in Children : c[2] = f /\ Exists(c) => c[3] \in v.spec.services \cup v.spec.deployments
    /\ \A d \in Deployments : Exists(<<"DeploymentCopy", f, d>>) =>
           \E s \in v.spec.services : d \in RoutedBy(s)

\* An update of Fork f that had the stored inputs, and was not disturbed,
\* leaves its whole application in place across the three lists.
InPlaceWhenDone ==
    rpc = "list" /\ kind = Len(GenerateLists) + 1 /\ fresh => InPlace(cur, val)

\* A VSConfig sends a Fork's requests to the copy of a Service only when the copy
\* and the DeploymentCopies behind it are already stored.  Nothing waits for
\* deployment-duplicator to make Deployments of these.
BackedBeforeTrapped ==
    [][\A s \in Services :
         LET c == <<"VSConfig", cur, s>>
         IN  fresh /\ rpc = "sync" /\ c \in todo /\ c \notin todo' /\ rpc' = "sync"
               => Backed(cur, s, val)]_vars

\* Once edits and faults rest, every Fork that exists has its whole
\* application, and one that is gone has no child left.
EventuallyInPlace ==
    <>[](\A f \in Forks :
            IF fork[f] # Gone THEN InPlace(f, fork[f])
            ELSE \A c \in Children : c[2] = f => ~Exists(c))

\* "select only routable from the service": no Deployment is copied to which
\* none of the Services named in the copy's labels routes.
OnlyRoutableCopied ==
    \A c \in Children : c[1] = "DeploymentCopy" /\ Exists(c) =>
        \A s \in store[c].from : c[3] \in RoutedBy(s)
=============================================================================
