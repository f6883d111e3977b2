# Verification of kubefork-controller

TLA+ models of [kubefork-controller](../src/README.md), the TLC runs that check
them on small instances, and TLAPS proofs of what matters most for every value
of the constants. Paths below are relative to `src/`.

## 1. The system

A *Fork* is a user's wish for a private variant of some Services: copies of the
Deployments behind them, reached by requests that carry the Fork's identifier.
The controller keeps no state of its own. It reads and writes Kubernetes
objects, and what it must get right is that objects read at different moments,
through caches, still lead to the right ones.

| Component | State it keeps | Operations | Interacts with |
|---|---|---|---|
| `controllers/fork_controller.go` | a work queue of Forks | `Reconcile`: delete an outdated Fork, else update the mappings of its manager, then its workload; when the Fork is gone, the mappings of all managers | mapping updater, microservice updater, fork watcher (channel) |
| `controllers/fork_watcher.go` | a ticker, a channel | every minute notify the reconciler of Forks past their deadline | Fork cache, reconciler |
| `domain/updater/mapping.go` | none; owns Ambassador `Mapping`s through a label and a controller reference | `Update(manager)`, `UpdateAll` | Fork, ForkManager and Mapping caches |
| `domain/updater/microservice.go`, `domain/lister/internal` | none; owns DeploymentCopies, Services and VSConfigs of a Fork | `Update(fork)`: build the application, refresh three lists in order | refresh engine; VSConfigs are the input of the next component |
| `controllers/vsconfig_controller.go`, `domain/updater/virtualservice.go`, `domain/lister/virtualservice.go` | a work queue of VSConfigs; owns the VirtualService of a Service | `Reconcile`, `Update(service)`, `UpdateAll` | refresh engine; Service, VSConfig caches |
| `pkg/refresh/refresh.go` | none | `Refresh(parent, list)`: delete owned children that are not wanted, create or update the wanted ones | API server, cache, both updaters |
| `controllers/service_controller.go` | a work queue of Services | the VirtualService of one Service | never registered by `main.go` |
| `main.go`, `pkg/middleware/honeybadger.go` | none | wiring, error reporting | |
| `kubeforkctl` | none | `manifest`: options to selectors, look up the containers to switch, print a Fork | API server (reads) |
| `api/v1beta1` | | types, generated deep copies | |

Around them: the API server (optimistic concurrency on resource versions, delete
by name), informer caches that lag per object, work queues that drop duplicates
and retry errors, a resync of every ten hours, the garbage collector, users,
deployment-duplicator (which makes Deployments of DeploymentCopies) and the
gateways that read Mappings and VirtualServices.

**What is hard.** Reads are stale (typed `Get` and `List` go to the cache, only
the unstructured list of `handleExisting` is live), writes race with users and
the garbage collector, `UpdateAll` and the sequence of refreshes stop at the
first error, deletions are heard of once or, across a restart, never, the
watcher's events share one variable with its loop, and objects are known by
names that are joined, cut and reused. The list, at its lines, is `hazards` in
`PROJECT.json`.

**What makes each part correct.**

- *refresh*: a pass that returns nil has left exactly the wanted children; it
  deletes only what is owned by its parent and no longer wanted; parents do not
  touch each other's children; everything converges once the world rests.
- *deadline*: a Fork is removed only after its deadline, and is removed then.
- *mappings*: each manager ends up with one mapping for each upstream and
  identifier, those no longer called for go, other managers' and hand-made
  mappings are left alone.
- *VirtualServices*: a request goes to the copy that the first VSConfig by name
  means for its header value, and to the original Service otherwise.
- *the whole*: only the requests that carry a Fork's identifier go through its
  copies, they are sent there only when the Service copy and its DeploymentCopies
  are stored (their Pods may still be starting), keep the Fork's Pods once they
  met them, and in the end all of them do.
- *manifest*: the selectors printed mean what the options say, never everything,
  and the image goes to the containers that have it.
- *workload*: Service copies select exactly the copies of the Deployments their
  originals route to, requests are diverted only when the Service copy and the
  DeploymentCopies are stored, and a Fork that is gone leaves nothing.

## 2. Modules

| Module | Models | Extended by |
|---|---|---|
| `Refresh` | `pkg/refresh`, on the worker of a controller | `MCRefresh`, `RefreshProofs` |
| `ForkExpiry` | what a deadline promises (abstract) | |
| `ForkWatcher` | the watcher, its channel, the deadline half of `Reconcile`; implements `ForkExpiry` | `MCForkWatcher`, `ForkWatcherProofs` |
| `Mapping` | the gateway half of `Reconcile`, the mapping updater | `MCMapping`, `MappingProofs` |
| `VirtualServices` | VSConfig reconciler, VirtualService updater and lister | `MCVirtualServices`, `VirtualServicesProofs` |
| `Microservice` | microservice updater and application lister | `MCMicroservice`, `MicroserviceProofs`, `System` |
| `Traffic` | what users are promised of their requests (abstract) | |
| `System` | `main.go`: the Fork reconciler's workload half (`Microservice`) and the VSConfig reconciler (an instance of `VirtualServices`) in one process, deployment-duplicator beside them; implements `Traffic` | `MCSystem`, `SystemProofs` |
| `ForkManifest` | `kubeforkctl manifest` | `MCForkManifest`, `ForkManifestProofs` |
| `Ranks` | lemmas on finite sets of numbers in their order | `VirtualServicesProofs`, `SystemProofs` |

Those of the controller are built alike. *State*: the API server's objects (functions to a
record or an "absent" value), what the caches show, the work queue (a set: it
drops duplicates), the locals of the one worker with its position in the code,
budgets, and one history variable (`quiet` or `fresh`) that says whether the
inputs of the running update were, and still are, the stored ones. In
`Microservice` and `VirtualServices` that history is apart from the actions:
`Next` is `Watched(Step)`, and `Watch` derives `fresh` from what a step changed,
so that `System` can use the steps without it. *Actions*:
one for each request of the code and one for each of its outcomes; an error is
`Fail`, which drops the locals and requeues. Reads of a cache that nothing else
looks at in between are joined with the step that uses them: the time between
them is more lag of the later one.

- **Refresh.** `Begin`/`Skip` are the caller's `Get`, `List` the live list of
  `handleExisting`, `DeleteDoomed`/`DeleteMissing` its deletes, `SyncItem`/
  `SyncStale` the two outcomes of `CreateOrUpdate`, `Finish` the return of nil.
  A child is its owner (name, UID), the identity it was made from, and whether it
  still has the generated content; resource versions are reduced to `view`, how
  the cached copy relates to the stored one. `ObjName` and `StoredId` say which
  name an identity is given and which identity is read back from it, so cut and
  colliding names are instances of the module.
- **ForkWatcher.** `Tick`, `NextItem`, `Send`, `EndScan` are the loop; an event
  carries `may`, the Forks whose name or namespace a reader may find behind the
  pointer, because the loop goes on overwriting the variable (the data race is a
  choice over what the build can produce). `Handle` is the channel source and
  `EnqueueRequestForObject`; `ReconcileOutdated` and `Delete` are the check and
  the delete, with everything in between possible.
- **Mapping.** `ReadInputs` is `Update` up to the loop, `CreateMapping`,
  `UpdateMapping`, `MappingTaken` the outcomes of `CreateOrUpdate` with
  `SetControllerReference`, `DeleteMapping` the deletes. `toUpdate` is the list
  `UpdateAll` works on. The cache lists Forks in any order, and the order decides
  which of two values of a header stays: `ReadInputs` chooses one of `Lists`. A
  Fork's workload is updated when its mappings are, at `UpdateAllDone`.
- **VirtualServices.** `HTTPRoutes` is `buildHTTPRoutes`, an ordered sequence
  with the default route last, for the VSConfigs in the order of their names
  (`InOrder`, the sort of `Build`); the refresh of the one VirtualService is
  `ListOwned`, `DeleteStale`, `SyncVS`.
- **Microservice.** `Routable`, `ServicesOf`, `Items` and `Built` are the
  application; `List`, `DeleteChild`, `SyncChild`, `ListDone` go through
  `GenerateLists` in order. `CopyLabels` is what `mergeMap` leaves of the original
  Pods' labels on those of a copy.
- **System.** The two reconcilers share the VSConfigs and nothing else:
  `VirtualServices` is instantiated with its VSConfigs computed from the children
  that `Microservice` stores, in the order of their names, and each keeps its own
  queue, caches and worker. A DeploymentCopy is not Pods: `Duplicate` is
  deployment-duplicator, which in its own time makes `pods` what the stored copy
  says; no step of the controller looks at `pods`. `Serves` follows a request
  through the routes, the Service copy, its selector and the Pods it selects
  (`Backers`, of whatever Fork with that identifier) to what it meets: the
  original, Pods of a Fork, copies that are stored and still starting, or none of
  these. That, with what the Forks ask for, is the state of `Traffic`, which says
  how it may change. Nothing is promised of Services outside `Separable` (the name
  of a copy is cut, or the original selects copies' Pods), of requests some Fork
  has taken back a wish for (`dropped`) and of wishes without a Deployment to copy
  (`Bare`). Both reconcilers stop and start together. To keep the product small, a reconciler's steps that touch
  only its locals go first and the caches of what the reconcilers themselves write
  catch up at once; a stale cache makes an update fail, which a fault does too.
  Caches of the *inputs*, Forks and VSConfigs, lag as they do in the modules.
  The Service originals stay, and only the controller writes children.
- **ForkManifest.** One action for each request of the command. A label option
  is a sequence of words and of the characters `!` and `=`; `Requirement` counts
  the separators as `NewSelector` does. A value may be empty (`k=`), a key may
  not. An empty or invalid selector is refused by the API server when it is first
  used (`Refused`). An image reference is its registry, the registry's port, its
  name and whether it is pinned to a digest without a tag; `Stem` is its text up
  to the first colon, which is what the code compares: the port's colon, the
  tag's, or the one after `@sha256`. So `app@sha256:...` is not the image
  `--image app:v2` looks for.

Definitions that a comment calls *Mutant* are faulty variants of the definition
that follows them; no specification uses them. `PROJECT.json` says which property
each of them breaks, which shows that the property says something about that
code.

## 3. Runs

Every run bounds the edits of users (`MaxEdits`), failed requests and restarts
together (`MaxFaults`), incarnations of an object (`MaxUid`), and for
ForkWatcher the clock (`MaxTime`) and the buffer (`Cap`). Two or three edits are
what it takes to have something change during an update, once more after it, and
to delete and recreate an object; two parents, managers, Services or VSConfigs
are what it takes for one to affect another; one fault is enough to leave an
update half done, and as it may be a restart, to lose every queue. Deadlock is
not checked: when all is done, the system rests.

| Run | Instance | Shows |
|---|---|---|
| `refresh_isolation` | two parents, three names | `DeletesOnlyUnwanted`, `OthersUntouched` |
| `refresh_live` | one parent, deleted and recreated; three edits, a fault | `SyncedWhenDone`: nil means synced, whatever lagged or failed before; `EventuallyConverged` |
| `watcher_expiry` | two Forks, a channel of one | `ImplementsExpiry`, `DeletesOnlyExpired`: mixed-up notifications remove nothing early |
| `watcher_removed` | one Fork, no resync | `EventuallyRemoved`: the ticks alone are enough |
| `mapping` | two managers whose mappings share names, two Forks of one identifier and two values of a header, a mapping made by hand | `SettledWhenDone`, `OptionsMerged`, `OthersUntouched`, `ManualKept`, `EventuallySettled`, `WorkloadReached` |
| `virtualservices` | two VSConfigs that meet at one Service, two Services | `RoutedWhenDone`, `EventuallyRouted`, `EventuallyUnrouted` |
| `app` | a Fork of one or two Services, renamed, recreated | `InPlaceWhenDone`, `BackedBeforeTrapped`, `EventuallyInPlace` |
| `system` | a Fork of one Service with one or two Deployments behind it, changed, deleted, recreated; a failed request or a restart | `ImplementsTraffic`: while that goes on, requests meet the original, then stored copies that may be starting, then the Fork's Pods, and never go back; `EventuallyServed`: in the end they meet Pods |
| `manifest` | one or two Services and Deployments, up to two options, three images (at a registry with a port, by tag, by digest) | `SelectsWhatIsMeant`, `NeverAllServices`, `EveryMatchingSwitched` (versions given alike) |

`mapping` gives the managers different names (`mapping_samename` does not), and
`EventuallySettled` leaves out a manager while another holds one of its names:
it is refused for ever, and the workload of its Forks is never reached, which is
the premise of `WorkloadReached`. There, and in `System`, edits, faults and
restarts together are at most `MaxDisturbances`: two, and one in `MCSystem_forks.cfg`.
In the runs of `System` the template overrides the label that originals select
by and no name is cut, so that every Service is `Separable`.
`MCSystem_shared.cfg` and `MCSystem_longname.cfg` show why `Traffic` promises
nothing of other Services, `MCSystem_swapped.cfg` why it promises nothing of a
request from which a Deployment was taken back, and `MCSystem_starting.cfg` why a
request may meet copies that have no Pods yet. `ImplementsTraffic` lets a request
go astray once some Fork has stopped asking for it: its copies go before the
route to them does. `EventuallyUnrouted` leaves out restarts,
across which a deletion is not heard of, and `EventuallyRouted` leaves out
Services no VSConfig names.

Where the code departs from what a comment, a test or the documentation says of
it, a run states the claim and TLC finds the behaviour that refutes it. The
quoted lines are under `findings` in `PROJECT.json`.

| Run | Claim refuted | Because |
|---|---|---|
| `watcher_pointer` | outdated Forks are notified | the event holds the address of the loop variable |
| `mapping_orphan` | the old mapping is deleted with its Fork | the mappings are listed from the cache |
| `vs_moved` | VirtualServices follow all VSConfigs | the former host is not updated |

More configurations are kept to rerun by hand (`tlc -config X.cfg M`). The first
two pass, the others end in a counterexample.

| Configuration | Claim | |
|---|---|---|
| `MCForkWatcher_resync.cfg` | `EventuallyRemoved` of two Forks | needs the resync: without it each tick's notification of one Fork may be read as the other's for ever. The shared variable costs time, up to the resync period, and nothing else |
| `MCSystem_forks.cfg` | `ImplementsTraffic`, `EventuallyServed` | two Forks of one Service, with one identifier or two: the route may pass from one Fork's copy to the other's, and requests stay on Pods |
| `MCForkWatcher_early.cfg` | `RemovedOnlyAtDeadline` | a deadline extended after it was read is not looked at again |
| `MCRefresh_longname.cfg` | `DeletesOnlyUnwanted` | DeploymentCopies are known by their uncut name, and those of long names are deleted and recreated by every pass |
| `MCRefresh_collision.cfg` | `MissingCreated` | two names are cut to one |
| `MCRefresh_toctou.cfg` | `DeletesOnlyOwned` | children are deleted by name, after the list |
| `MCRefresh_relabel.cfg` | `EventuallyConverged` | a child given another wanted identity by a user is written for two items in turn, and every pass returns nil |
| `MCMapping_samename.cfg` | `OthersUntouched` ("Mark ambassador mapping is managed by which ForkManager", `domain/updater/mapping.go:24`) | the label lacks the namespace |
| `MCMapping_upgrades.cfg` | `UpgradesMerged` ("the options must be merged", `controllers/fork_controller_test.go:124`) | upgrades are merged in the loop over headers |
| `MCMapping_values.cfg` | `EventuallyQuiet` | two values of one header take turns as the list order varies |
| `MCMapping_identified.cfg` | `Identified` | a Fork's header takes the place of the identifier's |
| `MCVirtualServices_missed.cfg` | `AlwaysFollows` | a deletion missed while the controller is down |
| `MCMicroservice_selectorless.cfg` | `OnlyRoutableCopied` | an empty selector matches everything |
| `MCSystem_longname.cfg` | `ImplementsTrafficEverywhere` | a VSConfig names the uncut copy |
| `MCSystem_shared.cfg` | `ImplementsTrafficEverywhere` | originals select the Pods of copies whose template overrides none of their labels |
| `MCSystem_swapped.cfg` | `AskedStaysServed` | a Fork leaves one Deployment behind a Service for another: the old copy is deleted before the new one is made |
| `MCSystem_starting.cfg` | `SentToReadyPods` | the route is written without waiting for deployment-duplicator or for ready Pods |
| `MCForkManifest_switched.cfg` | `OnlyMatchingSwitched` ("Select only containers to switch an image", `kubeforkctl/k8sClientGo/k8sClientGo.go:93`) | images are compared up to the first colon, containers told by name |
| `MCForkManifest_pinned.cfg` | `PinnedSwitched` ("Extract the containers whose images should be switched", `kubeforkctl/cmd/manifest.go:107`) | a container pinned to a digest agrees with no tag up to the first colon: it is copied and keeps its image |
| `MCForkManifest_copies.cfg` | `NeverSelectsCopies` | `!k` and `k!=v` alone also select Service copies, which the controller then copies in turn |
| `MCForkManifest_panic.cfg` | `NeverPanics` | a label is set in the nil labels of a named object that has none |
| `MCForkManifest_odd.cfg` | `OnlyDocumentedForms` | `a!b` is taken for `!b` |

**Fairness.** A step of the running update, the watcher's loop, the channel
source, the informers, the garbage collector and the resync are weakly fair: each
is a goroutine, or a process of Kubernetes, that nothing stops for ever. Taking a
given object from the work queue is strongly fair: the queue is first in, first
out, but between two turns the worker is busy, so the step is not continuously
enabled. `System` needs less: it leaves out the resync, so that nothing queues
itself, and asks only that the processes, deployment-duplicator among them, do not
all stop while there is something to do, whichever goes first. Users, faults and restarts are not fair and are bounded, which is what
"once edits and faults rest" means.

## 4. Proofs

`RefreshProofs` proves, for any parents, children, identities and bounds:

- `TypeCorrect` (`[]TypeOK`);
- `PassSyncs` (`[]SyncedWhenDone`) and `PassDeletesOnlyUnwanted`, from the
  inductive invariant `PassInv`. `SyncedWhenDone` speaks of the return only; to
  carry it there the invariant must say what holds half way: listed children that
  are to be deleted are, while the pass is quiet, still owned by the parent and
  unwanted (`DoomedInv`); deletes come before writes (`OrderInv`); every wanted
  item not in `todo` is in place and every owned child is wanted, doomed, or kept
  under the name it was listed with (`ProgressInv`). `PassSyncs` assumes that an
  identity is read back as it was written under the name it was given; without
  that it is false (`MCRefresh_longname.cfg`). `PassDeletesOnlyUnwanted` assumes
  that it is read back so under every name.
- `ParentsIsolated` (`OthersUntouched`), from an invariant on the names a pass
  holds, assuming that no two parents are given one name.

`ForkWatcherProofs` proves that `ForkWatcher` implements `ForkExpiry`
(`RemovesOnlyAfterADeadline`) and `RemovesOnlyExpired`. The variable `writer`,
who wrote a Fork last, keeps the controller's removals from passing for a user's
in the abstract specification. The refinement needs `ExpiryInv`: a deadline in
the cache, in the reconciler's hand or in the store is one that was written for
that name, and once a delete is under way it has passed. `RemovesOnlyExpired`
needs `FreshInv`, which ties `fresh` to the stored deadline.

There, `TypeCorrect` also bounds the events in flight by the channel's capacity.

`MappingProofs` rests on one classification of the steps (`StepKinds`: a write of
the update, of a user or the garbage collector, or none) and four invariants.
`OwnerInv` adds to the types that whatever the controller made carries the label
of the manager that owns it, in the store, in the cache and in the plan, and that
a cached owner is the stored one unless a user took the mapping over.
`UpdatesIsolated` (`OthersUntouched`) adds that what is doomed is owned by the
manager being updated or by no one; it assumes that managers of one namespace
have different names in the label (`DistinctLabels`; false otherwise,
`MCMapping_samename.cfg`). `ManualMappingsKept` needs that what is doomed in an
undisturbed update is labelled. `UpdateSettles` and `UpdateMerges` need
`ProgressInv`: half way, every planned mapping is still to be written or in place,
and every owned one is planned or doomed. They assume `DistinctNames`, that no
two upstreams or identifiers of a manager are given one mapping name: names are
joined and cut, and one mapping cannot be two. `UpdateMerges` argues over the
Forks in list order: the last one of a header key decides it, so each key has one
value and some Fork gave it.

`VirtualServicesProofs` proves `TypeCorrect` and, for any set of VSConfigs,
`UpdateRoutes` (`RoutedWhenDone`). Its first half is about the routes alone:
sorting by rank yields each VSConfig once and in order (`InOrderSorts`, from
finite cardinalities), so that the first route that matches a request is that of
the VSConfig of least name (`RoutesReach`), the default route last of all. The
second half is the update: what is written is what was read (`UpdateInv`), and
where nothing is wanted nothing of the controller's is left (`ManualInv` keeps
those a user made without routes).

`MicroserviceProofs` proves `TypeCorrect`, `UpdateInstalls` (`InPlaceWhenDone`)
and `BacksBeforeTrapping` (`BackedBeforeTrapped`). The inductive invariant
`UpdateInv` says that the lists before the current one have been brought about
(`EarlierInv`) and that the current one is half way; that a Service copy then
selects exactly the copies its original routes to follows from labels and
selectors alone. Both assume that every Service has a selector (`AllSelect`): an
empty one is taken to route to everything (`MCMicroservice_selectorless.cfg`),
and then the copies selected are not those that the original had.

`SystemProofs` proves that the two reconcilers together implement `Traffic`
(`SystemImplementsTraffic`), for any Forks, Services, Deployments, edits, faults
and restarts, and whenever deployment-duplicator does its work. It has no
hypothesis on names, labels or wishes: those of which nothing can be promised are
in `Traffic` itself, as the Services that are not `Separable` and the requests
that are dropped or bare. A step is first reduced to its effects (`Steps`): one
on the Forks, children and the update of a Fork, one on the routes and the update
of a Service, one on the Pods. `SystemInv` then follows one request, of Fork `f`
to Service `s` with identifier `i` and a Deployment `d` behind it (`Asks`), from
the wish to the Pods, always "unless the request is dropped or bare" (`Loss`):

- what the cached Fork, the running update or a child says of it is still asked
  for (`SeenInv`, `ValInv`, `ChildInv`), and a wish that is kept stays so
  (`KeptStays`);
- so neither an update nor the garbage collector takes its children away
  (`ChildStays`), and the update is past only of what it has made (`PassInv`);
- a VSConfig has the Service copy and a DeploymentCopy behind it (`BackedInv`),
  the cached VSConfigs and all routes, stored or about to be, lead to what is
  backed (`CacheInv`, `VSInv`), and an update of routes takes no request from a
  copy (`UpdatingInv`);
- Pods that serve the request (`Made`) are those of a DeploymentCopy that is
  still stored for it (`PodsInv`), so what deployment-duplicator does next leaves
  them (`MadeStays`).

What a request meets is then the original if no route carries it, and if one does,
Pods or copies that are starting (`ServedInv`); that it is carried, and that Pods
are there, is not undone (`CarryingStays`, `Ready`, `Met`). What is outside the
promise really fails: `MCSystem_longname.cfg`, `MCSystem_shared.cfg` and
`MCSystem_swapped.cfg` above. `SystemAssumption` says that `ByName` lists VSConfigs
and that absence, Services, copies and identifiers are told apart.

`ForkManifestProofs` proves `TypeCorrect`, `ChoosesAmongServices`
(`NeverAllServices`), `SwitchesEveryMatch` (`EveryMatchingSwitched`) and
`SelectsTheMeant` (`SelectsWhatIsMeant`), for texts of any length, any number of
options and any cluster. The invariant ties the selectors to the options and the
cluster (`SelectorInv`) and what was collected to what was scanned (`ScanInv`).
The meaning of a selector is then a matter of texts: a key and a value that the
API server takes fix where the separators stand, which leaves the documented
forms (`AsksWhatItSays`); options that set one label and labels of the named
object meet in `SelectsWhatIsSaid`. `NoStray` leaves out texts such as `a!b`,
for which it is false (`MCForkManifest_odd.cfg`). `SwitchesEveryMatch` speaks of
containers whose version is given as the option gives it, both by tag or both by
digest: images of one registry, port and name then have one `Stem`. Without that
it is false (`MCForkManifest_pinned.cfg`).

Assumptions are the named `ConstantsAssumption` of the modules, `SystemAssumption`
and those named above, each of which some configuration shows to be needed or that a run's
constants satisfy; TLC evaluates those of the modules on every run. Where an assumption of a
theorem is not one of the module, the code does not guarantee it: it is a
condition on names, selectors or texts that users give.

Only model-checked: liveness (`EventuallyServed`, `EventuallyInPlace` and the
like), which the prover does not reach: it has no rule for fairness and `ENABLED`.

## 5. Not modelled

The Service reconciler (never started), the middleware (reports and returns the
same error), generated code, manifests, leader election, health checks and the
manager's stop procedure (a restart leaves the same state behind). Inside the
modelled parts: the parts of a mapping's spec that its manager alone decides,
ports and annotations, optional fields that panic, label syntax, and copies that
are selected and copied again. deployment-duplicator is external: `System` takes
it to make Pods of each DeploymentCopy in its own time, or to remove them, and a
rolling update to keep the old Pods until new ones are ready. The controller waits
for neither, so between the route and ready Pods a Fork's requests meet a Service
copy without endpoints; that gap is modelled (`starting`) and allowed by
`Traffic`. Pods that fail later are left out. Names are constants of `Refresh` and `Mapping`,
`System` says only which are cut, and they are one value elsewhere. The mappings
half of the Fork reconciler is not part of `System`: no object ties it to the
other two, and that it lets the workload half go on is `WorkloadReached`.

## 6. Plan

1. Done: the controller's five modules, the composition `System` and its abstract
   specification `Traffic`, `ForkManifest`.
2. Done: the safety properties of every component as theorems.
3. Done: the refinement of `Traffic` by `System`. Left: the refresh part of
   `VirtualServices` and `Microservice` as instances of `Refresh`.
4. Copies of copies; the lengths of names and of the label keys made from them.
