------------------------- MODULE VirtualServicesProofs -------------------------
(***************************************************************************)
(* What the VirtualService updater guarantees for any VSConfigs, Services, *)
(* edits and faults: its types, and that an undisturbed update leaves each *)
(* request to its Service going where the stored VSConfigs mean it to go.  *)
(* The second rests on what the routes it builds do: the first route that  *)
(* matches a request is that of the first VSConfig, by name, that traps it.*)
(***************************************************************************)
EXTENDS VirtualServices, Ranks

-----------------------------------------------------------------------------
(* Routes *)

\* InOrder enumerates a set, and in its order.
LEMMA InOrderSorts ==
    ASSUME NEW S \in SUBSET Nat, IsFiniteSet(S)
    PROVE  /\ Cardinality(S) \in Nat /\ InOrder(S) \in [1..Cardinality(S) -> S]
           /\ \A i, j \in 1..Cardinality(S) : i < j => InOrder(S)[i] < InOrder(S)[j]
           /\ \A x \in S : \E i \in 1..Cardinality(S) : InOrder(S)[i] = x
<1> DEFINE n == Cardinality(S)
           q == InOrder(S)
<1>1. n \in Nat
  BY FS_CardinalityType
<1>2. ASSUME NEW i \in 1..n
      PROVE  q[i] \in S /\ Rank(S, q[i]) = i - 1
  <2>1. q[i] = CHOOSE x \in S : Rank(S, x) = i - 1
    BY DEF InOrder, Rank
  <2> QED
    BY <2>1, RankOnto
<1>3. q = [i \in 1..n |-> CHOOSE x \in S : Rank(S, x) = i - 1]
  BY DEF InOrder, Rank
<1>4. q \in [1..n -> S]
  BY <1>2, <1>3
<1>5. ASSUME NEW i \in 1..n, NEW j \in 1..n, i < j
      PROVE  q[i] < q[j]
  <2>1. q[i] \in S /\ q[j] \in S /\ Rank(S, q[i]) = i - 1 /\ Rank(S, q[j]) = j - 1
    BY <1>2
  <2>2. q[i] # q[j] /\ ~(Rank(S, q[j]) < Rank(S, q[i]))
    <3>1. i \in Nat /\ j \in Nat
      BY <1>1
    <3> QED
      BY <1>5, <2>1, <3>1
  <2>3. ~(q[j] < q[i])
    BY <2>1, <2>2, RankMonotone
  <2>4. q[i] \in Nat /\ q[j] \in Nat
    BY <2>1
  <2> QED
    BY <2>2, <2>3, <2>4
<1>6. ASSUME NEW x \in S
      PROVE  \E i \in 1..n : q[i] = x
  <2>1. Rank(S, x) + 1 \in 1..n
    BY <1>1, RankBound
  <2> DEFINE i == Rank(S, x) + 1
  <2>2. q[i] \in S /\ Rank(S, q[i]) = Rank(S, x)
    <3>1. Rank(S, x) \in Nat
      BY RankBound
    <3> QED
      BY <1>2, <2>1, <3>1
  <2>3. ~(q[i] < x) /\ ~(x < q[i])
    <3>1. ASSUME NEW y \in S, Rank(S, y) = Rank(S, x)
          PROVE  ~(y < x) /\ ~(x < y)
      <4>1. Rank(S, x) \in Nat
        BY RankBound
      <4>2. ~(Rank(S, x) < Rank(S, x))
        BY <4>1
      <4> QED
        BY <3>1, <4>2, RankMonotone
    <3> QED
      BY <2>2, <3>1
  <2>4. q[i] = x
    <3>1. q[i] \in Nat /\ x \in Nat
      BY <2>2
    <3> QED
      BY <2>3, <3>1
  <2> QED
    BY <2>1, <2>4
<1> QED
  BY <1>1, <1>4, <1>5, <1>6

\* The VSConfigs of c that trap some value at s.
Trapping(s, c) == {x \in Configs : c[x] # Gone /\ c[x].host = s /\ c[x].value # NoValue}

LEMMA RoutingSorts ==
    ASSUME NEW s \in Services, NEW c \in [Configs -> Specs \cup {Gone}]
    PROVE  LET n == Cardinality(Trapping(s, c))
               q == Routing(s, c)
           IN  /\ n \in Nat /\ q \in [1..n -> Trapping(s, c)] /\ IsFiniteSet(Trapping(s, c))
               /\ \A i, j \in 1..n : i < j => q[i] < q[j]
               /\ \A x \in Trapping(s, c) : \E i \in 1..n : q[i] = x
<1>1. Trapping(s, c) \in SUBSET Configs /\ IsFiniteSet(Configs) /\ Configs \subseteq Nat
  BY ConstantsAssumption DEF Trapping
<1>2. Trapping(s, c) \in SUBSET Nat /\ IsFiniteSet(Trapping(s, c))
  BY <1>1, FS_Subset
<1>3. Routing(s, c) = InOrder(Trapping(s, c))
  BY DEF Routing, Trapping
<1> QED
  BY <1>2, <1>3, InOrderSorts

\* buildHTTPRoutes: one route for each of them, and then the default route.
LEMMA HTTPRoutesAre ==
    ASSUME NEW s \in Services, NEW c \in [Configs -> Specs \cup {Gone}]
    PROVE  LET n == Cardinality(Trapping(s, c))
               q == Routing(s, c)
               h == HTTPRoutes(s, c)
           IN  /\ h \in Routes /\ Len(h) = n + 1 /\ DOMAIN h = 1..n + 1
               /\ \A i \in 1..n : h[i].value = c[q[i]].value /\ h[i].to = c[q[i]].to
               /\ h[n + 1] = Default(s)
<1> DEFINE n == Cardinality(Trapping(s, c))
           q == Routing(s, c)
           Route == [value : Values \cup {NoValue}, to : Services \cup Copies]
           a == [i \in 1..n |-> [value |-> c[q[i]].value, to |-> c[q[i]].to]]
<1>1. n \in Nat /\ q \in [1..n -> Trapping(s, c)]
  BY RoutingSorts
<1>2. \A i \in 1..n : q[i] \in Configs /\ c[q[i]] \in Specs
  BY <1>1 DEF Trapping
<1>3. a \in [1..n -> Route]
  BY <1>2 DEF Specs
<1>4. HTTPRoutes(s, c) = a \o <<Default(s)>>
  BY <1>1 DEF HTTPRoutes
<1>5. Default(s) \in Route
  BY DEF Default
<1>6. Routes = Seq(Route)
  BY DEF Routes
<1>7. ASSUME NEW i \in 1..n
      PROVE  a[i].value = c[q[i]].value /\ a[i].to = c[q[i]].to
  OBVIOUS
<1>8. /\ a \o <<Default(s)>> \in Seq(Route) /\ Len(a \o <<Default(s)>>) = n + 1
      /\ DOMAIN (a \o <<Default(s)>>) = 1..n + 1
      /\ \A i \in 1..n : (a \o <<Default(s)>>)[i] = a[i]
      /\ (a \o <<Default(s)>>)[n + 1] = Default(s)
  <2> HIDE DEF a, n, Route
  <2> QED
    BY <1>1, <1>3, <1>5, OneMore
<1> HIDE DEF a, Route
<1> QED
  BY <1>4, <1>6, <1>7, <1>8

\* h has a route for each of the VSConfigs T of c, which q enumerates in order,
\* and then one that matches every request.
RoutesOf(n, T, q, c, h) ==
    /\ n \in Nat /\ T \in SUBSET Nat /\ q \in [1..n -> T]
    /\ \A i, j \in 1..n : i < j => q[i] < q[j]
    /\ \A x \in T : c[x].value # NoValue /\ \E i \in 1..n : q[i] = x
    /\ DOMAIN h = 1..n + 1 /\ h[n + 1].value = NoValue
    /\ \A i \in 1..n : h[i].value = c[q[i]].value

Matching(h, v) == {i \in DOMAIN h : h[i].value \in {NoValue, v}}
TrappingIn(T, c, v) == {x \in T : c[x].value = v}
LeastOf(S) == CHOOSE x \in S : \A y \in S : x <= y

\* The first route that a request with header value v matches is that of the
\* first VSConfig that traps v, and the last route when none does.
LEMMA FirstMatch ==
    ASSUME NEW n, NEW T, NEW q, NEW c, NEW h, RoutesOf(n, T, q, c, h), NEW v
    PROVE  /\ Matching(h, v) # {}
           /\ TrappingIn(T, c, v) = {} => LeastOf(Matching(h, v)) = n + 1
           /\ TrappingIn(T, c, v) # {} =>
                LeastOf(Matching(h, v)) \in 1..n /\ q[LeastOf(Matching(h, v))] = LeastOf(TrappingIn(T, c, v))
<1>1. PICK M, D : M = Matching(h, v) /\ D = TrappingIn(T, c, v)
  OBVIOUS
<1>2. M = {i \in DOMAIN h : h[i].value \in {NoValue, v}} /\ D = {x \in T : c[x].value = v}
  BY <1>1 DEF Matching, TrappingIn
<1>3. n \in Nat /\ T \in SUBSET Nat /\ q \in [1..n -> T]
  BY DEF RoutesOf
<1>4. n + 1 \in M /\ M \subseteq 1..n + 1
  BY <1>2 DEF RoutesOf
<1>5. \A i \in M : i = n + 1 \/ (i \in 1..n /\ q[i] \in D)
  <2> SUFFICES ASSUME NEW i \in M, i # n + 1
               PROVE  i \in 1..n /\ q[i] \in D
    OBVIOUS
  <2>1. i \in 1..n
    BY <1>3, <1>4
  <2>2. q[i] \in T /\ h[i].value = c[q[i]].value /\ c[q[i]].value # NoValue
    BY <2>1 DEF RoutesOf
  <2> QED
    BY <1>2, <2>1, <2>2
<1>6. \A d \in D : \E i \in 1..n : q[i] = d /\ i \in M
  <2> SUFFICES ASSUME NEW d \in D PROVE \E i \in 1..n : q[i] = d /\ i \in M
    OBVIOUS
  <2>1. PICK i \in 1..n : q[i] = d
    BY <1>2 DEF RoutesOf
  <2>2. i \in DOMAIN h /\ h[i].value = v
    BY <1>2, <1>3, <2>1 DEF RoutesOf
  <2> QED
    BY <1>2, <2>1, <2>2
<1>7. PICK m \in M : \A j \in M : m <= j
  <2>1. IsFiniteSet(1..n + 1)
    BY <1>3, FS_Interval
  <2>2. IsFiniteSet(M)
    BY <1>4, <2>1, FS_Subset
  <2>3. M \in SUBSET Nat /\ M # {}
    BY <1>3, <1>4
  <2> QED
    BY <2>2, <2>3, Least
<1>8. LeastOf(M) = m
  <2>1. \A i \in M : i \in Nat
    BY <1>3, <1>4
  <2> QED
    BY <1>7, <2>1 DEF LeastOf
<1>9. CASE D = {}
  BY <1>1, <1>4, <1>5, <1>8, <1>9
<1>10. CASE D # {}
  <2>1. m \in 1..n /\ q[m] \in D
    <3>1. PICK d \in D : TRUE
      BY <1>10
    <3>2. PICK i \in 1..n : q[i] = d /\ i \in M
      BY <1>6
    <3>3. m <= i /\ m \in Nat
      BY <1>3, <1>4, <1>7, <3>2
    <3>4. m # n + 1
      BY <1>3, <3>3
    <3> QED
      BY <1>5, <3>4
  <2>2. ASSUME NEW d \in D PROVE q[m] <= d
    <3>1. PICK i \in 1..n : q[i] = d /\ i \in M
      BY <1>6
    <3>2. m = i \/ m < i
      BY <1>3, <1>7, <2>1, <3>1
    <3>3. m = i \/ q[m] < q[i]
      BY <2>1, <3>2 DEF RoutesOf
    <3>4. q[m] \in Nat /\ q[i] \in Nat
      BY <1>3, <2>1
    <3> QED
      BY <3>1, <3>3, <3>4
  <2>3. LeastOf(D) = q[m]
    <3>1. D \subseteq Nat
      BY <1>2, <1>3
    <3> DEFINE k == q[m]
    <3>2. k \in D /\ \A d \in D : k <= d
      BY <2>1, <2>2
    <3> HIDE DEF k
    <3>3. \A x \in D : (\A d \in D : x <= d) => x = k
      BY <3>1, <3>2
    <3>4. LeastOf(D) = k
      BY <3>2, <3>3 DEF LeastOf
    <3> QED
      BY <3>4 DEF k
  <2> QED
    BY <1>1, <1>4, <1>8, <1>10, <2>1, <2>3
<1> QED
  BY <1>9, <1>10

\* A VirtualService of these routes sends every request where it is meant to go.
LEMMA RoutesReach ==
    ASSUME NEW s \in Services, config \in [Configs -> Specs \cup {Gone}],
           Exists(s), vs[s].routes = HTTPRoutes(s, config)
    PROVE  Routed(s)
<1>1. PICK n, T, q, h :
        /\ n = Cardinality(Trapping(s, config)) /\ T = Trapping(s, config)
        /\ q = Routing(s, config) /\ h = HTTPRoutes(s, config)
  OBVIOUS
<1>2. /\ n \in Nat /\ T \in SUBSET Nat /\ q \in [1..n -> T]
      /\ \A i, j \in 1..n : i < j => q[i] < q[j]
      /\ \A x \in T : \E i \in 1..n : q[i] = x
  <2>1. T \in SUBSET Nat
    BY <1>1, ConstantsAssumption DEF Trapping
  <2> QED
    BY <1>1, <2>1, RoutingSorts
<1>3. /\ DOMAIN h = 1..n + 1 /\ h[n + 1] = Default(s)
      /\ \A i \in 1..n : h[i].value = config[q[i]].value /\ h[i].to = config[q[i]].to
  BY <1>1, HTTPRoutesAre
<1>4. h[n + 1].value = NoValue /\ h[n + 1].to = s
  BY <1>3 DEF Default
<1>5. RoutesOf(n, T, q, config, h)
  <2>1. \A x \in T : config[x].value # NoValue
    BY <1>1 DEF Trapping
  <2> QED
    BY <1>2, <1>3, <1>4, <2>1 DEF RoutesOf
<1>6. ASSUME NEW v \in Values \cup {NoValue}
      PROVE  Reaches(s, v) = Meant(s, v)
  <2>1. PICK M, D : M = Matching(h, v) /\ D = TrappingIn(T, config, v)
    OBVIOUS
  <2>2. /\ M # {} /\ (D = {} => LeastOf(M) = n + 1)
        /\ D # {} => LeastOf(M) \in 1..n /\ q[LeastOf(M)] = LeastOf(D)
    BY <1>5, <2>1, FirstMatch
  <2>3. Reaches(s, v) = h[LeastOf(M)].to
    BY <1>1, <2>1, <2>2 DEF Reaches, LeastOf, Matching
  <2>4. Meant(s, v) = IF D = {} THEN s ELSE config[LeastOf(D)].to
    <3>1. CASE v # NoValue
      <4>1. D = {x \in Configs : config[x] # Gone /\ config[x].host = s /\ config[x].value = v}
        BY <1>1, <2>1, <3>1 DEF Trapping, TrappingIn
      <4> QED
        BY <3>1, <4>1 DEF Meant, LeastOf
    <3>2. CASE v = NoValue
      <4>1. D = {}
        BY <1>5, <2>1, <3>2 DEF RoutesOf, TrappingIn
      <4> QED
        BY <3>2, <4>1 DEF Meant
    <3> QED
      BY <3>1, <3>2
  <2>5. CASE D = {}
    BY <1>4, <2>2, <2>3, <2>4, <2>5
  <2>6. CASE D # {}
    BY <1>3, <2>2, <2>3, <2>4, <2>6
  <2> QED
    BY <2>5, <2>6
<1> QED
  BY <1>6 DEF Routed

\* Nor does a VirtualService matter that has no route, or that is not there,
\* where no VSConfig traps a value.
LEMMA NoRoutesReach ==
    ASSUME NEW s \in Services, config \in [Configs -> Specs \cup {Gone}],
           ~Wanted(HTTPRoutes(s, config)), Exists(s) => vs[s].routes = <<>>
    PROVE  Routed(s)
<1>1. Trapping(s, config) = {}
  <2>1. PICK n : n = Cardinality(Trapping(s, config))
    OBVIOUS
  <2>2. n \in Nat /\ Len(HTTPRoutes(s, config)) = n + 1
    BY <2>1, RoutingSorts, HTTPRoutesAre
  <2>3. n = 0
    BY <2>2 DEF Wanted
  <2> QED
    BY <2>1, <2>3, RoutingSorts, FS_EmptySet
<1>2. ASSUME NEW v \in Values \cup {NoValue}
      PROVE  Reaches(s, v) = s /\ Meant(s, v) = s
  <2>1. Reaches(s, v) = s
    BY DEF Reaches
  <2>2. v # NoValue => {c \in Configs : config[c] # Gone /\ config[c].host = s /\ config[c].value = v} = {}
    BY <1>1 DEF Trapping
  <2>3. Meant(s, v) = s
    BY <2>2 DEF Meant
  <2> QED
    BY <2>1, <2>3
<1> QED
  BY <1>2 DEF Routed

-----------------------------------------------------------------------------
(* Types *)

LEMMA Bounds ==
    /\ MaxUid \in Nat /\ MaxEdits \in Nat /\ MaxFaults \in Nat
    /\ 0 \in 0..MaxUid /\ 1 \in 0..MaxUid /\ 0 \in 0..MaxEdits /\ 0 \in 0..MaxFaults
    /\ <<>> \in Routes
BY ConstantsAssumption DEF Routes

\* A Service is updated as it was read.
UpdatingInv == rpc \in {"list", "write"} => cs \in Services /\ csUid # 0

TypeInv == TypeOK /\ UpdatingInv

LEMMA InitType == Init => TypeInv
<1> SUFFICES ASSUME Init PROVE TypeInv
  OBVIOUS
<1>1. service \in [Services -> 0..MaxUid]
  BY Bounds DEF Init
<1> QED
  BY <1>1, Bounds DEF Init, TypeInv, TypeOK, UpdatingInv

\* Writing one VirtualService keeps the types of store and cache.
LEMMA StoreType ==
    ASSUME TypeOK, NEW s \in Services, NEW obj \in Objects \cup {Gone}, StoreVS(s, obj), seenVS' = seenVS
    PROVE  /\ vs' \in [Services -> Objects \cup {Gone}] /\ lag' \subseteq Services
           /\ \A t \in Services \ lag' : seenVS'[t] = vs'[t]
<1>1. vs' = [vs EXCEPT ![s] = obj] /\ vs' \in [Services -> Objects \cup {Gone}]
  BY DEF StoreVS, TypeOK
<1>2. CASE obj = vs[s]
  BY <1>1, <1>2 DEF StoreVS, TypeOK
<1>3. CASE obj # vs[s]
  BY <1>1, <1>3 DEF StoreVS, TypeOK
<1> QED
  BY <1>1, <1>2, <1>3

\* An update that ends leaves its variables well typed.
LEMMA LeaveType ==
    ASSUME TypeInv, Leave, UNCHANGED <<cluster, vs>>, queue' \subseteq Configs,
           seenConfig' \in [Configs -> Specs \cup {Gone}], seenService' \in [Services -> 0..MaxUid],
           seenVS' \in [Services -> Objects \cup {Gone}], lag' \subseteq Services,
           \A s \in Services \ lag' : seenVS'[s] = vs[s],
           edits' \in 0..MaxEdits, faults' \in 0..MaxFaults, restarts' \in 0..MaxFaults, fresh' \in BOOLEAN
    PROVE  TypeInv'
BY Bounds DEF TypeInv, TypeOK, UpdatingInv, Leave, DropService, cluster

LEMMA FailType ==
    ASSUME TypeInv, Fail, rpc # "idle", UNCHANGED <<cluster, vs, caches>>,
           edits' \in 0..MaxEdits, faults' \in 0..MaxFaults, restarts' \in 0..MaxFaults, fresh' \in BOOLEAN
    PROVE  TypeInv'
<1>1. rkey \in Configs
  BY DEF TypeInv, TypeOK
<1> QED
  BY <1>1, LeaveType DEF Fail, TypeInv, TypeOK, caches

\* One step of the updater keeps the types.
LEMMA UpdateType == TypeInv /\ UpdateStep /\ Watch => TypeInv'
<1> SUFFICES ASSUME TypeInv, UpdateStep, Watch PROVE TypeInv'
  OBVIOUS
<1> USE DEF cluster, caches, budget, UpdatingInv
<1>1. fresh' \in BOOLEAN /\ (UNCHANGED budget => edits' \in 0..MaxEdits /\ faults' \in 0..MaxFaults /\ restarts' \in 0..MaxFaults)
  BY DEF Watch, TypeInv, TypeOK
<1>2. ASSUME NEW s \in Services, ReadInputs(s)
      PROVE  TypeInv'
  <2>1. routes' \in Routes
    BY <1>2, HTTPRoutesAre DEF ReadInputs, TypeInv, TypeOK
  <2> QED
    BY <1>1, <1>2, <2>1 DEF ReadInputs, TypeInv, TypeOK
<1>3. ASSUME NEW s \in Services, ServiceMissing(s)
      PROVE  TypeInv'
  BY <1>1, <1>3, FailType DEF ServiceMissing
<1>4. CASE ListOwned
  BY <1>1, <1>4 DEF ListOwned, TypeInv, TypeOK, Wanted
<1>5. CASE DeleteStale
  <2>1. CASE Exists(cs)
    <3>1. cs \in Services /\ StoreVS(cs, Gone) /\ seenVS' = seenVS
      BY <1>5, <2>1 DEF DeleteStale, TypeInv
    <3>2. /\ vs' \in [Services -> Objects \cup {Gone}] /\ lag' \subseteq Services
          /\ \A t \in Services \ lag' : seenVS'[t] = vs'[t]
      BY <3>1, StoreType DEF TypeInv
    <3> QED
      BY <1>1, <1>5, <2>1, <3>2 DEF DeleteStale, TypeInv, TypeOK
  <2>2. CASE ~Exists(cs)
    BY <1>1, <1>5, <2>2, FailType DEF DeleteStale
  <2> QED
    BY <2>1, <2>2
<1>6. CASE SyncVS
  <2>1. CASE cs \notin lag \/ (seenVS[cs] = Gone /\ ~Exists(cs))
    <3> DEFINE obj == [owner |-> csUid, routes |-> routes]
    <3>1. cs \in Services /\ obj \in Objects
      BY <1>6 DEF SyncVS, TypeInv, TypeOK, Objects
    <3>2. StoreVS(cs, obj) /\ seenVS' = seenVS
      BY <1>6, <2>1 DEF SyncVS
    <3>3. /\ vs' \in [Services -> Objects \cup {Gone}] /\ lag' \subseteq Services
          /\ \A t \in Services \ lag' : seenVS'[t] = vs'[t]
      BY <3>1, <3>2, StoreType DEF TypeInv
    <3> QED
      BY <1>1, <1>6, <2>1, <3>3 DEF SyncVS, TypeInv, TypeOK
  <2>2. CASE ~(cs \notin lag \/ (seenVS[cs] = Gone /\ ~Exists(cs)))
    BY <1>1, <1>6, <2>2, FailType DEF SyncVS
  <2> QED
    BY <2>1, <2>2
<1>7. CASE ServiceDone
  BY <1>1, <1>7, Bounds DEF ServiceDone, DropService, TypeInv, TypeOK
<1>8. CASE UpdateDone
  <2>1. queue' \subseteq Configs
    BY <1>8 DEF UpdateDone, TypeInv, TypeOK
  <2> QED
    BY <1>1, <1>8, <2>1, LeaveType DEF UpdateDone, TypeInv, TypeOK
<1> QED
  BY <1>2, <1>3, <1>4, <1>5, <1>6, <1>7, <1>8 DEF UpdateStep

\* One step of users, and of faults, keeps the types.
LEMMA EnvironmentType == TypeInv /\ Environment /\ Watch => TypeInv'
<1> SUFFICES ASSUME TypeInv, Environment, Watch PROVE TypeInv'
  OBVIOUS
<1> USE DEF cluster, caches, locals, UpdatingInv
<1>1. fresh' \in BOOLEAN
  BY DEF Watch
<1>2. Edit => edits' \in 0..MaxEdits
  BY Bounds DEF Edit, TypeInv, TypeOK
<1>3. faults + restarts < MaxFaults => faults + 1 \in 0..MaxFaults /\ restarts + 1 \in 0..MaxFaults
  BY Bounds DEF TypeInv, TypeOK
<1>4. ASSUME NEW c \in Configs, UserConfig(c)
      PROVE  TypeInv'
  <2>1. PICK x \in ConfigSpecs[c] \cup {Gone} : config' = [config EXCEPT ![c] = x]
    BY <1>4 DEF UserConfig
  <2>2. x \in Specs \cup {Gone}
    BY ConstantsAssumption
  <2>3. config' \in [Configs -> Specs \cup {Gone}]
    BY <2>1, <2>2 DEF TypeInv, TypeOK
  <2> QED
    BY <1>1, <1>2, <1>4, <2>3 DEF UserConfig, TypeInv, TypeOK
<1>5. ASSUME NEW s \in Services, UserService(s)
      PROVE  TypeInv'
  <2>1. service' \in [Services -> 0..MaxUid]
    BY <1>5 DEF UserService, TypeInv, TypeOK
  <2> QED
    BY <1>1, <1>2, <1>5, <2>1 DEF UserService, TypeInv, TypeOK
<1>6. ASSUME NEW s \in Services, UserVS(s)
      PROVE  TypeInv'
  <2>1. PICK x \in {Gone, [owner |-> 0, routes |-> <<>>]} : StoreVS(s, x)
    BY <1>6 DEF UserVS
  <2>2. x \in Objects \cup {Gone}
    BY Bounds DEF Objects
  <2>3. seenVS' = seenVS
    BY <1>6 DEF UserVS
  <2>4. /\ vs' \in [Services -> Objects \cup {Gone}] /\ lag' \subseteq Services
        /\ \A t \in Services \ lag' : seenVS'[t] = vs'[t]
    BY <2>1, <2>2, <2>3, StoreType DEF TypeInv
  <2> QED
    BY <1>1, <1>2, <1>6, <2>4 DEF UserVS, TypeInv, TypeOK
<1>7. CASE ApiFault
  BY <1>1, <1>3, <1>7, FailType DEF ApiFault, TypeInv, TypeOK
<1>8. CASE Restart
  <2>1. /\ queue' \subseteq Configs /\ lag' \subseteq Services
        /\ \A s \in Services \ lag' : seenVS'[s] = vs[s]
    BY <1>8 DEF Restart, Relist
  <2>2. restarts' \in 0..MaxFaults /\ UNCHANGED <<cluster, vs, edits, faults>> /\ Leave
    BY <1>3, <1>8 DEF Restart, Relist
  <2> QED
    BY <1>1, <1>8, <2>1, <2>2, LeaveType DEF Restart, Relist, TypeInv, TypeOK
<1> QED
  BY <1>4, <1>5, <1>6, <1>7, <1>8 DEF Environment

\* Every step keeps the types.
LEMMA NextType == TypeInv /\ [Next]_vars => TypeInv'
<1> SUFFICES ASSUME TypeInv, [Next]_vars PROVE TypeInv'
  OBVIOUS
<1> USE DEF cluster, caches, locals, budget, UpdatingInv
<1>1. CASE UNCHANGED vars
  BY <1>1 DEF TypeInv, TypeOK, vars
<1>2. Watch => fresh' \in BOOLEAN
  BY DEF Watch
<1>3. ASSUME NEW c \in Configs, Reconcile(c), Watch
      PROVE  TypeInv'
  <2>1. toUpdate' \subseteq Services /\ c # Gone
    BY <1>3, ConstantsAssumption DEF Reconcile, TypeInv, TypeOK, Specs
  <2> QED
    BY <1>2, <1>3, <2>1 DEF Reconcile, TypeInv, TypeOK
<1>4. ASSUME NEW c \in Configs, SyncConfig(c) \/ Resync(c), Watch
      PROVE  TypeInv'
  BY <1>2, <1>4 DEF SyncConfig, Resync, TypeInv, TypeOK
<1>5. ASSUME NEW s \in Services, SyncService(s), Watch
      PROVE  TypeInv'
  BY <1>2, <1>5 DEF SyncService, TypeInv, TypeOK
<1>6. ASSUME NEW s \in Services, SyncSeenVS(s), Watch
      PROVE  TypeInv'
  BY <1>2, <1>6 DEF SyncSeenVS, TypeInv, TypeOK
<1>7. ASSUME NEW s \in Services, Collect(s), Watch
      PROVE  TypeInv'
  <2>1. /\ vs' \in [Services -> Objects \cup {Gone}] /\ lag' \subseteq Services
        /\ \A t \in Services \ lag' : seenVS'[t] = vs'[t]
    BY <1>7, StoreType DEF Collect, TypeInv
  <2> QED
    BY <1>2, <1>7, <2>1 DEF Collect, TypeInv, TypeOK
<1> QED
  BY <1>1, <1>3, <1>4, <1>5, <1>6, <1>7, UpdateType, EnvironmentType DEF Next, Watched, Step

LEMMA TypeInvariant == Spec => []TypeInv
BY InitType, NextType, PTL DEF Spec

\* Every reachable state is well typed, and a cached VirtualService differs from
\* the stored one only where the cache lags (every action that writes one).
THEOREM TypeCorrect == Spec => []TypeOK
<1>1. TypeInv => TypeOK
  BY DEF TypeInv
<1> QED
  BY <1>1, TypeInvariant, PTL

-----------------------------------------------------------------------------
(* An undisturbed update *)

\* Only a user's VirtualService has no owner, and it routes nothing.
ManualInv == \A s \in Services : Exists(s) /\ vs[s].owner = 0 => vs[s].routes = <<>>

\* While an update is fresh it has what is stored, and once it has listed what
\* its Service owns, there is only left to do what is still to be done.
UpdateInv ==
    fresh =>
        /\ rpc \in {"list", "write"}
        /\ csUid = service[cs] /\ routes = HTTPRoutes(cs, config)
        /\ rpc = "write" =>
             /\ stale => ~Wanted(routes)
             /\ todo => Wanted(routes)
             /\ ~todo /\ Wanted(routes) => vs[cs] = [owner |-> csUid, routes |-> routes]
             /\ ~stale /\ ~Wanted(routes) => ~Exists(cs) \/ vs[cs].owner = 0

RouteInv == ManualInv /\ UpdateInv

\* What is written is a user's, the update's or nothing.
LEMMA Writes ==
    ASSUME TypeInv, [Next]_vars
    PROVE  \/ vs' = vs
           \/ \E s \in Services : vs' = [vs EXCEPT ![s] = Gone]
           \/ \E s \in Services : vs' = [vs EXCEPT ![s] = [owner |-> 0, routes |-> <<>>]]
           \/ /\ rpc = "write" /\ cs \in Services /\ csUid # 0
              /\ vs' = [vs EXCEPT ![cs] = [owner |-> csUid, routes |-> routes]]
<1> USE DEF StoreVS
<1>1. rpc = "write" => cs \in Services /\ csUid # 0
  BY DEF TypeInv, UpdatingInv
<1>2. CASE UNCHANGED vars
  BY <1>2 DEF vars
<1>3. CASE UpdateStep
  BY <1>1, <1>3 DEF UpdateStep, ReadInputs, ServiceMissing, ListOwned, DeleteStale, SyncVS, ServiceDone, UpdateDone
<1>4. ASSUME NEW s \in Services, UserVS(s)
      PROVE  \/ vs' = [vs EXCEPT ![s] = Gone]
             \/ vs' = [vs EXCEPT ![s] = [owner |-> 0, routes |-> <<>>]]
  BY <1>4 DEF UserVS
<1>5. ASSUME NEW s \in Services, UserService(s) \/ SyncService(s) \/ SyncSeenVS(s) \/ Collect(s)
      PROVE  vs' = vs \/ vs' = [vs EXCEPT ![s] = Gone]
  BY <1>5 DEF UserService, SyncService, SyncSeenVS, Collect
<1>6. ASSUME NEW c \in Configs, UserConfig(c) \/ Reconcile(c) \/ SyncConfig(c) \/ Resync(c)
      PROVE  vs' = vs
  BY <1>6 DEF UserConfig, Reconcile, SyncConfig, Resync
<1>7. CASE ApiFault \/ Restart
  BY <1>7 DEF ApiFault, Restart, Relist
<1> QED
  BY <1>2, <1>3, <1>4, <1>5, <1>6, <1>7 DEF Next, Watched, Step, Environment

LEMMA NextManual ==
    ASSUME TypeInv, ManualInv, [Next]_vars
    PROVE  ManualInv'
<1>1. SUFFICES ASSUME NEW s \in Services, Exists(s)', vs'[s].owner = 0
               PROVE  vs'[s].routes = <<>>
  BY DEF ManualInv
<1>2. vs \in [Services -> Objects \cup {Gone}]
  BY DEF TypeInv, TypeOK
<1>3. CASE vs'[s] = vs[s]
  BY <1>1, <1>3 DEF ManualInv, Exists
<1>4. CASE vs'[s] # vs[s]
  BY <1>1, <1>2, <1>4, Writes DEF Exists
<1> QED
  BY <1>3, <1>4

(* The steps that keep an update fresh *)

Begins ==
    /\ cs' \in Services /\ csUid' = service'[cs'] /\ routes' = HTTPRoutes(cs', config')
    /\ rpc' = "list"

Listed ==
    /\ fresh /\ ListOwned

Aside == fresh /\ rpc \in {"list", "write"} /\ UNCHANGED <<cluster, vs, rpc, locals>>

Deleted ==
    /\ fresh /\ rpc = "write" /\ stale /\ Exists(cs)
    /\ vs' = [vs EXCEPT ![cs] = Gone] /\ stale' = FALSE
    /\ UNCHANGED <<cluster, rpc, cs, csUid, routes, todo>>

Synced ==
    /\ fresh /\ rpc = "write" /\ todo
    /\ vs' = [vs EXCEPT ![cs] = [owner |-> csUid, routes |-> routes]] /\ todo' = FALSE
    /\ UNCHANGED <<cluster, rpc, cs, csUid, routes, stale>>

\* There are no others: someone else's write changes the VirtualServices, and
\* leaves what the updater has still to do.
LEMMA FreshSteps ==
    ASSUME TypeInv, UpdateInv, [Next]_vars, fresh'
    PROVE  Begins \/ Listed \/ Aside \/ Deleted \/ Synced
<1> USE DEF cluster, caches, locals, budget
<1>1. CASE UNCHANGED vars
  BY <1>1 DEF Aside, vars, UpdateInv
<1>2. CASE ~UNCHANGED vars
  <2>1. Step /\ Watch
    BY <1>2 DEF Next, Watched
  <2>2. /\ rpc' \in {"list", "write"}
        /\ rpc = "read" => seenConfig = config /\ csUid' = service[cs']
        /\ rpc # "read" => fresh /\ cluster' = cluster /\ (vs' = vs \/ <<stale, todo>>' # <<stale, todo>>)
    BY <2>1 DEF Watch
  <2>3. rpc # "read" => rpc \in {"list", "write"}
    BY <2>2 DEF UpdateInv
  <2>4. ~Leave
    BY <2>2 DEF Leave
  <2>5. ASSUME UNCHANGED locals, rpc' = rpc
        PROVE  Aside
    BY <2>2, <2>3, <2>5 DEF Aside
  <2>6. ASSUME NEW s \in Services, ReadInputs(s) \/ ServiceMissing(s)
        PROVE  Begins
    BY <2>2, <2>4, <2>6 DEF ReadInputs, ServiceMissing, Fail, Begins
  <2>7. CASE ListOwned
    BY <2>2, <2>7 DEF ListOwned, Listed
  <2>8. CASE DeleteStale
    BY <2>2, <2>4, <2>8 DEF DeleteStale, StoreVS, Fail, Deleted
  <2>9. CASE SyncVS
    BY <2>2, <2>4, <2>9 DEF SyncVS, StoreVS, Fail, Synced
  <2>10. CASE ServiceDone \/ UpdateDone
    BY <2>2, <2>4, <2>10 DEF ServiceDone, UpdateDone
  <2>11. CASE Environment
    BY <2>4, <2>5, <2>11 DEF Environment, UserConfig, UserService, UserVS, ApiFault, Restart, Relist, Fail
  <2>12. ASSUME NEW c \in Configs, Reconcile(c) \/ SyncConfig(c) \/ Resync(c)
         PROVE  Aside
    BY <2>2, <2>5, <2>12 DEF Reconcile, SyncConfig, Resync
  <2>13. ASSUME NEW s \in Services, SyncService(s) \/ SyncSeenVS(s) \/ Collect(s)
         PROVE  Aside
    BY <2>5, <2>13 DEF SyncService, SyncSeenVS, Collect
  <2> QED
    BY <2>1, <2>6, <2>7, <2>8, <2>9, <2>10, <2>11, <2>12, <2>13 DEF Step, UpdateStep
<1> QED
  BY <1>1, <1>2

LEMMA NextUpdate ==
    ASSUME TypeInv, UpdateInv, [Next]_vars
    PROVE  UpdateInv'
<1>1. SUFFICES ASSUME fresh' PROVE UpdateInv'
  BY DEF UpdateInv
<1>2. /\ rpc \in {"list", "write"} => cs \in Services
      /\ vs \in [Services -> Objects \cup {Gone}] /\ stale \in BOOLEAN /\ todo \in BOOLEAN
  BY DEF TypeInv, TypeOK, UpdatingInv
<1> USE DEF cluster, locals
<1>3. CASE Begins
  BY <1>3 DEF Begins, UpdateInv
<1>4. CASE Listed
  <2>1. Wanted(routes) \in BOOLEAN
    BY DEF Wanted
  <2> QED
    BY <1>2, <1>4, <2>1 DEF Listed, ListOwned, UpdateInv, Exists
<1>5. CASE Aside
  BY <1>5 DEF Aside, UpdateInv, Exists
<1>6. CASE Deleted
  <2>1. vs'[cs] = Gone
    BY <1>2, <1>6 DEF Deleted
  <2> QED
    BY <1>6, <2>1 DEF Deleted, UpdateInv, Exists
<1>7. CASE Synced
  <2>1. vs'[cs] = [owner |-> csUid, routes |-> routes] /\ Wanted(routes)
    BY <1>2, <1>7 DEF Synced, UpdateInv
  <2> QED
    BY <1>7, <2>1 DEF Synced, UpdateInv, Exists
<1> QED
  BY <1>1, <1>3, <1>4, <1>5, <1>6, <1>7, FreshSteps

LEMMA UpdateInvariant == Spec => [](TypeInv /\ RouteInv)
<1>1. Init => TypeInv /\ RouteInv
  BY InitType DEF Init, RouteInv, ManualInv, UpdateInv, Exists
<1>2. TypeInv /\ RouteInv /\ [Next]_vars => (TypeInv /\ RouteInv)'
  BY NextType, NextManual, NextUpdate DEF RouteInv
<1> QED
  BY <1>1, <1>2, PTL DEF Spec

\* An update of a Service that had the stored inputs and was not disturbed
\* leaves every request to it going where the VSConfigs mean it to go, and its
\* VirtualService under its own incarnation (ReadInputs to ServiceDone).
THEOREM UpdateRoutes == Spec => []RoutedWhenDone
<1>1. TypeInv /\ RouteInv => RoutedWhenDone
  <2> SUFFICES ASSUME TypeInv, RouteInv, rpc = "write", ~stale, ~todo, fresh
               PROVE  Routed(cs) /\ (Wanted(routes) => vs[cs].owner = service[cs])
    BY DEF RoutedWhenDone
  <2>1. /\ cs \in Services /\ config \in [Configs -> Specs \cup {Gone}]
        /\ routes = HTTPRoutes(cs, config) /\ csUid = service[cs]
    BY DEF TypeInv, TypeOK, UpdatingInv, RouteInv, UpdateInv
  <2>2. CASE Wanted(routes)
    <3>1. vs[cs] = [owner |-> csUid, routes |-> routes]
      BY <2>2 DEF RouteInv, UpdateInv
    <3>2. [owner |-> csUid, routes |-> routes] \in Objects
      BY DEF TypeInv, TypeOK, Objects
    <3>3. Exists(cs) /\ vs[cs].routes = routes /\ vs[cs].owner = csUid
      BY <3>1, <3>2, ConstantsAssumption DEF Exists
    <3> QED
      BY <2>1, <3>3, RoutesReach
  <2>3. CASE ~Wanted(routes)
    <3>1. Exists(cs) => vs[cs].routes = <<>>
      BY <2>1, <2>3 DEF RouteInv, UpdateInv, ManualInv
    <3> QED
      BY <2>1, <2>3, <3>1, NoRoutesReach
  <2> QED
    BY <2>2, <2>3
<1> QED
  BY <1>1, UpdateInvariant, PTL
=============================================================================
