--------------------------- MODULE ForkManifestProofs --------------------------
(***************************************************************************)
(* What "kubeforkctl manifest" guarantees for any cluster, names and label *)
(* options: its types, that a Fork it prints chooses among Services, that  *)
(* every container of the image in what will be copied is switched unless  *)
(* it alone is pinned, and that the selectors printed mean what the        *)
(* options say.                                                            *)
(***************************************************************************)
EXTENDS ForkManifest, FiniteSetTheorems, TLAPS

Operators == {"NotIn", "Exists", "DoesNotExist"}

\* The forms of a requirement; a selector's have one of three operators.
LEMMA RequirementForms ==
    ASSUME NEW t
    PROVE  Requirement(t).op \in Operators \cup {"Equals", "invalid"}
BY DEF Requirement, Operators

LEMMA SelectorForms ==
    ASSUME NEW opts, NEW named, \A i \in DOMAIN opts : Requirement(opts[i]).op # "invalid"
    PROVE  \A r \in NewSelector(opts, named).reqs : r.op \in Operators
<1> SUFFICES ASSUME NEW i \in DOMAIN opts \ Equals(opts)
             PROVE  Requirement(opts[i]).op \in Operators
  BY DEF NewSelector
<1> QED
  BY RequirementForms DEF Equals

-----------------------------------------------------------------------------
(* Types *)

ScanPhase == {"scan", "manifest"}

\* A selector is what the cluster and the options give.
Chosen(kind, name, opts, sel) ==
    Selection(kind, name, opts).end = "ok" /\ sel = Selection(kind, name, opts).selector

SelectorInv ==
    /\ <<serviceLabel, deploymentLabel>> \in LabelOptions
    /\ pc \in {"deployment", "list"} \cup ScanPhase => Chosen(Services, serviceName, serviceLabel, serviceSelector)
    /\ pc \in {"list"} \cup ScanPhase => Chosen(Deployments, deploymentName, deploymentLabel, deploymentSelector)
    /\ pc \in ScanPhase => ~Refused(serviceSelector)

\* What has been scanned has been collected.
ScanInv ==
    /\ pc \in ScanPhase =>
         /\ toScan \subseteq SelectedServices
         /\ \A s \in SelectedServices \ toScan : Found(s) \subseteq containers /\ ~Refused(Behind(s))
    /\ pc = "manifest" => toScan = {}

Inv == TypeOK /\ SelectorInv /\ ScanInv

LEMMA InitInv == Init => Inv
BY ConstantsAssumption DEF Init, Inv, TypeOK, SelectorInv, ScanInv, ScanPhase

\* The command reads its options and the cluster as they are.
LEMMA Constant == [Next]_vars => UNCHANGED <<cluster, options>>
BY DEF Next, vars, ServiceSelector, DeploymentSelector, ListServices, OutputManifest, ScanService, ScanRefused

LEMMA ChoiceStays ==
    ASSUME UNCHANGED <<cluster, options>>
    PROVE  /\ Selection(Services, serviceName, serviceLabel)' = Selection(Services, serviceName, serviceLabel)
           /\ Selection(Deployments, deploymentName, deploymentLabel)' =
                Selection(Deployments, deploymentName, deploymentLabel)
           /\ UNCHANGED serviceSelector => UNCHANGED SelectedServices
           /\ UNCHANGED deploymentSelector => \A s \in Services : UNCHANGED <<Found(s), Behind(s)>>
BY DEF options, Selection, SelectedServices, Found, Behind, Switchable

LEMMA NextInv == Inv /\ [Next]_vars => Inv'
<1> SUFFICES ASSUME Inv, [Next]_vars PROVE Inv'
  OBVIOUS
<1>1. UNCHANGED <<cluster, options>>
  BY Constant
<1> USE DEF ScanPhase, options
<1>2. CASE UNCHANGED vars
  <2>1. NewFork' = NewFork
    BY <1>2 DEF vars, NewFork, NewContainers
  <2> QED
    BY <1>1, <1>2, <2>1, ChoiceStays DEF vars, Inv, TypeOK, SelectorInv, ScanInv, Chosen, SelectedServices
<1>3. CASE ServiceSelector
  <2>1. pc' \in {"deployment", "error", "panic"}
    BY <1>3 DEF ServiceSelector, Continue, Selection, Ends
  <2>2. pc' = "deployment" => Chosen(Services, serviceName, serviceLabel, serviceSelector)'
    <3>1. PICK sel : sel = Selection(Services, serviceName, serviceLabel)
      OBVIOUS
    <3>2. Selection(Services, serviceName, serviceLabel)' = sel
      BY <1>1, <3>1, ChoiceStays
    <3>3. serviceSelector' = sel.selector /\ (pc' = "deployment" => sel.end = "ok")
      BY <1>3, <3>1 DEF ServiceSelector, Continue, Selection, Ends
    <3> QED
      BY <3>2, <3>3 DEF Chosen
  <2> QED
    BY <1>1, <1>3, <2>1, <2>2 DEF ServiceSelector, Inv, TypeOK, SelectorInv, ScanInv
<1>4. CASE DeploymentSelector
  <2>1. pc' \in {"list", "error", "panic"}
    BY <1>4 DEF DeploymentSelector, Continue, Selection, Ends
  <2>2. pc' = "list" => Chosen(Deployments, deploymentName, deploymentLabel, deploymentSelector)'
    <3>1. PICK sel : sel = Selection(Deployments, deploymentName, deploymentLabel)
      OBVIOUS
    <3>2. Selection(Deployments, deploymentName, deploymentLabel)' = sel
      BY <1>1, <3>1, ChoiceStays
    <3>3. deploymentSelector' = sel.selector /\ (pc' = "list" => sel.end = "ok")
      BY <1>4, <3>1 DEF DeploymentSelector, Continue, Selection, Ends
    <3> QED
      BY <3>2, <3>3 DEF Chosen
  <2>3. Chosen(Services, serviceName, serviceLabel, serviceSelector)'
    BY <1>1, <1>4, ChoiceStays DEF DeploymentSelector, Inv, SelectorInv, Chosen
  <2> QED
    BY <1>1, <1>4, <2>1, <2>2, <2>3 DEF DeploymentSelector, Inv, TypeOK, SelectorInv, ScanInv
<1>5. ASSUME pc # "service", pc # "deployment", UNCHANGED <<serviceSelector, deploymentSelector>>,
             pc \in {"list"} \cup ScanPhase, pc' \in ScanPhase => ~Refused(serviceSelector)
      PROVE  SelectorInv'
  <2>1. /\ <<serviceLabel, deploymentLabel>>' \in LabelOptions
        /\ Chosen(Services, serviceName, serviceLabel, serviceSelector)'
        /\ Chosen(Deployments, deploymentName, deploymentLabel, deploymentSelector)'
    BY <1>1, <1>5, ChoiceStays DEF Inv, SelectorInv, Chosen
  <2> QED
    BY <1>5, <2>1 DEF SelectorInv
<1>6. CASE ListServices
  <2>1. SelectorInv'
    BY <1>5, <1>6 DEF ListServices
  <2>2. SelectedServices' = SelectedServices /\ SelectedServices \subseteq cluster \cap Services
    BY <1>1, <1>6, ChoiceStays DEF ListServices, SelectedServices
  <2> QED
    BY <1>1, <1>6, <2>1, <2>2 DEF ListServices, Inv, TypeOK, ScanInv
<1>7. CASE OutputManifest
  <2>1. SelectorInv'
    BY <1>5, <1>7 DEF OutputManifest, Inv, SelectorInv
  <2>2. SelectedServices' = SelectedServices /\ NewFork' = NewFork
    BY <1>1, <1>7, ChoiceStays DEF OutputManifest, SelectedServices, NewFork, NewContainers
  <2>3. \A s \in SelectedServices : UNCHANGED <<Found(s), Behind(s)>>
    BY <1>1, <1>7, ChoiceStays DEF OutputManifest, SelectedServices
  <2>4. ScanInv'
    BY <1>7, <2>2, <2>3 DEF OutputManifest, Inv, ScanInv
  <2> QED
    BY <1>1, <1>7, <2>1, <2>2, <2>4 DEF OutputManifest, Inv, TypeOK
<1>8. ASSUME NEW s \in Services, ScanService(s)
      PROVE  Inv'
  <2>1. SelectorInv'
    BY <1>5, <1>8 DEF ScanService, Inv, SelectorInv
  <2>2. SelectedServices' = SelectedServices
    BY <1>1, <1>8, ChoiceStays DEF ScanService
  <2>3. \A r \in SelectedServices : UNCHANGED <<Found(r), Behind(r)>> /\ r \in Services
    BY <1>1, <1>8, ChoiceStays DEF ScanService, SelectedServices
  <2>4. ScanInv'
    BY <1>8, <2>2, <2>3 DEF ScanService, Inv, ScanInv
  <2>5. Found(s) \subseteq {c.name : c \in UNION {d.containers : d \in cluster \cap Deployments}}
    BY DEF Found, Switchable
  <2> QED
    BY <1>1, <1>8, <2>1, <2>4, <2>5 DEF ScanService, Inv, TypeOK
<1>9. ASSUME NEW s \in Services, ScanRefused(s)
      PROVE  Inv'
  BY <1>1, <1>9 DEF ScanRefused, Inv, TypeOK, SelectorInv, ScanInv
<1> QED
  BY <1>2, <1>3, <1>4, <1>6, <1>7, <1>8, <1>9 DEF Next

LEMMA Invariant == Spec => []Inv
BY InitInv, NextInv, PTL DEF Spec

\* Every reachable state is well typed: only Services of the Fork's namespace
\* are scanned and only containers found there are switched (every request).
THEOREM TypeCorrect == Spec => []TypeOK
<1>1. Inv => TypeOK
  BY DEF Inv
<1> QED
  BY <1>1, Invariant, PTL

-----------------------------------------------------------------------------
(* The Fork that is printed *)

\* No selector that the API server takes matches all labels.
LEMMA TakenChooses ==
    ASSUME NEW sel, ~Refused(sel), \A r \in sel.reqs : r.op \in Operators
    PROVE  \E lb \in Labels : ~Matches(sel, lb)
<1>1. ASSUME NEW K \in SUBSET Keys, NEW f \in [K -> LabelValues]
      PROVE  f \in Labels
  BY DEF Labels
<1> DEFINE none == [k \in {} |-> Empty]
<1>2. none \in Labels
  <2>1. none \in [{} -> LabelValues] /\ {} \in SUBSET Keys
    OBVIOUS
  <2> HIDE DEF none
  <2> QED
    BY <1>1, <2>1
<1>3. CASE DOMAIN sel.labels # {}
  <2>1. ~Matches(sel, none)
    BY <1>3 DEF Matches, Has
  <2> QED
    BY <1>2, <2>1
<1>4. ASSUME NEW r \in sel.reqs
      PROVE  \E lb \in Labels : ~Matches(sel, lb)
  <2>1. r.key \in Keys /\ r.value \in LabelValues /\ r.op \in Operators
    BY DEF Refused, Invalid
  <2> DEFINE with == [k \in {r.key} |-> r.value]
  <2>2. with \in Labels
    <3>1. {r.key} \in SUBSET Keys /\ with \in [{r.key} -> LabelValues]
      BY <2>1
    <3> HIDE DEF with
    <3> QED
      BY <1>1, <3>1
  <2>3. CASE r.op = "Exists"
    <3>1. ~Matches(sel, none)
      BY <2>3 DEF Matches
    <3> QED
      BY <1>2, <3>1
  <2>4. CASE r.op \in {"NotIn", "DoesNotExist"}
    <3>1. ~Matches(sel, with)
      BY <2>4 DEF Matches, Has
    <3> QED
      BY <2>2, <3>1
  <2> QED
    BY <2>1, <2>3, <2>4 DEF Operators
<1> QED
  BY <1>3, <1>4 DEF Refused

\* A Fork is printed only when its options choose among Services (Refused by
\* the API server when they do not).
THEOREM ChoosesAmongServices == Spec => []NeverAllServices
<1>1. Inv => NeverAllServices
  <2> SUFFICES ASSUME Inv, pc = "manifest" PROVE \E lb \in Labels : ~Matches(manifest.services, lb)
    BY DEF NeverAllServices
  <2>1. manifest.services = serviceSelector /\ ~Refused(serviceSelector)
        /\ Chosen(Services, serviceName, serviceLabel, serviceSelector)
    BY DEF Inv, TypeOK, NewFork, SelectorInv, ScanPhase
  <2>2. \A r \in serviceSelector.reqs : r.op \in Operators
    <3>1. \A i \in DOMAIN serviceLabel : Requirement(serviceLabel[i]).op # "invalid"
      BY <2>1 DEF Chosen, Selection, Ends
    <3>2. PICK labels : serviceSelector = NewSelector(serviceLabel, labels)
      BY <2>1 DEF Chosen, Selection
    <3> QED
      BY <3>1, <3>2, SelectorForms
  <2> QED
    BY <2>1, <2>2, TakenChooses
<1> QED
  BY <1>1, Invariant, PTL

\* Texts of references to one repository agree up to the first colon when both
\* are pinned or neither is (strings.Split in Switchable).
LEMMA StemsAgree ==
    ASSUME NEW i, NEW j, SameRepository(i, j), i.pinned = j.pinned
    PROVE  Stem(i) = Stem(j)
BY DEF SameRepository, Stem

\* Where Pods are labelled as their Deployment every container of the image, its
\* version given as the option gives it, in what will be copied is switched,
\* although the command looks Deployments up by other selectors than the
\* controller (ScanService for each Service) and compares texts.
THEOREM SwitchesEveryMatch == Spec => []EveryMatchingSwitched
<1>1. Inv => EveryMatchingSwitched
  <2> SUFFICES ASSUME Inv, pc = "manifest", \A d \in cluster \cap Deployments : d.pods = d.labels,
                      NEW d \in Copied, NEW c \in d.containers,
                      SameRepository(c.image, image), c.image.pinned = image.pinned
               PROVE  c.name \in Switched
    BY DEF EveryMatchingSwitched
  <2>1. /\ manifest = [services |-> serviceSelector, deployments |-> deploymentSelector,
                       containers |-> {[name |-> x, image |-> image] : x \in containers}]
        /\ \A s \in SelectedServices : Found(s) \subseteq containers
    BY DEF Inv, TypeOK, NewFork, NewContainers, ScanInv, ScanPhase
  <2>2. PICK s \in SelectedServices : \A k \in DOMAIN s.selector : Has(d.pods, k, s.selector[k])
    BY DEF Copied
  <2>3. d \in cluster \cap Deployments /\ d.pods = d.labels /\ Matches(deploymentSelector, d.labels)
    BY <2>1 DEF Copied
  <2>4. Matches(Behind(s), d.labels)
    BY <2>2, <2>3 DEF Matches, Behind, Merge, Has
  <2>5. c.name \in Switchable(d)
    BY StemsAgree DEF Switchable
  <2>6. c.name \in containers
    BY <2>1, <2>3, <2>4, <2>5 DEF Found
  <2>7. [name |-> c.name, image |-> image] \in manifest.containers
    BY <2>1, <2>6
  <2> QED
    BY <2>7 DEF Switched
<1> QED
  BY <1>1, Invariant, PTL

-----------------------------------------------------------------------------
(* What the selectors mean *)

LEMMA PlacesOfOne ==
    ASSUME NEW t \in Texts, NEW c
    PROVE  Places(t, <<c>>) = {i \in 1..Len(t) : t[i] = c}
<1>1. ASSUME NEW i \in 1..Len(t)
      PROVE  (\A j \in 1..Len(<<c>>) : i + j - 1 <= Len(t) /\ t[i + j - 1] = <<c>>[j]) <=> t[i] = c
  <2>1. Len(t) \in Nat
    BY DEF Texts
  <2>2. 1..Len(<<c>>) = {1} /\ <<c>>[1] = c /\ i + 1 - 1 = i /\ i <= Len(t)
    BY <2>1
  <2> QED
    BY <2>2
<1> QED
  BY <1>1 DEF Places

LEMMA PlacesOfTwo ==
    ASSUME NEW t \in Texts, NEW c, NEW d
    PROVE  Places(t, <<c, d>>) = {i \in 1..Len(t) : i + 1 <= Len(t) /\ t[i] = c /\ t[i + 1] = d}
<1>1. ASSUME NEW i \in 1..Len(t)
      PROVE  (\A j \in 1..Len(<<c, d>>) : i + j - 1 <= Len(t) /\ t[i + j - 1] = <<c, d>>[j])
               <=> i + 1 <= Len(t) /\ t[i] = c /\ t[i + 1] = d
  <2>1. Len(t) \in Nat
    BY DEF Texts
  <2>2. /\ 1..Len(<<c, d>>) = {1, 2} /\ <<c, d>>[1] = c /\ <<c, d>>[2] = d
        /\ i + 1 - 1 = i /\ i + 2 - 1 = i + 1 /\ i <= Len(t)
    BY <2>1
  <2> QED
    BY <2>2
<1> QED
  BY <1>1 DEF Places

\* Where a text splits in one place, it is Place.
LEMMA OnePlace ==
    ASSUME NEW t \in Texts, NEW sep
    PROVE  /\ Splits(t, sep) = 0 => Places(t, sep) = {}
           /\ Splits(t, sep) = 1 => Place(t, sep) \in Places(t, sep) /\ Places(t, sep) = {Place(t, sep)}
<1>1. PICK S : S = Places(t, sep)
  OBVIOUS
<1>2. IsFiniteSet(S)
  <2>1. IsFiniteSet(1..Len(t))
    BY FS_Interval DEF Texts
  <2>2. S \in SUBSET (1..Len(t))
    BY <1>1 DEF Places
  <2> QED
    BY <2>1, <2>2, FS_Subset
<1>3. (Cardinality(S) = 0 => S = {}) /\ (Cardinality(S) = 1 => \E x : S = {x})
  BY <1>2, FS_EmptySet, FS_Singleton
<1> QED
  BY <1>1, <1>3 DEF Splits, Place

LEMMA Words ==
    ASSUME NEW t, NEW a \in Int, NEW b \in Int
    PROVE  /\ Word(t, a, b) \in Keys => a = b /\ Word(t, a, b) = t[a]
           /\ Word(t, a, b) \in LabelValues =>
                (a > b /\ Word(t, a, b) = Empty) \/ (a = b /\ Word(t, a, b) = t[a])
<1>1. "?" \notin Keys /\ "?" \notin Values /\ Empty \notin Keys
  BY ConstantsAssumption
<1>2. "?" # Empty
  BY DEF Empty
<1> QED
  BY <1>1, <1>2 DEF Word, LabelValues

\* A text that is taken for !<key> although something precedes the "!".
Stray(t) == Requirement(t).op = "DoesNotExist" /\ t[1] # "!"

\* What a requirement asks of labels.
Asks(r, lb) ==
    /\ r.op = "NotIn" => ~Has(lb, r.key, r.value)
    /\ r.op = "Exists" => r.key \in DOMAIN lb
    /\ r.op = "DoesNotExist" => r.key \notin DOMAIN lb
    /\ r.op = "Equals" => Has(lb, r.key, r.value)

\* An option that is well formed asks what it says, and sets the label that an
\* Equals requirement names.
LEMMA AsksWhatItSays ==
    ASSUME NEW t \in Texts, NEW lb, Requirement(t).op # "invalid", Requirement(t).key \in Keys, ~Stray(t)
    PROVE  /\ \A k : Sets(t, k) <=> Requirement(t).op = "Equals" /\ k = Requirement(t).key
           /\ Requirement(t).value \in LabelValues => (Says(t, lb) <=> Asks(Requirement(t), lb))
<1> PICK n, e, x : n = Place(t, <<"!", "=">>) /\ e = Place(t, <<"=">>) /\ x = Place(t, <<"!">>)
  OBVIOUS
<1>1. Len(t) \in Nat /\ DOMAIN t = 1..Len(t)
  BY DEF Texts
<1>2. "!" \notin Keys /\ "=" \notin Keys /\ "!" \notin LabelValues /\ "=" \notin LabelValues
  BY ConstantsAssumption DEF LabelValues, Empty
<1>3. CASE Splits(t, <<"!", "=">>) = 1
  <2>1. n \in 1..Len(t) /\ n + 1 <= Len(t) /\ t[n] = "!" /\ t[n + 1] = "="
    BY <1>3, OnePlace, PlacesOfTwo
  <2>2. Requirement(t).op = "NotIn" /\ Requirement(t).key = Word(t, 1, n - 1)
        /\ Requirement(t).value = Word(t, n + 2, Len(t))
    BY <1>3 DEF Requirement
  <2>3. n = 2 /\ Requirement(t).key = t[1]
    BY <1>1, <2>1, <2>2, Words
  <2>4. Len(t) >= 3 /\ t[2] = "!" /\ t[3] = "="
    BY <1>1, <2>1, <2>3
  <2>5. \A k : ~Sets(t, k)
    BY <2>4 DEF Sets
  <2>6. ASSUME Requirement(t).value \in LabelValues
        PROVE  Says(t, lb) <=> ~Has(lb, t[1], Requirement(t).value)
    <3>1. Len(t) \in {3, 4} /\ Requirement(t).value = Value(t, 4)
      BY <1>1, <2>2, <2>3, <2>4, <2>6, Words DEF Value
    <3> QED
      BY <2>4, <3>1 DEF Says
  <2> QED
    BY <2>2, <2>3, <2>5, <2>6 DEF Asks
<1>4. CASE Splits(t, <<"!", "=">>) # 1 /\ Splits(t, <<"=">>) = 0 /\ Splits(t, <<"!">>) = 0
  <2>1. Requirement(t).op = "Exists" /\ Requirement(t).key = Word(t, 1, Len(t))
    BY <1>4 DEF Requirement
  <2>2. Len(t) = 1 /\ Requirement(t).key = t[1]
    BY <1>1, <2>1, Words
  <2>3. Says(t, lb) <=> t[1] \in DOMAIN lb
    BY <2>2 DEF Says
  <2> QED
    BY <2>1, <2>2, <2>3 DEF Sets, Asks
<1>5. CASE Splits(t, <<"!", "=">>) # 1 /\ Splits(t, <<"=">>) = 0 /\ Splits(t, <<"!">>) = 1
  <2>1. Requirement(t).op = "DoesNotExist" /\ Requirement(t).key = Word(t, x + 1, Len(t))
    BY <1>5 DEF Requirement
  <2>2. x \in 1..Len(t) /\ t[x] = "!" /\ \A i \in 1..Len(t) : t[i] = "!" => i = x
    BY <1>5, OnePlace, PlacesOfOne
  <2>3. t[1] = "!" /\ x = 1
    BY <1>1, <2>1, <2>2 DEF Stray
  <2>4. Len(t) = 2 /\ Requirement(t).key = t[2]
    BY <1>1, <2>1, <2>3, Words
  <2>5. t[2] # "="
    BY <1>2, <2>4
  <2>6. Says(t, lb) <=> t[2] \notin DOMAIN lb
    BY <2>3, <2>4, <2>5 DEF Says
  <2> QED
    BY <2>1, <2>4, <2>5, <2>6 DEF Sets, Asks
<1>6. CASE Splits(t, <<"!", "=">>) # 1 /\ Splits(t, <<"=">>) = 1 /\ Splits(t, <<"!">>) = 0
  <2>1. /\ Requirement(t).op = "Equals" /\ Requirement(t).key = Word(t, 1, e - 1)
        /\ Requirement(t).value = Word(t, e + 1, Len(t))
    BY <1>6 DEF Requirement
  <2>2. e \in 1..Len(t) /\ t[e] = "="
    BY <1>6, OnePlace, PlacesOfOne
  <2>3. e = 2 /\ Requirement(t).key = t[1]
    BY <1>1, <2>1, <2>2, Words
  <2>4. Len(t) >= 2 /\ t[2] = "="
    BY <1>1, <2>2, <2>3
  <2>5. \A k : Sets(t, k) <=> k = t[1]
    BY <1>1, <2>4 DEF Sets
  <2>6. ASSUME Requirement(t).value \in LabelValues
        PROVE  Says(t, lb) <=> Has(lb, t[1], Requirement(t).value)
    <3>1. Len(t) \in {2, 3} /\ Requirement(t).value = Value(t, 3)
      BY <1>1, <2>1, <2>3, <2>4, <2>6, Words DEF Value
    <3> QED
      BY <1>2, <2>3, <2>4, <3>1 DEF Says
  <2> QED
    BY <2>1, <2>3, <2>5, <2>6 DEF Asks
<1>7. \/ Splits(t, <<"!", "=">>) = 1
      \/ Splits(t, <<"!", "=">>) # 1 /\ Splits(t, <<"=">>) = 0 /\ Splits(t, <<"!">>) = 0
      \/ Splits(t, <<"!", "=">>) # 1 /\ Splits(t, <<"=">>) = 0 /\ Splits(t, <<"!">>) = 1
      \/ Splits(t, <<"!", "=">>) # 1 /\ Splits(t, <<"=">>) = 1 /\ Splits(t, <<"!">>) = 0
  BY DEF Requirement
<1> QED
  BY <1>3, <1>4, <1>5, <1>6, <1>7

\* The options are well formed, and the selector made of them is one of labels.
Sound(opts, named) ==
    /\ opts \in Seq(Texts)
    /\ \A i \in DOMAIN opts : Requirement(opts[i]).op # "invalid" /\ ~Stray(opts[i])
    /\ ~Invalid(NewSelector(opts, named))
    /\ NoRepeat(opts)

LEMMA OptionsMean ==
    ASSUME NEW opts, NEW named, Sound(opts, named)
    PROVE  /\ \A i \in DOMAIN opts :
                /\ opts[i] \in Texts
                /\ Requirement(opts[i]).key \in Keys
                /\ Requirement(opts[i]).value \in LabelValues
                /\ \A k : Sets(opts[i], k) <=> i \in Equals(opts) /\ k = Requirement(opts[i]).key
           /\ \A i \in Equals(opts) : FromOptions(opts)[Requirement(opts[i]).key] = Requirement(opts[i]).value
<1> PICK labels, reqs, set : /\ labels = NewSelector(opts, named).labels
                             /\ reqs = NewSelector(opts, named).reqs
                             /\ set = FromOptions(opts)
  OBVIOUS
<1>1. /\ labels = Merge(named, set)
      /\ reqs = {Requirement(opts[i]) : i \in DOMAIN opts \ Equals(opts)}
      /\ DOMAIN set = {Requirement(opts[i]).key : i \in Equals(opts)}
  BY DEF NewSelector, FromOptions
<1>2. /\ \A k \in DOMAIN labels : k \in Keys /\ labels[k] \in LabelValues
      /\ \A r \in reqs : r.key \in Keys /\ r.value \in LabelValues
  BY DEF Sound, Invalid
<1>3. \A k \in DOMAIN set : k \in DOMAIN labels /\ labels[k] = set[k]
  BY <1>1 DEF Merge
<1>4. ASSUME NEW i \in DOMAIN opts
      PROVE  opts[i] \in Texts /\ Requirement(opts[i]).key \in Keys
  BY <1>1, <1>2, <1>3 DEF Sound, Equals
<1>5. \A i \in DOMAIN opts : \A k :
          Sets(opts[i], k) <=> i \in Equals(opts) /\ k = Requirement(opts[i]).key
  BY <1>4, AsksWhatItSays DEF Sound, Equals
<1>6. ASSUME NEW i \in Equals(opts)
      PROVE  set[Requirement(opts[i]).key] = Requirement(opts[i]).value
  <2> PICK k, of : /\ k = Requirement(opts[i]).key
                   /\ of = {j \in Equals(opts) : Requirement(opts[j]).key = k}
    OBVIOUS
  <2>1. of = {i}
    <3>1. i \in DOMAIN opts /\ k \in Keys
      BY <1>4 DEF Equals
    <3>2. \A j \in of : Sets(opts[j], k) /\ j \in DOMAIN opts
      BY <1>5 DEF Equals
    <3>3. \A j \in of : j = i
      BY <1>5, <3>1, <3>2 DEF Sound, NoRepeat
    <3> QED
      BY <3>3
  <2>2. set[k] = Requirement(opts[CHOOSE j \in of : \A m \in of : m <= j]).value
    BY <1>1 DEF FromOptions
  <2>3. (CHOOSE j \in of : \A m \in of : m <= j) = i
    <3>1. i \in Int
      BY DEF Sound, Equals
    <3>2. i <= i
      BY <3>1
    <3>3. \E j \in of : \A m \in of : m <= j
      BY <2>1, <3>2
    <3> QED
      BY <2>1, <3>3
  <2> QED
    BY <2>2, <2>3
<1>7. ASSUME NEW i \in DOMAIN opts
      PROVE  Requirement(opts[i]).value \in LabelValues
  BY <1>1, <1>2, <1>3, <1>6
<1> QED
  BY <1>4, <1>5, <1>6, <1>7

\* The selector selects what the options say of labels, and what the labels of
\* the named object do where no option sets them.
LEMMA SelectsWhatIsSaid ==
    ASSUME NEW opts, NEW named, NEW lb, Sound(opts, named)
    PROVE  Matches(NewSelector(opts, named), lb) <=>
             /\ \A i \in DOMAIN opts : Says(opts[i], lb)
             /\ \A k \in DOMAIN named : Has(lb, k, named[k]) \/ \E i \in DOMAIN opts : Sets(opts[i], k)
<1> PICK labels, reqs, set : /\ labels = NewSelector(opts, named).labels
                             /\ reqs = NewSelector(opts, named).reqs
                             /\ set = FromOptions(opts)
  OBVIOUS
<1>1. /\ labels = Merge(named, set)
      /\ reqs = {Requirement(opts[i]) : i \in DOMAIN opts \ Equals(opts)}
      /\ DOMAIN set = {Requirement(opts[i]).key : i \in Equals(opts)}
  BY DEF NewSelector, FromOptions
<1>2. \A i \in DOMAIN opts : Says(opts[i], lb) <=> Asks(Requirement(opts[i]), lb)
  BY OptionsMean, AsksWhatItSays DEF Sound
<1>3. \A i \in Equals(opts) : set[Requirement(opts[i]).key] = Requirement(opts[i]).value
  BY OptionsMean
<1>4. \A k : k \in DOMAIN set <=> \E i \in DOMAIN opts : Sets(opts[i], k)
  BY <1>1, OptionsMean DEF Equals
<1>5. (\A k \in DOMAIN labels : Has(lb, k, labels[k])) <=>
        /\ \A k \in DOMAIN set : Has(lb, k, set[k])
        /\ \A k \in DOMAIN named : k \in DOMAIN set \/ Has(lb, k, named[k])
  BY <1>1 DEF Merge
<1>6. (\A k \in DOMAIN set : Has(lb, k, set[k])) <=> \A i \in Equals(opts) : Asks(Requirement(opts[i]), lb)
  <2>1. \A i \in Equals(opts) :
            Asks(Requirement(opts[i]), lb) <=> Has(lb, Requirement(opts[i]).key, Requirement(opts[i]).value)
    BY DEF Asks, Equals
  <2> QED
    BY <1>1, <1>3, <2>1
<1>7. ASSUME NEW r \in reqs
      PROVE  (CASE r.op = "NotIn" -> ~Has(lb, r.key, r.value)
                [] r.op = "Exists" -> r.key \in DOMAIN lb
                [] r.op = "DoesNotExist" -> r.key \notin DOMAIN lb) <=> Asks(r, lb)
  <2>1. r.op \in Operators
    BY SelectorForms DEF Sound
  <2>2. CASE r.op = "NotIn"
    BY <2>2 DEF Asks
  <2>3. CASE r.op = "Exists"
    BY <2>3 DEF Asks
  <2>4. CASE r.op = "DoesNotExist"
    BY <2>4 DEF Asks
  <2> QED
    BY <2>1, <2>2, <2>3, <2>4 DEF Operators
<1>8. Matches(NewSelector(opts, named), lb) <=>
        (\A k \in DOMAIN labels : Has(lb, k, labels[k])) /\ \A r \in reqs : Asks(r, lb)
  BY <1>7 DEF Matches
<1>9. (\A r \in reqs : Asks(r, lb)) <=> \A i \in DOMAIN opts \ Equals(opts) : Asks(Requirement(opts[i]), lb)
  BY <1>1
<1>10. (\A i \in DOMAIN opts : Says(opts[i], lb)) <=>
         /\ \A i \in Equals(opts) : Asks(Requirement(opts[i]), lb)
         /\ \A i \in DOMAIN opts \ Equals(opts) : Asks(Requirement(opts[i]), lb)
  BY <1>2 DEF Equals
<1>11. (\A k \in DOMAIN named : k \in DOMAIN set \/ Has(lb, k, named[k])) <=>
         \A k \in DOMAIN named : Has(lb, k, named[k]) \/ \E i \in DOMAIN opts : Sets(opts[i], k)
  BY <1>4
<1> QED
  BY <1>5, <1>6, <1>8, <1>9, <1>10, <1>11

\* No option is of the form <word>!<key>, which the code takes for !<key>
\* (OnlyDocumentedForms).
NoStray == \A o \in LabelOptions : \A opts \in {o[1], o[2]} : \A i \in DOMAIN opts : ~Stray(opts[i])

\* The labels of the object that a name gives.
Named(kind, name, labels) ==
    LET named == {o \in cluster \cap kind : o.name = name}
    IN  IF named = {} THEN labels = <<>> ELSE \E o \in named : named = {o} /\ labels = o.labels

LEMMA ChosenIsNew ==
    ASSUME TypeOK, NEW kind \in {Services, Deployments}, NEW name, NEW opts, NEW sel, Chosen(kind, name, opts, sel)
    PROVE  /\ \A i \in DOMAIN opts : Requirement(opts[i]).op # "invalid"
           /\ \E labels : Named(kind, name, labels) /\ sel = NewSelector(opts, labels)
<1> PICK named : named = {o \in cluster \cap kind : o.name = name}
  OBVIOUS
<1> PICK labels : labels = IF named = {} THEN <<>> ELSE (CHOOSE o \in named : TRUE).labels
  OBVIOUS
<1>1. Ends(opts, named # {} /\ labels = <<>>) = "ok" /\ sel = NewSelector(opts, labels)
  BY DEF Chosen, Selection
<1>2. \A i \in DOMAIN opts : Requirement(opts[i]).op # "invalid"
  BY <1>1 DEF Ends
<1>3. \A o, p \in named : o = p
  BY ConstantsAssumption DEF TypeOK
<1>4. CASE named = {}
  BY <1>1, <1>2, <1>4 DEF Named
<1>5. CASE named # {}
  <2>1. PICK o \in named : o = CHOOSE p \in named : TRUE
    BY <1>5
  <2>2. named = {o} /\ labels = o.labels
    BY <1>3, <1>5, <2>1
  <2> QED
    BY <1>1, <1>2, <1>5, <2>2 DEF Named
<1> QED
  BY <1>4, <1>5

LEMMA SelectsTheNamed ==
    ASSUME NEW kind, NEW name, NEW opts, NEW labels, Named(kind, name, labels), Sound(opts, labels), NEW lb
    PROVE  Matches(NewSelector(opts, labels), lb) <=> Meant(opts, name, kind, lb)
<1> PICK named : named = {o \in cluster \cap kind : o.name = name}
  OBVIOUS
<1>1. Matches(NewSelector(opts, labels), lb) <=>
        /\ \A i \in DOMAIN opts : Says(opts[i], lb)
        /\ \A k \in DOMAIN labels : Has(lb, k, labels[k]) \/ \E i \in DOMAIN opts : Sets(opts[i], k)
  BY SelectsWhatIsSaid
<1>2. (\A k \in DOMAIN labels : Has(lb, k, labels[k]) \/ \E i \in DOMAIN opts : Sets(opts[i], k)) <=>
        \A o \in named : \A k \in DOMAIN o.labels :
            Has(lb, k, o.labels[k]) \/ \E i \in DOMAIN opts : Sets(opts[i], k)
  <2>1. CASE named = {}
    <3>1. labels = <<>>
      BY <2>1 DEF Named
    <3> QED
      BY <2>1, <3>1
  <2>2. CASE named # {}
    <3>1. PICK o : named = {o} /\ labels = o.labels
      BY <2>2 DEF Named
    <3> QED
      BY <3>1
  <2> QED
    BY <2>1, <2>2
<1> QED
  BY <1>1, <1>2 DEF Meant

\* A Fork that is printed selects the objects that its options mean, however
\* their forms are mixed and whatever labels the named object has, when no text
\* has something before a "!" (OutputManifest prints what ServiceSelector and
\* DeploymentSelector made).
THEOREM SelectsTheMeant ==
    ASSUME NoStray
    PROVE  Spec => []SelectsWhatIsMeant
<1>1. Inv => SelectsWhatIsMeant
  <2> SUFFICES ASSUME Inv, pc = "manifest" PROVE SelectsWhatIsMeant
    BY DEF SelectsWhatIsMeant
  <2>1. /\ manifest.services = serviceSelector /\ manifest.deployments = deploymentSelector
        /\ ~Refused(serviceSelector)
        /\ Chosen(Services, serviceName, serviceLabel, serviceSelector)
        /\ Chosen(Deployments, deploymentName, deploymentLabel, deploymentSelector)
    BY DEF Inv, TypeOK, NewFork, SelectorInv, ScanPhase
  <2>2. /\ serviceLabel \in Seq(Texts) /\ deploymentLabel \in Seq(Texts)
        /\ \A i \in DOMAIN serviceLabel : ~Stray(serviceLabel[i])
        /\ \A i \in DOMAIN deploymentLabel : ~Stray(deploymentLabel[i])
    <3>1. PICK o : o = <<serviceLabel, deploymentLabel>>
      OBVIOUS
    <3>2. o \in LabelOptions /\ o \in Seq(Texts) \X Seq(Texts) /\ o[1] = serviceLabel /\ o[2] = deploymentLabel
      BY <3>1, ConstantsAssumption DEF Inv, SelectorInv
    <3>3. \A opts \in {o[1], o[2]} : \A i \in DOMAIN opts : ~Stray(opts[i])
      BY <3>2, NoStray DEF NoStray
    <3> QED
      BY <3>2, <3>3
  <2>3. ASSUME NoRepeat(serviceLabel), NEW lb \in Labels
        PROVE  Matches(manifest.services, lb) <=> Meant(serviceLabel, serviceName, Services, lb)
    <3>1. PICK labels : Named(Services, serviceName, labels) /\ serviceSelector = NewSelector(serviceLabel, labels)
      BY <2>1, ChosenIsNew DEF Inv
    <3>2. \A i \in DOMAIN serviceLabel : Requirement(serviceLabel[i]).op # "invalid"
      BY <2>1, ChosenIsNew DEF Inv
    <3>3. Sound(serviceLabel, labels)
      BY <2>1, <2>2, <2>3, <3>1, <3>2 DEF Sound, Refused
    <3> QED
      BY <2>1, <3>1, <3>3, SelectsTheNamed
  <2>4. ASSUME SelectedServices # {}, NoRepeat(deploymentLabel), NEW lb \in Labels
        PROVE  Matches(manifest.deployments, lb) <=> Meant(deploymentLabel, deploymentName, Deployments, lb)
    <3>1. PICK labels : /\ Named(Deployments, deploymentName, labels)
                        /\ deploymentSelector = NewSelector(deploymentLabel, labels)
      BY <2>1, ChosenIsNew DEF Inv
    <3>2. \A i \in DOMAIN deploymentLabel : Requirement(deploymentLabel[i]).op # "invalid"
      BY <2>1, ChosenIsNew DEF Inv
    <3>3. ~Invalid(deploymentSelector)
      <4>1. PICK s \in SelectedServices : ~Refused(Behind(s))
        BY <2>4 DEF Inv, ScanInv, ScanPhase
      <4>2. ~Invalid(Behind(s))
        BY <4>1 DEF Refused
      <4> QED
        BY <4>2 DEF Invalid, Behind, Merge
    <3>4. Sound(deploymentLabel, labels)
      BY <2>2, <2>4, <3>1, <3>2, <3>3 DEF Sound
    <3> QED
      BY <2>1, <3>1, <3>4, SelectsTheNamed
  <2> QED
    BY <2>3, <2>4 DEF SelectsWhatIsMeant
<1> QED
  BY <1>1, Invariant, PTL
=============================================================================
