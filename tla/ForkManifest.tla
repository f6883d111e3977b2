------------------------------ MODULE ForkManifest -----------------------------
(***************************************************************************)
(* The command "kubeforkctl manifest" (kubeforkctl/cmd/manifest.go, domain *)
(* and k8sClientGo): its options become the selectors of a Fork, and the   *)
(* containers whose image the Fork is to switch are looked up in the       *)
(* cluster, one request after the other.  The cluster does not change      *)
(* meanwhile: what the command reads it reads once.                        *)
(*                                                                         *)
(* A label option is a text, here the sequence of its words and of the     *)
(* characters "!" and "=".  Keys and Values are the words that the keys    *)
(* and values of labels can be; a value can be empty as well.  An image   *)
(* reference is told by what its text is made of: a registry, perhaps with *)
(* a port, a name, and whether it is pinned, that is, has no tag between   *)
(* its name and "@<algorithm>:<digest>".                                   *)
(***************************************************************************)
EXTENDS Naturals, Sequences, FiniteSets

CONSTANTS
    Keys, Values,     \* of labels
    Services,         \* the cluster's Services: name, labels, selector
    Deployments,      \* its Deployments: name, labels, labels of Pods, containers
    Clusters,         \* subsets of Services \cup Deployments
    LabelOptions,     \* pairs of sequences of texts: for Services, for Deployments
    Images,           \* references that the option --image may give
    None              \* no name given, no port, nothing printed

Empty == ""

LabelValues == Values \cup {Empty}

Labels == UNION {[K -> LabelValues] : K \in SUBSET Keys}

\* The option was not given.
NoImage == [registry |-> Empty, port |-> None, name |-> Empty, pinned |-> FALSE]

Texts == Seq(Keys \cup Values \cup {"!", "="})

ASSUME ConstantsAssumption ==
    /\ (Keys \cup Values) \cap {Empty, "!", "=", "?"} = {}
    /\ \A s \in Services : s.labels \in Labels /\ s.selector \in Labels
    /\ \A d \in Deployments : d.labels \in Labels /\ d.pods \in Labels
    /\ Clusters \subseteq SUBSET (Services \cup Deployments)
    /\ \A c \in Clusters : \A kind \in {Services, Deployments} :
          \A o, p \in c \cap kind : o.name = p.name => o = p
    /\ LabelOptions \subseteq Seq(Texts) \X Seq(Texts)

VARIABLES
    cluster,
    serviceName, serviceLabel, deploymentName, deploymentLabel, image,  \* options
    pc,          \* the next request, or how the command ended
    serviceSelector, deploymentSelector,
    toScan,      \* Services whose Deployments are still to be listed
    containers,  \* names of the containers found
    manifest     \* the Fork that is printed, or None

options == <<serviceName, serviceLabel, deploymentName, deploymentLabel, image>>
vars == <<cluster, options, pc, serviceSelector, deploymentSelector, toScan, containers, manifest>>

-----------------------------------------------------------------------------
(* NewSelector *)

Places(t, sep) == {i \in 1..Len(t) : \A j \in 1..Len(sep) : i + j - 1 <= Len(t) /\ t[i + j - 1] = sep[j]}

Place(t, sep) == CHOOSE i \in Places(t, sep) : TRUE

Splits(t, sep) == Cardinality(Places(t, sep))

\* What stands from a to b: a word, nothing, or more than a word.
Word(t, a, b) == IF a > b THEN Empty ELSE IF a = b THEN t[a] ELSE "?"

\* The requirement that one label option makes.
Requirement(t) ==
    LET n == Place(t, <<"!", "=">>)
        e == Place(t, <<"=">>)
        x == Place(t, <<"!">>)
    IN  CASE Splits(t, <<"!", "=">>) = 1 ->
               [op |-> "NotIn", key |-> Word(t, 1, n - 1), value |-> Word(t, n + 2, Len(t))]
          [] Splits(t, <<"!", "=">>) # 1 /\ Splits(t, <<"=">>) = 0 /\ Splits(t, <<"!">>) = 0 ->
               [op |-> "Exists", key |-> Word(t, 1, Len(t)), value |-> Empty]
          [] Splits(t, <<"!", "=">>) # 1 /\ Splits(t, <<"=">>) = 0 /\ Splits(t, <<"!">>) = 1 ->
               [op |-> "DoesNotExist", key |-> Word(t, x + 1, Len(t)), value |-> Empty]
          [] Splits(t, <<"!", "=">>) # 1 /\ Splits(t, <<"=">>) = 1 /\ Splits(t, <<"!">>) = 0 ->
               [op |-> "Equals", key |-> Word(t, 1, e - 1), value |-> Word(t, e + 1, Len(t))]
          [] OTHER -> [op |-> "invalid", key |-> Empty, value |-> Empty]

Equals(opts) == {i \in DOMAIN opts : Requirement(opts[i]).op = "Equals"}

\* lib.Merge: the second map wins.
Merge(m1, m2) ==
    [k \in DOMAIN m1 \cup DOMAIN m2 |-> IF k \in DOMAIN m2 THEN m2[k] ELSE m1[k]]

\* MatchLabels that the options give: the last of a key wins.
FromOptions(opts) ==
    [k \in {Requirement(opts[i]).key : i \in Equals(opts)} |->
        LET of == {i \in Equals(opts) : Requirement(opts[i]).key = k}
        IN  Requirement(opts[CHOOSE i \in of : \A j \in of : j <= i]).value]

\* Mutant: the labels of the named object win.
NewSelectorNameFirst(opts, named) ==
    [labels |-> Merge(FromOptions(opts), named),
     reqs |-> {Requirement(opts[i]) : i \in DOMAIN opts \ Equals(opts)}]

NewSelector(opts, named) ==
    [labels |-> Merge(named, FromOptions(opts)),
     reqs |-> {Requirement(opts[i]) : i \in DOMAIN opts \ Equals(opts)}]

\* How NewSelector ends: the options are read in order.  The labels of an
\* object that has none are a nil map, to which an assignment panics.
Ends(opts, nilMap) ==
    LET bad == {i \in DOMAIN opts : \/ Requirement(opts[i]).op = "invalid"
                                    \/ nilMap /\ i \in Equals(opts)}
        first == CHOOSE i \in bad : \A j \in bad : i <= j
    IN  IF bad = {} THEN "ok" ELSE IF first \in Equals(opts) THEN "panic" ELSE "error"

(* Lists *)

\* A key or a value that no label can have.
Invalid(sel) ==
    \/ \E k \in DOMAIN sel.labels : k \notin Keys \/ sel.labels[k] \notin LabelValues
    \/ \E r \in sel.reqs : r.key \notin Keys \/ r.value \notin LabelValues

\* Mutant: no requirement at all selects everything.
RefusedIfInvalid(sel) == Invalid(sel)

\* FormatLabelSelector of a selector that is empty is "<none>", and of one
\* that is invalid "<error>": the API server parses neither.
Refused(sel) == (DOMAIN sel.labels = {} /\ sel.reqs = {}) \/ Invalid(sel)

Has(lb, k, v) == k \in DOMAIN lb /\ lb[k] = v

\* The API server's and the controller's reading of a selector.
Matches(sel, lb) ==
    /\ \A k \in DOMAIN sel.labels : Has(lb, k, sel.labels[k])
    /\ \A r \in sel.reqs :
          CASE r.op = "NotIn" -> ~Has(lb, r.key, r.value)
            [] r.op = "Exists" -> r.key \in DOMAIN lb
            [] r.op = "DoesNotExist" -> r.key \notin DOMAIN lb

-----------------------------------------------------------------------------
NoSelector == [labels |-> <<>>, reqs |-> {}]

Init ==
    /\ cluster \in Clusters
    /\ serviceName \in {s.name : s \in Services} \cup {None}
    /\ deploymentName \in {d.name : d \in Deployments} \cup {None}
    /\ \E o \in LabelOptions : serviceLabel = o[1] /\ deploymentLabel = o[2]
    /\ image \in Images \cup {NoImage}
    /\ pc = "service" /\ serviceSelector = NoSelector /\ deploymentSelector = NoSelector
    /\ toScan = {} /\ containers = {} /\ manifest = None

\* Get of the named object, when a name is given, then NewSelector: the selector
\* and how that ended.
Selection(kind, name, opts) ==
    LET named == {o \in cluster \cap kind : o.name = name}
        labels == IF named = {} THEN <<>> ELSE (CHOOSE o \in named : TRUE).labels
        end == IF name # None /\ named = {} THEN "error"          \* NotFound
               ELSE Ends(opts, named # {} /\ labels = <<>>)
    IN  [end |-> end, selector |-> IF end = "ok" THEN NewSelector(opts, labels) ELSE NoSelector]

\* Step to `next', or to how the command ended.
Continue(end, next) == pc' = IF end = "ok" THEN next ELSE end

ServiceSelector ==
    /\ pc = "service"
    /\ LET sel == Selection(Services, serviceName, serviceLabel)
       IN  serviceSelector' = sel.selector /\ Continue(sel.end, "deployment")
    /\ UNCHANGED <<cluster, options, deploymentSelector, toScan, containers, manifest>>

DeploymentSelector ==
    /\ pc = "deployment"
    /\ LET sel == Selection(Deployments, deploymentName, deploymentLabel)
       IN  deploymentSelector' = sel.selector /\ Continue(sel.end, "list")
    /\ UNCHANGED <<cluster, options, serviceSelector, toScan, containers, manifest>>

SelectedServices == {s \in cluster \cap Services : Matches(serviceSelector, s.labels)}

\* Mutant: Services are listed in every namespace, not only in the Fork's.
ListAllServices ==
    /\ pc = "list"
    /\ IF Refused(serviceSelector) THEN pc' = "error" /\ UNCHANGED toScan
       ELSE pc' = "scan" /\ toScan' = {s \in Services : Matches(serviceSelector, s.labels)}
    /\ UNCHANGED <<cluster, options, serviceSelector, deploymentSelector, containers, manifest>>

ListServices ==
    /\ pc = "list"
    /\ IF Refused(serviceSelector) THEN pc' = "error" /\ UNCHANGED toScan
       ELSE pc' = "scan" /\ toScan' = SelectedServices
    /\ UNCHANGED <<cluster, options, serviceSelector, deploymentSelector, containers, manifest>>

\* strings.Split(text, ":")[0]: where there is no port, the first colon is that
\* of the tag, or stands in the digest, whose "@<algorithm>" precedes it.
Stem(i) == IF i.port # None THEN <<i.registry>> ELSE <<i.registry, i.name, i.pinned>>

\* Containers whose image agrees with the option up to the first colon.
Switchable(d) == {c.name : c \in {x \in d.containers : Stem(x.image) = Stem(image)}}

\* The selector with which the Deployments behind s are looked up.
Behind(s) == [labels |-> Merge(s.selector, deploymentSelector.labels), reqs |-> deploymentSelector.reqs]

\* The containers found there.
Found(s) == UNION {Switchable(d) : d \in {x \in cluster \cap Deployments : Matches(Behind(s), x.labels)}}

\* Mutant: the map of containers is made anew for every Service.
ScanServiceAnew(s) ==
    /\ pc = "scan" /\ s \in toScan /\ ~Refused(Behind(s))
    /\ toScan' = toScan \ {s}
    /\ containers' = Found(s)
    /\ UNCHANGED <<cluster, options, pc, serviceSelector, deploymentSelector, manifest>>

ScanService(s) ==
    /\ pc = "scan" /\ s \in toScan /\ ~Refused(Behind(s))
    /\ toScan' = toScan \ {s}
    /\ containers' = containers \cup Found(s)
    /\ UNCHANGED <<cluster, options, pc, serviceSelector, deploymentSelector, manifest>>

ScanRefused(s) ==
    /\ pc = "scan" /\ s \in toScan /\ Refused(Behind(s))
    /\ pc' = "error"
    /\ UNCHANGED <<cluster, options, serviceSelector, deploymentSelector, toScan, containers, manifest>>

\* Every container found gets the image of the option.
NewContainers == {[name |-> c, image |-> image] : c \in containers}

\* What the manifest of the Fork selects and switches.
NewFork ==
    [services |-> serviceSelector, deployments |-> deploymentSelector, containers |-> NewContainers]

OutputManifest ==
    /\ pc = "scan" /\ toScan = {}
    /\ pc' = "manifest" /\ manifest' = NewFork
    /\ UNCHANGED <<cluster, options, serviceSelector, deploymentSelector, toScan, containers>>

Next ==
    \/ ServiceSelector \/ DeploymentSelector \/ ListServices \/ OutputManifest
    \/ \E s \in Services : ScanService(s) \/ ScanRefused(s)

Spec == Init /\ [][Next]_vars

-----------------------------------------------------------------------------
(* Properties *)

\* Every variable has its type.
TypeOK ==
    /\ cluster \in Clusters
    /\ pc \in {"service", "deployment", "list", "scan", "manifest", "error", "panic"}
    /\ manifest = IF pc = "manifest" THEN NewFork ELSE None
    /\ toScan \subseteq cluster \cap Services
    /\ containers \subseteq {c.name : c \in UNION {d.containers : d \in cluster \cap Deployments}}

\* What the four documented forms say of labels: <key>, !<key>, <key>=<value>
\* and <key>!=<value>, where a value may be empty.
Value(t, i) == IF i \in DOMAIN t THEN t[i] ELSE Empty

Sets(t, k) == Len(t) > 1 /\ t[1] = k /\ t[2] = "="

Says(t, lb) ==
    \/ Len(t) = 1 /\ t[1] \in DOMAIN lb
    \/ Len(t) = 2 /\ t[1] = "!" /\ t[2] \notin DOMAIN lb
    \/ Len(t) \in {2, 3} /\ t[2] = "=" /\ Has(lb, t[1], Value(t, 3))
    \/ Len(t) \in {3, 4} /\ t[2] = "!" /\ t[3] = "=" /\ ~Has(lb, t[1], Value(t, 4))

\* An object is meant when all options say so, and it has the labels of the
\* named object but those that options set.
Meant(opts, name, kind, lb) ==
    /\ \A i \in DOMAIN opts : Says(opts[i], lb)
    /\ \A o \in {x \in cluster \cap kind : x.name = name} : \A k \in DOMAIN o.labels :
          Has(lb, k, o.labels[k]) \/ \E i \in DOMAIN opts : Sets(opts[i], k)

\* No two options set one label.
NoRepeat(opts) ==
    \A i, j \in DOMAIN opts : \A k \in Keys : Sets(opts[i], k) /\ Sets(opts[j], k) => i = j

\* The Fork selects exactly the objects that the options mean, whatever forms
\* they mix and whatever labels the named object has ("the value of the label
\* will be the one set with --service-label").  Only a request to the API
\* server tells that a selector is invalid: the one of Deployments is not sent,
\* and is printed as it is, when no Service is selected.
SelectsWhatIsMeant ==
    pc = "manifest" =>
        /\ NoRepeat(serviceLabel) => \A lb \in Labels :
               Matches(manifest.services, lb) <=> Meant(serviceLabel, serviceName, Services, lb)
        /\ SelectedServices # {} /\ NoRepeat(deploymentLabel) => \A lb \in Labels :
               Matches(manifest.deployments, lb) <=> Meant(deploymentLabel, deploymentName, Deployments, lb)

\* A Fork is printed only when its options choose among Services: none selects
\* all Services of its namespace, copies of other Forks included.
NeverAllServices ==
    pc = "manifest" => \E lb \in Labels : ~Matches(manifest.services, lb)

\* A copied Service keeps none of its original's labels: a Fork printed selects
\* none, as its copies would be copied in turn.  Options that only say what
\* labels are not there do select them.
NeverSelectsCopies == pc = "manifest" => ~Matches(manifest.services, <<>>)

\* The Deployments that the controller copies for the Fork.
Copied ==
    {d \in cluster \cap Deployments :
        /\ Matches(manifest.deployments, d.labels)
        /\ \E s \in SelectedServices : \A k \in DOMAIN s.selector : Has(d.pods, k, s.selector[k])}

\* The names of the containers that get the image in every copy.
Switched == {c.name : c \in manifest.containers}

\* The same image, in whatever version.
SameRepository(i, j) == i.registry = j.registry /\ i.port = j.port /\ i.name = j.name

\* Where Pods are labelled as their Deployment, as the command requires, a
\* container of the image in any Deployment that will be copied is switched when
\* its version is given as the option gives it, by tag or by digest: the command
\* looks Deployments up by other selectors than the controller, Service by
\* Service, and compares texts.
EveryMatchingSwitched ==
    pc = "manifest" /\ image # NoImage /\ (\A d \in cluster \cap Deployments : d.pods = d.labels) =>
        \A d \in Copied : \A c \in d.containers :
            SameRepository(c.image, image) /\ c.image.pinned = image.pinned => c.name \in Switched

\* The same however the version is given ("Extract the containers whose images
\* should be switched"): a container pinned to a digest is switched to a tag, too.
PinnedSwitched ==
    pc = "manifest" /\ image # NoImage /\ (\A d \in cluster \cap Deployments : d.pods = d.labels) =>
        \A d \in Copied : \A c \in d.containers :
            SameRepository(c.image, image) => c.name \in Switched

\* "Select only containers to switch an image": no other container of a copy
\* gets the image.
OnlyMatchingSwitched ==
    pc = "manifest" =>
        \A d \in Copied : \A c \in d.containers :
            c.name \in Switched => SameRepository(c.image, image)

\* "If the key of the label specified with --service-label and the key of the
\* label obtained with --service-name are the same, the value of the label will
\* be the one set": a label option and a name can be given together.
NeverPanics == pc # "panic"

\* Texts of other forms than the four are refused.
OnlyDocumentedForms ==
    pc = "manifest" =>
        \A opts \in {serviceLabel, deploymentLabel} : \A i \in DOMAIN opts :
            \E lb \in Labels : Says(opts[i], lb)
=============================================================================
