----------------------------- MODULE MCForkManifest ----------------------------
(* Instances of ForkManifest for TLC. *)
EXTENDS ForkManifest, TLC

\* Two Services, two Deployments that may be labelled alike, images of two
\* repositories, one at a registry with a port and one also pinned to a digest.
App == [registry |-> "", port |-> None, name |-> "app", pinned |-> FALSE]

PinnedApp == [App EXCEPT !.pinned = TRUE]

Log == [registry |-> "reg", port |-> "1", name |-> "log", pinned |-> FALSE]

Main(i) == [name |-> "main", image |-> i]

Side(i) == [name |-> "side", image |-> i]

Old(i) == [name |-> "old", image |-> i]

MCImages == {App, PinnedApp, Log}

MCServices ==
    {[name |-> "s1", labels |-> lb, selector |-> sel] :
        lb \in {<<>>, ("a" :> "1" @@ "b" :> "2")}, sel \in {<<>>, ("b" :> "1")}}
    \cup {[name |-> "s2", labels |-> ("a" :> "1"), selector |-> ("b" :> "2")]}

MCDeployments ==
    {[name |-> "d1", labels |-> lb, pods |-> lb, containers |-> {Main(App), Side(Log)}] :
        lb \in {<<>>, ("b" :> "1"), ("a" :> "1" @@ "b" :> "1")}}
    \cup {[name |-> "d2", labels |-> ("b" :> "2"), pods |-> ("b" :> "2"),
           containers |-> {Main(Log), Side(App), Old(PinnedApp)}]}

OneOfEach ==
    {{s, d} : s \in {x \in Services : x.name = "s1"}, d \in {x \in Deployments : x.name = "d1"}}

Second == {x \in Services : x.name = "s2"} \cup {x \in Deployments : x.name = "d2"}

MCClusters == OneOfEach \cup {c \cup Second : c \in OneOfEach}

WellFormed ==
    {<<"a">>, <<"!", "a">>, <<"a", "=", "1">>, <<"a", "=">>, <<"a", "!", "=", "1">>, <<"a", "!", "=">>}

Malformed == {<<"a", "=", "=", "1">>, <<"!", "a", "!", "=", "1">>}

\* No option, one, or two of which one is malformed or sets another label.
Options ==
    {<<>>} \cup {<<t>> : t \in WellFormed} \cup {<<t, <<"b", "=", "1">>>> : t \in WellFormed}
    \cup {<<<<"b", "=", "2">>, t>> : t \in Malformed}

\* Options for Services, for Deployments or the same for both.
OnOneOrBoth(opts) == {<<o, <<>>>> : o \in opts} \cup {<<<<>>, o>> : o \in opts} \cup {<<o, o>> : o \in opts}

MCLabelOptions == OnOneOrBoth(Options)

\* A text of no documented form.
OddOptions == OnOneOrBoth({<<>>, << <<"a", "!", "b">> >>})
=============================================================================
