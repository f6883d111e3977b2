-------------------------------- MODULE Traffic --------------------------------
(***************************************************************************)
(* What kubefork promises the users of a cluster, apart from how: "only    *)
(* your communication goes through the forked microservice"                *)
(* (docs/kubefork-doc-en.md).  A request to a Service carries an           *)
(* identifier, or none.  It meets the original Pods until a Fork of that   *)
(* identifier asks for the Service.  From then on it may be sent to the    *)
(* Fork's copies, whose Pods may still have to start, and once it meets    *)
(* Pods of the Fork it goes on doing so.                                   *)
(*                                                                         *)
(* Nothing is promised of Services that are not told apart from their      *)
(* copies, of requests that a Fork has stopped asking for or has taken a   *)
(* Deployment from, and of requests a Fork asks for with nothing to copy.  *)
(***************************************************************************)
CONSTANTS
    Forks, Services, Deployments, Identifiers,
    None,        \* no identifier, no Deployment
    Separable    \* Services told apart from their copies

Requests == Services \X (Identifiers \cup {None})

Wishes == Forks \X Services \X Identifiers \X (Deployments \cup {None})

VARIABLES
    wish,      \* <<Fork, Service, identifier, Deployment>> that users ask for
    dropped,   \* requests of which some Fork has taken back a wish
    serves     \* what each request meets

vars == <<wish, dropped, serves>>

\* A request meets the original Pods; a Fork's copies whose Pods are being made;
\* Pods of the Fork; or neither.
Meets == {"original", "starting", "fork", "astray"}

Wished(w, r) == \E f \in Forks, d \in Deployments : <<f, r[1], r[2], d>> \in w

Bare(w, r) == \E f \in Forks : <<f, r[1], r[2], None>> \in w

\* Requests of which nothing is promised.
Free(r) == r[1] \notin Separable \/ r \in dropped \/ Bare(wish, r)

\* Where a request that is asked for may go from where it went.
Onward == {<<"original", "starting">>, <<"original", "fork">>, <<"starting", "fork">>}

Init ==
    /\ wish \in SUBSET Wishes
    /\ dropped = {} /\ serves = [r \in Requests |-> "original"]

\* Users create, change and delete Forks.
Wish ==
    /\ wish' \in SUBSET Wishes
    /\ dropped' = dropped \cup {<<w[2], w[3]>> : w \in wish \ wish'}
    /\ UNCHANGED serves

\* The cluster changes under the requests.
Serve ==
    /\ serves' \in [Requests -> Meets]
    /\ \A r \in Requests :
          \/ Free(r) \/ serves'[r] = serves[r]
          \/ Wished(wish, r) /\ <<serves[r], serves'[r]>> \in Onward
    /\ UNCHANGED <<wish, dropped>>

Next == Wish \/ Serve

Spec == Init /\ [][Next]_vars
=============================================================================
