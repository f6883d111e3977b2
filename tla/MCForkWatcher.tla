---------------------------- MODULE MCForkWatcher ----------------------------
(* Instances of ForkWatcher for TLC. *)
EXTENDS ForkWatcher

CONSTANTS n1, n2, f, g

\* Two forks of different names in different namespaces.
TwoForks == {<<n1, f>>, <<n2, g>>}

\* Only one fork.
OneFork == {<<n1, f>>}
=============================================================================
