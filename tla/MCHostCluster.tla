--------------------------- MODULE MCHostCluster ---------------------------
(* Small instances of HostCluster for TLC.                                 *)
EXTENDS HostCluster, TLC

\* Hosts differ only in what they do.
HostSymmetry == Permutations(Hosts)

Setting(late, watchers, requests) ==
    [aging |-> late, watching |-> watchers, checks |-> requests]

\* Prompt warm-ups and no `check --watch`: what is left is in every use of the cluster.
Plain == {Setting(FALSE, FALSE, 0)}

\* Whatever may happen at all, together with a client and, for more hosts, in parts.
Everything == {Setting(TRUE, TRUE, 1)}
InParts == {Setting(TRUE, TRUE, 0), Setting(FALSE, FALSE, 2)}
============================================================================
