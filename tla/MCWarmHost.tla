----------------------------- MODULE MCWarmHost -----------------------------
(* Small instances of WarmHost for TLC.                                    *)
EXTENDS WarmHost, TLC

\* Clients are interchangeable in every safety property.
ClientSymmetry == Permutations(Clients)

=============================================================================
