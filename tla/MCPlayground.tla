---------------------------- MODULE MCPlayground ----------------------------
(* Small instances of Playground for TLC.                                  *)
EXTENDS Playground

\* The linter's first validation.
OneCheck == {-1}

=============================================================================
