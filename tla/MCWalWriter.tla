---------------------------- MODULE MCWalWriter ----------------------------
(* WalWriter on small instances.  Records are interchangeable: nothing     *)
(* orders or names them.                                                   *)
EXTENDS WalWriter, TLC

RecordSymmetry == Permutations(Records)
=============================================================================
