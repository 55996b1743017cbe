---------------------------- MODULE MCWalReplay ----------------------------
(* WalReplay on small instances.  Records are interchangeable; sinks are   *)
(* not, they are sent in order.                                            *)
EXTENDS WalReplay, TLC

RecordSymmetry == Permutations(Records)

(* With liveness the symmetry is not TLC's to use; numbered records that   *)
(* are appended in order of their numbers leave as many states.            *)
InTurn == \A r \in Records : lsnOf'[r] > 0 => \A q \in Records : q < r => lsnOf'[q] > 0
InTurnSpec == Init /\ [][Next /\ InTurn]_vars /\ Fairness
=============================================================================
