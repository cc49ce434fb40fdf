--------------------------- MODULE MCBoardLifecycle ---------------------------
(* BoardLifecycle for TLC: requests of one kind are interchangeable. *)
EXTENDS BoardLifecycle, TLC

Symmetry == Permutations(Rest) \cup Permutations(Sockets)

=============================================================================
