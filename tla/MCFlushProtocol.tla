--------------------------- MODULE MCFlushProtocol ---------------------------
(* FlushProtocol for TLC.  Ids and processes are only ever compared, so     *)
(* they may be permuted in the runs that check no liveness.                 *)
EXTENDS FlushProtocol, TLC

Symmetry == Permutations(Elements) \cup Permutations(Persisters)

=============================================================================
