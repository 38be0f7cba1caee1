-------------------------- MODULE MCTransportEngine --------------------------
(* TransportEngine for TLC.                                                *)
EXTENDS TransportEngine, TLC

(* Callers differ only in name.  Sound for the safety runs.                *)
CallerSymmetry == Permutations(Callers)

=============================================================================
