--------------------------- MODULE MCTelemetryStream ---------------------------
(***************************************************************************)
(* TelemetryStream on a small instance: the nodes are interchangeable.     *)
(***************************************************************************)
EXTENDS TelemetryStream, TLC

CONSTANTS n1, n2

NodeSymmetry == Permutations(Nodes)

=============================================================================
