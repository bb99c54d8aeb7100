---------------------------- MODULE MCHttpEngine ----------------------------
(* Instance of HttpEngine for TLC: every engine talks to the same origin, so *)
(* that they compete for the same idle connections.                          *)
EXTENDS HttpEngine, TLC

MCRouteOf == [e \in Engine |-> CHOOSE r \in Route : TRUE]

EngineSymmetry == Permutations(Conn) \cup Permutations(Task) \cup Permutations(Engine)
=============================================================================
