------------------------- MODULE MCConnectionPool -------------------------
(* Instance of ConnectionPool for TLC. *)
EXTENDS ConnectionPool, TLC

(* Connections and timer tasks are interchangeable. *)
PoolSymmetry == Permutations(Conn) \cup Permutations(Task)
=============================================================================
