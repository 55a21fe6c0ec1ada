---------------------------- MODULE MCConnectionPool ----------------------------
(***************************************************************************)
(* The instance of ConnectionPool for TLC: four threads compete for two    *)
(* connections, so that the pool runs dry while one is coming back.        *)
(***************************************************************************)
EXTENDS ConnectionPool, TLC

(* Threads, connections and spares are each only told apart by equality.    *)
Symmetry == Permutations(Threads) \cup Permutations(Conns) \cup Permutations(Spares)
=============================================================================
