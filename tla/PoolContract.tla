------------------------------ MODULE PoolContract ------------------------------
(***************************************************************************)
(* What a thread may expect of the connection pool: a connection is lent   *)
(* to one thread at a time, and until the pool is closed every connection  *)
(* of the pool that is not lent is free. Locks, counters, waiting and the  *)
(* bookkeeping of emergency connections are left out.                      *)
(***************************************************************************)
CONSTANTS Threads, Conns, Spares, NoConn

VARIABLES free, lent, closed

contractVars == <<free, lent, closed>>

ContractInit ==
  /\ free = Conns
  /\ lent = [t \in Threads |-> NoConn]
  /\ closed = FALSE

(* A connection of the pool that is free.                                   *)
Lend(t, c) ==
  /\ lent[t] = NoConn /\ c \in free
  /\ free' = free \ {c}
  /\ lent' = [lent EXCEPT ![t] = c]
  /\ UNCHANGED closed

(* A connection made for this thread alone.                                 *)
LendSpare(t, c) ==
  /\ lent[t] = NoConn /\ c \in Spares
  /\ \A u \in Threads : lent[u] # c
  /\ lent' = [lent EXCEPT ![t] = c]
  /\ UNCHANGED <<free, closed>>

(* Once the pool is closed a connection that comes back may be closed.      *)
GiveBack(t) ==
  /\ lent[t] # NoConn
  /\ lent' = [lent EXCEPT ![t] = NoConn]
  /\ free' \in IF lent[t] \notin Conns THEN {free}
               ELSE IF closed THEN {free, free \cup {lent[t]}}
               ELSE {free \cup {lent[t]}}
  /\ UNCHANGED closed

Close == ~closed /\ closed' = TRUE /\ UNCHANGED <<free, lent>>

Discard(c) ==
  /\ closed /\ c \in free
  /\ free' = free \ {c}
  /\ UNCHANGED <<lent, closed>>

ContractNext ==
  \/ \E t \in Threads : \/ \E c \in Conns : Lend(t, c)
                        \/ \E c \in Spares : LendSpare(t, c)
                        \/ GiveBack(t)
  \/ Close \/ \E c \in Conns : Discard(c)

ContractSpec == ContractInit /\ [][ContractNext]_contractVars
=============================================================================
