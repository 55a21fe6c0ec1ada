----------------------------- MODULE ConnectionPool -----------------------------
(***************************************************************************)
(* The connection pool of core/database.py under any number of threads:    *)
(* get_connection, return_connection and close, interrupted between any    *)
(* two steps that are not under the same lock. An emergency connection is  *)
(* known by id(conn), and an id is free again once its connection is gone. *)
(***************************************************************************)
EXTENDS Naturals, FiniteSets

CONSTANTS
  Threads,       \* worker threads and the GUI thread
  Conns,         \* the connections the pool is filled with
  Spares,        \* ids of connections made in an emergency
  NoConn,
  MaxEmergency   \* max_emergency_connections

ASSUME PoolAssumption ==
  /\ IsFiniteSet(Threads) /\ IsFiniteSet(Conns)
  /\ Conns \cap Spares = {} /\ NoConn \notin Conns \cup Spares
  /\ MaxEmergency \in Nat

VARIABLES
  idle,       \* connection_pool
  active,     \* _active_connections
  emergency,  \* _emergency_connections
  closed,     \* _closed
  open,       \* the connections SQLite has open
  at, conn,   \* where each thread is, and the connection it has
  closing     \* where close is

vars == <<idle, active, emergency, closed, open, at, conn, closing>>

Places == {"out",
           "waiting", "taken", "empty", "creating", "created",        \* get_connection
           "using",
           "returning", "counting", "putting", "storing"}             \* return_connection

Refs == Conns \cup Spares

-----------------------------------------------------------------------------
Goes(t, from, to) == at[t] = from /\ at' = [at EXCEPT ![t] = to]
Holds(t, c) == conn' = [conn EXCEPT ![t] = c]

(* Mutant: the thread goes on with a connection that it has given back.     *)
Leaves_Keeps(t, from) == Goes(t, from, "out") /\ UNCHANGED conn

(* The caller's connection is gone: closed, or back in the pool.            *)
Leaves(t, from) == Goes(t, from, "out") /\ Holds(t, NoConn)

(* get_connection: a closed pool raises.                                    *)
Ask(t) ==
  /\ ~closed /\ Goes(t, "out", "waiting")
  /\ UNCHANGED <<idle, active, emergency, closed, open, conn, closing>>

(* Mutant: the queue still has the connection it has handed out.            *)
Take_Peeks(t) ==
  /\ Goes(t, "waiting", "taken")
  /\ \E c \in idle : Holds(t, c)
  /\ UNCHANGED <<idle, active, emergency, closed, open, closing>>

Take(t) ==
  /\ Goes(t, "waiting", "taken")
  /\ \E c \in idle : idle' = idle \ {c} /\ Holds(t, c)
  /\ UNCHANGED <<active, emergency, closed, open, closing>>

CountTaken(t) ==
  /\ Goes(t, "taken", "using")
  /\ active' = active + 1
  /\ UNCHANGED <<idle, emergency, closed, open, conn, closing>>

(* The queue was empty until the timeout.                                   *)
TimesOut(t) ==
  /\ idle = {} /\ Goes(t, "waiting", "empty")
  /\ UNCHANGED <<idle, active, emergency, closed, open, conn, closing>>

CapReached == Cardinality(emergency) >= MaxEmergency

CheckCap(t) ==
  /\ Goes(t, "empty", IF CapReached THEN "out" ELSE "creating")
  /\ UNCHANGED <<idle, active, emergency, closed, open, conn, closing>>

(* _create_connection may raise. An id in use is never given out again.     *)
Create(t) ==
  /\ \/ /\ Goes(t, "creating", "created")
        /\ \E c \in Spares \ open : Holds(t, c) /\ open' = open \cup {c}
     \/ Goes(t, "creating", "out") /\ UNCHANGED <<open, conn>>
  /\ UNCHANGED <<idle, active, emergency, closed, closing>>

(* Mutant: an emergency connection is not remembered.                       *)
Register_Forgets(t) ==
  /\ Goes(t, "created", "using")
  /\ UNCHANGED <<idle, active, emergency, closed, open, conn, closing>>

Register(t) ==
  /\ Goes(t, "created", "using")
  /\ emergency' = emergency \cup {conn[t]}
  /\ UNCHANGED <<idle, active, closed, open, conn, closing>>

(* Mutant: it stays in the set of emergency connections.                    *)
GiveBackEmergency_StaysKnown(t) ==
  /\ conn[t] \in emergency /\ Leaves(t, "using")
  /\ open' = open \ {conn[t]}
  /\ UNCHANGED <<idle, active, emergency, closed, closing>>

(* Mutant: an emergency connection is counted as one of the pool.           *)
GiveBackEmergency_Counts(t) ==
  /\ conn[t] \in emergency /\ Leaves(t, "using")
  /\ emergency' = emergency \ {conn[t]} /\ open' = open \ {conn[t]}
  /\ active' = IF active = 0 THEN 0 ELSE active - 1
  /\ UNCHANGED <<idle, closed, closing>>

(* return_connection: under the lock, an emergency connection is closed and *)
(* forgotten.                                                               *)
GiveBackEmergency(t) ==
  /\ conn[t] \in emergency /\ Leaves(t, "using")
  /\ emergency' = emergency \ {conn[t]} /\ open' = open \ {conn[t]}
  /\ UNCHANGED <<idle, active, closed, closing>>

GiveBackPooled(t) ==
  /\ conn[t] \notin emergency /\ Goes(t, "using", "returning")
  /\ UNCHANGED <<idle, active, emergency, closed, open, conn, closing>>

CloseReturned(t, from) ==
  /\ Leaves(t, from) /\ open' = open \ {conn[t]}
  /\ UNCHANGED <<idle, active, emergency, closed, closing>>

CheckClosed(t) ==
  \/ closed /\ CloseReturned(t, "returning")
  \/ /\ ~closed /\ Goes(t, "returning", "counting")
     /\ UNCHANGED <<idle, active, emergency, closed, open, conn, closing>>

CountReturned(t) ==
  /\ Goes(t, "counting", "putting")
  /\ active' = IF active = 0 THEN 0 ELSE active - 1
  /\ UNCHANGED <<idle, emergency, closed, open, conn, closing>>

(* Mutant: a connection is closed when the queue is about to be full.       *)
Full_Early == Cardinality(idle) + 1 >= Cardinality(Conns)

Full == Cardinality(idle) >= Cardinality(Conns)

(* Closes the connection when the queue is full.                            *)
CheckFull(t) ==
  IF Full THEN CloseReturned(t, "putting")
  ELSE /\ Goes(t, "putting", "storing")
       /\ UNCHANGED <<idle, active, emergency, closed, open, conn, closing>>

(* put_nowait; it raises when the queue is full after all.                  *)
Store(t) ==
  IF Full THEN CloseReturned(t, "storing")
  ELSE /\ Leaves(t, "storing")
       /\ idle' = idle \cup {conn[t]}
       /\ UNCHANGED <<active, emergency, closed, open, closing>>

-----------------------------------------------------------------------------
(* close, called once when the program ends.                               *)

BeginClose ==
  /\ closing = "no" /\ closing' = "marked"
  /\ closed' = TRUE
  /\ UNCHANGED <<idle, active, emergency, open, at, conn>>

ForgetEmergency ==
  /\ closing = "marked" /\ closing' = "draining"
  /\ emergency' = {}
  /\ UNCHANGED <<idle, active, closed, open, at, conn>>

(* A connection that cannot be closed ends the loop.                        *)
Drain ==
  /\ closing = "draining"
  /\ \E c \in idle :
       /\ idle' = idle \ {c}
       /\ \/ open' = open \ {c} /\ UNCHANGED closing
          \/ closing' = "done" /\ UNCHANGED open
  /\ UNCHANGED <<active, emergency, closed, at, conn>>

EndDrain ==
  /\ closing = "draining" /\ idle = {} /\ closing' = "done"
  /\ UNCHANGED <<idle, active, emergency, closed, open, at, conn>>

-----------------------------------------------------------------------------
Init ==
  /\ idle = Conns /\ open = Conns
  /\ active = 0 /\ emergency = {}
  /\ closed = FALSE /\ closing = "no"
  /\ at = [t \in Threads |-> "out"] /\ conn = [t \in Threads |-> NoConn]

Getting(t) == Ask(t) \/ Take(t) \/ CountTaken(t) \/ TimesOut(t) \/ CheckCap(t)
                \/ Create(t) \/ Register(t)
Returning(t) == GiveBackEmergency(t) \/ GiveBackPooled(t) \/ CheckClosed(t)
                  \/ CountReturned(t) \/ CheckFull(t) \/ Store(t)

Next ==
  \/ \E t \in Threads : Getting(t) \/ Returning(t)
  \/ BeginClose \/ ForgetEmergency \/ Drain \/ EndDrain

Spec == Init /\ [][Next]_vars

-----------------------------------------------------------------------------
(* Types; a thread has a connection exactly where the code has one.        *)
TypeOK ==
  /\ idle \subseteq Conns /\ open \subseteq Refs /\ emergency \subseteq Spares
  /\ active \in Nat /\ closed \in BOOLEAN
  /\ closing \in {"no", "marked", "draining", "done"}
  /\ at \in [Threads -> Places] /\ conn \in [Threads -> Refs \cup {NoConn}]
  /\ \A t \in Threads :
       conn[t] = NoConn <=> at[t] \in {"out", "waiting", "empty", "creating"}

(* No connection is used by two threads, or by one while the pool could     *)
(* lend it to another, or after it was closed.                              *)
ExclusiveUse ==
  \A t \in Threads : conn[t] # NoConn =>
    /\ conn[t] \in open \ idle
    /\ \A u \in Threads : conn[u] = conn[t] => u = t

(* Until close the pool neither loses nor closes one of its connections,    *)
(* however many emergency connections come and go beside them.              *)
PoolIsWhole ==
  ~closed => /\ Conns \subseteq open
             /\ \A c \in Conns : c \in idle \/ \E t \in Threads : conn[t] = c

(* The set that the cap of emergency connections is checked against names   *)
(* connections in use: a stale id would use the cap up for good.            *)
EmergencyInUse == \A e \in emergency : \E t \in Threads : conn[t] = e /\ at[t] = "using"

(* The counter of the warnings counts the connections that are lent, and    *)
(* its clamp at zero is never needed.                                       *)
Counted == {t \in Threads : /\ at[t] \in {"using", "returning", "counting"}
                            /\ conn[t] \in Conns}
ActiveCounts == ~closed => active = Cardinality(Counted)

(* The pool does what PoolContract promises.                                *)
Contract == INSTANCE PoolContract WITH free <- idle, lent <- conn
ImplementsContract == Contract!ContractSpec
=============================================================================
