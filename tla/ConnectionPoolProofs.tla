-------------------------- MODULE ConnectionPoolProofs --------------------------
(***************************************************************************)
(* The connection pool is sound for any number of threads, of pooled       *)
(* connections and of emergency connections, whatever the cap.             *)
(***************************************************************************)
EXTENDS ConnectionPool, FiniteSetTheorems, TLAPS

(* What a thread's place says of its connection.                           *)
PlaceTells ==
  \A t \in Threads :
    /\ at[t] \in {"taken", "counting", "putting", "storing"} => conn[t] \in Conns
    /\ at[t] = "created" => conn[t] \in Spares
    /\ at[t] = "using" /\ conn[t] \in Spares => closed \/ conn[t] \in emergency
    /\ at[t] = "returning" => closed \/ conn[t] \in Conns

(* No closed connection lies in the queue, even while close empties it.     *)
IdleIsOpen == idle \subseteq open

ClosingMeansClosed == closed <=> closing # "no"

PoolInv ==
  /\ TypeOK /\ ExclusiveUse /\ PoolIsWhole /\ EmergencyInUse
  /\ PlaceTells /\ IdleIsOpen /\ ClosingMeansClosed

-----------------------------------------------------------------------------
(* While a connection of the pool is on its way back the queue has room.    *)
LEMMA RoomForReturned ==
  ASSUME PoolInv, NEW t \in Threads, at[t] \in {"putting", "storing"}
  PROVE  ~Full
<1>1. idle \subseteq Conns \ {conn[t]} /\ conn[t] \in Conns
  BY PoolAssumption DEF PoolInv, TypeOK, ExclusiveUse, PlaceTells
<1>2. /\ IsFiniteSet(Conns \ {conn[t]})
      /\ Cardinality(Conns \ {conn[t]}) = Cardinality(Conns) - 1
      /\ Cardinality(Conns) \in Nat
  BY <1>1, PoolAssumption, FS_RemoveElement, FS_CardinalityType
<1>3. Cardinality(idle) <= Cardinality(Conns) - 1 /\ Cardinality(idle) \in Nat
  BY <1>1, <1>2, FS_Subset, FS_CardinalityType
<1> QED
  BY <1>2, <1>3 DEF Full

LEMMA InvStarts == Init => PoolInv
<1> SUFFICES ASSUME Init PROVE PoolInv
  OBVIOUS
<1> QED
  BY PoolAssumption
  DEF Init, PoolInv, TypeOK, ExclusiveUse, PoolIsWhole, EmergencyInUse,
      PlaceTells, IdleIsOpen, ClosingMeansClosed, Places, Refs

(* The steps of get_connection.                                             *)
LEMMA GettingKeepsInv ==
  ASSUME PoolInv, NEW t \in Threads, Getting(t)
  PROVE  PoolInv'
<1> USE PoolAssumption
    DEF PoolInv, TypeOK, ExclusiveUse, PoolIsWhole, EmergencyInUse,
        PlaceTells, IdleIsOpen, ClosingMeansClosed, Places, Refs, Goes, Holds
<1>1. CASE Ask(t)
  BY <1>1 DEF Ask
<1>2. CASE Take(t)
  <2>1. PICK c \in idle : idle' = idle \ {c} /\ conn' = [conn EXCEPT ![t] = c]
    BY <1>2 DEF Take
  <2>2. /\ at[t] = "waiting" /\ at' = [at EXCEPT ![t] = "taken"]
        /\ UNCHANGED <<active, emergency, closed, open, closing>>
    BY <1>2 DEF Take
  <2>3. c \in Conns /\ c \in open /\ \A u \in Threads : conn[u] # c
    OBVIOUS
  <2>4. TypeOK'
    BY <2>1, <2>2, <2>3
  <2>5. ExclusiveUse'
    BY <2>1, <2>2, <2>3
  <2>6. PoolIsWhole'
    BY <2>1, <2>2, <2>3
  <2>7. EmergencyInUse'
    BY <2>1, <2>2, <2>3
  <2>8. PlaceTells' /\ IdleIsOpen' /\ ClosingMeansClosed'
    BY <2>1, <2>2, <2>3
  <2> QED
    BY <2>4, <2>5, <2>6, <2>7, <2>8
<1>3. CASE CountTaken(t)
  BY <1>3 DEF CountTaken
<1>4. CASE TimesOut(t)
  BY <1>4 DEF TimesOut
<1>5. CASE CheckCap(t)
  BY <1>5 DEF CheckCap
<1>6. CASE Create(t)
  BY <1>6 DEF Create
<1>7. CASE Register(t)
  BY <1>7 DEF Register
<1> QED
  BY <1>1, <1>2, <1>3, <1>4, <1>5, <1>6, <1>7 DEF Getting

(* The steps of return_connection.                                          *)
LEMMA ReturningKeepsInv ==
  ASSUME PoolInv, NEW t \in Threads, Returning(t)
  PROVE  PoolInv'
<1>0. at[t] \in {"putting", "storing"} => ~Full
  BY RoomForReturned
<1> USE PoolAssumption
    DEF PoolInv, TypeOK, ExclusiveUse, PoolIsWhole, EmergencyInUse,
        PlaceTells, IdleIsOpen, ClosingMeansClosed, Places, Refs, Goes, Holds, Leaves
<1>1. CASE GiveBackEmergency(t)
  BY <1>1 DEF GiveBackEmergency
<1>2. CASE GiveBackPooled(t)
  BY <1>2 DEF GiveBackPooled
<1>3. CASE CheckClosed(t)
  BY <1>3 DEF CheckClosed, CloseReturned
<1>4. CASE CountReturned(t)
  BY <1>4 DEF CountReturned
<1>5. CASE CheckFull(t)
  BY <1>0, <1>5 DEF CheckFull, CloseReturned
<1>6. CASE Store(t)
  BY <1>0, <1>6 DEF Store, CloseReturned
<1> QED
  BY <1>1, <1>2, <1>3, <1>4, <1>5, <1>6 DEF Returning

(* The steps of close.                                                      *)
LEMMA ClosingKeepsInv ==
  ASSUME PoolInv, BeginClose \/ ForgetEmergency \/ Drain \/ EndDrain
  PROVE  PoolInv'
<1> USE PoolAssumption
    DEF PoolInv, TypeOK, ExclusiveUse, PoolIsWhole, EmergencyInUse,
        PlaceTells, IdleIsOpen, ClosingMeansClosed, Places, Refs
<1>1. CASE BeginClose
  BY <1>1 DEF BeginClose
<1>2. CASE ForgetEmergency
  BY <1>2 DEF ForgetEmergency
<1>3. CASE Drain
  BY <1>3 DEF Drain
<1>4. CASE EndDrain
  BY <1>4 DEF EndDrain
<1> QED
  BY <1>1, <1>2, <1>3, <1>4

LEMMA StepKeepsInv ==
  ASSUME PoolInv, [Next]_vars
  PROVE  PoolInv'
<1>1. CASE UNCHANGED vars
  BY <1>1
  DEF vars, PoolInv, TypeOK, ExclusiveUse, PoolIsWhole, EmergencyInUse,
      PlaceTells, IdleIsOpen, ClosingMeansClosed
<1>2. CASE Next
  BY <1>2, GettingKeepsInv, ReturningKeepsInv, ClosingKeepsInv DEF Next
<1> QED
  BY <1>1, <1>2

THEOREM Spec_PoolInv == Spec => []PoolInv
<1> QED
  BY InvStarts, StepKeepsInv, PTL DEF Spec

(* The types and places of threads and connections: TypeOK of the pool.     *)
THEOREM PoolTypeCorrect == Spec => []TypeOK
<1>1. PoolInv => TypeOK
  BY DEF PoolInv
<1> QED
  BY <1>1, Spec_PoolInv, PTL

(* get_connection never hands a connection to a second thread, nor one that *)
(* close or return_connection has closed.                                   *)
THEOREM LentToOne == Spec => []ExclusiveUse
<1>1. PoolInv => ExclusiveUse
  BY DEF PoolInv
<1> QED
  BY <1>1, Spec_PoolInv, PTL

(* return_connection puts every pooled connection back: the branch that     *)
(* closes it when the queue is full is never taken before close.            *)
THEOREM NoConnectionLost == Spec => []PoolIsWhole
<1>1. PoolInv => PoolIsWhole
  BY DEF PoolInv
<1> QED
  BY <1>1, Spec_PoolInv, PTL

(* The emergency cap is used up by connections in use only.                 *)
THEOREM NoStaleEmergency == Spec => []EmergencyInUse
<1>1. PoolInv => EmergencyInUse
  BY DEF PoolInv
<1> QED
  BY <1>1, Spec_PoolInv, PTL

-----------------------------------------------------------------------------
(* The counter of lent connections.                                         *)

LEMMA CountStarts == Init => ActiveCounts
<1> SUFFICES ASSUME Init PROVE ActiveCounts
  OBVIOUS
<1>1. Counted = {}
  BY DEF Init, Counted
<1> QED
  BY <1>1, FS_EmptySet DEF Init, ActiveCounts

LEMMA StepKeepsCount ==
  ASSUME PoolInv, ActiveCounts, [Next]_vars
  PROVE  ActiveCounts'
<1> SUFFICES ASSUME ~closed' PROVE active' = Cardinality(Counted')
  BY DEF ActiveCounts
<1> USE DEF PoolInv, TypeOK, PlaceTells, Counted, Goes, Holds, Leaves
<1>1. ~closed /\ active = Cardinality(Counted) /\ IsFiniteSet(Counted)
  <2>1. ~closed
    BY DEF Next, Getting, Returning, Ask, Take, CountTaken, TimesOut, CheckCap,
           Create, Register, GiveBackEmergency, GiveBackPooled, CheckClosed,
           CountReturned, CheckFull, Store, CloseReturned, BeginClose,
           ForgetEmergency, Drain, EndDrain, vars
  <2>2. IsFiniteSet(Counted)
    BY PoolAssumption, FS_Subset
  <2> QED
    BY <2>1, <2>2 DEF ActiveCounts
<1>2. ASSUME NEW t \in Threads, CountTaken(t)
      PROVE  active' = Cardinality(Counted')
  <2>1. t \notin Counted /\ Counted' = Counted \cup {t} /\ active' = active + 1
    BY <1>2 DEF CountTaken, Places
  <2> HIDE DEF Counted
  <2> QED
    BY <1>1, <2>1, FS_AddElement
<1>3. ASSUME NEW t \in Threads, CountReturned(t)
      PROVE  active' = Cardinality(Counted')
  <2>1. t \in Counted /\ Counted' = Counted \ {t}
    BY <1>3 DEF CountReturned, Places
  <2> HIDE DEF Counted
  <2>2. Cardinality(Counted') = Cardinality(Counted) - 1
    BY <1>1, <2>1, FS_RemoveElement
  <2>3. active # 0
    BY <1>1, <2>1, FS_EmptySet
  <2> QED
    BY <1>1, <1>3, <2>2, <2>3 DEF CountReturned
<1>4. ASSUME NEW t \in Threads, Getting(t), ~CountTaken(t)
      PROVE  Counted' = Counted /\ active' = active
  BY <1>4, PoolAssumption
  DEF Getting, Ask, Take, TimesOut, CheckCap, Create, Register, Places, Refs
<1>5. ASSUME NEW t \in Threads, Returning(t), ~CountReturned(t)
      PROVE  Counted' = Counted /\ active' = active
  <2>1. ~closed /\ (at[t] \in {"putting", "storing"} => ~Full)
    BY <1>1, RoomForReturned
  <2> QED
    BY <1>5, <2>1, PoolAssumption
    DEF Returning, GiveBackEmergency, GiveBackPooled, CheckClosed, CheckFull,
        Store, CloseReturned, Places, Refs
<1>6. ASSUME BeginClose \/ ForgetEmergency \/ Drain \/ EndDrain \/ UNCHANGED vars
      PROVE  Counted' = Counted /\ active' = active
  BY <1>6 DEF BeginClose, ForgetEmergency, Drain, EndDrain, vars
<1> QED
  BY <1>1, <1>2, <1>3, <1>4, <1>5, <1>6 DEF Next

(* _active_connections is the number of pooled connections that are lent.   *)
THEOREM CounterIsRight == Spec => []ActiveCounts
<1>1. PoolInv /\ ActiveCounts /\ [Next]_vars => ActiveCounts'
  BY StepKeepsCount
<1> QED
  BY <1>1, CountStarts, Spec_PoolInv, PTL DEF Spec

-----------------------------------------------------------------------------
(* The pool implements its contract.                                        *)

LEMMA StepImplements ==
  ASSUME PoolInv, [Next]_vars
  PROVE  [Contract!ContractNext]_<<idle, conn, closed>>
<1> USE DEF Goes, Holds, Leaves
<1>1. ASSUME NEW t \in Threads, Take(t)
      PROVE  \E c \in Conns : Contract!Lend(t, c)
  <2>1. PICK c \in idle : idle' = idle \ {c} /\ conn' = [conn EXCEPT ![t] = c]
    BY <1>1 DEF Take
  <2>2. c \in Conns /\ conn[t] = NoConn /\ closed' = closed
    BY <1>1 DEF Take, PoolInv, TypeOK
  <2> QED
    BY <2>1, <2>2 DEF Contract!Lend
<1>2. ASSUME NEW t \in Threads, Create(t)
      PROVE  \/ \E c \in Spares : Contract!LendSpare(t, c)
             \/ UNCHANGED <<idle, conn, closed>>
  <2>1. CASE UNCHANGED conn
    BY <1>2, <2>1 DEF Create
  <2>2. CASE \E c \in Spares \ open : Holds(t, c)
    <3>1. PICK c \in Spares \ open : conn' = [conn EXCEPT ![t] = c]
      BY <2>2
    <3>2. conn[t] = NoConn /\ \A u \in Threads : conn[u] # c
      BY <1>2, PoolAssumption DEF Create, PoolInv, TypeOK, ExclusiveUse
    <3>3. UNCHANGED <<idle, closed>>
      BY <1>2 DEF Create
    <3> QED
      BY <3>1, <3>2, <3>3 DEF Contract!LendSpare
  <2> QED
    BY <1>2, <2>1, <2>2 DEF Create
<1>3. ASSUME NEW t \in Threads, GiveBackEmergency(t)
      PROVE  Contract!GiveBack(t)
  BY <1>3, PoolAssumption
  DEF GiveBackEmergency, Contract!GiveBack, PoolInv, TypeOK
<1>4. ASSUME NEW t \in Threads, NEW from \in {"returning", "putting", "storing"},
             closed \/ conn[t] \notin Conns, CloseReturned(t, from)
      PROVE  Contract!GiveBack(t)
  BY <1>4 DEF CloseReturned, Contract!GiveBack, PoolInv, TypeOK
<1>5. ASSUME NEW t \in Threads, Store(t)
      PROVE  Contract!GiveBack(t)
  <2>1. ~Full /\ conn[t] \in Conns /\ conn[t] # NoConn
    <3>1. at[t] = "storing"
      BY <1>5 DEF Store, CloseReturned
    <3>2. ~Full
      BY <3>1, RoomForReturned
    <3> QED
      BY <3>1, <3>2, PoolAssumption DEF PoolInv, PlaceTells
  <2>2. idle' = idle \cup {conn[t]} /\ conn' = [conn EXCEPT ![t] = NoConn]
    BY <1>5, <2>1 DEF Store
  <2> QED
    BY <1>5, <2>1, <2>2 DEF Store, Contract!GiveBack
<1>6. ASSUME NEW t \in Threads, Getting(t) \/ Returning(t)
      PROVE  [Contract!ContractNext]_<<idle, conn, closed>>
  <2>1. CASE Ask(t) \/ CountTaken(t) \/ TimesOut(t) \/ CheckCap(t) \/ Register(t)
    BY <2>1 DEF Ask, CountTaken, TimesOut, CheckCap, Register
  <2>2. CASE GiveBackPooled(t) \/ CountReturned(t)
    BY <2>2 DEF GiveBackPooled, CountReturned
  <2>3. CASE CheckClosed(t)
    <3>1. CASE closed /\ CloseReturned(t, "returning")
      <4>1. Contract!GiveBack(t)
        BY <3>1, <1>4
      <4> QED
        BY <4>1 DEF Contract!ContractNext
    <3>2. CASE UNCHANGED <<idle, conn, closed>>
      BY <3>2
    <3> QED
      BY <2>3, <3>1, <3>2 DEF CheckClosed
  <2>4. CASE CheckFull(t)
    <3>1. at[t] = "putting"
      BY <2>4 DEF CheckFull, CloseReturned
    <3>2. ~Full
      BY <3>1, RoomForReturned
    <3> QED
      BY <2>4, <3>2 DEF CheckFull
  <2> QED
    BY <1>1, <1>2, <1>3, <1>5, <1>6, <2>1, <2>2, <2>3, <2>4
    DEF Getting, Returning, Contract!ContractNext
<1>7. ASSUME BeginClose
      PROVE  Contract!Close
  BY <1>7 DEF BeginClose, Contract!Close, PoolInv, ClosingMeansClosed
<1>8. ASSUME Drain
      PROVE  \E c \in Conns : Contract!Discard(c)
  BY <1>8 DEF Drain, Contract!Discard, PoolInv, TypeOK, ClosingMeansClosed
<1>9. CASE ForgetEmergency \/ EndDrain \/ UNCHANGED vars
  BY <1>9 DEF ForgetEmergency, EndDrain, vars
<1> QED
  BY <1>6, <1>7, <1>8, <1>9 DEF Next, Contract!ContractNext

(* The pool, with its timeouts, emergency connections and close, does what  *)
(* PoolContract promises to a thread that uses it.                          *)
THEOREM PoolImplementsContract == Spec => ImplementsContract
<1>1. Init => Contract!ContractInit
  BY DEF Init, Contract!ContractInit
<1>2. PoolInv /\ [Next]_vars => [Contract!ContractNext]_Contract!contractVars
  BY StepImplements DEF Contract!contractVars
<1> QED
  BY <1>1, <1>2, Spec_PoolInv, PTL DEF Spec, ImplementsContract, Contract!ContractSpec
=============================================================================
