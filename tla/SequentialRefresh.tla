------------------------- MODULE SequentialRefresh -------------------------
(***************************************************************************)
(* What a sequential refresh promises: the tabs of a list are fetched one  *)
(* at a time, in the order of the list, each at most once; the pass ends   *)
(* only after the last of them is settled, and no second pass begins       *)
(* before that.  A fetch may be taken away from the pass (its tab is       *)
(* closed); the pass then waits for ever.                                  *)
(***************************************************************************)
EXTENDS Naturals, Sequences

CONSTANTS Keyword, NoKeyword

VARIABLES
  running,     \* a pass is under way
  queue,       \* its tabs
  settled,     \* how many of them are done with
  fetching,    \* the tab being fetched, or NoKeyword
  armed        \* the next tab's turn is scheduled

passVars == <<running, queue, settled, fetching, armed>>

Init ==
  /\ running = FALSE /\ queue = <<>> /\ settled = 0
  /\ fetching = NoKeyword /\ armed = FALSE

(* The fetch of the i-th tab starts, or is given up at once.               *)
Attempt(list, i) ==
  \/ fetching' = list[i] /\ settled' = i - 1 /\ armed' = FALSE
  \/ fetching' = NoKeyword /\ settled' = i /\ armed' = TRUE

Begin ==
  /\ ~running
  /\ running' = TRUE
  /\ queue' \in Seq(Keyword) /\ queue' # <<>>
  /\ \A i, j \in DOMAIN queue' : queue'[i] = queue'[j] => i = j
  /\ Attempt(queue', 1)

NextTab ==
  /\ running /\ armed /\ settled < Len(queue)
  /\ Attempt(queue, settled + 1)
  /\ UNCHANGED <<running, queue>>

Settle ==
  /\ fetching # NoKeyword
  /\ fetching' = NoKeyword /\ settled' = settled + 1 /\ armed' = TRUE
  /\ UNCHANGED <<running, queue>>

Abandon ==
  /\ fetching # NoKeyword
  /\ fetching' = NoKeyword
  /\ UNCHANGED <<running, queue, settled, armed>>

Finish ==
  /\ running /\ armed /\ settled = Len(queue)
  /\ running' = FALSE /\ queue' = <<>> /\ armed' = FALSE
  /\ UNCHANGED <<settled, fetching>>

Next == Begin \/ NextTab \/ Settle \/ Abandon \/ Finish

Spec == Init /\ [][Next]_passVars
=============================================================================
