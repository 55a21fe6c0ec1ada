--------------------------- MODULE WorkerRegistry ---------------------------
(***************************************************************************)
(* core/worker_registry.py: which background fetch belongs to which tab.   *)
(*                                                                         *)
(* The registry is two dictionaries kept by the GUI thread: every fetch    *)
(* that has been started and not yet cleaned up, by request id, and the    *)
(* newest such fetch of every tab.  A callback of a fetch is honoured only *)
(* while the second dictionary still names its request id.                 *)
(***************************************************************************)
EXTENDS Naturals

CONSTANTS
  Keyword,      \* the tab keywords a user can have open
  NoKeyword,    \* no entry in the dictionary of handles
  MaxRequests   \* bound: fetches started in one behaviour

ASSUME RegistryAssumption ==
  /\ NoKeyword \notin Keyword
  /\ MaxRequests \in Nat

VARIABLES
  handles,      \* _handles_by_request_id: the tab of a registered request
  active        \* _active_request_id_by_tab_keyword

registryVars == <<handles, active>>

Request == 1 .. MaxRequests
NoRequest == 0

RegistryTypeOK ==
  /\ handles \in [Request -> Keyword \cup {NoKeyword}]
  /\ active \in [Keyword -> Request \cup {NoRequest}]

RegistryInit ==
  /\ handles = [r \in Request |-> NoKeyword]
  /\ active = [k \in Keyword |-> NoRequest]

(* all_handles(): the requests that still have a handle. *)
Registered == {r \in Request : handles[r] # NoKeyword}

(* Mutant: every callback is taken for current.                            *)
IsActive_Always(k, r) == TRUE

(* is_active(): the staleness test of every fetch callback. *)
IsActive(k, r) == active[k] = r

(* get_active_handle(): the tab's newest request, if its handle is still   *)
(* there; as a set, empty or a singleton.                                  *)
ActiveHandle(k) == {active[k]} \cap Registered

(* The two dictionaries after pop_by_request_id() of every request of R:   *)
(* the tab's entry goes only while it names the popped request.            *)
HandlesWithout(R) == [r \in Request |-> IF r \in R THEN NoKeyword ELSE handles[r]]

(* (Mutant: the tab's entry is left behind.)                               *)
ActiveWithout_Kept(R) == active

ActiveWithout(R) ==
  [k \in Keyword |->
     IF active[k] \in R /\ handles[active[k]] = k
     THEN NoRequest ELSE active[k]]

Pop(R) ==
  /\ handles' = HandlesWithout(R)
  /\ active' = ActiveWithout(R)

(* The old requests R are popped and request r is registered for tab k, in *)
(* one handler.                                                            *)
PopAndRegister(R, r, k) ==
  /\ handles' = [HandlesWithout(R) EXCEPT ![r] = k]
  /\ active' = [ActiveWithout(R) EXCEPT ![k] = r]
=============================================================================
