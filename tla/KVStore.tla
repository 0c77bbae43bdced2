------------------------------- MODULE KVStore -------------------------------
(***************************************************************************)
(* What the cache promises its caller (src/src/cache.h), with neither      *)
(* chunks nor chains: a partial map from keys to values that holds at most *)
(* cap keys, and one call at a time.                                       *)
(*                                                                         *)
(* A set first drops the old value of its key.  It then succeeds exactly   *)
(* when the new value's size has memory behind it and fewer than cap other *)
(* keys are stored; a set that fails leaves its key without a value.       *)
(***************************************************************************)
EXTENDS Integers, FiniteSets

CONSTANTS
  Key, Value,
  nval,           \* length of each value
  Buffers,        \* sizes of the buffers callers pass to get
  Capacity,       \* keys the cache has memory for
  Backed,         \* key-value pairs whose size class has memory
  Oversize,       \* key-value pairs larger than every size class
  NULL            \* no value, no request, no answer

VARIABLES
  status,         \* "booting", "up" or "crashed"
  table,          \* whether there is a table to look keys up in
  cap,            \* keys there is room for
  store,          \* the value of every key, or NULL
  req,            \* the call in progress, or NULL
  ret             \* what the last call returned

vars == <<status, table, cap, store, req, ret>>

GetRequest == [op : {"get"}, key : Key, maxnval : Buffers]
SetRequest == [op : {"set"}, key : Key, value : Value]
Request    == GetRequest \cup SetRequest

(* Answers: the result code and, for a get that hits, the value it copied. *)
Miss == [rc |-> -1, value |-> NULL]
Hit(v, maxnval) ==
  [rc |-> IF nval[v] < maxnval - 1 THEN nval[v] ELSE maxnval - 1, value |-> v]
Stored == [rc |-> 0, value |-> NULL]

Init ==
  /\ status = "booting"
  /\ table \in BOOLEAN
  /\ cap = 0
  /\ store = [k \in Key |-> NULL]
  /\ req = NULL
  /\ ret = NULL

(* The cache comes up with all of its memory or, if a list could not be    *)
(* grown, with none.                                                       *)
Boot ==
  /\ status = "booting"
  /\ status' = "up"
  /\ cap' \in {0, Capacity}
  /\ UNCHANGED <<table, store, req, ret>>

BootCrash ==
  /\ status = "booting"
  /\ status' = "crashed"
  /\ UNCHANGED <<table, cap, store, req, ret>>

Call(r) ==
  /\ status = "up"
  /\ table
  /\ req = NULL
  /\ req' = r
  /\ UNCHANGED <<status, table, cap, store, ret>>

(* Without a table the first call takes the program down. *)
CallCrash ==
  /\ status = "up"
  /\ ~table
  /\ status' = "crashed"
  /\ UNCHANGED <<table, cap, store, req, ret>>

Answer(a) == ret' = a /\ req' = NULL /\ UNCHANGED <<status, table, cap>>

Get ==
  /\ req \in GetRequest
  /\ status = "up"
  /\ Answer(IF store[req.key] = NULL THEN Miss ELSE Hit(store[req.key], req.maxnval))
  /\ UNCHANGED store

Others(k) == {j \in Key \ {k} : store[j] # NULL}

HasRoom(r) == <<r.key, r.value>> \in Backed /\ Cardinality(Others(r.key)) < cap

SetOk ==
  /\ req \in SetRequest
  /\ status = "up"
  /\ HasRoom(req)
  /\ store' = [store EXCEPT ![req.key] = req.value]
  /\ Answer(Stored)

SetFail ==
  /\ req \in SetRequest
  /\ status = "up"
  /\ ~HasRoom(req)
  /\ <<req.key, req.value>> \notin Oversize
  /\ store' = [store EXCEPT ![req.key] = NULL]
  /\ Answer(Miss)

(* A value larger than every class takes the program down. *)
SetCrash ==
  /\ req \in SetRequest
  /\ status = "up"
  /\ <<req.key, req.value>> \in Oversize
  /\ status' = "crashed"
  /\ UNCHANGED <<table, cap, store, req, ret>>

Respond == Get \/ SetOk \/ SetFail \/ SetCrash

Next == Boot \/ BootCrash \/ (\E r \in Request : Call(r)) \/ CallCrash \/ Respond

Spec == Init /\ [][Next]_vars /\ WF_vars(Respond)
=============================================================================
