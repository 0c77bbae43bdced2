-------------------------------- MODULE Cache --------------------------------
(***************************************************************************)
(* The key-value store of src/src/cache.c on top of the slab allocator.    *)
(*                                                                         *)
(* Items hang in doubly linked chains off the buckets of a hash table, new *)
(* items in front.  The same next and prev fields link an item into a free *)
(* list once it is released, so the two structures share their pointers.   *)
(* One call runs at a time (the program is single-threaded); a call is the *)
(* walk along a bucket, one step per iteration of its loop, and then one   *)
(* step per function that changes the structures, in the code's order.     *)
(***************************************************************************)
EXTENDS Slabs

CONSTANTS
  Key, Value,
  nkey, nval,      \* their lengths in bytes
  Bucket,          \* 0 .. hashsize(hashpower) - 1 in the code
  hash,            \* hash(key) & hashmask(hashpower), by key
  Buffers,         \* values of maxnval that callers pass to cache_get
  sizeof_item      \* sizeof(item)                      (32)

ASSUME KeyAssumption ==
  /\ nkey \in [Key -> Nat] /\ nval \in [Value -> Nat]
  /\ hash \in [Key -> Bucket]
  /\ Buffers \subseteq Nat \ {0}
  /\ sizeof_item \in Nat
  /\ NULL \notin Key \cup Value

VARIABLES
  table,           \* whether calloc returned memory for the hash table
  hashtable,       \* head of every bucket's chain
  ikey, ival,      \* key and value bytes in every chunk (NULL: zeroed memory)
  req,             \* arguments of the call in progress, NULL between calls
  it,              \* the local variable "it" of the call in progress
  ret              \* what the last call returned

cacheVars == <<table, hashtable, ikey, ival>>
vars == <<slabVars, nsplit, pc, cacheVars, req, it, ret>>

GetRequest == [op : {"get"}, key : Key, maxnval : Buffers]
SetRequest == [op : {"set"}, key : Key, value : Value]
Request    == GetRequest \cup SetRequest

(* "No call" is told from every call. *)
ASSUME RequestAssumption == NULL \notin Request

(* Mutant: a byte more for every item. *)
ITEM_ntotal_OneMore(nk, nv) == sizeof_item + nk + 1 + nv + 2

ITEM_ntotal(nk, nv) == sizeof_item + nk + 1 + nv + 1
SizeOf(k, v) == ITEM_ntotal(nkey[k], nval[v])

(* Mutant: the buffer's size is ignored. *)
Bytes_Unbounded(a, b) == a

(* MIN of cache.c. *)
Bytes(a, b) == IF a < b THEN a ELSE b

Init ==
  /\ SlabsInit
  /\ table \in BOOLEAN
  /\ hashtable = [b \in Bucket |-> NULL]
  /\ ikey = [i \in Item |-> NULL]
  /\ ival = [i \in Item |-> NULL]
  /\ req = NULL
  /\ it  = NULL
  /\ ret = NULL

-----------------------------------------------------------------------------
(* cache_init, by way of slab_init. *)
cache_init ==
  /\ \/ slab_preallocate
     \/ split_slab_page_into_freelist
     \/ slab_preallocated
  /\ UNCHANGED <<cacheVars, req, it, ret>>

(* Entry of cache_get and of cache_set: hash the key, start at the head of *)
(* its bucket.                                                             *)
Call(r) ==
  /\ pc = "idle"
  /\ table
  /\ pc' = "find"
  /\ req' = r
  /\ it' = hashtable[hash[r.key]]
  /\ UNCHANGED <<slabVars, nsplit, cacheVars, ret>>

(* cache_init does not look at what calloc returned: without a table, the  *)
(* first call reads its bucket through a null pointer.                     *)
call_faults ==
  /\ pc = "idle"
  /\ ~table
  /\ pc' = "crashed"
  /\ UNCHANGED <<slabVars, nsplit, cacheVars, req, it, ret>>

Return(answer) ==
  /\ pc' = "idle"
  /\ req' = NULL
  /\ it' = NULL
  /\ ret' = answer

(* The comparison of item_get and item_unlink: same length, same bytes. *)
Matches(i) == ikey[i] = req.key

(* Mutant: no break at the item that matches. *)
WalkOn_Past ==
  /\ pc = "find"
  /\ it # NULL
  /\ it' = next[it]
  /\ UNCHANGED <<slabVars, nsplit, pc, cacheVars, req, ret>>

(* One iteration of "while(it)" in item_get and in item_unlink that does   *)
(* not find the key.                                                       *)
WalkOn ==
  /\ pc = "find"
  /\ it # NULL
  /\ ~Matches(it)
  /\ it' = next[it]
  /\ UNCHANGED <<slabVars, nsplit, pc, cacheVars, req, ret>>

(* The rest of cache_get once item_get has returned: -1, or the value cut  *)
(* to the caller's buffer.                                                 *)
cache_get ==
  /\ pc = "find"
  /\ req.op = "get"
  /\ \/ it = NULL /\ Return([rc |-> -1, value |-> NULL])
     \/ /\ it # NULL
        /\ Matches(it)
        /\ Return([rc |-> Bytes(nval[ival[it]], req.maxnval - 1), value |-> ival[it]])
  /\ UNCHANGED <<slabVars, nsplit, cacheVars>>

-----------------------------------------------------------------------------
(* item_unlink takes an item that matches out of its chain: as the head,   *)
(* or through its prev pointer.                                            *)
IsHead(i) == i = hashtable[hash[req.key]]

(* Mutant: it->next->prev is left pointing at the unlinked item. *)
UnlinkBack_Stale(i) == prev

UnlinkBack(i) == SetLink(prev, next[i], IF IsHead(i) THEN NULL ELSE prev[i])

(* Mutant: it->prev->next keeps pointing at the unlinked item. *)
UnlinkForward_HeadOnly(i) == next

UnlinkForward(i) == IF IsHead(i) THEN next ELSE [next EXCEPT ![prev[i]] = next[i]]

item_unlink ==
  /\ pc = "find"
  /\ req.op = "set"
  /\ it # NULL
  /\ Matches(it)
  /\ hashtable' = IF IsHead(it) THEN [hashtable EXCEPT ![hash[req.key]] = next[it]]
                                ELSE hashtable
  /\ next' = UnlinkForward(it)
  /\ prev' = UnlinkBack(it)
  /\ pc' = "free"
  /\ UNCHANGED <<clsid, slots, sl_curr, slabs, nsplit, table, ikey, ival, req, it, ret>>

(* Mutant: the set goes on without looking for an old item. *)
unlink_missed_Early ==
  /\ pc = "find"
  /\ req.op = "set"
  /\ pc' = "alloc"
  /\ UNCHANGED <<slabVars, nsplit, cacheVars, req, it, ret>>

(* item_unlink returns NULL: there is nothing to free. *)
unlink_missed ==
  /\ pc = "find"
  /\ req.op = "set"
  /\ it = NULL
  /\ pc' = "alloc"
  /\ UNCHANGED <<slabVars, nsplit, cacheVars, req, it, ret>>

(* Mutant: the old item is unlinked but never freed. *)
free_old_Leak ==
  /\ pc = "free"
  /\ pc' = "alloc"
  /\ UNCHANGED <<slabVars, nsplit, cacheVars, req, it, ret>>

(* "if(it) slabs_free(it)" in cache_set. *)
free_old ==
  /\ pc = "free"
  /\ slabs_free(it)
  /\ pc' = "alloc"
  /\ UNCHANGED <<nsplit, cacheVars, req, it, ret>>

ReqClass == slabs_clsid(SizeOf(req.key, req.value))

(* The rest of cache_set when item_alloc gets chunk i: fill the item, then *)
(* put it in front of its bucket.                                          *)
insert_new(i) ==
  LET b == hash[req.key] IN
  /\ pc = "alloc"
  /\ ReqClass # NoClass
  /\ slabs_alloc(i, ReqClass)
  /\ next' = [next EXCEPT ![i] = hashtable[b]]
  /\ prev' = SetLink([UnlinkFirst(i) EXCEPT ![i] = NULL], hashtable[b], i)
  /\ hashtable' = [hashtable EXCEPT ![b] = i]
  /\ ikey' = [ikey EXCEPT ![i] = req.key]
  /\ ival' = [ival EXCEPT ![i] = req.value]
  /\ Return([rc |-> 0, value |-> NULL])
  /\ UNCHANGED <<nsplit, table>>

(* The class has no free chunk: item_alloc and then cache_set give up. *)
alloc_failed ==
  /\ pc = "alloc"
  /\ ReqClass # NoClass
  /\ sl_curr[ReqClass] = 0
  /\ Return([rc |-> -1, value |-> NULL])
  /\ UNCHANGED <<slabVars, nsplit, cacheVars>>

(* No class is large enough.  "if((id = slabs_clsid(size)) < 0)" is never  *)
(* true of the unsigned id, and slabclass[UINT_MAX] is not memory of the   *)
(* program: the access faults.                                             *)
alloc_oversize ==
  /\ pc = "alloc"
  /\ ReqClass = NoClass
  /\ pc' = "crashed"
  /\ UNCHANGED <<slabVars, nsplit, cacheVars, req, it, ret>>

cache_set ==
  \/ item_unlink
  \/ unlink_missed
  \/ free_old
  \/ \E i \in Item : insert_new(i)
  \/ alloc_failed
  \/ alloc_oversize

(* A program that faulted is gone. *)
Halted == pc = "crashed" /\ UNCHANGED vars

Step == cache_init \/ WalkOn \/ cache_get \/ cache_set

Next == Step \/ (\E r \in Request : Call(r)) \/ call_faults \/ Halted

(* The one thread keeps running until the call it is in returns. *)
Spec == Init /\ [][Next]_vars /\ WF_vars(Step)
-----------------------------------------------------------------------------
(* Properties *)

InBucket(b) == Chain(next, hashtable[b])
Linked == UNION {InBucket(b) : b \in Bucket}

(* The item that cache_set has unlinked and not freed yet. *)
InHand == IF pc = "free" THEN {it} ELSE {}

Answer == [rc : Int, value : Value \cup {NULL}]

(* Every variable keeps its C type: pointers are null or point at a chunk  *)
(* of the page, a chunk's class is a class, a call has arguments.          *)
TypeOK ==
  /\ next \in [Item -> Item \cup {NULL}]
  /\ prev \in [Item -> Item \cup {NULL}]
  /\ clsid \in [Item -> Class]
  /\ slots \in [Class -> Item \cup {NULL}]
  /\ sl_curr \in [Class -> Nat]
  /\ slabs \in [Class -> Nat]
  /\ nsplit \in 0 .. perslab
  /\ table \in BOOLEAN
  /\ hashtable \in [Bucket -> Item \cup {NULL}]
  /\ ikey \in [Item -> Key \cup {NULL}]
  /\ ival \in [Item -> Value \cup {NULL}]
  /\ it \in Item \cup {NULL}
  /\ ret \in Answer \cup {NULL}
  /\ pc \in {"init", "split", "idle", "find", "free", "alloc", "crashed"}
  /\ req \in Request \cup {NULL}
  /\ pc \in {"find", "free", "alloc"} => req \in Request
  /\ pc \in {"free", "alloc"} => req \in SetRequest
  /\ pc = "free" => it \in Item

(* The walks of item_get, item_unlink and dump_cache terminate: no chain,  *)
(* of a bucket or of a free list, leads back into itself.                  *)
WalksEnd == Acyclic(next)

(* Every chunk that was split off the page is in exactly one place: in one *)
(* bucket, on the free list, or in the hands of cache_set between          *)
(* item_unlink and slabs_free.  Nothing leaks, nothing is used twice.      *)
ChunksPartitioned ==
  /\ 0 .. nsplit - 1 = Linked \cup Free(PreClass) \cup InHand
  /\ \A b \in Bucket : InBucket(b) \cap (Free(PreClass) \cup InHand) = {}
  /\ \A b, d \in Bucket : b # d => InBucket(b) \cap InBucket(d) = {}
  /\ Free(PreClass) \cap InHand = {}
  /\ \A c \in Class \ {PreClass} : Free(c) = {}

(* The prev pointers of a bucket mirror its next pointers, and its head    *)
(* has none, whatever the items' prev fields held on the free list: the    *)
(* "it->prev->next" of item_unlink always goes through the predecessor.    *)
BackLinks ==
  /\ \A b \in Bucket : hashtable[b] # NULL => prev[hashtable[b]] = NULL
  /\ \A i \in Linked : next[i] # NULL => prev[next[i]] = i

(* A key is stored at most once, and in the bucket it hashes to. *)
KeysInPlace ==
  /\ \A b \in Bucket : \A i \in InBucket(b) :
       ikey[i] \in Key /\ ival[i] \in Value /\ hash[ikey[i]] = b
  /\ \A i, j \in Linked : ikey[i] = ikey[j] => i = j

(* sl_curr counts the free list: slabs_alloc tests the count and then      *)
(* follows the list head without a test of its own.                        *)
FreeCounted == \A c \in Class : sl_curr[c] = Cardinality(Free(c))

(* An item never outgrows its chunk, and carries the class of the list it  *)
(* must go back to.                                                        *)
ItemsFit ==
  \A i \in Linked \cup InHand :
    clsid[i] = PreClass /\ SizeOf(ikey[i], ival[i]) <= class_size[PreClass]

(* During a walk the key that is searched for, if it is stored at all, is  *)
(* still ahead: the walk has not missed it and cannot.                     *)
WalkMissesNothing ==
  pc = "find" =>
    /\ it \in InBucket(hash[req.key]) \cup {NULL}
    /\ \A i \in Linked : ikey[i] = req.key => i \in Chain(next, it)

(* How far the program has come: nothing is stored before slab_init is     *)
(* done, chunks not yet split off are untouched, and once cache_set has    *)
(* looked for its key the key is in no bucket until the set ends.          *)
Phases ==
  /\ pc \in {"init", "split"} => \A b \in Bucket : hashtable[b] = NULL
  /\ pc = "split" \/ nsplit \in {0, perslab}
  /\ \A i \in nsplit .. perslab - 1 : next[i] = NULL
  /\ pc \in {"free", "alloc"} => \A i \in Linked : ikey[i] # req.key

(* The inductive invariant from which the properties above are proved. *)
IInv ==
  /\ TypeOK
  /\ WalksEnd
  /\ ChunksPartitioned
  /\ BackLinks
  /\ KeysInPlace
  /\ FreeCounted
  /\ ItemsFit
  /\ WalkMissesNothing
  /\ Phases

(* After slab_init, slabs_memory_used reports the chunks in use, plus the  *)
(* tail of a page that is too short for a chunk.                           *)
MemoryAccounted ==
  pc \notin {"init", "split", "crashed"} =>
    slabs_memory_used = Cardinality(Linked \cup InHand) * class_size[PreClass]
                        + slabs[PreClass] * (slab_page_size % class_size[PreClass])

-----------------------------------------------------------------------------
(* The store that the structures represent.  While a set is in progress    *)
(* its key still has the old value, which stays in the chunk "it" points   *)
(* at until item_alloc overwrites it; the set takes effect when it returns *)
Holder(k) == {i \in Linked : ikey[i] = k}

store ==
  [k \in Key |->
     IF req # NULL /\ pc \in {"free", "alloc", "crashed"} /\ k = req.key
       THEN IF it = NULL THEN NULL ELSE ival[it]
       ELSE IF Holder(k) = {} THEN NULL ELSE ival[CHOOSE i \in Holder(k) : TRUE]]

status == CASE pc \in {"init", "split"} -> "booting"
            [] pc = "crashed" -> "crashed"
            [] OTHER -> "up"

KV == INSTANCE KVStore WITH
        cap      <- IF status = "booting" THEN 0 ELSE nsplit,
        Capacity <- perslab,
        Backed   <- {p \in Key \X Value : slabs_clsid(SizeOf(p[1], p[2])) = PreClass},
        Oversize <- {p \in Key \X Value : slabs_clsid(SizeOf(p[1], p[2])) = NoClass}

(* The cache is a key-value store (cache.h): gets return what the last     *)
(* successful set of the key stored, a set of one key never disturbs       *)
(* another, a set fails only when its size has no memory behind it or      *)
(* perslab other keys are stored, a set that fails leaves no stale value,  *)
(* and every call returns unless the program faults.                       *)
IsKVStore == KV!Spec
=============================================================================
