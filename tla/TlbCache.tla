------------------------------ MODULE TlbCache ------------------------------
(***************************************************************************)
(* The simulator of src/tracing/tlbcache.c: two levels of TLBs and two     *)
(* levels of caches, fed with the memory accesses of a trace.              *)
(*                                                                         *)
(* Every TLB or cache is an array of sets, every set an array of tags kept *)
(* in the order of their last use, 0 standing for an unused way.  One      *)
(* access first visits the pages it spans in the TLBs, then the lines it   *)
(* spans in the caches; a second level is visited only on a miss in the    *)
(* first.  A step is one iteration of the loop of cycle_helper.            *)
(*                                                                         *)
(* The configuration is the one of config.h: CACHE_INCLUSIVE is 0, so      *)
(* evict() is never called.  instrumentation_enable is true from the start *)
(* of main on.                                                             *)
(***************************************************************************)
EXTENDS Integers

CONSTANTS
  sets, assoc,      \* geometry of every TLB and cache
  LineSize,         \* 2^CACHE_LINE_BITS                      (64)
  PageSize,         \* 2^ARCH_PAGE_BITS                       (4096)
  AsidUnit,         \* 2^48: user pages are below, ASIDs above
  Access,           \* the accesses of a trace: address and size
  Asid,             \* compartments
  AccessType,       \* subset of {"INST", "DATA"}; main.c passes "DATA"
  MaxAccesses       \* length of the trace

L1Tlb == [INST |-> "l1itlb", DATA |-> "l1dtlb"]
L1    == [INST |-> "l1i",    DATA |-> "l1d"]
CacheName == {"l1itlb", "l1dtlb", "l2stlb", "l1i", "l1d", "llc"}

ASSUME GeometryAssumption ==
  /\ sets \in [CacheName -> Nat \ {0}]
  /\ assoc \in [CacheName -> Nat \ {0}]
  /\ LineSize \in Nat \ {0} /\ PageSize \in Nat \ {0} /\ AsidUnit \in Nat \ {0}

(* Accesses of user code, one byte or more. *)
ASSUME AccessAssumption ==
  /\ Access \subseteq [addr : Nat, size : Nat \ {0}]
  /\ \A a \in Access : (a.addr + a.size - 1) \div PageSize < AsidUnit
  /\ Asid \subseteq Nat
  /\ AccessType \subseteq {"INST", "DATA"}
  /\ MaxAccesses \in Nat

VARIABLES
  array,            \* the tags of every set of every TLB and cache
  misses,           \* l1i_tlb_misses ... llc_misses
  warmup,
  stage,            \* where cycle_access is: "idle", "tlb" or "line"
  call,             \* its arguments
  acc,              \* _acc, and the loop variable i of cycle_helper
  evict_addr,       \* what the last access to a second level returned
  naccess           \* accesses simulated so far

vars == <<array, misses, warmup, stage, call, acc, evict_addr, naccess>>

-----------------------------------------------------------------------------
(* One set of one cache.                                                   *)
Sets(c) == 0 .. sets[c] - 1
Ways(c) == 0 .. assoc[c] - 1

(* addr & setmask and addr >> tagshift; the number of sets is 2^tagshift. *)
SetOf(c, addr) == addr % sets[c]
TagOf(c, addr) == addr \div sets[c]

(* The way at which the search for the tag breaks, or assoc. *)
IsIdx(c, ways, tag, idx) ==
  \/ idx \in Ways(c) /\ ways[idx] = tag /\ \A j \in 0 .. idx - 1 : ways[j] # tag
  \/ idx = assoc[c] /\ \A j \in Ways(c) : ways[j] # tag

Hit(c, ways, tag) == \E j \in Ways(c) : ways[j] = tag

(* Mutant: a hit leaves the order of the set alone. *)
Boosted_Fifo(c, ways, tag) ==
  IF Hit(c, ways, tag) THEN ways
    ELSE [j \in Ways(c) |-> IF j = 0 THEN tag ELSE ways[j - 1]]

(* Mutant: the shift of a hit stops one way short. *)
Boosted_Short(c, ways, tag) ==
  LET idx     == CHOOSE j \in 0 .. assoc[c] : IsIdx(c, ways, tag, j)
      bounded == IF idx = assoc[c] THEN assoc[c] - 1 ELSE idx - 1
  IN [j \in Ways(c) |-> CASE j = 0 -> tag
                          [] j \in 1 .. bounded -> ways[j - 1]
                          [] OTHER -> ways[j]]

(* The set after the LRU update: the tag comes first, the ways before the  *)
(* one it was found in, or all but the last on a miss, move down by one.   *)
Boosted(c, ways, tag) ==
  LET idx     == CHOOSE j \in 0 .. assoc[c] : IsIdx(c, ways, tag, j)
      bounded == IF idx = assoc[c] THEN assoc[c] - 1 ELSE idx
  IN [j \in Ways(c) |-> CASE j = 0 -> tag
                          [] j \in 1 .. bounded -> ways[j - 1]
                          [] OTHER -> ways[j]]

(* access_cache: its effect on the cache, and the value it returns. *)
Touched(c, addr) ==
  [array[c] EXCEPT ![SetOf(c, addr)] = Boosted(c, @, TagOf(c, addr))]

Misses(c, addr) == ~Hit(c, array[c][SetOf(c, addr)], TagOf(c, addr))

access_cache(c, addr) ==
  LET last == array[c][SetOf(c, addr)][assoc[c] - 1] IN
  IF ~Misses(c, addr) THEN 0 ELSE IF last # 0 THEN last ELSE 1

-----------------------------------------------------------------------------
(* (asid << 48) | pageno. *)
mixpageasid(pageno, asid) == asid * AsidUnit + pageno

(* The blocks of n bytes that an access spans. *)
Spanned(a, n) == (a.addr + a.size - 1) \div n - a.addr \div n + 1

Init ==
  /\ array = [c \in CacheName |-> [s \in Sets(c) |-> [j \in Ways(c) |-> 0]]]
  /\ misses = [c \in CacheName |-> 0]
  /\ warmup = TRUE
  /\ stage = "idle"
  /\ call = [addr |-> 0, size |-> 0, asid |-> 0, type |-> "DATA"]
  /\ acc = [addr |-> 0, size |-> 0, i |-> 0]
  /\ evict_addr = 0
  /\ naccess = 0

(* cycle_access up to the first call of cycle_helper. *)
cycle_access(a, asid, type) ==
  /\ stage = "idle"
  /\ naccess < MaxAccesses
  /\ stage' = "tlb"
  /\ call' = [addr |-> a.addr, size |-> a.size, asid |-> asid, type |-> type]
  /\ acc' = [addr |-> mixpageasid(a.addr \div PageSize, asid),
             size |-> Spanned(a, PageSize), i |-> 0]
  /\ naccess' = naccess + 1
  /\ UNCHANGED <<array, misses, warmup, evict_addr>>

FirstLevel  == IF stage = "tlb" THEN L1Tlb[call.type] ELSE L1[call.type]
SecondLevel == IF stage = "tlb" THEN "l2stlb" ELSE "llc"

Here == acc.addr + acc.i

(* Mutant: the loop runs to i <= acc.size. *)
InHelper_OneMore == stage # "idle" /\ acc.i <= acc.size

InHelper == stage # "idle" /\ acc.i < acc.size

(* An iteration of cycle_helper that hits in the first level. *)
hit_first ==
  /\ InHelper
  /\ ~Misses(FirstLevel, Here)
  /\ array' = [array EXCEPT ![FirstLevel] = Touched(FirstLevel, Here)]
  /\ acc' = [acc EXCEPT !.i = @ + 1]
  /\ UNCHANGED <<misses, warmup, stage, call, evict_addr, naccess>>

(* Mutant: second-level misses count during warmup too. *)
Counted_Always(missed2) ==
  [misses EXCEPT ![FirstLevel]  = @ + (IF warmup THEN 0 ELSE 1),
                 ![SecondLevel] = @ + (IF missed2 THEN 1 ELSE 0)]

(* The statistics after a miss in the first level. *)
Counted(missed2) ==
  [misses EXCEPT ![FirstLevel]  = @ + (IF warmup THEN 0 ELSE 1),
                 ![SecondLevel] = @ + (IF missed2 /\ ~warmup THEN 1 ELSE 0)]

(* An iteration that misses there and goes on to the second level. *)
miss_first ==
  /\ InHelper
  /\ Misses(FirstLevel, Here)
  /\ array' = [array EXCEPT ![FirstLevel]  = Touched(FirstLevel, Here),
                            ![SecondLevel] = Touched(SecondLevel, Here)]
  /\ misses' = Counted(Misses(SecondLevel, Here))
  /\ evict_addr' = access_cache(SecondLevel, Here)
  /\ acc' = [acc EXCEPT !.i = @ + 1]
  /\ UNCHANGED <<warmup, stage, call, naccess>>

(* From the TLBs to the caches. *)
to_caches ==
  /\ stage = "tlb"
  /\ acc.i = acc.size
  /\ stage' = "line"
  /\ acc' = [addr |-> call.addr \div LineSize, size |-> Spanned(call, LineSize), i |-> 0]
  /\ UNCHANGED <<array, misses, warmup, call, evict_addr, naccess>>

return ==
  /\ stage = "line"
  /\ acc.i = acc.size
  /\ stage' = "idle"
  /\ UNCHANGED <<array, misses, warmup, call, acc, evict_addr, naccess>>

(* main.c ends the warmup between two accesses. *)
end_warmup ==
  /\ stage = "idle"
  /\ warmup
  /\ warmup' = FALSE
  /\ UNCHANGED <<array, misses, stage, call, acc, evict_addr, naccess>>

Next ==
  \/ \E a \in Access, asid \in Asid, type \in AccessType : cycle_access(a, asid, type)
  \/ hit_first
  \/ miss_first
  \/ to_caches
  \/ return
  \/ end_warmup

Spec == Init /\ [][Next]_vars

-----------------------------------------------------------------------------
(* Properties *)

(* The arrays keep their shape, and cycle_helper stays within the blocks   *)
(* of its access.                                                          *)
TypeOK ==
  /\ array = [c \in CacheName |-> array[c]]
  /\ \A c \in CacheName : array[c] \in [Sets(c) -> [Ways(c) -> Nat]]
  /\ misses \in [CacheName -> Nat]
  /\ warmup \in BOOLEAN
  /\ stage \in {"idle", "tlb", "line"}
  /\ call \in [addr : Nat, size : Nat, asid : Nat, type : {"INST", "DATA"}]
  /\ stage # "idle" => call.size > 0
  /\ acc \in [addr : Nat, size : Nat, i : Nat]
  /\ acc.i <= acc.size
  /\ evict_addr \in Nat
  /\ naccess \in 0 .. MaxAccesses

(* No address takes two ways of a set, however the shifts of the LRU       *)
(* update chain: a duplicate would waste a way and outlive its eviction.   *)
SetsDistinct ==
  \A c \in CacheName : \A s \in Sets(c) : \A j, k \in Ways(c) :
    j # k /\ array[c][s][j] = array[c][s][k] => array[c][s][j] = 0

(* The printed statistics are consistent: nothing is counted during the    *)
(* warmup, and a second level misses at most as often as the first levels  *)
(* in front of it.                                                         *)
StatsNested ==
  /\ warmup => \A c \in CacheName : misses[c] = 0
  /\ misses["l2stlb"] <= misses["l1itlb"] + misses["l1dtlb"]
  /\ misses["llc"] <= misses["l1i"] + misses["l1d"]

(* The comment on access_cache: "addr if miss and evicted".  A line that   *)
(* leaves the last-level cache is the address the access returned.         *)
ReturnsEvicted ==
  [][\A s \in Sets("llc") : \A j \in Ways("llc") :
       LET tag == array["llc"][s][j] IN
       tag # 0 /\ ~Hit("llc", array'["llc"][s], tag) =>
         evict_addr' = tag * sets["llc"] + s]_vars
=============================================================================
