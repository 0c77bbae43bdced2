----------------------------- MODULE TlbHistory -----------------------------
(***************************************************************************)
(* TlbCache with a history: for every TLB and cache the pages or lines it  *)
(* was asked for, and when it was asked for each of them last.  What an    *)
(* LRU cache holds is a function of that history and of nothing else.      *)
(***************************************************************************)
EXTENDS TlbCache, FiniteSets

VARIABLES clock, used

hvars == <<vars, clock, used>>

(* A page belongs to the compartment that touches it; lines are shared. *)
Block == IF stage = "tlb" THEN <<call.asid, call.addr \div PageSize + acc.i>>
                          ELSE <<0, acc.addr + acc.i>>

Asked(c) ==
  /\ InHelper
  /\ \/ c = FirstLevel
     \/ c = SecondLevel /\ Misses(FirstLevel, Here)

HInit == Init /\ clock = 0 /\ used = [c \in CacheName |-> [b \in {} |-> 0]]

HNext ==
  /\ Next
  /\ clock' = IF InHelper THEN clock + 1 ELSE clock
  /\ used' = [c \in CacheName |->
                IF Asked(c) THEN [b \in DOMAIN used[c] \cup {Block} |->
                                    IF b = Block THEN clock ELSE used[c][b]]
                            ELSE used[c]]

HSpec == HInit /\ [][HNext]_hvars

-----------------------------------------------------------------------------
IsTlb(c) == c \in {"l1itlb", "l1dtlb", "l2stlb"}

(* The address under which a block is looked up. *)
AddrOf(c, b) == IF IsTlb(c) THEN mixpageasid(b[2], b[1]) ELSE b[2]

(* No block has tag 0, which the simulator takes for an unused way: the    *)
(* accesses are above the lowest lines, and compartments are counted from  *)
(* 1.                                                                      *)
NoTagZero ==
  /\ 0 \notin Asid
  /\ \A c \in CacheName :
       IF IsTlb(c) THEN sets[c] <= AsidUnit
                   ELSE \A a \in Access : a.addr \div LineSize >= sets[c]

(* The blocks of a set that were asked for, and those of them that were    *)
(* asked for after b was, for the last time.                               *)
UsedIn(c, s) == {b \in DOMAIN used[c] : SetOf(c, AddrOf(c, b)) = s}
Since(c, s, b) == {x \in UsedIn(c, s) : used[c][x] > used[c][b]}
Age(c, s, b) == Cardinality(Since(c, s, b))

(* Every set holds the tags of the assoc blocks of that set that were used *)
(* last, each in the way that says how many were used since, and nothing   *)
(* else: the contents are those of a true LRU cache, and pages of          *)
(* different compartments never stand for each other.  (An unused way      *)
(* holds 0, and what it answers to tag 0 is the matter of HitsWereAsked.)  *)
IsLRU ==
  \A c \in CacheName : \A s \in Sets(c) :
    /\ \A b \in UsedIn(c, s) :
         Age(c, s, b) \in Ways(c) => array[c][s][Age(c, s, b)] = TagOf(c, AddrOf(c, b))
    /\ \A j \in Ways(c) :
         array[c][s][j] # 0 => \E b \in UsedIn(c, s) : Age(c, s, b) = j

(* The comment in init_tlbcache: "Initialize caches with 0, assuming the   *)
(* null address is actually invalid".  With that address left out, nothing *)
(* hits that was not asked for before.                                     *)
HitsWereAsked ==
  \A c \in CacheName :
    Asked(c) /\ call.addr # 0 /\ ~Misses(c, Here) => Block \in DOMAIN used[c]
=============================================================================
