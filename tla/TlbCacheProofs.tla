--------------------------- MODULE TlbCacheProofs ---------------------------
(***************************************************************************)
(* The simulated TLBs and caches stay well formed, and their statistics    *)
(* consistent, for every geometry, every trace and every warmup.           *)
(***************************************************************************)
EXTENDS TlbHistory, NumberProofs, FiniteSetTheorems

(* The geometry of a cache. *)
LEMMA Geometry ==
  ASSUME NEW c \in CacheName
  PROVE  /\ sets[c] \in Nat \ {0} /\ assoc[c] \in Nat \ {0}
         /\ 0 \in Ways(c) /\ Ways(c) \subseteq Nat
         /\ \A j : j \in Ways(c) <=> j \in Nat /\ j < assoc[c]
<1>1. sets[c] \in Nat \ {0} /\ assoc[c] \in Nat \ {0}
  BY GeometryAssumption
<1> QED BY <1>1 DEF Ways

(* Every address has a set, and a tag. *)
LEMMA AddressFacts ==
  ASSUME NEW c \in CacheName, NEW addr \in Nat
  PROVE  SetOf(c, addr) \in Sets(c) /\ TagOf(c, addr) \in Nat
<1> DEFINE n == sets[c]
<1>1. n \in Nat /\ n > 0
  BY Geometry
<1>2. addr % n \in 0 .. n - 1 /\ addr \div n \in Nat
  <2> HIDE DEF n
  <2> QED BY <1>1
<1> QED BY <1>2 DEF SetOf, TagOf, Sets

(* An access spans at least one block. *)
LEMMA SpannedFacts ==
  ASSUME NEW n \in Nat \ {0}, NEW a, a.addr \in Nat, a.size \in Nat \ {0}
  PROVE  Spanned(a, n) \in Nat
<1>1. a.addr + a.size - 1 \in Nat /\ a.addr <= a.addr + a.size - 1
  OBVIOUS
<1>2. /\ a.addr \div n \in Nat /\ (a.addr + a.size - 1) \div n \in Nat
      /\ a.addr \div n <= (a.addr + a.size - 1) \div n
  BY <1>1, DivMonotone
<1> QED BY <1>2 DEF Spanned

-----------------------------------------------------------------------------
(* The tags of one set, but for unused ways, are distinct. *)
DistinctWays(c, ways) ==
  \A j, k \in Ways(c) : j # k /\ ways[j] = ways[k] => ways[j] = 0

(* The search for a tag ends somewhere. *)
LEMMA IdxExists ==
  ASSUME NEW c \in CacheName, NEW ways, NEW tag
  PROVE  \E idx \in 0 .. assoc[c] : IsIdx(c, ways, tag, idx)
<1>1. assoc[c] \in Nat /\ Ways(c) \subseteq Nat
  BY Geometry
<1>2. CASE Hit(c, ways, tag)
  <2> DEFINE T == {j \in Ways(c) : ways[j] = tag}
  <2>1. T \in SUBSET Nat /\ T # {}
    BY <1>1, <1>2 DEF Hit
  <2>2. PICK x \in T : \A y \in T : x <= y
    BY <2>1, LeastNat
  <2>3. x \in Ways(c) /\ ways[x] = tag /\ x \in 0 .. assoc[c]
    BY <1>1 DEF Ways
  <2>4. ASSUME NEW j \in 0 .. x - 1 PROVE ways[j] # tag
    BY <1>1, <2>2, <2>3 DEF Ways
  <2> QED BY <2>3, <2>4 DEF IsIdx
<1>3. CASE ~Hit(c, ways, tag)
  BY <1>1, <1>3 DEF Hit, IsIdx
<1> QED BY <1>2, <1>3

(* The way an LRU update takes away: the first that holds the tag, or the  *)
(* last.                                                                   *)
GivenUp(c, ways, tag, w) ==
  IF Hit(c, ways, tag)
    THEN ways[w] = tag /\ \A j \in Ways(c) : j < w => ways[j] # tag
    ELSE w = assoc[c] - 1

(* What the LRU update does to each way of a set: some way w is given up,  *)
(* and only that one.                                                      *)
LEMMA BoostedFacts ==
  ASSUME NEW c \in CacheName, NEW ways \in [Ways(c) -> Nat], NEW tag \in Nat
  PROVE  \E w \in Ways(c) :
           /\ GivenUp(c, ways, tag, w)
           /\ Boosted(c, ways, tag) \in [Ways(c) -> Nat]
           /\ Boosted(c, ways, tag)[0] = tag
           /\ \A j \in Ways(c) \ {0} :
                Boosted(c, ways, tag)[j] = IF j <= w THEN ways[j - 1] ELSE ways[j]
<1> DEFINE idx == CHOOSE j \in 0 .. assoc[c] : IsIdx(c, ways, tag, j)
           w == IF idx = assoc[c] THEN assoc[c] - 1 ELSE idx
<1>1. idx \in 0 .. assoc[c] /\ IsIdx(c, ways, tag, idx)
  BY IdxExists
<1>2. Boosted(c, ways, tag) = [j \in Ways(c) |-> CASE j = 0 -> tag
                                                  [] j \in 1 .. w -> ways[j - 1]
                                                  [] OTHER -> ways[j]]
  BY DEF Boosted
<1> HIDE DEF idx
<1>3. w \in Ways(c) /\ w \in Nat
  BY <1>1, Geometry
<1>4. GivenUp(c, ways, tag, w)
  <2>1. CASE Hit(c, ways, tag)
    <3>1. idx \in Ways(c) /\ ways[idx] = tag /\ \A j \in 0 .. idx - 1 : ways[j] # tag
      BY <1>1, <2>1 DEF Hit, IsIdx
    <3>2. w = idx
      BY <3>1, Geometry
    <3>3. \A j \in Ways(c) : j < idx => j \in 0 .. idx - 1
      BY <1>1, Geometry
    <3> QED BY <2>1, <3>1, <3>2, <3>3 DEF GivenUp
  <2>2. CASE ~Hit(c, ways, tag)
    BY <1>1, <2>2, Geometry DEF Hit, IsIdx, GivenUp
  <2> QED BY <2>1, <2>2
<1> HIDE DEF w
<1>5. \A j \in Ways(c) \ {0} : j \in Nat /\ j - 1 \in Ways(c) /\ (j \in 1 .. w <=> j <= w)
  BY <1>3, Geometry
<1>6. Boosted(c, ways, tag) \in [Ways(c) -> Nat]
  BY <1>2, <1>5
<1>7. Boosted(c, ways, tag)[0] = tag
  BY <1>2, Geometry
<1>8. \A j \in Ways(c) \ {0} :
         Boosted(c, ways, tag)[j] = IF j <= w THEN ways[j - 1] ELSE ways[j]
  BY <1>2, <1>5
<1> QED BY <1>3, <1>4, <1>6, <1>7, <1>8

(* The LRU update keeps the tags of a set distinct. *)
LEMMA BoostedDistinct ==
  ASSUME NEW c \in CacheName, NEW ways \in [Ways(c) -> Nat], NEW tag \in Nat,
         DistinctWays(c, ways)
  PROVE  DistinctWays(c, Boosted(c, ways, tag))
<1> DEFINE new == Boosted(c, ways, tag)
<1>0. PICK w \in Ways(c) :
           /\ GivenUp(c, ways, tag, w)
           /\ Boosted(c, ways, tag) \in [Ways(c) -> Nat]
           /\ Boosted(c, ways, tag)[0] = tag
           /\ \A j \in Ways(c) \ {0} :
                Boosted(c, ways, tag)[j] = IF j <= w THEN ways[j - 1] ELSE ways[j]
  BY BoostedFacts, Zenon
<1>1. /\ Hit(c, ways, tag) => ways[w] = tag
      /\ new[0] = tag
      /\ \A j \in Ways(c) \ {0} : new[j] = IF j <= w THEN ways[j - 1] ELSE ways[j]
  BY <1>0 DEF GivenUp
<1> HIDE DEF new
<1> DEFINE from(j) == IF j <= w THEN j - 1 ELSE j
<1>2. w \in Nat /\ \A j \in Ways(c) \ {0} : j \in Nat /\ from(j) \in Ways(c) /\ from(j) # w
  BY Geometry
<1>3. \A j, k \in Ways(c) \ {0} : j # k => from(j) # from(k)
  BY <1>2
<1>4. \A j \in Ways(c) \ {0} : new[j] = ways[from(j)]
  BY <1>1
<1> HIDE DEF from
<1>5. ASSUME NEW j \in Ways(c), NEW k \in Ways(c), j # k, new[j] = new[k]
      PROVE  new[j] = 0
  <2>1. CASE j # 0 /\ k # 0
    BY <1>2, <1>3, <1>4, <1>5, <2>1 DEF DistinctWays
  <2>2. ASSUME NEW x \in Ways(c) \ {0}, new[x] = tag
        PROVE  tag = 0
    <3>1. ways[from(x)] = tag /\ from(x) \in Ways(c) /\ from(x) # w
      BY <1>2, <1>4, <2>2
    <3>2. ways[w] = tag
      BY <1>1, <3>1 DEF Hit
    <3> QED BY <3>1, <3>2 DEF DistinctWays
  <2>3. CASE j = 0
    BY <1>1, <1>5, <2>2, <2>3
  <2>4. CASE k = 0
    BY <1>1, <1>5, <2>2, <2>4
  <2> QED BY <2>1, <2>3, <2>4
<1> QED BY <1>5 DEF DistinctWays, new

-----------------------------------------------------------------------------
(* access_cache keeps the shape of a cache, and its tags distinct. *)
LEMMA TouchedFacts ==
  ASSUME TypeOK, SetsDistinct, NEW c \in CacheName, NEW addr \in Nat
  PROVE  /\ Touched(c, addr) \in [Sets(c) -> [Ways(c) -> Nat]]
         /\ \A s \in Sets(c) : DistinctWays(c, Touched(c, addr)[s])
<1> DEFINE x == SetOf(c, addr)
           new == Boosted(c, array[c][x], TagOf(c, addr))
<1>1. x \in Sets(c) /\ TagOf(c, addr) \in Nat
  BY AddressFacts
<1>2. array[c] \in [Sets(c) -> [Ways(c) -> Nat]]
  BY DEF TypeOK
<1>3. \A s \in Sets(c) : array[c][s] \in [Ways(c) -> Nat] /\ DistinctWays(c, array[c][s])
  BY <1>2 DEF SetsDistinct, DistinctWays
<1>4. new \in [Ways(c) -> Nat]
  BY <1>1, <1>3, BoostedFacts
<1>5. DistinctWays(c, new)
  BY <1>1, <1>3, BoostedDistinct
<1>6. Touched(c, addr) = [array[c] EXCEPT ![x] = new]
  BY DEF Touched
<1> HIDE DEF new, x
<1>7. Touched(c, addr) \in [Sets(c) -> [Ways(c) -> Nat]]
  BY <1>1, <1>2, <1>4, <1>6
<1>8. \A s \in Sets(c) : Touched(c, addr)[s] = IF s = x THEN new ELSE array[c][s]
  BY <1>1, <1>2, <1>6
<1>9. \A s \in Sets(c) : DistinctWays(c, Touched(c, addr)[s])
  BY <1>3, <1>5, <1>8
<1> QED BY <1>7, <1>9

(* The first and the second level of a stage. *)
LEMMA LevelFacts ==
  ASSUME TypeOK
  PROVE  /\ FirstLevel \in {"l1itlb", "l1dtlb", "l1i", "l1d"}
         /\ SecondLevel \in {"l2stlb", "llc"}
         /\ SecondLevel = "l2stlb" <=> FirstLevel \in {"l1itlb", "l1dtlb"}
         /\ FirstLevel \in CacheName /\ SecondLevel \in CacheName
         /\ FirstLevel # SecondLevel
<1>1. call.type \in {"INST", "DATA"}
  BY DEF TypeOK
<1> QED BY <1>1 DEF FirstLevel, SecondLevel, L1, L1Tlb, CacheName

IInv == TypeOK /\ SetsDistinct /\ StatsNested

(* The simulator starts well formed. *)
LEMMA InitIInv == Init => IInv
<1> SUFFICES ASSUME Init PROVE IInv
  OBVIOUS
<1>1. \A c \in CacheName : array[c] = [s \in Sets(c) |-> [j \in Ways(c) |-> 0]]
  BY DEF Init
<1>2. TypeOK
  <2>1. array = [c \in CacheName |-> array[c]]
    BY DEF Init
  <2>2. \A c \in CacheName : array[c] \in [Sets(c) -> [Ways(c) -> Nat]]
    <3> TAKE c \in CacheName
    <3>1. [j \in Ways(c) |-> 0] \in [Ways(c) -> Nat]
      OBVIOUS
    <3> QED BY <1>1, <3>1
  <2>3. naccess \in 0 .. MaxAccesses
    BY AccessAssumption DEF Init
  <2> QED BY <2>1, <2>2, <2>3 DEF Init, TypeOK
<1>3. SetsDistinct
  <2>1. \A c \in CacheName : \A s \in Sets(c) : array[c][s] = [j \in Ways(c) |-> 0]
    BY <1>1
  <2>2. \A c \in CacheName : \A s \in Sets(c) : \A j \in Ways(c) : array[c][s][j] = 0
    BY <2>1
  <2> QED BY <2>2 DEF SetsDistinct
<1>4. StatsNested
  BY DEF Init, StatsNested, CacheName
<1> QED BY <1>2, <1>3, <1>4 DEF IInv

(* A step that leaves the caches and the statistics alone. *)
LEMMA QuietKeeps ==
  ASSUME IInv, array' = array, misses' = misses, warmup' = warmup \/ warmup' = FALSE
  PROVE  SetsDistinct' /\ StatsNested'
BY DEF IInv, SetsDistinct, StatsNested

(* An iteration of cycle_helper that hits in the first level. *)
LEMMA HitKeeps ==
  ASSUME IInv, hit_first
  PROVE  IInv'
<1> DEFINE c == FirstLevel
           new == Touched(FirstLevel, Here)
<1>0. TypeOK /\ SetsDistinct /\ c \in CacheName /\ Here \in Nat
  BY LevelFacts DEF IInv, TypeOK, Here
<1>1. /\ new \in [Sets(c) -> [Ways(c) -> Nat]]
      /\ \A s \in Sets(c) : DistinctWays(c, new[s])
  BY <1>0, TouchedFacts
<1>2. array' = [array EXCEPT ![c] = new]
  BY DEF hit_first
<1>3. \A d \in CacheName : array'[d] = IF d = c THEN new ELSE array[d]
  BY <1>0, <1>2 DEF TypeOK
<1>4. array' = [d \in CacheName |-> array'[d]]
  BY <1>0, <1>2 DEF TypeOK
<1> HIDE DEF c, new
<1>5. \A d \in CacheName : array'[d] \in [Sets(d) -> [Ways(d) -> Nat]]
  BY <1>0, <1>1, <1>3 DEF TypeOK
<1>6. acc' = [acc EXCEPT !.i = @ + 1] /\ acc.i < acc.size
  BY DEF hit_first, InHelper
<1>7. TypeOK'
  BY <1>0, <1>4, <1>5, <1>6 DEF TypeOK, hit_first
<1>8. SetsDistinct'
  BY <1>0, <1>1, <1>3 DEF SetsDistinct, DistinctWays
<1>9. StatsNested'
  BY DEF IInv, StatsNested, hit_first
<1> QED BY <1>7, <1>8, <1>9 DEF IInv

(* An iteration of cycle_helper that misses there. *)
LEMMA MissKeeps ==
  ASSUME IInv, miss_first
  PROVE  IInv'
<1> DEFINE c == FirstLevel
           d == SecondLevel
           newc == Touched(FirstLevel, Here)
           newd == Touched(SecondLevel, Here)
<1>0. /\ TypeOK /\ SetsDistinct /\ Here \in Nat
      /\ c \in CacheName /\ d \in CacheName /\ c # d
  BY LevelFacts DEF IInv, TypeOK, Here
<1>1. /\ newc \in [Sets(c) -> [Ways(c) -> Nat]]
      /\ \A s \in Sets(c) : DistinctWays(c, newc[s])
      /\ newd \in [Sets(d) -> [Ways(d) -> Nat]]
      /\ \A s \in Sets(d) : DistinctWays(d, newd[s])
  BY <1>0, TouchedFacts
<1>2. array' = [array EXCEPT ![c] = newc, ![d] = newd]
  BY DEF miss_first
<1>3. misses' = Counted(Misses(d, Here))
  BY DEF miss_first
<1>4. evict_addr' \in Nat
  <2>1. SetOf(d, Here) \in Sets(d) /\ assoc[d] - 1 \in Ways(d)
    BY <1>0, AddressFacts, Geometry
  <2>2. array[d][SetOf(d, Here)][assoc[d] - 1] \in Nat
    BY <1>0, <2>1 DEF TypeOK
  <2> QED BY <2>2 DEF miss_first, access_cache
<1>5. \A e \in CacheName : array'[e] = IF e = c THEN newc ELSE IF e = d THEN newd ELSE array[e]
  <2> HIDE DEF c, d, newc, newd
  <2> QED BY <1>0, <1>2 DEF TypeOK
<1>6. array' = [e \in CacheName |-> array'[e]]
  <2> HIDE DEF c, d, newc, newd
  <2> QED BY <1>0, <1>2 DEF TypeOK
<1>7. \A e \in CacheName : array'[e] \in [Sets(e) -> [Ways(e) -> Nat]]
  <2> HIDE DEF c, d, newc, newd
  <2> QED BY <1>0, <1>1, <1>5 DEF TypeOK
<1> DEFINE m == IF warmup THEN 0 ELSE 1
           n == IF Misses(SecondLevel, Here) /\ ~warmup THEN 1 ELSE 0
<1>8. /\ misses' = [misses EXCEPT ![c] = @ + m, ![d] = @ + n]
      /\ m \in {0, 1} /\ n \in {0, 1} /\ n <= m /\ (warmup => m = 0)
  BY <1>3 DEF Counted
<1> HIDE DEF m, n
<1>9. \A e \in CacheName :
        misses'[e] = IF e = c THEN misses[e] + m ELSE IF e = d THEN misses[e] + n ELSE misses[e]
  <2> HIDE DEF c, d
  <2> QED BY <1>0, <1>8 DEF TypeOK
<1>10. misses' \in [CacheName -> Nat]
  <2> HIDE DEF c, d
  <2>1. misses[c] + m \in Nat /\ misses[d] + n \in Nat
    BY <1>0, <1>8 DEF TypeOK
  <2> QED BY <1>0, <1>8, <2>1 DEF TypeOK
<1>11. acc' = [acc EXCEPT !.i = @ + 1] /\ acc.i < acc.size
  BY DEF miss_first, InHelper
<1>12. TypeOK'
  <2>1. UNCHANGED <<warmup, stage, call, naccess>>
    BY DEF miss_first
  <2>2. acc' \in [addr : Nat, size : Nat, i : Nat] /\ acc'.i <= acc'.size
    BY <1>0, <1>11 DEF TypeOK
  <2> QED BY <1>0, <1>4, <1>6, <1>7, <1>10, <2>1, <2>2 DEF TypeOK
<1>13. SetsDistinct'
  <2> HIDE DEF c, d, newc, newd
  <2> QED BY <1>0, <1>1, <1>5 DEF SetsDistinct, DistinctWays
<1>14. StatsNested'
  <2>1. /\ c \in {"l1itlb", "l1dtlb", "l1i", "l1d"} /\ d \in {"l2stlb", "llc"}
        /\ d = "l2stlb" <=> c \in {"l1itlb", "l1dtlb"}
    BY <1>0, LevelFacts
  <2> HIDE DEF c, d
  <2>2. \A e \in CacheName : misses[e] \in Nat
    BY <1>0 DEF TypeOK
  <2>3. warmup' => \A e \in CacheName : misses'[e] = 0
    <3>1. warmup' = warmup
      BY DEF miss_first
    <3>2. ASSUME warmup PROVE \A e \in CacheName : misses'[e] = 0
      <4>1. m = 0 /\ n = 0
        BY <1>8, <3>2
      <4>2. \A e \in CacheName : misses[e] = 0
        BY <3>2 DEF IInv, StatsNested
      <4> QED BY <1>9, <4>1, <4>2
    <3> QED BY <3>1, <3>2
  <2>4. misses'["l2stlb"] <= misses'["l1itlb"] + misses'["l1dtlb"]
    BY <1>8, <1>9, <2>1, <2>2 DEF IInv, StatsNested, CacheName
  <2>5. misses'["llc"] <= misses'["l1i"] + misses'["l1d"]
    BY <1>8, <1>9, <2>1, <2>2 DEF IInv, StatsNested, CacheName
  <2> QED BY <2>3, <2>4, <2>5 DEF StatsNested
<1> QED BY <1>12, <1>13, <1>14 DEF IInv

(* Every step of the simulator keeps it well formed. *)
LEMMA NextIInv == IInv /\ [Next]_vars => IInv'
<1> SUFFICES ASSUME IInv, [Next]_vars
             PROVE  IInv'
  OBVIOUS
<1>0. TypeOK
  BY DEF IInv
<1>1. ASSUME NEW a \in Access, NEW asid \in Asid, NEW type \in AccessType,
             cycle_access(a, asid, type)
      PROVE  IInv'
  <2>1. /\ a.addr \in Nat /\ a.size \in Nat \ {0} /\ asid \in Nat
        /\ type \in {"INST", "DATA"}
    BY AccessAssumption
  <2>2. Spanned(a, PageSize) \in Nat /\ a.addr \div PageSize \in Nat
    <3>1. PageSize \in Nat \ {0}
      BY GeometryAssumption
    <3> QED BY <2>1, <3>1, SpannedFacts, DivMonotone
  <2>3. mixpageasid(a.addr \div PageSize, asid) \in Nat
    <3>1. AsidUnit \in Nat
      BY GeometryAssumption
    <3>2. asid * AsidUnit \in Nat
      BY <2>1, <3>1
    <3> QED BY <2>2, <3>2 DEF mixpageasid
  <2>4. /\ acc' \in [addr : Nat, size : Nat, i : Nat] /\ acc'.i <= acc'.size
        /\ call' \in [addr : Nat, size : Nat, asid : Nat, type : {"INST", "DATA"}]
        /\ call'.size > 0
    BY <1>1, <2>1, <2>2, <2>3 DEF cycle_access
  <2>5. naccess' \in 0 .. MaxAccesses
    BY <1>0, <1>1, AccessAssumption DEF cycle_access, TypeOK
  <2>6. TypeOK'
    BY <1>0, <1>1, <2>4, <2>5 DEF cycle_access, TypeOK
  <2> QED BY <1>1, <2>6, QuietKeeps DEF cycle_access, IInv
<1>2. CASE hit_first
  BY <1>2, HitKeeps
<1>3. CASE miss_first
  BY <1>3, MissKeeps
<1>4. CASE to_caches
  <2>1. call.addr \in Nat /\ call.size \in Nat \ {0} /\ LineSize \in Nat \ {0}
    BY <1>0, <1>4, GeometryAssumption DEF TypeOK, to_caches
  <2>2. Spanned(call, LineSize) \in Nat /\ call.addr \div LineSize \in Nat
    BY <2>1, SpannedFacts, DivMonotone
  <2>3. TypeOK'
    BY <1>0, <1>4, <2>2 DEF to_caches, TypeOK
  <2> QED BY <1>4, <2>3, QuietKeeps DEF to_caches, IInv
<1>5. CASE return
  <2>1. TypeOK'
    BY <1>0, <1>5 DEF return, TypeOK
  <2> QED BY <1>5, <2>1, QuietKeeps DEF return, IInv
<1>6. CASE end_warmup
  <2>1. TypeOK'
    BY <1>0, <1>6 DEF end_warmup, TypeOK
  <2> QED BY <1>6, <2>1, QuietKeeps DEF end_warmup, IInv
<1>7. CASE UNCHANGED vars
  <2>1. TypeOK'
    BY <1>0, <1>7 DEF vars, TypeOK
  <2> QED BY <1>7, <2>1, QuietKeeps DEF vars, IInv
<1> QED BY <1>1, <1>2, <1>3, <1>4, <1>5, <1>6, <1>7 DEF Next

-----------------------------------------------------------------------------
(* The arrays keep their shape, and the loop of cycle_helper stays within  *)
(* the blocks of its access, for every geometry and every access.          *)
THEOREM TlbTypes == Spec => []TypeOK
<1>1. IInv => TypeOK
  BY DEF IInv
<1> QED BY <1>1, InitIInv, NextIInv, PTL DEF Spec

(* Whatever the trace, no tag is ever held by two ways of a set. *)
THEOREM TagsUnique == Spec => []SetsDistinct
<1>1. IInv => SetsDistinct
  BY DEF IInv
<1> QED BY <1>1, InitIInv, NextIInv, PTL DEF Spec

(* Whatever the trace and wherever the warmup ends, a second level counts  *)
(* no more misses than the first levels in front of it.                    *)
THEOREM StatsConsistent == Spec => []StatsNested
<1>1. IInv => StatsNested
  BY DEF IInv
<1> QED BY <1>1, InitIInv, NextIInv, PTL DEF Spec

-----------------------------------------------------------------------------
(* A true LRU cache. *)

(* How many of the blocks S were used after b, by the times u. *)
Rank(u, S, b) == Cardinality({x \in S : u[x] > u[b]})

LEMMA RankFacts ==
  ASSUME NEW S, IsFiniteSet(S), NEW u, \A x \in S : u[x] \in Nat,
         NEW a \in S, NEW b \in S
  PROVE  /\ Rank(u, S, b) \in Nat
         /\ u[a] > u[b] => Rank(u, S, a) < Rank(u, S, b)
<1> DEFINE L(x) == {y \in S : u[y] > u[x]}
<1>1. ASSUME NEW x \in S PROVE IsFiniteSet(L(x)) /\ Cardinality(L(x)) \in Nat
  <2>1. L(x) \in SUBSET S
    OBVIOUS
  <2> QED BY <2>1, FS_Subset, FS_CardinalityType
<1>2. ASSUME u[a] > u[b] PROVE Cardinality(L(a)) < Cardinality(L(b))
  <2>1. u[a] \in Nat /\ u[b] \in Nat
    OBVIOUS
  <2>2. ~(u[a] > u[a]) /\ \A y \in S : u[y] > u[a] => u[y] > u[b]
    BY <1>2, <2>1
  <2>3. L(a) \in SUBSET L(b) /\ a \in L(b) /\ a \notin L(a)
    BY <1>2, <2>2
  <2>4. L(a) # L(b) /\ IsFiniteSet(L(b)) /\ Cardinality(L(a)) \in Nat /\ Cardinality(L(b)) \in Nat
    BY <1>1, <2>3
  <2> HIDE DEF L
  <2>5. Cardinality(L(a)) <= Cardinality(L(b)) /\ (Cardinality(L(b)) = Cardinality(L(a)) => L(a) = L(b))
    BY <2>3, <2>4, FS_Subset
  <2> QED BY <2>4, <2>5
<1> QED BY <1>1, <1>2 DEF Rank

(* Below the rank of a block every rank is that of some block. *)
LEMMA RankDense ==
  ASSUME NEW S, IsFiniteSet(S), NEW u, \A x \in S : u[x] \in Nat,
         \A x, y \in S : u[x] = u[y] => x = y,
         NEW b \in S, NEW n \in Nat, n <= Rank(u, S, b)
  PROVE  \E a \in S : Rank(u, S, a) = n
<1> DEFINE L(x) == {y \in S : u[y] > u[x]}
           r(x) == Rank(u, S, x)
<1>1. \A x \in S : IsFiniteSet(L(x)) /\ r(x) \in Nat /\ r(x) = Cardinality(L(x))
  <2> TAKE x \in S
  <2>1. L(x) \in SUBSET S
    OBVIOUS
  <2> QED BY <2>1, FS_Subset, FS_CardinalityType DEF Rank
<1> DEFINE R == {r(x) : x \in {y \in S : r(y) >= n}}
<1>2. R \in SUBSET Nat /\ R # {}
  BY <1>1
<1>3. PICK m \in R : \A k \in R : m <= k
  BY <1>2, LeastNat
<1>4. PICK a \in S : r(a) = m /\ m >= n
  OBVIOUS
<1>5. CASE m = n
  BY <1>4, <1>5
<1>6. CASE m # n
  <2>1. L(a) # {}
    <3>1. m \in Nat /\ m # 0
      BY <1>2, <1>3, <1>4, <1>6
    <3> QED BY <1>1, <1>4, <3>1, FS_EmptySet
  <2> DEFINE V == {u[x] : x \in L(a)}
  <2>2. V \in SUBSET Nat /\ V # {}
    BY <2>1
  <2>3. PICK v \in V : \A k \in V : v <= k
    BY <2>2, LeastNat
  <2>4. PICK d \in L(a) : u[d] = v
    OBVIOUS
  <2>5. d \in S /\ u[d] > u[a] /\ \A y \in L(a) : u[y] \in Nat /\ u[d] <= u[y]
    BY <2>3, <2>4
  <2>6. L(d) = L(a) \ {d}
    <3>1. ASSUME NEW y \in L(d) PROVE y \in L(a) \ {d}
      <4>1. u[y] \in Nat /\ u[d] \in Nat /\ u[a] \in Nat /\ u[y] > u[d]
        BY <2>5
      <4>2. u[y] > u[a] /\ u[y] # u[d]
        BY <2>5, <4>1
      <4> QED BY <4>2
    <3>2. ASSUME NEW y \in L(a) \ {d} PROVE y \in L(d)
      <4>1. u[y] \in Nat /\ u[d] \in Nat /\ u[d] <= u[y] /\ u[y] # u[d]
        BY <2>5
      <4>2. u[y] > u[d]
        BY <4>1
      <4> QED BY <4>2
    <3> HIDE DEF L
    <3> QED BY <3>1, <3>2
  <2>7. r(d) = m - 1
    <3>1. IsFiniteSet(L(a)) /\ d \in L(a) /\ Cardinality(L(a)) = m /\ r(d) = Cardinality(L(d))
      BY <1>1, <1>4, <2>4, <2>5
    <3> HIDE DEF L, r
    <3> QED BY <2>6, <3>1, FS_RemoveElement
  <2> HIDE DEF r, L
  <2>8. m - 1 \in Nat /\ m - 1 >= n /\ ~(m <= m - 1)
    BY <1>2, <1>3, <1>4, <1>6
  <2>9. m - 1 \in R
    BY <2>5, <2>7, <2>8
  <2> QED BY <1>3, <2>8, <2>9
<1> QED BY <1>5, <1>6

(* What a use of block x does to the order. *)
LEMMA RankMoves ==
  ASSUME NEW S, IsFiniteSet(S), NEW u, NEW v, NEW x, NEW t \in Nat,
         \A y \in S : u[y] \in Nat /\ u[y] < t,
         v[x] = t, \A y \in S \ {x} : v[y] = u[y]
  PROVE  /\ Rank(v, S \cup {x}, x) = 0
         /\ \A b \in S \ {x} :
              Rank(v, S \cup {x}, b) = IF x \in S /\ u[x] > u[b] THEN Rank(u, S, b) ELSE Rank(u, S, b) + 1
<1>1. {y \in S \cup {x} : v[y] > v[x]} = {}
  <2>1. ~(t > t) /\ \A y \in S : ~(u[y] > t)
    OBVIOUS
  <2> QED BY <2>1
<1>2. Rank(v, S \cup {x}, x) = 0
  BY <1>1, FS_EmptySet DEF Rank
<1>3. ASSUME NEW b \in S \ {x}
      PROVE  Rank(v, S \cup {x}, b) = IF x \in S /\ u[x] > u[b] THEN Rank(u, S, b) ELSE Rank(u, S, b) + 1
  <2> DEFINE L == {y \in S : u[y] > u[b]}
             M == {y \in S \cup {x} : v[y] > v[b]}
  <2>1. v[b] = u[b] /\ t > u[b]
    OBVIOUS
  <2>2. M = L \cup {x}
    BY <2>1
  <2>3. IsFiniteSet(L)
    <3>1. L \in SUBSET S
      OBVIOUS
    <3> QED BY <3>1, FS_Subset
  <2>4. x \in L <=> x \in S /\ u[x] > u[b]
    OBVIOUS
  <2> HIDE DEF L, M
  <2>5. Cardinality(M) = IF x \in L THEN Cardinality(L) ELSE Cardinality(L) + 1
    BY <2>2, <2>3, FS_AddElement
  <2> QED BY <2>4, <2>5 DEF Rank, L, M
<1> QED BY <1>2, <1>3

-----------------------------------------------------------------------------
(* Blocks and their addresses. *)

Tag(c, b) == TagOf(c, AddrOf(c, b))

Shape(c, b) ==
  /\ b = <<b[1], b[2]>> /\ b[1] \in Nat /\ b[2] \in Nat
  /\ IF IsTlb(c) THEN b[2] < AsidUnit ELSE b[1] = 0

(* The compartment and the page can be told from the mixed address. *)
LEMMA MixInjective ==
  ASSUME NEW U \in Nat, NEW a \in Nat, NEW p \in Nat, NEW b \in Nat, NEW q \in Nat,
         p < U, q < U, a * U + p = b * U + q
  PROVE  a = b /\ p = q
<1>1. ASSUME NEW x \in Nat, NEW y \in Nat, x < y PROVE x * U + U <= y * U
  <2>1. PICK d \in Nat : y = x + 1 + d
    <3>1. y - x - 1 \in Nat /\ y = x + 1 + (y - x - 1)
      BY <1>1
    <3> QED BY <3>1
  <2>2. y * U = x * U + U + d * U
    BY <2>1
  <2>3. d * U \in Nat /\ x * U \in Nat
    BY <2>1
  <2> QED BY <2>2, <2>3
<1> DEFINE m == a * U
           n == b * U
<1>2. m \in Nat /\ n \in Nat /\ m + p = n + q
  OBVIOUS
<1>3. (a < b => m + U <= n) /\ (b < a => n + U <= m)
  BY <1>1
<1>4. a = b
  <2> HIDE DEF m, n
  <2> QED BY <1>2, <1>3
<1> QED BY <1>2, <1>4

(* An address is its set and its tag. *)
LEMMA SetAndTag ==
  ASSUME NEW c \in CacheName, NEW x \in Nat, NEW y \in Nat,
         SetOf(c, x) = SetOf(c, y), TagOf(c, x) = TagOf(c, y)
  PROVE  x = y
<1> DEFINE n == sets[c]
<1>1. n \in Nat \ {0}
  BY Geometry
<1>2. x = n * (x \div n) + (x % n) /\ y = n * (y \div n) + (y % n)
  <2> HIDE DEF n
  <2> QED BY <1>1
<1> QED BY <1>2 DEF SetOf, TagOf

LEMMA AddrFacts ==
  ASSUME NEW c \in CacheName, NEW b, b[1] \in Nat, b[2] \in Nat
  PROVE  AddrOf(c, b) \in Nat
<1>1. AsidUnit \in Nat
  BY GeometryAssumption
<1>2. b[1] * AsidUnit \in Nat
  BY <1>1
<1> QED BY <1>2 DEF AddrOf, mixpageasid

LEMMA BlocksDiffer ==
  ASSUME NEW c \in CacheName, NEW a, NEW b, Shape(c, a), Shape(c, b),
         SetOf(c, AddrOf(c, a)) = SetOf(c, AddrOf(c, b)), Tag(c, a) = Tag(c, b)
  PROVE  a = b
<1>1. AddrOf(c, a) \in Nat /\ AddrOf(c, b) \in Nat
  BY AddrFacts DEF Shape
<1>2. AddrOf(c, a) = AddrOf(c, b)
  BY <1>1, SetAndTag DEF Tag
<1>3. a[1] = b[1] /\ a[2] = b[2]
  <2>1. CASE IsTlb(c)
    <3>1. a[1] * AsidUnit + a[2] = b[1] * AsidUnit + b[2]
      BY <1>2, <2>1 DEF AddrOf, mixpageasid
    <3>2. AsidUnit \in Nat
      BY GeometryAssumption
    <3> QED BY <2>1, <3>1, <3>2, MixInjective DEF Shape
  <2>2. CASE ~IsTlb(c)
    BY <1>2, <2>2 DEF AddrOf, Shape
  <2> QED BY <2>1, <2>2
<1> QED BY <1>3 DEF Shape

-----------------------------------------------------------------------------
(* The ways hold the tags of the blocks S in the order of their last use.  *)
Kept(c, ways, u, S) ==
  /\ \A b \in S : Rank(u, S, b) \in Ways(c) => ways[Rank(u, S, b)] = Tag(c, b)
  /\ \A j \in Ways(c) : ways[j] # 0 => \E b \in S : Rank(u, S, b) = j

(* Blocks of set s of a cache, and when they were used. *)
Timed(c, s, u, S, t) ==
  /\ IsFiniteSet(S) /\ t \in Nat
  /\ \A y \in S : Shape(c, y) /\ SetOf(c, AddrOf(c, y)) = s
  /\ \A y \in S : u[y] \in Nat /\ u[y] < t
  /\ \A y, z \in S : u[y] = u[z] => y = z

(* One LRU update keeps them in order. *)
LEMMA LruStep ==
  ASSUME NEW c \in CacheName, NEW ways \in [Ways(c) -> Nat], NEW s,
         NEW S, NEW u, NEW v, NEW x, NEW t,
         Timed(c, s, u, S, t), Shape(c, x), SetOf(c, AddrOf(c, x)) = s,
         v[x] = t, \A y \in S \ {x} : v[y] = u[y],
         Kept(c, ways, u, S)
  PROVE  Kept(c, Boosted(c, ways, Tag(c, x)), v, S \cup {x})
<1> DEFINE T == S \cup {x}
           r(b) == Rank(u, S, b)
           q(b) == Rank(v, T, b)
           tag == Tag(c, x)
           new == Boosted(c, ways, tag)
<1>1. /\ IsFiniteSet(S) /\ t \in Nat /\ \A y \in S : u[y] \in Nat /\ u[y] < t
      /\ \A y, z \in S : u[y] = u[z] => y = z
  BY DEF Timed
<1>2. /\ \A b \in S : r(b) \in Nat
      /\ \A a, b \in S : u[a] > u[b] => r(a) < r(b)
  BY <1>1, RankFacts
<1>3. /\ q(x) = 0
      /\ \A b \in S \ {x} : q(b) = IF x \in S /\ u[x] > u[b] THEN r(b) ELSE r(b) + 1
  BY <1>1, RankMoves
<1>4. tag \in Nat
  <2>1. AddrOf(c, x) \in Nat
    BY AddrFacts DEF Shape
  <2> QED BY <2>1, AddressFacts DEF Tag
<1>5. PICK w \in Ways(c) :
           /\ GivenUp(c, ways, tag, w)
           /\ Boosted(c, ways, tag) \in [Ways(c) -> Nat]
           /\ Boosted(c, ways, tag)[0] = tag
           /\ \A j \in Ways(c) \ {0} :
                Boosted(c, ways, tag)[j] = IF j <= w THEN ways[j - 1] ELSE ways[j]
  BY <1>4, BoostedFacts, Zenon
<1>6. /\ \A b \in S : r(b) \in Ways(c) => ways[r(b)] = Tag(c, b)
      /\ \A j \in Ways(c) : ways[j] # 0 => \E b \in S : r(b) = j
  BY DEF Kept
<1>7. \/ x \in S /\ r(x) = w
      \/ w = assoc[c] - 1 /\ (x \in S => r(x) > w)
      \/ x \notin S /\ \A b \in S : r(b) < w
  <2>1. ASSUME Hit(c, ways, tag), NEW b \in S, r(b) = w
        PROVE  x \in S /\ r(x) = w
    <3>1. Tag(c, b) = tag
      BY <1>5, <1>6, <2>1 DEF GivenUp
    <3>2. b = x
      BY <3>1, BlocksDiffer DEF Timed
    <3> QED BY <2>1, <3>2
  <2>2. ASSUME Hit(c, ways, tag), \A b \in S : r(b) # w
        PROVE  x \notin S /\ \A b \in S : r(b) < w
    <3>1. w \in Nat
      BY Geometry
    <3>2. ASSUME NEW b \in S PROVE r(b) < w
      <4>1. ~(w <= r(b))
        BY <1>1, <2>2, <3>1, RankDense
      <4>2. r(b) \in Nat
        BY <1>2
      <4> HIDE DEF r
      <4> QED BY <3>1, <4>1, <4>2
    <3>3. ASSUME x \in S PROVE FALSE
      <4> DEFINE n == r(x)
      <4>1. n \in Nat /\ n < w
        BY <1>2, <3>2, <3>3
      <4>2. n \in Ways(c)
        <5> HIDE DEF n
        <5> QED BY <3>1, <4>1, Geometry
      <4>3. ways[n] = tag
        BY <1>6, <3>3, <4>2
      <4> HIDE DEF n
      <4> QED BY <1>5, <2>2, <4>1, <4>2, <4>3 DEF GivenUp
    <3> QED BY <3>2, <3>3
  <2>3. ASSUME ~Hit(c, ways, tag)
        PROVE  w = assoc[c] - 1 /\ (x \in S => r(x) > w)
    <3>1. w = assoc[c] - 1
      BY <1>5, <2>3 DEF GivenUp
    <3>2. x \in S => r(x) \notin Ways(c)
      BY <1>6, <2>3 DEF Hit
    <3>3. ASSUME x \in S PROVE r(x) > w
      <4> DEFINE n == r(x)
      <4>1. n \in Nat /\ n \notin Ways(c)
        BY <1>2, <3>2, <3>3
      <4> HIDE DEF n
      <4>2. n > w
        BY <3>1, <4>1, Geometry
      <4> QED BY <4>2 DEF n
    <3> QED BY <3>1, <3>3
  <2> HIDE DEF r
  <2> QED BY <2>1, <2>2, <2>3
<1>8. /\ new[0] = tag
      /\ \A j \in Ways(c) \ {0} : new[j] = IF j <= w THEN ways[j - 1] ELSE ways[j]
  BY <1>5
<1>9. /\ w \in Nat /\ assoc[c] \in Nat /\ \A j : j \in Ways(c) <=> j \in Nat /\ j < assoc[c]
  BY Geometry
<1> HIDE DEF r, q, new, tag
<1>10. ASSUME NEW b \in T, q(b) \in Ways(c) PROVE new[q(b)] = Tag(c, b)
  <2>1. CASE b = x
    BY <1>3, <1>8, <2>1 DEF tag
  <2>2. CASE b # x /\ x \in S /\ u[x] > u[b]
    <3>1. b \in S /\ q(b) = r(b) /\ r(x) < r(b) /\ r(b) \in Nat /\ r(x) \in Nat
      BY <1>2, <1>3, <2>2
    <3>2. r(b) \in Ways(c) \ {0} /\ ~(r(b) <= w)
      BY <1>7, <1>9, <1>10, <2>2, <3>1
    <3> QED BY <1>6, <1>8, <3>1, <3>2
  <2>3. CASE b # x /\ ~(x \in S /\ u[x] > u[b])
    <3>1. b \in S /\ q(b) = r(b) + 1 /\ r(b) \in Nat
      BY <1>2, <1>3, <2>3
    <3>2. ASSUME x \in S, r(x) = w PROVE r(b) < w
      <4>1. u[b] > u[x]
        BY <1>1, <2>3, <3>1, <3>2
      <4> QED BY <1>2, <3>1, <3>2, <4>1
    <3>3. q(b) <= w
      BY <1>7, <1>9, <1>10, <3>1, <3>2
    <3>4. q(b) \in Ways(c) \ {0} /\ q(b) - 1 = r(b) /\ r(b) \in Ways(c)
      BY <1>9, <1>10, <3>1
    <3> QED BY <1>6, <1>8, <3>1, <3>3, <3>4
  <2> QED BY <2>1, <2>2, <2>3
<1>11. ASSUME NEW j \in Ways(c), new[j] # 0 PROVE \E b \in T : q(b) = j
  <2>1. CASE j = 0
    BY <1>3, <2>1
  <2>2. CASE j # 0 /\ j <= w
    <3>1. j \in Nat /\ j - 1 \in Ways(c) /\ new[j] = ways[j - 1]
      BY <1>8, <1>9, <2>2
    <3>2. PICK b \in S : r(b) = j - 1
      BY <1>6, <1>11, <3>1
    <3>3. ASSUME x \in S PROVE r(x) > r(b)
      BY <1>2, <1>7, <1>9, <2>2, <3>1, <3>2, <3>3
    <3>4. b # x /\ ~(x \in S /\ u[x] > u[b])
      BY <1>2, <3>2, <3>3
    <3>5. q(b) = r(b) + 1
      BY <1>3, <3>4
    <3> QED BY <3>1, <3>2, <3>5
  <2>3. CASE j # 0 /\ ~(j <= w)
    <3>0. new[j] = ways[j] /\ j \in Nat /\ j > w /\ w # assoc[c] - 1
      BY <1>8, <1>9, <2>3
    <3>2. PICK b \in S : r(b) = j
      BY <1>6, <1>11, <3>0
    <3>1. x \in S /\ r(x) = w
      BY <1>7, <1>9, <3>0, <3>2
    <3>3. r(x) < r(b)
      BY <1>9, <2>3, <3>1, <3>2
    <3>4. b # x /\ u[x] > u[b]
      BY <1>1, <1>2, <3>1, <3>3
    <3> QED BY <1>3, <3>1, <3>2, <3>4
  <2> QED BY <2>1, <2>2, <2>3
<1> QED BY <1>10, <1>11 DEF Kept, new, tag, q

-----------------------------------------------------------------------------
(* What cycle_helper works on: the pages, then the lines, of one access.   *)
CallShape ==
  /\ stage # "idle" =>
       /\ \E a \in Access : call.addr = a.addr /\ call.size = a.size
       /\ call.asid \in Asid
  /\ stage = "tlb" => /\ acc.addr = mixpageasid(call.addr \div PageSize, call.asid)
                      /\ acc.size = Spanned(call, PageSize)
  /\ stage = "line" => acc.addr = call.addr \div LineSize

(* A cache was asked for finitely many blocks, one at a time, before the   *)
(* time k; the times are u, and they are Added to at k.                    *)
Times(c, u, k) ==
  /\ k \in Nat
  /\ IsFiniteSet(DOMAIN u)
  /\ \A b \in DOMAIN u : Shape(c, b) /\ u[b] \in Nat /\ u[b] < k
  /\ \A a, b \in DOMAIN u : u[a] = u[b] => a = b

Added(u, x, k) == [b \in DOMAIN u \cup {x} |-> IF b = x THEN k ELSE u[b]]

History == clock \in Nat /\ \A c \in CacheName : Times(c, used[c], clock)

(* Every set of a cache holds what was used last, by the times u. *)
InOrder(c, u) ==
  \A s \in Sets(c) : Kept(c, array[c][s], u, {b \in DOMAIN u : SetOf(c, AddrOf(c, b)) = s})

Ordered(c) == InOrder(c, used[c])

HInv == IInv /\ CallShape /\ History /\ \A c \in CacheName : Ordered(c)

(* The block cycle_helper is at, and the address it is looked up with. *)
LEMMA BlockFacts ==
  ASSUME TypeOK, CallShape, InHelper, NEW c \in {FirstLevel, SecondLevel}
  PROVE  Shape(c, Block) /\ AddrOf(c, Block) = Here
<1>0. /\ c \in CacheName /\ acc.i \in Nat /\ acc.i < acc.size /\ acc.addr \in Nat
      /\ acc.size \in Nat
      /\ call.addr \in Nat /\ call.size \in Nat /\ call.asid \in Nat
      /\ stage \in {"tlb", "line"}
      /\ IsTlb(c) <=> stage = "tlb"
  <2>1. call.type \in {"INST", "DATA"} /\ stage \in {"tlb", "line"}
    BY DEF TypeOK, InHelper
  <2>2. IsTlb(c) <=> stage = "tlb"
    BY <2>1 DEF IsTlb, FirstLevel, SecondLevel, L1, L1Tlb
  <2> QED BY <2>1, <2>2, LevelFacts DEF TypeOK, InHelper
<1>1. PICK a \in Access : call.addr = a.addr /\ call.size = a.size
  BY <1>0 DEF CallShape
<1>2. /\ sets[c] \in Nat \ {0} /\ PageSize \in Nat \ {0} /\ AsidUnit \in Nat \ {0}
      /\ LineSize \in Nat \ {0}
  BY <1>0, GeometryAssumption
<1>3. CASE stage = "tlb"
  <2> DEFINE p == call.addr \div PageSize
             l == (call.addr + call.size - 1) \div PageSize
             U == AsidUnit
             m == call.asid * U
  <2>1. Block = <<call.asid, p + acc.i>>
    BY <1>3 DEF Block
  <2>2. p \in Nat
    BY <1>0, <1>2, DivMonotone
  <2>3. acc.addr = m + p /\ acc.size = l - p + 1
    BY <1>3 DEF CallShape, mixpageasid, Spanned
  <2>4. l < U
    BY <1>1, AccessAssumption
  <2>5. m \in Nat
    BY <1>0, <1>2
  <2>6. l \in Int
    BY <1>0, <1>2
  <2>8. AddrOf(c, Block) = m + (p + acc.i)
    BY <1>0, <1>3, <2>1 DEF AddrOf, mixpageasid
  <2> HIDE DEF p, l, m, U
  <2>9. p + acc.i \in Nat /\ p + acc.i < U
    BY <1>0, <1>2, <2>2, <2>3, <2>4, <2>6 DEF U
  <2>10. AddrOf(c, Block) = Here
    BY <1>0, <2>2, <2>3, <2>5, <2>8 DEF Here
  <2>11. Block = <<Block[1], Block[2]>> /\ Block[1] \in Nat /\ Block[2] \in Nat /\ Block[2] < AsidUnit
    BY <1>0, <2>1, <2>9 DEF U
  <2> QED BY <1>0, <1>3, <2>10, <2>11 DEF Shape
<1>4. CASE stage = "line"
  <2>1. Block = <<0, acc.addr + acc.i>> /\ stage # "tlb"
    BY <1>4 DEF Block
  <2>2. AddrOf(c, Block) = Here
    BY <1>0, <2>1 DEF AddrOf, Here
  <2>3. Block = <<Block[1], Block[2]>> /\ Block[1] \in Nat /\ Block[2] \in Nat /\ Block[1] = 0
    BY <1>0, <2>1
  <2> QED BY <1>0, <2>1, <2>2, <2>3 DEF Shape
<1> QED BY <1>0, <1>3, <1>4

(* A cache that is asked for a block stays ordered: the set of the block   *)
(* by the LRU update, the others because nothing of theirs was used.       *)
LEMMA VisitKeeps ==
  ASSUME TypeOK, CallShape, InHelper, NEW c \in {FirstLevel, SecondLevel},
         array'[c] = Touched(c, Here), NEW u, NEW k, Times(c, u, k), InOrder(c, u),
         NEW v, v = Added(u, Block, k)
  PROVE  InOrder(c, v)'
<1> DEFINE x == Block
           z == SetOf(c, Here)
<1>0. c \in CacheName /\ Here \in Nat
  BY LevelFacts DEF TypeOK, Here
<1>1. Shape(c, x) /\ AddrOf(c, x) = Here
  BY <1>0, BlockFacts
<1>2. z \in Sets(c)
  BY <1>0, AddressFacts
<1>3. \A s \in Sets(c) : array[c][s] \in [Ways(c) -> Nat]
  BY <1>0 DEF TypeOK
<1>4. \A s \in Sets(c) :
        array'[c][s] = IF s = z THEN Boosted(c, array[c][s], Tag(c, x)) ELSE array[c][s]
  <2>1. Touched(c, Here) = [array[c] EXCEPT ![z] = Boosted(c, array[c][z], Tag(c, x))]
    BY <1>1 DEF Touched, Tag
  <2>2. array[c] \in [Sets(c) -> [Ways(c) -> Nat]]
    BY <1>0 DEF TypeOK
  <2> HIDE DEF z, x
  <2> QED BY <1>2, <2>1, <2>2
<1>5. /\ DOMAIN v = DOMAIN u \cup {x} /\ v[x] = k
      /\ \A b \in DOMAIN u \ {x} : v[b] = u[b]
  <2> HIDE DEF x
  <2> QED BY DEF x, Added
<1>6. ASSUME NEW s \in Sets(c)
      PROVE  Kept(c, array'[c][s], v, {b \in DOMAIN v : SetOf(c, AddrOf(c, b)) = s})
  <2> DEFINE S == {b \in DOMAIN u : SetOf(c, AddrOf(c, b)) = s}
             T == {b \in DOMAIN v : SetOf(c, AddrOf(c, b)) = s}
  <2>1. Kept(c, array[c][s], u, S) /\ S \in SUBSET DOMAIN u
    BY <1>0 DEF InOrder
  <2>2. CASE s = z
    <3>1. T = S \cup {x}
      BY <1>1, <1>5, <2>2
    <3>2. Timed(c, s, u, S, k)
      <4>1. IsFiniteSet(S)
        BY <2>1, FS_Subset DEF Times
      <4>2. \A y \in S : SetOf(c, AddrOf(c, y)) = s
        OBVIOUS
      <4> QED BY <2>1, <4>1, <4>2 DEF Timed, Times
    <3>3. \A y \in S \ {x} : v[y] = u[y]
      BY <1>5, <2>1
    <3> HIDE DEF S, T, x
    <3>4. Kept(c, Boosted(c, array[c][s], Tag(c, x)), v, S \cup {x})
      BY <1>0, <1>1, <1>3, <1>5, <2>1, <2>2, <3>2, <3>3, LruStep
    <3> QED BY <1>4, <2>2, <3>1, <3>4 DEF T
  <2>3. CASE s # z
    <3>1. T = S /\ x \notin S
      BY <1>1, <1>5, <2>3
    <3>2. \A y \in S : v[y] = u[y]
      BY <1>5, <2>1, <3>1
    <3>3. \A y \in S : Rank(v, S, y) = Rank(u, S, y)
      BY <3>2 DEF Rank
    <3> HIDE DEF S, T, x
    <3>4. array'[c][s] = array[c][s]
      BY <1>4, <2>3
    <3> QED BY <2>1, <3>1, <3>3, <3>4 DEF Kept, T
  <2> QED BY <2>2, <2>3
<1> QED BY <1>6 DEF InOrder

(* The times stay times. *)
LEMMA TimesNext ==
  ASSUME NEW c, NEW u, NEW k, Times(c, u, k), NEW x, Shape(c, x), NEW l \in Nat, k < l
  PROVE  Times(c, Added(u, x, k), l)
<1> DEFINE v == Added(u, x, k)
<1>1. DOMAIN v = DOMAIN u \cup {x} /\ v[x] = k /\ \A b \in DOMAIN u \ {x} : v[b] = u[b]
  BY DEF Added
<1> HIDE DEF v
<1>2. IsFiniteSet(DOMAIN v)
  BY <1>1, FS_AddElement DEF Times
<1>3. \A b \in DOMAIN v : Shape(c, b) /\ v[b] \in Nat /\ v[b] < l
  BY <1>1 DEF Times
<1>4. \A a, b \in DOMAIN v : v[a] = v[b] => a = b
  BY <1>1 DEF Times
<1>5. Times(c, v, l)
  BY <1>2, <1>3, <1>4 DEF Times
<1> QED BY <1>5 DEF v

LEMMA TimesLater ==
  ASSUME NEW c, NEW u, NEW k, Times(c, u, k), NEW l \in Nat, k <= l
  PROVE  Times(c, u, l)
BY DEF Times

(* What a step does to a cache: the LRU update if it is asked, or nothing. *)
LEMMA StepTouches ==
  ASSUME TypeOK, Next, NEW c \in CacheName
  PROVE  /\ Asked(c) => /\ InHelper /\ c \in {FirstLevel, SecondLevel}
                        /\ array'[c] = Touched(c, Here)
         /\ ~Asked(c) => array'[c] = array[c]
<1>1. CASE Asked(c)
  <2>1. InHelper /\ c \in {FirstLevel, SecondLevel}
    BY <1>1 DEF Asked
  <2>2. array'[c] = Touched(c, Here)
    <3>1. hit_first \/ miss_first
      BY <2>1 DEF Next, InHelper, TypeOK, cycle_access, to_caches, return, end_warmup
    <3>2. FirstLevel \in CacheName /\ SecondLevel \in CacheName /\ FirstLevel # SecondLevel
      BY LevelFacts
    <3>3. DOMAIN array = CacheName
      BY DEF TypeOK
    <3>4. CASE hit_first
      <4>1. c = FirstLevel /\ array' = [array EXCEPT ![FirstLevel] = Touched(FirstLevel, Here)]
        BY <1>1, <3>4 DEF Asked, hit_first
      <4> QED BY <3>2, <3>3, <4>1
    <3>5. CASE miss_first
      <4> DEFINE f == FirstLevel
                 g == SecondLevel
                 tf == Touched(f, Here)
                 tg == Touched(g, Here)
      <4>1. array' = [array EXCEPT ![f] = tf, ![g] = tg]
        BY <3>5 DEF miss_first
      <4>2. array'[f] = tf /\ array'[g] = tg
        <5> HIDE DEF f, g, tf, tg
        <5> QED BY <3>2, <3>3, <4>1 DEF f, g
      <4> QED BY <2>1, <4>2
    <3> QED BY <3>1, <3>4, <3>5
  <2> QED BY <1>1, <2>1, <2>2
<1>2. CASE ~Asked(c)
  <2>1. CASE hit_first
    <3>1. c # FirstLevel /\ array' = [array EXCEPT ![FirstLevel] = Touched(FirstLevel, Here)]
      BY <1>2, <2>1 DEF Asked, hit_first
    <3> QED BY <1>2, <3>1 DEF TypeOK
  <2>2. CASE miss_first
    <3>1. c # FirstLevel /\ c # SecondLevel
      BY <1>2, <2>2 DEF Asked, miss_first
    <3>2. array' = [array EXCEPT ![FirstLevel] = Touched(FirstLevel, Here),
                                 ![SecondLevel] = Touched(SecondLevel, Here)]
      BY <2>2 DEF miss_first
    <3> QED BY <1>2, <3>1, <3>2 DEF TypeOK
  <2>3. CASE ~hit_first /\ ~miss_first
    BY <1>2, <2>3 DEF Next, cycle_access, to_caches, return, end_warmup
  <2> QED BY <2>1, <2>2, <2>3
<1> QED BY <1>1, <1>2

(* The arguments of cycle_access stay the ones it was called with. *)
LEMMA CallKeeps ==
  ASSUME TypeOK, CallShape, [Next]_vars
  PROVE  CallShape'
<1>1. ASSUME NEW a \in Access, NEW asid \in Asid, NEW type \in AccessType,
             cycle_access(a, asid, type)
      PROVE  CallShape'
  <2>1. /\ call'.addr = a.addr /\ call'.size = a.size /\ call'.asid = asid
        /\ stage' = "tlb" /\ acc'.addr = mixpageasid(a.addr \div PageSize, asid)
        /\ acc'.size = Spanned(a, PageSize)
    BY <1>1 DEF cycle_access
  <2> QED BY <2>1 DEF CallShape, Spanned, mixpageasid
<1>2. CASE hit_first \/ miss_first
  <2>1. call' = call /\ stage' = stage /\ acc'.addr = acc.addr /\ acc'.size = acc.size
    BY <1>2 DEF hit_first, miss_first, TypeOK
  <2> QED BY <2>1 DEF CallShape, Spanned, mixpageasid
<1>3. CASE to_caches
  BY <1>3 DEF CallShape, to_caches
<1>4. CASE return
  BY <1>4 DEF CallShape, return
<1>5. CASE end_warmup \/ UNCHANGED vars
  <2>1. call' = call /\ stage' = stage /\ acc' = acc
    BY <1>5 DEF end_warmup, vars
  <2> QED BY <2>1 DEF CallShape, Spanned, mixpageasid
<1> QED BY <1>1, <1>2, <1>3, <1>4, <1>5 DEF Next

(* Every cache stays ordered, and its history one. *)
LEMMA OrderKeeps ==
  ASSUME HInv, HNext, NEW c \in CacheName
  PROVE  Times(c, used'[c], clock') /\ Ordered(c)'
<1>0. TypeOK /\ CallShape /\ Next /\ clock \in Nat /\ Times(c, used[c], clock) /\ InOrder(c, used[c])
  BY DEF HInv, IInv, HNext, History, Ordered
<1>1. clock' \in Nat /\ clock <= clock' /\ (InHelper => clock' = clock + 1)
  BY <1>0 DEF HNext
<1>2. PICK u : u = used[c]
  OBVIOUS
<1>3. PICK k : k = clock
  OBVIOUS
<1>4. PICK l : l = clock'
  OBVIOUS
<1>5. PICK v : v = used'[c]
  OBVIOUS
<1>6. Times(c, u, k) /\ InOrder(c, u) /\ k \in Nat /\ l \in Nat /\ k <= l
  BY <1>0, <1>1, <1>2, <1>3, <1>4
<1>7. CASE Asked(c)
  <2>1. InHelper /\ c \in {FirstLevel, SecondLevel} /\ array'[c] = Touched(c, Here)
    BY <1>0, <1>7, StepTouches
  <2>2. v = Added(u, Block, k)
    BY <1>2, <1>3, <1>5, <1>7 DEF HNext, Added
  <2>3. InOrder(c, v)'
    BY <1>0, <1>6, <2>1, <2>2, VisitKeeps
  <2>4. k < l
    BY <1>1, <1>3, <1>4, <1>6, <2>1
  <2>5. Times(c, v, l)
    BY <1>0, <1>6, <2>1, <2>2, <2>4, BlockFacts, TimesNext
  <2> QED BY <1>4, <1>5, <2>3, <2>5 DEF Ordered, InOrder
<1>8. CASE ~Asked(c)
  <2>1. v = u
    BY <1>2, <1>5, <1>8 DEF HNext
  <2>2. array'[c] = array[c]
    BY <1>0, <1>8, StepTouches
  <2>3. Times(c, v, l)
    BY <1>6, <2>1, TimesLater
  <2> QED BY <1>4, <1>5, <1>6, <2>1, <2>2, <2>3 DEF Ordered, InOrder
<1> QED BY <1>7, <1>8

(* Nothing was asked for yet, and every way is unused. *)
LEMMA EmptyOrder ==
  ASSUME Init, NEW c \in CacheName, NEW u, DOMAIN u = {}, NEW k \in Nat
  PROVE  Times(c, u, k) /\ InOrder(c, u)
<1>1. Times(c, u, k)
  BY FS_EmptySet DEF Times
<1>2. array[c] = [s \in Sets(c) |-> [j \in Ways(c) |-> 0]]
  BY DEF Init
<1>3. \A s \in Sets(c) : \A j \in Ways(c) : array[c][s][j] = 0
  BY <1>2
<1> QED BY <1>1, <1>3 DEF InOrder, Kept

LEMMA HInitHInv == HInit => HInv
<1> SUFFICES ASSUME HInit PROVE HInv
  OBVIOUS
<1>1. IInv
  BY InitIInv DEF HInit
<1>2. CallShape
  BY DEF HInit, Init, CallShape
<1>3. ASSUME NEW c \in CacheName PROVE Times(c, used[c], clock) /\ Ordered(c)
  <2>1. DOMAIN used[c] = {} /\ clock \in Nat /\ Init
    BY DEF HInit
  <2> QED BY <2>1, EmptyOrder DEF Ordered
<1>4. clock \in Nat
  BY DEF HInit
<1> QED BY <1>1, <1>2, <1>3, <1>4 DEF HInv, History

(* Every step of the simulator keeps the order of every set. *)
LEMMA HNextHInv == HInv /\ [HNext]_hvars => HInv'
<1> SUFFICES ASSUME HInv, [HNext]_hvars
             PROVE  HInv'
  OBVIOUS
<1>0. IInv /\ TypeOK /\ CallShape
  BY DEF HInv, IInv
<1>1. [Next]_vars
  BY DEF HNext, hvars
<1>2. IInv' /\ CallShape'
  BY <1>0, <1>1, NextIInv, CallKeeps
<1>3. CASE HNext
  <2>1. clock' \in Nat
    BY <1>3 DEF HNext, HInv, History
  <2>2. ASSUME NEW c \in CacheName PROVE Times(c, used[c], clock)' /\ Ordered(c)'
    <3>1. Times(c, used'[c], clock') /\ Ordered(c)'
      BY <1>3, OrderKeeps
    <3> QED BY <3>1 DEF Times, Shape
  <2> QED BY <1>2, <2>1, <2>2 DEF HInv, History
<1>4. CASE UNCHANGED hvars
  <2>1. array' = array /\ used' = used /\ clock' = clock
    BY <1>4 DEF hvars, vars
  <2>2. History'
    BY <2>1 DEF HInv, History, Times, Shape
  <2>3. ASSUME NEW c \in CacheName PROVE Ordered(c)'
    BY <2>1 DEF HInv, Ordered, InOrder
  <2> QED BY <1>2, <2>2, <2>3 DEF HInv
<1> QED BY <1>3, <1>4

(* For every geometry and every trace, every TLB and cache holds at all    *)
(* times the blocks a true LRU cache would, in the order of their last     *)
(* use, blocks with tag 0 among them: access_cache simulates LRU           *)
(* replacement, and no page of a compartment stands for that of another.   *)
THEOREM TrueLRU == HSpec => []IsLRU
<1>1. HInv => IsLRU
  BY DEF HInv, Ordered, InOrder, Kept, Rank, Tag, IsLRU, Age, Since, UsedIn
<1> QED BY <1>1, HInitHInv, HNextHInv, PTL DEF HSpec

-----------------------------------------------------------------------------
(* An address above the first sets[c] ones has a tag. *)
LEMMA HasTag ==
  ASSUME NEW c \in CacheName, NEW addr \in Nat, addr >= sets[c]
  PROVE  TagOf(c, addr) # 0
<1> DEFINE n == sets[c]
<1>1. n \in Nat \ {0} /\ addr >= n
  BY Geometry
<1> HIDE DEF n
<1>2. addr = n * (addr \div n) + (addr % n) /\ addr % n < n /\ addr % n \in Nat
  BY <1>1
<1>3. addr \div n # 0
  BY <1>1, <1>2
<1> QED BY <1>3 DEF TagOf, n

(* Without tag 0, the block cycle_helper is at has a tag. *)
LEMMA BlockHasTag ==
  ASSUME NoTagZero, TypeOK, CallShape, InHelper, NEW c \in {FirstLevel, SecondLevel}
  PROVE  Tag(c, Block) # 0
<1>0. /\ c \in CacheName /\ acc.i \in Nat /\ acc.addr \in Nat
      /\ call.addr \in Nat /\ call.asid \in Nat
      /\ stage \in {"tlb", "line"}
      /\ IsTlb(c) <=> stage = "tlb"
  <2>1. call.type \in {"INST", "DATA"} /\ stage \in {"tlb", "line"}
    BY DEF TypeOK, InHelper
  <2>2. IsTlb(c) <=> stage = "tlb"
    BY <2>1 DEF IsTlb, FirstLevel, SecondLevel, L1, L1Tlb
  <2> QED BY <2>1, <2>2, LevelFacts DEF TypeOK
<1>1. PICK a \in Access : call.addr = a.addr /\ call.size = a.size
  BY <1>0 DEF CallShape
<1>2. sets[c] \in Nat /\ PageSize \in Nat \ {0} /\ AsidUnit \in Nat
  BY <1>0, GeometryAssumption
<1>3. CASE stage = "tlb"
  <2> DEFINE p == call.addr \div PageSize
             m == call.asid * AsidUnit
  <2>1. acc.addr = m + p /\ p \in Nat
    BY <1>0, <1>2, <1>3, DivMonotone DEF CallShape, mixpageasid
  <2>2. m \in Nat /\ m >= AsidUnit
    <3>1. call.asid \in Nat \ {0}
      BY <1>0 DEF CallShape, NoTagZero
    <3>2. PICK k \in Nat : call.asid = k + 1
      <4>1. call.asid - 1 \in Nat /\ call.asid = (call.asid - 1) + 1
        BY <3>1
      <4> QED BY <4>1
    <3>3. m = k * AsidUnit + AsidUnit /\ k * AsidUnit \in Nat
      BY <1>2, <3>2
    <3> QED BY <1>2, <3>3
  <2>3. sets[c] <= AsidUnit
    BY <1>0, <1>3 DEF NoTagZero
  <2> HIDE DEF p, m
  <2>4. Here \in Nat /\ Here >= sets[c]
    BY <1>0, <1>2, <2>1, <2>2, <2>3 DEF Here
  <2> QED BY <1>0, <2>4, HasTag, BlockFacts DEF Tag
<1>4. CASE stage = "line"
  <2>1. a.addr \div LineSize >= sets[c]
    BY <1>0, <1>4 DEF NoTagZero
  <2>2. acc.addr >= sets[c]
    BY <1>1, <1>4, <2>1 DEF CallShape
  <2>3. Here \in Nat /\ Here >= sets[c]
    BY <1>0, <1>2, <2>2 DEF Here
  <2> QED BY <1>0, <2>3, HasTag, BlockFacts DEF Tag
<1> QED BY <1>0, <1>3, <1>4

(* The comment in init_tlbcache, "Initialize caches with 0, assuming the   *)
(* null address is actually invalid", with the assumption it needs: when   *)
(* no access has tag 0, access_cache reports no hit on a page or a line    *)
(* that was not asked for before.                                          *)
THEOREM NothingHitsUnasked ==
  ASSUME NoTagZero
  PROVE  HSpec => []HitsWereAsked
<1>1. ASSUME HInv PROVE HitsWereAsked
  <2> SUFFICES ASSUME NEW c \in CacheName, Asked(c), ~Misses(c, Here)
               PROVE  Block \in DOMAIN used[c]
    BY DEF HitsWereAsked
  <2> DEFINE s == SetOf(c, Here)
  <2>1. /\ TypeOK /\ CallShape /\ History /\ Ordered(c)
        /\ InHelper /\ c \in {FirstLevel, SecondLevel}
    BY <1>1 DEF HInv, IInv, Asked
  <2>2. Shape(c, Block) /\ AddrOf(c, Block) = Here /\ Tag(c, Block) # 0 /\ Here \in Nat
    BY <2>1, BlockFacts, BlockHasTag DEF TypeOK, Here
  <2>3. s \in Sets(c)
    BY <2>2, AddressFacts
  <2>4. PICK j \in Ways(c) : array[c][s][j] = Tag(c, Block)
    BY <2>2 DEF Misses, Hit, Tag
  <2>5. PICK b \in UsedIn(c, s) : Rank(used[c], UsedIn(c, s), b) = j
    BY <2>1, <2>2, <2>3, <2>4 DEF Ordered, InOrder, UsedIn, Kept
  <2>6. Tag(c, b) = Tag(c, Block)
    BY <2>1, <2>3, <2>4, <2>5 DEF Ordered, InOrder, UsedIn, Kept
  <2>7. b \in DOMAIN used[c] /\ SetOf(c, AddrOf(c, b)) = s /\ Shape(c, b)
    BY <2>1 DEF UsedIn, History, Times
  <2>8. b = Block
    BY <2>2, <2>6, <2>7, BlocksDiffer
  <2> QED BY <2>7, <2>8
<1>2. HInv => HitsWereAsked
  BY <1>1
<1> QED BY <1>2, HInitHInv, HNextHInv, PTL DEF HSpec

-----------------------------------------------------------------------------
(* Uses at the times A, of the block B[s] at the time s: when each block   *)
(* was used last before the time t, and what a set of an LRU cache holds   *)
(* then.                                                                   *)

Before(A, t) == {s \in A : s < t}

LastUse(A, B, t) ==
  [b \in {B[s] : s \in Before(A, t)} |->
     CHOOSE s \in Before(A, t) : B[s] = b /\ \A r \in Before(A, t) : B[r] = b => r <= s]

LruWays(c, u, s) ==
  CHOOSE ways \in [Ways(c) -> Nat] :
    Kept(c, ways, u, {b \in DOMAIN u : SetOf(c, AddrOf(c, b)) = s})

Missing(c, u, b) == ~Hit(c, LruWays(c, u, SetOf(c, AddrOf(c, b))), Tag(c, b))

(* A set of numbers below a bound has a largest one. *)
LEMMA GreatestNat ==
  ASSUME NEW T \in SUBSET Nat, T # {}, NEW t \in Nat, \A s \in T : s < t
  PROVE  \E x \in T : \A y \in T : y <= x
<1> DEFINE D == {d \in Nat : \E s \in T : d = t - s}
<1>1. D \in SUBSET Nat /\ D # {}
  <2>1. PICK s \in T : TRUE
    OBVIOUS
  <2>2. t - s \in Nat
    BY <2>1
  <2> QED BY <2>2
<1>2. PICK d \in D : \A e \in D : d <= e
  BY <1>1, LeastNat
<1>3. PICK x \in T : d = t - x
  OBVIOUS
<1>4. ASSUME NEW y \in T PROVE y <= x
  <2>1. t - y \in Nat
    BY <1>4
  <2>2. d <= t - y
    BY <1>2, <2>1
  <2>3. x \in Nat /\ y \in Nat
    OBVIOUS
  <2> QED BY <1>3, <2>2, <2>3
<1> QED BY <1>4

LEMMA LastFacts ==
  ASSUME NEW A \in SUBSET Nat, NEW B, NEW t \in Nat, NEW b \in DOMAIN LastUse(A, B, t)
  PROVE  /\ LastUse(A, B, t)[b] \in A /\ LastUse(A, B, t)[b] < t
         /\ LastUse(A, B, t)[b] \in Nat
         /\ B[LastUse(A, B, t)[b]] = b
         /\ \A r \in A : r < t /\ B[r] = b => r <= LastUse(A, B, t)[b]
<1> DEFINE T == {s \in Before(A, t) : B[s] = b}
           Is(s) == B[s] = b /\ \A r \in Before(A, t) : B[r] = b => r <= s
<1>1. T # {} /\ T \in SUBSET Nat /\ \A s \in T : s < t
  BY DEF LastUse, Before
<1>2. \E x \in T : \A y \in T : y <= x
  BY <1>1, GreatestNat
<1>3. \E s \in Before(A, t) : Is(s)
  BY <1>2
<1>4. LastUse(A, B, t)[b] = CHOOSE s \in Before(A, t) : Is(s)
  BY DEF LastUse
<1> HIDE DEF Is
<1>5. LastUse(A, B, t)[b] \in Before(A, t) /\ Is(LastUse(A, B, t)[b])
  BY <1>3, <1>4
<1> QED BY <1>5 DEF Is, Before

LEMMA LastIs ==
  ASSUME NEW A \in SUBSET Nat, NEW B, NEW t \in Nat, NEW s \in A, s < t,
         \A r \in A : r < t /\ B[r] = B[s] => r <= s
  PROVE  B[s] \in DOMAIN LastUse(A, B, t) /\ LastUse(A, B, t)[B[s]] = s
<1>1. B[s] \in DOMAIN LastUse(A, B, t)
  BY DEF LastUse, Before
<1> DEFINE z == LastUse(A, B, t)[B[s]]
<1>2. z \in A /\ z < t /\ z \in Nat /\ B[z] = B[s] /\ s <= z
  BY <1>1, LastFacts
<1> HIDE DEF z
<1>3. z <= s
  BY <1>2
<1>4. z = s
  BY <1>2, <1>3
<1> QED BY <1>1, <1>4 DEF z

(* The times of last use are different, and there are finitely many.       *)
LEMMA LastFinite ==
  ASSUME NEW A \in SUBSET Nat, NEW B, NEW t \in Nat
  PROVE  /\ IsFiniteSet(DOMAIN LastUse(A, B, t))
         /\ \A x, y \in DOMAIN LastUse(A, B, t) :
              LastUse(A, B, t)[x] = LastUse(A, B, t)[y] => x = y
<1> DEFINE u == LastUse(A, B, t)
           D == DOMAIN u
<1>1. \A x \in D : u[x] \in Nat /\ u[x] < t /\ B[u[x]] = x
  BY LastFacts
<1>2. \A x, y \in D : u[x] = u[y] => x = y
  BY <1>1
<1>3. u = [x \in D |-> u[x]]
  BY DEF LastUse
<1> HIDE DEF u, D
<1>4. u \in [D -> 0 .. t - 1]
  <2>1. \A x \in D : u[x] \in 0 .. t - 1
    BY <1>1
  <2> QED BY <1>3, <2>1
<1>5. u \in Injection(D, 0 .. t - 1)
  BY <1>2, <1>4 DEF Injection, IsInjective
<1>6. IsFiniteSet(0 .. t - 1)
  BY FS_Interval
<1>7. IsFiniteSet(D)
  BY <1>5, <1>6, FS_Injection
<1> QED BY <1>2, <1>7 DEF u, D

(* A use, and a time without one. *)
LEMMA LastNext ==
  ASSUME NEW A \in SUBSET Nat, NEW B, NEW t \in A
  PROVE  LastUse(A, B, t + 1) =
           [b \in DOMAIN LastUse(A, B, t) \cup {B[t]} |->
              IF b = B[t] THEN t ELSE LastUse(A, B, t)[b]]
<1> DEFINE u == LastUse(A, B, t)
           v == LastUse(A, B, t + 1)
<1>0. t \in Nat /\ \A s \in A : s < t + 1 <=> s < t \/ s = t
  OBVIOUS
<1>1. DOMAIN v = DOMAIN u \cup {B[t]}
  BY <1>0 DEF LastUse, Before
<1>2. v[B[t]] = t
  BY <1>0, LastIs
<1>3. ASSUME NEW b \in DOMAIN u, b # B[t] PROVE v[b] = u[b]
  <2>1. u[b] \in A /\ u[b] < t /\ u[b] \in Nat /\ B[u[b]] = b /\ \A r \in A : r < t /\ B[r] = b => r <= u[b]
    BY <1>0, <1>3, LastFacts
  <2>2. u[b] < t + 1 /\ \A r \in A : r < t + 1 /\ B[r] = b => r <= u[b]
    BY <1>0, <1>3, <2>1
  <2> HIDE DEF u
  <2>3. LastUse(A, B, t + 1)[B[u[b]]] = u[b]
    BY <1>0, <2>1, <2>2, LastIs
  <2> QED BY <2>1, <2>3
<1>4. v = [b \in DOMAIN v |-> v[b]]
  BY DEF LastUse
<1> HIDE DEF u, v
<1> QED BY <1>1, <1>2, <1>3, <1>4 DEF u, v

LEMMA LastGap ==
  ASSUME NEW A \in SUBSET Nat, NEW B, NEW t \in Nat, NEW r \in Nat, t <= r,
         \A s \in A : ~(t <= s /\ s < r)
  PROVE  LastUse(A, B, r) = LastUse(A, B, t)
<1>1. Before(A, r) = Before(A, t)
  <2>1. \A s \in A : s < r <=> s < t
    OBVIOUS
  <2> QED BY <2>1 DEF Before
<1> QED BY <1>1 DEF LastUse

-----------------------------------------------------------------------------
(* Uses that repeat themselves with period P from the time m on, up to the *)
(* time T.                                                                 *)
Repeats(A, m, P, T) == \A s \in Nat : m <= s /\ s + P < T => (s \in A <=> s + P \in A)

Again(B, P, T) == \A s \in Nat : s + P < T => B[s + P] = B[s]

Periodic(A, B, m, P, T, t) ==
  /\ A \in SUBSET Nat /\ m \in Nat /\ P \in Nat /\ T \in Nat /\ t \in Nat
  /\ Repeats(A, m, P, T) /\ Again(B, P, T)
  /\ m + P <= t /\ t + P <= T

(* A period later the same blocks have been used, and every last use that  *)
(* was one of the repeated ones has moved on by a period.                  *)
LEMMA LastMoves ==
  ASSUME NEW A, NEW B, NEW m, NEW P, NEW T, NEW t, Periodic(A, B, m, P, T, t)
  PROVE  /\ DOMAIN LastUse(A, B, t + P) = DOMAIN LastUse(A, B, t)
         /\ \A b \in DOMAIN LastUse(A, B, t) :
              LastUse(A, B, t + P)[b] = IF LastUse(A, B, t)[b] >= m
                                          THEN LastUse(A, B, t)[b] + P
                                          ELSE LastUse(A, B, t)[b]
<1> DEFINE u == LastUse(A, B, t)
           v == LastUse(A, B, t + P)
<1>0. /\ A \in SUBSET Nat /\ m \in Nat /\ P \in Nat /\ T \in Nat /\ t \in Nat
      /\ Repeats(A, m, P, T) /\ Again(B, P, T) /\ m + P <= t /\ t + P <= T
  BY DEF Periodic
<1> USE <1>0
<1>1. ASSUME NEW s \in A, m <= s, s < t
      PROVE  s + P \in A /\ s + P < t + P /\ B[s + P] = B[s]
  <2>1. s \in Nat /\ s + P < T
    BY <1>1
  <2> QED BY <1>1, <2>1 DEF Repeats, Again
<1>2. ASSUME NEW s \in A, s < t + P, m + P <= s
      PROVE  s - P \in A /\ s - P < t /\ m <= s - P /\ B[s - P] = B[s]
  <2> DEFINE r == s - P
  <2>1. r \in Nat /\ m <= r /\ r + P = s /\ r + P < T /\ r < t
    BY <1>2
  <2> HIDE DEF r
  <2>2. r \in A /\ B[r] = B[s]
    BY <2>1 DEF Repeats, Again
  <2> QED BY <2>1, <2>2 DEF r
<1>3. DOMAIN v = DOMAIN u
  <2>1. ASSUME NEW s \in A, s < t PROVE B[s] \in DOMAIN v
    <3>1. s < t + P
      BY <2>1
    <3> QED BY <3>1 DEF LastUse, Before
  <2>2. ASSUME NEW s \in A, s < t + P PROVE B[s] \in DOMAIN u
    <3>1. CASE m + P <= s
      BY <1>2, <2>2, <3>1 DEF LastUse, Before
    <3>2. CASE ~(m + P <= s)
      <4>1. s < t
        BY <3>2
      <4> QED BY <4>1 DEF LastUse, Before
    <3> QED BY <3>1, <3>2
  <2>3. DOMAIN u = {B[s] : s \in Before(A, t)} /\ DOMAIN v = {B[s] : s \in Before(A, t + P)}
    BY DEF LastUse
  <2> QED BY <2>1, <2>2, <2>3 DEF Before
<1>4. ASSUME NEW b \in DOMAIN u
      PROVE  v[b] = IF u[b] >= m THEN u[b] + P ELSE u[b]
  <2> DEFINE z == u[b]
             w == v[b]
  <2>1. /\ z \in A /\ z < t /\ z \in Nat /\ B[z] = b
        /\ \A r \in A : r < t /\ B[r] = b => r <= z
    BY <1>4, LastFacts
  <2>2. /\ w \in A /\ w < t + P /\ w \in Nat /\ B[w] = b
        /\ \A r \in A : r < t + P /\ B[r] = b => r <= w
    <3>1. t + P \in Nat
      OBVIOUS
    <3> QED BY <1>3, <1>4, <3>1, LastFacts
  <2> HIDE DEF z, w
  <2>3. m + P <= w => w - P <= z /\ m <= w - P
    BY <1>2, <2>1, <2>2
  <2>4. m <= z => z + P <= w
    BY <1>1, <2>1, <2>2
  <2>5. w < t => w <= z
    BY <2>1, <2>2
  <2>6. z <= w
    BY <2>1, <2>2
  <2>7. CASE z >= m
    <3>1. m + P <= w
      BY <2>1, <2>2, <2>4, <2>7
    <3>2. w = z + P
      BY <2>1, <2>2, <2>3, <2>4, <2>7, <3>1
    <3> QED BY <2>7, <3>2 DEF z, w
  <2>8. CASE ~(z >= m)
    <3>1. ~(m + P <= w)
      BY <2>1, <2>2, <2>3, <2>8
    <3>2. w = z
      BY <2>1, <2>2, <2>5, <2>6, <3>1
    <3> QED BY <2>8, <3>2 DEF z, w
  <2> QED BY <2>7, <2>8
<1> QED BY <1>3, <1>4 DEF u, v

(* What an LRU cache holds depends on the order of the last uses only. *)
LEMMA SameOrder ==
  ASSUME NEW c, NEW u, NEW v, DOMAIN u = DOMAIN v,
         \A x, y \in DOMAIN u : u[x] > u[y] <=> v[x] > v[y], NEW s
  PROVE  LruWays(c, u, s) = LruWays(c, v, s)
<1> DEFINE S == {b \in DOMAIN u : SetOf(c, AddrOf(c, b)) = s}
<1>1. S = {b \in DOMAIN v : SetOf(c, AddrOf(c, b)) = s}
  OBVIOUS
<1>2. \A b \in S : {x \in S : u[x] > u[b]} = {x \in S : v[x] > v[b]}
  OBVIOUS
<1>3. \A b \in S : Rank(u, S, b) = Rank(v, S, b)
  BY <1>2 DEF Rank
<1> HIDE DEF S
<1>4. \A ways : Kept(c, ways, u, S) <=> Kept(c, ways, v, S)
  BY <1>3 DEF Kept
<1>5. LruWays(c, u, s) = CHOOSE ways \in [Ways(c) -> Nat] : Kept(c, ways, u, S)
  BY DEF LruWays, S
<1>6. LruWays(c, v, s) = CHOOSE ways \in [Ways(c) -> Nat] : Kept(c, ways, v, S)
  BY <1>1 DEF LruWays
<1> QED BY <1>4, <1>5, <1>6

(* The ways of an ordered cache are the ones LruWays chooses. *)
LEMMA OrderedWays ==
  ASSUME NEW c \in CacheName, NEW u, NEW s, NEW ways \in [Ways(c) -> Nat],
         Kept(c, ways, u, {b \in DOMAIN u : SetOf(c, AddrOf(c, b)) = s})
  PROVE  ways = LruWays(c, u, s)
<1> DEFINE S == {b \in DOMAIN u : SetOf(c, AddrOf(c, b)) = s}
           w == LruWays(c, u, s)
<1>1. w \in [Ways(c) -> Nat] /\ Kept(c, w, u, S)
  <2>1. \E x \in [Ways(c) -> Nat] : Kept(c, x, u, S)
    OBVIOUS
  <2> HIDE DEF S
  <2> QED BY <2>1 DEF LruWays, S
<1> HIDE DEF S, w
<1>2. ASSUME NEW k \in Ways(c) PROVE ways[k] = w[k]
  <2>1. CASE \E b \in S : Rank(u, S, b) = k
    BY <1>1, <2>1 DEF Kept, S
  <2>2. CASE ~ \E b \in S : Rank(u, S, b) = k
    <3>1. ways[k] = 0
      BY <2>2 DEF Kept, S
    <3>2. w[k] = 0
      BY <1>1, <2>2 DEF Kept
    <3> QED BY <3>1, <3>2
  <2> QED BY <2>1, <2>2
<1> QED BY <1>1, <1>2 DEF w

(* The steady state of one TLB or cache: one period after the uses have    *)
(* begun to repeat themselves, every set holds what it held a period       *)
(* before, and the same uses miss.                                         *)
THEOREM CacheSettles ==
  ASSUME NEW c \in CacheName, NEW A, NEW B, NEW m, NEW P, NEW T, NEW t,
         Periodic(A, B, m, P, T, t)
  PROVE  /\ \A s : LruWays(c, LastUse(A, B, t + P), s) = LruWays(c, LastUse(A, B, t), s)
         /\ \A b : Missing(c, LastUse(A, B, t + P), b) <=> Missing(c, LastUse(A, B, t), b)
<1> DEFINE u == LastUse(A, B, t)
           v == LastUse(A, B, t + P)
<1>1. /\ DOMAIN v = DOMAIN u
      /\ \A b \in DOMAIN u : v[b] = IF u[b] >= m THEN u[b] + P ELSE u[b]
  BY LastMoves
<1>2. m \in Nat /\ P \in Nat /\ \A b \in DOMAIN u : u[b] \in Nat
  BY LastFacts DEF Periodic
<1> HIDE DEF u, v
<1>3. \A x, y \in DOMAIN u : u[x] > u[y] <=> v[x] > v[y]
  BY <1>1, <1>2
<1>4. \A s : LruWays(c, v, s) = LruWays(c, u, s)
  BY <1>1, <1>3, SameOrder
<1>5. \A b : Missing(c, v, b) <=> Missing(c, u, b)
  BY <1>4 DEF Missing
<1> QED BY <1>4, <1>5 DEF u, v

(* Two levels: the second is asked for what the first one misses, and is   *)
(* settled a period later.                                                 *)
THEOREM TwoLevelsSettle ==
  ASSUME NEW c \in CacheName, NEW d \in CacheName, NEW A \in SUBSET Nat, NEW B,
         NEW P \in Nat, NEW T \in Nat, Repeats(A, 0, P, T), Again(B, P, T),
         NEW A2, A2 = {s \in A : Missing(c, LastUse(A, B, s), B[s])},
         NEW t \in Nat, t + P <= T
  PROVE  /\ Repeats(A2, P, P, T)
         /\ t >= P => /\ \A s : LruWays(c, LastUse(A, B, t + P), s) = LruWays(c, LastUse(A, B, t), s)
                      /\ \A b : Missing(c, LastUse(A, B, t + P), b) <=> Missing(c, LastUse(A, B, t), b)
         /\ t >= P + P => /\ \A s : LruWays(d, LastUse(A2, B, t + P), s) = LruWays(d, LastUse(A2, B, t), s)
                          /\ \A b : Missing(d, LastUse(A2, B, t + P), b) <=> Missing(d, LastUse(A2, B, t), b)
<1>1. Repeats(A2, P, P, T)
  <2> SUFFICES ASSUME NEW s \in Nat, P <= s, s + P < T
               PROVE  s \in A2 <=> s + P \in A2
    BY DEF Repeats
  <2>1. s \in A <=> s + P \in A
    BY DEF Repeats
  <2>2. B[s + P] = B[s]
    BY DEF Again
  <2>3. Periodic(A, B, 0, P, T, s)
    BY DEF Periodic
  <2>4. \A b : Missing(c, LastUse(A, B, s + P), b) <=> Missing(c, LastUse(A, B, s), b)
    BY <2>3, CacheSettles
  <2> QED BY <2>1, <2>2, <2>4
<1>2. A2 \in SUBSET Nat
  OBVIOUS
<1>3. ASSUME t >= P
      PROVE  /\ \A s : LruWays(c, LastUse(A, B, t + P), s) = LruWays(c, LastUse(A, B, t), s)
             /\ \A b : Missing(c, LastUse(A, B, t + P), b) <=> Missing(c, LastUse(A, B, t), b)
  <2>1. Periodic(A, B, 0, P, T, t)
    BY <1>3 DEF Periodic
  <2> QED BY <2>1, CacheSettles
<1>4. ASSUME t >= P + P
      PROVE  /\ \A s : LruWays(d, LastUse(A2, B, t + P), s) = LruWays(d, LastUse(A2, B, t), s)
             /\ \A b : Missing(d, LastUse(A2, B, t + P), b) <=> Missing(d, LastUse(A2, B, t), b)
  <2>1. Periodic(A2, B, P, P, T, t)
    BY <1>1, <1>2, <1>4 DEF Periodic
  <2> QED BY <2>1, CacheSettles
<1> QED BY <1>1, <1>3, <1>4

-----------------------------------------------------------------------------
(* Counting the members of M from a on, up to b. *)

Between(M, a, b) == {t \in M : a <= t /\ t < b}

Count(M, a, b) == Cardinality(Between(M, a, b))

LEMMA CountFacts ==
  ASSUME NEW M \in SUBSET Nat, NEW a \in Nat, NEW b \in Nat
  PROVE  IsFiniteSet(Between(M, a, b)) /\ Count(M, a, b) \in Nat
<1>1. Between(M, a, b) \in SUBSET (a .. b)
  <2>1. \A t \in M : a <= t /\ t < b => t \in a .. b
    OBVIOUS
  <2> QED BY <2>1 DEF Between
<1>2. IsFiniteSet(a .. b)
  BY FS_Interval
<1>3. IsFiniteSet(Between(M, a, b))
  BY <1>1, <1>2, FS_Subset
<1> QED BY <1>3, FS_CardinalityType DEF Count

LEMMA CountSplit ==
  ASSUME NEW M \in SUBSET Nat, NEW a \in Nat, NEW b \in Nat, NEW d \in Nat, a <= b, b <= d
  PROVE  Count(M, a, d) = Count(M, a, b) + Count(M, b, d)
<1> DEFINE X == Between(M, a, b)
           Y == Between(M, b, d)
<1>1. IsFiniteSet(X) /\ IsFiniteSet(Y) /\ Cardinality(X) \in Nat /\ Cardinality(Y) \in Nat
  BY CountFacts DEF Count
<1>2. \A t \in M : a <= t /\ t < d <=> (a <= t /\ t < b) \/ (b <= t /\ t < d)
  OBVIOUS
<1>3. \A t \in M : ~((a <= t /\ t < b) /\ (b <= t /\ t < d))
  OBVIOUS
<1>4. Between(M, a, d) = X \cup Y
  BY <1>2 DEF Between
<1>5. X \cap Y = {}
  BY <1>3 DEF Between
<1> HIDE DEF X, Y
<1>6. Cardinality(X \cup Y) = Cardinality(X) + Cardinality(Y) - Cardinality(X \cap Y)
  BY <1>1, FS_Union
<1>7. Cardinality(X \cap Y) = 0
  BY <1>5, FS_EmptySet
<1>8. Cardinality(X \cup Y) = Cardinality(X) + Cardinality(Y)
  BY <1>1, <1>6, <1>7
<1> QED BY <1>4, <1>8 DEF Count, X, Y

LEMMA CountGap ==
  ASSUME NEW M \in SUBSET Nat, NEW a \in Nat, NEW t \in Nat, NEW r \in Nat, t <= r,
         \A s \in M : ~(t <= s /\ s < r)
  PROVE  Count(M, a, r) = Count(M, a, t)
<1>1. \A s \in M : s < r <=> s < t
  OBVIOUS
<1>2. Between(M, a, r) = Between(M, a, t)
  BY <1>1 DEF Between
<1> QED BY <1>2 DEF Count

LEMMA CountNone ==
  ASSUME NEW M \in SUBSET Nat, NEW a \in Nat, NEW t \in Nat, t <= a
  PROVE  Count(M, a, t) = 0
<1>1. Between(M, a, t) = {}
  <2>1. \A s \in M : ~(a <= s /\ s < t)
    OBVIOUS
  <2> QED BY <2>1 DEF Between
<1> QED BY <1>1, FS_EmptySet DEF Count

LEMMA CountOne ==
  ASSUME NEW M \in SUBSET Nat, NEW a \in Nat, NEW t \in M, NEW r \in Nat, a <= t, t < r,
         \A s \in M : ~(t < s /\ s < r)
  PROVE  Count(M, a, r) = Count(M, a, t) + 1
<1>1. \A s \in M : a <= s /\ s < r <=> (a <= s /\ s < t) \/ s = t
  OBVIOUS
<1>2. Between(M, a, r) = Between(M, a, t) \cup {t}
  BY <1>1 DEF Between
<1>3. t \notin Between(M, a, t) /\ IsFiniteSet(Between(M, a, t))
  BY CountFacts DEF Between
<1> QED BY <1>2, <1>3, FS_AddElement DEF Count

LEMMA CountShift ==
  ASSUME NEW M \in SUBSET Nat, NEW m \in Nat, NEW P \in Nat, NEW T \in Nat, Repeats(M, m, P, T),
         NEW a \in Nat, NEW b \in Nat, NEW d \in Nat, m <= a, b = a + P, d = b + P, d <= T
  PROVE  Count(M, b, d) = Count(M, a, b)
<1> DEFINE X == Between(M, a, b)
           Y == Between(M, b, d)
           f == [t \in X |-> t + P]
<1>1. IsFiniteSet(X)
  BY CountFacts
<1>2. ASSUME NEW t \in X PROVE t + P \in Y
  <2>1. t \in Nat /\ m <= t /\ t + P < T /\ b <= t + P /\ t + P < d /\ t \in M
    BY <1>2 DEF Between
  <2> QED BY <2>1 DEF Repeats, Between
<1>3. ASSUME NEW s \in Y PROVE \E t \in X : f[t] = s
  <2> DEFINE t == s - P
  <2>1. t \in Nat /\ m <= t /\ t + P = s /\ t + P < T /\ a <= t /\ t < b /\ s \in M
    BY <1>3 DEF Between
  <2> HIDE DEF t
  <2>2. t \in M
    BY <2>1 DEF Repeats
  <2>3. t \in X
    BY <2>1, <2>2 DEF Between
  <2> QED BY <2>1, <2>3
<1>4. \A s, t \in X : f[s] = f[t] => s = t
  <2>1. \A s, t \in X : s \in Nat /\ t \in Nat
    BY DEF Between
  <2> HIDE DEF X
  <2> QED BY <2>1
<1>5. f \in [X -> Y]
  BY <1>2
<1> HIDE DEF X, Y, f
<1>6. f \in Bijection(X, Y)
  BY <1>3, <1>4, <1>5 DEF Bijection, Injection, IsInjective, Surjection
<1>7. ExistsBijection(X, Y)
  BY <1>6 DEF ExistsBijection
<1> QED BY <1>1, <1>7, FS_Bijection DEF Count, X, Y

(* M repeats itself from the p-th of n periods on. *)
Cycle(M, P, p, n, first, second, last) ==
  /\ p \in Nat /\ n \in Nat /\ P \in Nat /\ first = p * P /\ second = (p + 1) * P /\ last = n * P
  /\ Repeats(M, first, P, last)

(* The h-th period. *)
Turn(P, h, u, v) == h \in Nat /\ u = h * P /\ v = (h + 1) * P

(* The periods up to the h-th and the h-th count what they should. *)
Evenly(M, p, n, first, second, h, u, v) ==
  /\ h <= n => Count(M, first, u) = (h - p) * Count(M, first, second)
  /\ h + 1 <= n => Count(M, u, v) = Count(M, first, second)

(* Every period counts as many, and n of them n times as many. *)
LEMMA CountPeriods ==
  ASSUME NEW M \in SUBSET Nat, NEW P, NEW p, NEW n, NEW first, NEW second, NEW last,
         Cycle(M, P, p, n, first, second, last), NEW h, NEW u, NEW v, Turn(P, h, u, v), p <= h
  PROVE  Evenly(M, p, n, first, second, h, u, v)
<1> USE DEF Cycle, Turn, Evenly
<1> DEFINE a == Count(M, p * P, (p + 1) * P)
           One(k) == Count(M, k * P, (k + 1) * P) = a
           All(k) == Count(M, p * P, k * P) = (k - p) * a
           Bad == {k \in Nat : p <= k /\ ((k + 1 <= n /\ ~One(k)) \/ (k <= n /\ ~All(k)))}
<1>0. ASSUME NEW k \in Nat
      PROVE  k * P \in Nat /\ (k + 1) * P = k * P + P /\ (k + 1) * P \in Nat
  OBVIOUS
<1>1. ASSUME NEW k \in Nat, NEW l \in Nat, k <= l PROVE k * P <= l * P
  <2>1. PICK d \in Nat : l = k + d
    <3>1. l - k \in Nat /\ l = k + (l - k)
      BY <1>1
    <3> QED BY <3>1
  <2>2. l * P = k * P + d * P /\ d * P \in Nat /\ k * P \in Nat
    BY <2>1
  <2> QED BY <2>2
<1>2. ASSUME NEW k \in Nat, p <= k, k + 1 + 1 <= n PROVE Count(M, (k + 1) * P, (k + 1 + 1) * P) = Count(M, k * P, (k + 1) * P)
  <2> DEFINE x == k * P
             y == (k + 1) * P
             z == (k + 1 + 1) * P
             m == p * P
             T == n * P
  <2>1. x \in Nat /\ y \in Nat /\ y = x + P /\ m \in Nat /\ T \in Nat
    BY <1>0
  <2>2. z = y + P
    BY <1>0
  <2>3. m <= x /\ z <= T
    BY <1>1, <1>2
  <2>4. Repeats(M, m, P, T)
    OBVIOUS
  <2> HIDE DEF x, y, z, m, T
  <2>5. Count(M, y, z) = Count(M, x, y)
    BY <2>1, <2>2, <2>3, <2>4, CountShift
  <2> QED BY <2>5 DEF x, y, z
<1>3. a \in Nat
  BY <1>0, CountFacts
<1>4. Bad = {}
  <2> SUFFICES ASSUME Bad # {} PROVE FALSE
    OBVIOUS
  <2>1. PICK k \in Bad : \A l \in Bad : k <= l
    <3>1. Bad \in SUBSET Nat
      OBVIOUS
    <3> HIDE DEF Bad
    <3> QED BY <3>1, LeastNat
  <2>2. k \in Nat /\ p <= k /\ ((k + 1 <= n /\ ~One(k)) \/ (k <= n /\ ~All(k)))
    OBVIOUS
  <2> HIDE DEF a
  <2>3. CASE k = p
    <3>1. One(k)
      BY <2>3 DEF a
    <3>2. p * P \in Nat
      BY <1>0
    <3>3. Count(M, p * P, p * P) = 0
      BY <3>2, CountNone
    <3>4. (p - p) * a = 0
      BY <1>3
    <3> QED BY <2>2, <2>3, <3>1, <3>3, <3>4
  <2>4. CASE k # p
    <3> DEFINE l == k - 1
    <3>1. l \in Nat /\ p <= l /\ k = l + 1 /\ l < k
      BY <2>2, <2>4
    <3> HIDE DEF l
    <3>2. l \notin Bad
      BY <2>1, <2>2, <3>1
    <3>3. k <= n => One(l) /\ All(l)
      BY <2>2, <3>1, <3>2
    <3>4. k + 1 <= n => One(k)
      <4>1. k + 1 <= n => l + 1 + 1 <= n /\ k <= n
        BY <2>2, <3>1
      <4> QED BY <1>2, <3>1, <3>3, <4>1
    <3>5. k <= n => All(k)
      <4> DEFINE m == p * P
                 x == l * P
                 y == k * P
      <4>1. m \in Nat /\ x \in Nat /\ y \in Nat /\ m <= x /\ x <= y
        <5>1. l <= k
          BY <3>1
        <5> QED BY <1>0, <1>1, <2>2, <3>1, <5>1
      <4>2. k <= n => Count(M, m, x) = (l - p) * a /\ Count(M, x, y) = a
        BY <3>1, <3>3
      <4> HIDE DEF m, x, y
      <4>3. Count(M, m, y) = Count(M, m, x) + Count(M, x, y)
        BY <4>1, CountSplit
      <4>4. (l - p) * a + a = (k - p) * a
        <5>1. k - p = (l - p) + 1 /\ l - p \in Nat
          BY <2>2, <3>1
        <5> DEFINE e == l - p
        <5>2. e \in Nat /\ k - p = e + 1
          BY <5>1
        <5> HIDE DEF e
        <5>3. e * a + a = (e + 1) * a
          BY <1>3, <5>2
        <5> QED BY <5>2, <5>3 DEF e
      <4>5. k <= n => Count(M, m, y) = (k - p) * a
        BY <4>2, <4>3, <4>4
      <4> QED BY <4>5 DEF m, y
    <3> QED BY <2>2, <3>4, <3>5
  <2> QED BY <2>3, <2>4
<1>5. \A k \in Nat : p <= k => (k + 1 <= n => One(k)) /\ (k <= n => All(k))
  BY <1>4
<1>6. (h + 1 <= n => One(h)) /\ (h <= n => All(h))
  BY <1>5
<1>7. a = Count(M, first, second)
  OBVIOUS
<1> HIDE DEF a
<1>8. h <= n => Count(M, first, u) = (h - p) * a
  BY <1>6
<1>9. h + 1 <= n => Count(M, u, v) = a
  BY <1>6
<1> QED BY <1>3, <1>7, <1>8, <1>9

-----------------------------------------------------------------------------
(* A trace that is known beforehand: pages are looked up at the times T,   *)
(* lines at the times L, and B has the block that is looked up at a time.  *)
(* A second level is asked when the first one misses.                      *)

Passed(c, A, B) == {s \in A : Missing(c, LastUse(A, B, s), B[s])}

Asks(T, L, B, c) ==
  CASE c = "l1dtlb" -> T
    [] c = "l1d"    -> L
    [] c = "l2stlb" -> Passed("l1dtlb", T, B)
    [] c = "llc"    -> Passed("l1d", L, B)
    [] OTHER        -> {}

UsesOf(T, L, B, c, k) == LastUse(Asks(T, L, B, c), B, k)

MissTimes(T, L, B, c) == Passed(c, Asks(T, L, B, c), B)

(* The simulator has come to the time k of the trace. *)
Tracks(T, L, B, k) ==
  \A c \in CacheName : Times(c, UsesOf(T, L, B, c, k), k) /\ InOrder(c, UsesOf(T, L, B, c, k))

(* What all TLBs and caches hold then. *)
HeldAt(T, L, B, k) ==
  [c \in CacheName |-> [s \in Sets(c) |-> LruWays(c, UsesOf(T, L, B, c, k), s)]]

LEMMA AsksFacts ==
  ASSUME NEW T \in SUBSET Nat, NEW L \in SUBSET Nat, NEW B, NEW c \in CacheName
  PROVE  /\ Asks(T, L, B, c) \in SUBSET Nat
         /\ Asks(T, L, B, c) \subseteq T \cup L
         /\ MissTimes(T, L, B, c) \in SUBSET Nat
         /\ MissTimes(T, L, B, c) \subseteq T \cup L
<1>1. \A A, d : Passed(d, A, B) \subseteq A
  BY DEF Passed
<1>2. Asks(T, L, B, c) \subseteq T \cup L
  BY <1>1 DEF Asks, CacheName
<1>3. MissTimes(T, L, B, c) \subseteq Asks(T, L, B, c)
  BY <1>1 DEF MissTimes
<1> QED BY <1>2, <1>3

LEMMA HeldNow ==
  ASSUME TypeOK, NEW T, NEW L, NEW B, NEW k, Tracks(T, L, B, k)
  PROVE  array = HeldAt(T, L, B, k)
<1> DEFINE h == HeldAt(T, L, B, k)
<1>1. ASSUME NEW c \in CacheName PROVE array[c] = h[c]
  <2> DEFINE u == UsesOf(T, L, B, c, k)
  <2>1. array[c] \in [Sets(c) -> [Ways(c) -> Nat]]
    BY DEF TypeOK
  <2>2. InOrder(c, u)
    BY DEF Tracks
  <2> HIDE DEF u
  <2>3. ASSUME NEW s \in Sets(c) PROVE array[c][s] = LruWays(c, u, s)
    <3>1. array[c][s] \in [Ways(c) -> Nat]
      BY <2>1
    <3>2. PICK w : w = array[c][s]
      OBVIOUS
    <3>3. Kept(c, w, u, {b \in DOMAIN u : SetOf(c, AddrOf(c, b)) = s})
      BY <2>2, <3>2 DEF InOrder
    <3>4. w = LruWays(c, u, s)
      BY <3>1, <3>2, <3>3, OrderedWays
    <3> QED BY <3>2, <3>4
  <2>4. array[c] = [s \in Sets(c) |-> LruWays(c, u, s)]
    BY <2>1, <2>3
  <2> QED BY <2>4 DEF HeldAt, u
<1>2. array = [c \in CacheName |-> array[c]] /\ h = [c \in CacheName |-> h[c]]
  BY DEF TypeOK, HeldAt
<1> HIDE DEF h
<1>3. array = h
  BY <1>1, <1>2
<1> QED BY <1>3 DEF h

(* The simulator misses when the cache of that history does. *)
LEMMA MissingIs ==
  ASSUME TypeOK, CallShape, InHelper, NEW c \in {FirstLevel, SecondLevel}, NEW u, InOrder(c, u),
         NEW x, x = Block
  PROVE  Missing(c, u, x) <=> Misses(c, Here)
<1>0. c \in CacheName /\ Here \in Nat
  BY LevelFacts DEF TypeOK, Here
<1>1. AddrOf(c, x) = Here
  BY BlockFacts
<1>2. PICK s : s = SetOf(c, Here)
  OBVIOUS
<1>3. s \in Sets(c)
  BY <1>0, <1>2, AddressFacts
<1>4. array[c][s] \in [Ways(c) -> Nat]
  BY <1>0, <1>3 DEF TypeOK
<1>5. PICK w : w = array[c][s]
  OBVIOUS
<1>6. Kept(c, w, u, {b \in DOMAIN u : SetOf(c, AddrOf(c, b)) = s})
  BY <1>3, <1>5 DEF InOrder
<1>7. w = LruWays(c, u, s)
  BY <1>0, <1>4, <1>5, <1>6, OrderedWays
<1> QED BY <1>1, <1>2, <1>5, <1>7 DEF Missing, Misses, Tag

(* Who is asked, and who misses, is what was known beforehand. *)
LEMMA AskedAsKnown ==
  ASSUME TypeOK, CallShape, InHelper, call.type = "DATA",
         NEW T \in SUBSET Nat, NEW L \in SUBSET Nat, NEW B, NEW k \in Nat,
         Tracks(T, L, B, k), B[k] = Block, k \in T <=> stage = "tlb", k \in L <=> stage = "line",
         NEW c \in CacheName
  PROVE  /\ k \in Asks(T, L, B, c) <=> Asked(c)
         /\ k \in MissTimes(T, L, B, c) <=> Asked(c) /\ Misses(c, Here)
<1>0. /\ stage \in {"tlb", "line"}
      /\ stage = "tlb" => FirstLevel = "l1dtlb" /\ SecondLevel = "l2stlb"
      /\ stage = "line" => FirstLevel = "l1d" /\ SecondLevel = "llc"
  BY DEF TypeOK, InHelper, FirstLevel, SecondLevel, L1Tlb, L1
<1>1. ASSUME NEW d \in {FirstLevel, SecondLevel}
      PROVE  Missing(d, UsesOf(T, L, B, d, k), B[k]) <=> Misses(d, Here)
  <2>1. d \in CacheName
    BY LevelFacts
  <2>2. InOrder(d, UsesOf(T, L, B, d, k))
    BY <2>1 DEF Tracks
  <2> QED BY <2>2, MissingIs
<1>2. /\ Asks(T, L, B, "l1dtlb") = T /\ Asks(T, L, B, "l1d") = L
      /\ Asks(T, L, B, "l2stlb") = Passed("l1dtlb", T, B)
      /\ Asks(T, L, B, "llc") = Passed("l1d", L, B)
      /\ Asks(T, L, B, "l1itlb") = {} /\ Asks(T, L, B, "l1i") = {}
  BY DEF Asks
<1>3. /\ k \in Asks(T, L, B, "l1dtlb") <=> stage = "tlb"
      /\ k \in Asks(T, L, B, "l1d") <=> stage = "line"
  BY <1>2
<1>4. k \in Asks(T, L, B, "l2stlb") <=> stage = "tlb" /\ Misses(FirstLevel, Here)
  <2>1. k \in Passed("l1dtlb", T, B) <=> k \in T /\ Missing("l1dtlb", LastUse(T, B, k), B[k])
    BY DEF Passed
  <2> QED BY <1>0, <1>1, <1>2, <2>1 DEF UsesOf
<1>5. k \in Asks(T, L, B, "llc") <=> stage = "line" /\ Misses(FirstLevel, Here)
  <2>1. k \in Passed("l1d", L, B) <=> k \in L /\ Missing("l1d", LastUse(L, B, k), B[k])
    BY DEF Passed
  <2> QED BY <1>0, <1>1, <1>2, <2>1 DEF UsesOf
<1>6. k \in Asks(T, L, B, c) <=> Asked(c)
  BY <1>0, <1>2, <1>3, <1>4, <1>5 DEF Asked, CacheName
<1>7. k \in MissTimes(T, L, B, c) <=>
        k \in Asks(T, L, B, c) /\ Missing(c, UsesOf(T, L, B, c, k), B[k])
  BY DEF MissTimes, Passed, UsesOf
<1>8. Asked(c) => c \in {FirstLevel, SecondLevel}
  BY DEF Asked
<1> QED BY <1>1, <1>6, <1>7, <1>8

(* One block is looked up. *)
LEMMA VisitTracks ==
  ASSUME TypeOK, CallShape, hit_first \/ miss_first, call.type = "DATA",
         NEW T \in SUBSET Nat, NEW L \in SUBSET Nat, NEW B, NEW k \in Nat,
         Tracks(T, L, B, k), B[k] = Block, k \in T <=> stage = "tlb", k \in L <=> stage = "line"
  PROVE  Tracks(T, L, B, k + 1)'
<1>0. InHelper /\ Next
  BY DEF hit_first, miss_first, Next
<1> SUFFICES ASSUME NEW c \in CacheName
             PROVE  Times(c, UsesOf(T, L, B, c, k + 1), k + 1) /\ InOrder(c, UsesOf(T, L, B, c, k + 1))'
  BY DEF Tracks
<1> DEFINE A == Asks(T, L, B, c)
           u == LastUse(A, B, k)
           v == LastUse(A, B, k + 1)
<1>1. Times(c, u, k) /\ InOrder(c, u)
  BY DEF Tracks, UsesOf
<1>2. A \in SUBSET Nat /\ (k \in A <=> Asked(c))
  BY <1>0, AsksFacts, AskedAsKnown
<1>3. k + 1 \in Nat /\ k < k + 1 /\ k <= k + 1
  OBVIOUS
<1> SUFFICES Times(c, v, k + 1) /\ InOrder(c, v)'
  BY DEF UsesOf
<1>4. CASE Asked(c)
  <2>1. InHelper /\ c \in {FirstLevel, SecondLevel} /\ array'[c] = Touched(c, Here)
    BY <1>0, <1>4, StepTouches
  <2>2. v = Added(u, Block, k)
    <3>1. k \in A
      BY <1>2, <1>4
    <3> HIDE DEF A
    <3>2. v = Added(u, B[k], k)
      BY <1>2, <3>1, LastNext DEF Added
    <3> QED BY <3>2
  <2> HIDE DEF u, v
  <2>3. InOrder(c, v)'
    BY <1>1, <2>1, <2>2, VisitKeeps
  <2>4. Shape(c, Block)
    BY <2>1, BlockFacts
  <2>5. PICK x : x = Block
    OBVIOUS
  <2>6. Times(c, Added(u, x, k), k + 1)
    BY <1>1, <1>3, <2>4, <2>5, TimesNext
  <2>7. Times(c, v, k + 1)
    BY <2>2, <2>5, <2>6
  <2> QED BY <2>3, <2>7
<1>5. CASE ~Asked(c)
  <2>1. array'[c] = array[c]
    BY <1>0, <1>5, StepTouches
  <2>2. v = u
    <3>1. \A s \in A : ~(k <= s /\ s < k + 1)
      BY <1>2, <1>5
    <3> HIDE DEF A
    <3> QED BY <1>2, <1>3, <3>1, LastGap
  <2> HIDE DEF u, v
  <2>3. Times(c, v, k + 1)
    BY <1>1, <1>3, <2>2, TimesLater
  <2> QED BY <1>1, <2>1, <2>2, <2>3 DEF InOrder
<1> QED BY <1>4, <1>5

(* Nothing is looked up for a while. *)
LEMMA WaitTracks ==
  ASSUME NEW T \in SUBSET Nat, NEW L \in SUBSET Nat, NEW B, NEW k \in Nat, NEW l \in Nat, k <= l,
         Tracks(T, L, B, k), array' = array, \A s \in T \cup L : ~(k <= s /\ s < l)
  PROVE  Tracks(T, L, B, l)'
<1> SUFFICES ASSUME NEW c \in CacheName
             PROVE  Times(c, UsesOf(T, L, B, c, l), l) /\ InOrder(c, UsesOf(T, L, B, c, l))'
  BY DEF Tracks
<1> DEFINE A == Asks(T, L, B, c)
           u == LastUse(A, B, k)
           v == LastUse(A, B, l)
<1>1. Times(c, u, k) /\ InOrder(c, u)
  BY DEF Tracks, UsesOf
<1>2. A \in SUBSET Nat /\ \A s \in A : ~(k <= s /\ s < l)
  BY AsksFacts
<1> SUFFICES Times(c, v, l) /\ InOrder(c, v)'
  BY DEF UsesOf
<1> HIDE DEF A
<1>3. v = u
  BY <1>2, LastGap
<1> HIDE DEF u, v
<1>4. Times(c, v, l)
  BY <1>1, <1>3, TimesLater
<1> QED BY <1>1, <1>3, <1>4 DEF InOrder

LEMMA InitTracks ==
  ASSUME Init, NEW T \in SUBSET Nat, NEW L \in SUBSET Nat, NEW B
  PROVE  Tracks(T, L, B, 0)
<1> SUFFICES ASSUME NEW c \in CacheName
             PROVE  Times(c, UsesOf(T, L, B, c, 0), 0) /\ InOrder(c, UsesOf(T, L, B, c, 0))
  BY DEF Tracks
<1> DEFINE A == Asks(T, L, B, c)
<1>1. \A s \in A : ~(s < 0)
  <2>1. A \in SUBSET Nat
    BY AsksFacts
  <2> HIDE DEF A
  <2> QED BY <2>1
<1>2. Before(Asks(T, L, B, c), 0) = {}
  BY <1>1 DEF Before
<1>3. DOMAIN UsesOf(T, L, B, c, 0) = {}
  BY <1>2 DEF UsesOf, LastUse
<1> QED BY <1>3, EmptyOrder

(* The statistics of one lookup. *)
LEMMA StepCounts ==
  ASSUME TypeOK, hit_first \/ miss_first, NEW c \in CacheName
  PROVE  misses'[c] = misses[c] + (IF Asked(c) /\ Misses(c, Here) /\ ~warmup THEN 1 ELSE 0)
<1>0. /\ misses \in [CacheName -> Nat] /\ warmup \in BOOLEAN /\ misses[c] \in Nat
      /\ FirstLevel \in CacheName /\ SecondLevel \in CacheName /\ FirstLevel # SecondLevel
  BY LevelFacts DEF TypeOK
<1>1. CASE hit_first
  <2>1. misses' = misses /\ ~Misses(FirstLevel, Here)
    BY <1>1 DEF hit_first
  <2>2. ~(Asked(c) /\ Misses(c, Here))
    BY <2>1 DEF Asked
  <2> QED BY <1>0, <2>1, <2>2
<1>2. CASE miss_first
  <2> DEFINE f == FirstLevel
             g == SecondLevel
             m == Misses(g, Here)
  <2>1. InHelper /\ Misses(f, Here) /\ misses' = Counted(m)
    BY <1>2 DEF miss_first
  <2>2. misses' = [misses EXCEPT ![f] = @ + (IF warmup THEN 0 ELSE 1),
                                 ![g] = @ + (IF m /\ ~warmup THEN 1 ELSE 0)]
    BY <2>1 DEF Counted
  <2>3. Asked(c) <=> c = f \/ c = g
    BY <2>1 DEF Asked
  <2> HIDE DEF f, g, m
  <2>4. /\ misses'[f] = misses[f] + (IF warmup THEN 0 ELSE 1)
        /\ misses'[g] = misses[g] + (IF m /\ ~warmup THEN 1 ELSE 0)
        /\ c # f /\ c # g => misses'[c] = misses[c]
    BY <1>0, <2>2 DEF f, g
  <2>5. c = f => Misses(c, Here)
    BY <2>1
  <2>6. c = g => (Misses(c, Here) <=> m)
    BY DEF m
  <2>7. CASE c = f
    BY <1>0, <2>3, <2>4, <2>5, <2>7
  <2>8. CASE c = g
    BY <1>0, <2>3, <2>4, <2>6, <2>8
  <2>9. CASE c # f /\ c # g
    BY <1>0, <2>3, <2>4, <2>9
  <2> QED BY <2>7, <2>8, <2>9
<1> QED BY <1>1, <1>2

(* A trace that repeats itself: from the end of the second period on all   *)
(* TLBs and caches hold at every time what they held a period before, and  *)
(* the same lookups miss.                                                  *)
THEOREM AllSettle ==
  ASSUME NEW T \in SUBSET Nat, NEW L \in SUBSET Nat, NEW B, NEW P \in Nat, NEW N \in Nat,
         Repeats(T, 0, P, N), Repeats(L, 0, P, N), Again(B, P, N)
  PROVE  /\ \A k \in Nat : P + P <= k /\ k + P <= N => HeldAt(T, L, B, k + P) = HeldAt(T, L, B, k)
         /\ \A c \in CacheName : Repeats(MissTimes(T, L, B, c), P + P, P, N)
<1>1. ASSUME NEW c \in CacheName PROVE Repeats(Asks(T, L, B, c), P, P, N)
  <2>1. 0 \in Nat /\ \A s \in Nat : P <= s => 0 <= s
    OBVIOUS
  <2>2. CASE c \in {"l1dtlb", "l1d"}
    BY <2>1, <2>2 DEF Asks, Repeats
  <2>3. ASSUME NEW A \in SUBSET Nat, Repeats(A, 0, P, N), NEW d \in CacheName
        PROVE  Repeats(Passed(d, A, B), P, P, N)
    <3>1. PICK A2 : A2 = Passed(d, A, B)
      OBVIOUS
    <3>2. A2 = {s \in A : Missing(d, LastUse(A, B, s), B[s])}
      BY <3>1 DEF Passed
    <3>3. CASE P <= N
      <4>1. 0 \in Nat /\ 0 + P <= N
        BY <3>3
      <4> QED BY <2>3, <3>1, <3>2, <4>1, TwoLevelsSettle
    <3>4. CASE ~(P <= N)
      <4>1. \A s \in Nat : ~(s + P < N)
        BY <3>4
      <4> QED BY <4>1 DEF Repeats
    <3> QED BY <3>3, <3>4
  <2>4. "l1dtlb" \in CacheName /\ "l1d" \in CacheName
    BY DEF CacheName
  <2>5. CASE c \in {"l2stlb", "llc"}
    BY <2>3, <2>4, <2>5 DEF Asks
  <2>6. CASE c \in {"l1itlb", "l1i"}
    BY <2>6 DEF Asks, Repeats
  <2> QED BY <2>2, <2>5, <2>6 DEF CacheName
<1>2. ASSUME NEW c \in CacheName, NEW k \in Nat, P + P <= k, k + P <= N
      PROVE  /\ \A s : LruWays(c, UsesOf(T, L, B, c, k + P), s) = LruWays(c, UsesOf(T, L, B, c, k), s)
             /\ \A b : Missing(c, UsesOf(T, L, B, c, k + P), b) <=> Missing(c, UsesOf(T, L, B, c, k), b)
  <2>1. Asks(T, L, B, c) \in SUBSET Nat
    BY AsksFacts
  <2>2. Periodic(Asks(T, L, B, c), B, P, P, N, k)
    BY <1>1, <1>2, <2>1 DEF Periodic
  <2> QED BY <2>2, CacheSettles DEF UsesOf
<1>3. ASSUME NEW k \in Nat, P + P <= k, k + P <= N
      PROVE  HeldAt(T, L, B, k + P) = HeldAt(T, L, B, k)
  BY <1>2, <1>3 DEF HeldAt
<1>4. ASSUME NEW c \in CacheName PROVE Repeats(MissTimes(T, L, B, c), P + P, P, N)
  <2> SUFFICES ASSUME NEW s \in Nat, P + P <= s, s + P < N
               PROVE  s \in MissTimes(T, L, B, c) <=> s + P \in MissTimes(T, L, B, c)
    BY DEF Repeats
  <2>1. P <= s /\ s + P <= N
    OBVIOUS
  <2>2. s \in Asks(T, L, B, c) <=> s + P \in Asks(T, L, B, c)
    BY <1>1, <2>1 DEF Repeats
  <2>3. B[s + P] = B[s]
    BY DEF Again
  <2>4. Missing(c, UsesOf(T, L, B, c, s + P), B[s]) <=> Missing(c, UsesOf(T, L, B, c, s), B[s])
    BY <1>2, <2>1
  <2> QED BY <2>2, <2>3, <2>4 DEF MissTimes, Passed, UsesOf
<1> QED BY <1>3, <1>4
=============================================================================
