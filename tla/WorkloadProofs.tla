---------------------------- MODULE WorkloadProofs ----------------------------
(***************************************************************************)
(* The benchmark stores what it set out to store and reads it back, for    *)
(* every number of items and passes, every page, and every hash function.  *)
(***************************************************************************)
EXTENDS Workload, CacheProofs, NumberProofs

-----------------------------------------------------------------------------
(* The keys of make_key. *)

(* The loop of make_key has a result: there is a function that satisfies   *)
(* the recursion, so Divided is one.                                       *)
Divides(d, a, m) ==
  /\ d \in [0 .. m -> Nat] /\ d[0] = a
  /\ \A k \in 1 .. m : d[k] = d[k - 1] \div ALPHABETSIZE

LEMMA AlphabetFacts == ALPHABETSIZE \in Nat \ {0} /\ ALPHABETSIZE <= 64 /\ NCHARS \in Nat \ {0} /\ NCHARS <= 59
BY WorkloadAssumption

LEMMA DividesExists ==
  ASSUME NEW a \in Nat, NEW m \in Nat
  PROVE  \E d : Divides(d, a, m)
<1> DEFINE T == {x \in Nat : ~ \E d : Divides(d, a, x)}
<1> SUFFICES ASSUME T # {} PROVE FALSE
  OBVIOUS
<1>1. PICK x \in T : \A y \in T : x <= y
  BY LeastNat
<1>2. x # 0
  <2>1. Divides([k \in 0 .. 0 |-> a], a, 0)
    BY DEF Divides
  <2> QED BY <2>1
<1>3. x - 1 \in Nat /\ x - 1 \notin T
  BY <1>1, <1>2
<1>4. PICK d : Divides(d, a, x - 1)
  BY <1>3
<1> DEFINE e == [k \in 0 .. x |-> IF k = x THEN d[x - 1] \div ALPHABETSIZE ELSE d[k]]
<1>5. d \in [0 .. x - 1 -> Nat] /\ d[x - 1] \in Nat /\ d[x - 1] \div ALPHABETSIZE \in Nat
  <2>1. d \in [0 .. x - 1 -> Nat] /\ x - 1 \in 0 .. x - 1
    BY <1>3, <1>4 DEF Divides
  <2>2. d[x - 1] \in Nat
    BY <2>1
  <2> QED BY <2>1, <2>2, AlphabetFacts
<1>6. \A k \in 0 .. x : k # x => k \in 0 .. x - 1
  OBVIOUS
<1>7. e \in [0 .. x -> Nat]
  BY <1>5, <1>6
<1>8. e[0] = a
  BY <1>2, <1>4 DEF Divides
<1>9. ASSUME NEW k \in 1 .. x PROVE e[k] = e[k - 1] \div ALPHABETSIZE
  <2>1. k - 1 \in 0 .. x /\ k - 1 # x /\ k \in 0 .. x
    OBVIOUS
  <2>2. e[k - 1] = d[k - 1]
    BY <2>1
  <2>3. CASE k = x
    BY <2>2, <2>3
  <2>4. CASE k # x
    <3>1. k \in 1 .. x - 1
      BY <2>4
    <3> QED BY <1>4, <2>1, <2>2, <2>4, <3>1 DEF Divides
  <2> QED BY <2>3, <2>4
<1>10. Divides(e, a, x)
  <2> HIDE DEF e
  <2> QED BY <1>7, <1>8, <1>9 DEF Divides
<1> QED BY <1>10

LEMMA DividedFacts ==
  ASSUME NEW a \in Nat
  PROVE  Divides(Divided(a), a, NCHARS)
<1> DEFINE P(f) == f = [k \in 0 .. NCHARS |-> IF k = 0 THEN a ELSE f[k - 1] \div ALPHABETSIZE]
<1>1. PICK d : Divides(d, a, NCHARS)
  BY AlphabetFacts, DividesExists
<1>2. P(d)
  BY <1>1, AlphabetFacts DEF Divides
<1>3. Divided(a) = CHOOSE f : P(f)
  BY DEF Divided
<1>4. P(Divided(a))
  BY <1>2, <1>3
<1> DEFINE e == Divided(a)
<1>5. /\ DOMAIN e = 0 .. NCHARS /\ e = [k \in 0 .. NCHARS |-> e[k]]
      /\ e[0] = a /\ \A k \in 1 .. NCHARS : e[k] = e[k - 1] \div ALPHABETSIZE
  BY <1>4, AlphabetFacts
<1>6. ASSUME NEW k \in 0 .. NCHARS PROVE e[k] \in Nat
  <2> DEFINE T == {x \in 0 .. NCHARS : e[x] \notin Nat}
  <2> SUFFICES ASSUME T # {} PROVE FALSE
    OBVIOUS
  <2>1. PICK x \in T : \A y \in T : x <= y
    <3>1. T \in SUBSET Nat
      OBVIOUS
    <3> HIDE DEF T
    <3> QED BY <3>1, LeastNat
  <2>2. x # 0 /\ x \in 1 .. NCHARS /\ x - 1 \in 0 .. NCHARS /\ x - 1 < x
    BY <1>5, AlphabetFacts
  <2>3. e[x - 1] \in Nat
    BY <2>1, <2>2
  <2>4. e[x - 1] \div ALPHABETSIZE \in Nat
    BY <2>3, AlphabetFacts
  <2> QED BY <1>5, <2>2, <2>4
<1> QED BY <1>5, <1>6 DEF Divides
(* A key is a string of characters. *)
LEMMA KeyIsString ==
  ASSUME NEW a \in Nat
  PROVE  make_key(a) \in KeyStrings /\ make_key(a) \in Key /\ nkey[make_key(a)] = NCHARS
<1>1. ASSUME NEW k \in 0 .. NCHARS - 1 PROVE Divided(a)[k] % ALPHABETSIZE \in 0 .. ALPHABETSIZE - 1
  <2>1. Divided(a)[k] \in Nat
    BY DividedFacts, AlphabetFacts DEF Divides
  <2> QED BY <2>1, AlphabetFacts
<1>2. make_key(a) \in KeyStrings
  BY <1>1 DEF make_key, KeyStrings
<1> QED BY <1>2, NamesAssumption

(* Different digits are different characters. *)
LEMMA CharsDiffer ==
  ASSUME NEW x \in 0 .. 63, NEW y \in 0 .. 63, whichchar(x) = whichchar(y)
  PROVE  x = y
BY SMT DEF whichchar

(* Numbers that leave no rest have different keys: the digits of the key   *)
(* determine the quotients, from the last one back to the number.          *)
LEMMA KeysDiffer ==
  ASSUME NEW a \in Nat, NEW b \in Nat, Rest(a) = 0, Rest(b) = 0, make_key(a) = make_key(b)
  PROVE  a = b
<1> DEFINE d == Divided(a)
           e == Divided(b)
<1>0. Divides(d, a, NCHARS) /\ Divides(e, b, NCHARS)
  BY DividedFacts
<1>1. d[NCHARS] = 0 /\ e[NCHARS] = 0
  BY DEF Rest
<1>2. ASSUME NEW k \in 0 .. NCHARS - 1 PROVE d[k] % ALPHABETSIZE = e[k] % ALPHABETSIZE
  <2>1. d[k] \in Nat /\ e[k] \in Nat
    BY <1>0, AlphabetFacts DEF Divides
  <2>2. make_key(a)[k] = whichchar(d[k] % ALPHABETSIZE) /\ make_key(b)[k] = whichchar(e[k] % ALPHABETSIZE)
    BY DEF make_key
  <2> HIDE DEF d, e
  <2>3. d[k] % ALPHABETSIZE \in 0 .. 63 /\ e[k] % ALPHABETSIZE \in 0 .. 63
    BY <2>1, AlphabetFacts
  <2> QED BY <2>2, <2>3, CharsDiffer
<1> HIDE DEF d, e
<1> DEFINE T == {m \in 0 .. NCHARS : d[NCHARS - m] # e[NCHARS - m]}
<1>3. T = {}
  <2> SUFFICES ASSUME T # {} PROVE FALSE
    OBVIOUS
  <2>1. PICK m \in T : \A y \in T : m <= y
    <3>1. T \in SUBSET Nat
      OBVIOUS
    <3> HIDE DEF T
    <3> QED BY <3>1, LeastNat
  <2>2. m # 0 /\ m \in 1 .. NCHARS
    BY <1>1, AlphabetFacts
  <2> DEFINE k == NCHARS - m
  <2>3. k \in 0 .. NCHARS - 1 /\ k + 1 \in 1 .. NCHARS /\ m - 1 \in 0 .. NCHARS /\ NCHARS - (m - 1) = k + 1
    BY <2>2, AlphabetFacts
  <2>4. m - 1 \notin T
    BY <2>1, <2>2
  <2>5. d[k + 1] = e[k + 1]
    BY <2>3, <2>4
  <2>6. d[k] \in Nat /\ e[k] \in Nat /\ (k + 1) - 1 = k
    BY <1>0, <2>3, AlphabetFacts DEF Divides
  <2>7. d[k + 1] = d[k] \div ALPHABETSIZE /\ e[k + 1] = e[k] \div ALPHABETSIZE
    BY <1>0, <2>3, <2>6 DEF Divides
  <2>8. d[k] # e[k]
    BY <2>1
  <2>9. d[k] % ALPHABETSIZE = e[k] % ALPHABETSIZE
    BY <1>2, <2>3
  <2> HIDE DEF k
  <2>10. /\ d[k] = ALPHABETSIZE * (d[k] \div ALPHABETSIZE) + (d[k] % ALPHABETSIZE)
         /\ e[k] = ALPHABETSIZE * (e[k] \div ALPHABETSIZE) + (e[k] % ALPHABETSIZE)
    BY <2>6, AlphabetFacts
  <2> QED BY <2>5, <2>7, <2>8, <2>9, <2>10
<1>4. d[0] = e[0]
  <2>1. NCHARS \in 0 .. NCHARS /\ NCHARS - NCHARS = 0
    BY AlphabetFacts
  <2> QED BY <1>3, <2>1
<1> QED BY <1>0, <1>4 DEF Divides

(* A number below one that leaves no rest leaves none. *)
LEMMA RestMonotone ==
  ASSUME NEW a \in Nat, NEW b \in Nat, a <= b, Rest(b) = 0
  PROVE  Rest(a) = 0
<1> DEFINE d == Divided(a)
           e == Divided(b)
<1>0. Divides(d, a, NCHARS) /\ Divides(e, b, NCHARS)
  BY DividedFacts
<1>1. Rest(a) = d[NCHARS] /\ Rest(b) = e[NCHARS] /\ d[NCHARS] \in Nat
  BY <1>0, AlphabetFacts DEF Rest, Divides
<1> HIDE DEF d, e
<1> DEFINE T == {m \in 0 .. NCHARS : ~(d[m] <= e[m])}
<1>2. T = {}
  <2> SUFFICES ASSUME T # {} PROVE FALSE
    OBVIOUS
  <2>1. PICK m \in T : \A y \in T : m <= y
    <3>1. T \in SUBSET Nat
      OBVIOUS
    <3> HIDE DEF T
    <3> QED BY <3>1, LeastNat
  <2>2. m # 0 /\ m \in 1 .. NCHARS /\ m - 1 \in 0 .. NCHARS
    BY <1>0, AlphabetFacts DEF Divides
  <2>3. m - 1 \notin T
    BY <2>1, <2>2
  <2>4. d[m - 1] \in Nat /\ e[m - 1] \in Nat /\ d[m - 1] <= e[m - 1]
    BY <1>0, <2>2, <2>3, AlphabetFacts DEF Divides
  <2>5. d[m] = d[m - 1] \div ALPHABETSIZE /\ e[m] = e[m - 1] \div ALPHABETSIZE
    BY <1>0, <2>2 DEF Divides
  <2>6. d[m - 1] \div ALPHABETSIZE <= e[m - 1] \div ALPHABETSIZE
    BY <2>4, AlphabetFacts, DivMonotone
  <2> QED BY <2>1, <2>5, <2>6
<1>3. d[NCHARS] <= e[NCHARS]
  <2>1. NCHARS \in 0 .. NCHARS
    BY AlphabetFacts
  <2> QED BY <1>2, <2>1
<1> QED BY <1>1, <1>3

(* An item of main takes a chunk of slab_init's page. *)
LEMMA MainBacked ==
  ASSUME NEW a \in Nat
  PROVE  slabs_clsid(SizeOf(make_key(a), TheValue)) = PreClass
<1> DEFINE size == SizeOf(make_key(a), TheValue)
<1>1. size = sizeof_item + NCHARS + 1 + nval[TheValue] + 1
  BY KeyIsString DEF SizeOf, ITEM_ntotal
<1>2. size \in Nat /\ size # 0
  <2>1. nval[TheValue] \in Nat /\ sizeof_item \in Nat
    BY KeyAssumption, WorkloadAssumption
  <2> QED BY <1>1, <2>1, AlphabetFacts
<1> HIDE DEF size
<1>3. \A c \in Class : size <= class_size[c] <=> c >= PreClass
  BY <1>1, ItemAssumption
<1>4. PreClass \in Class /\ PreClass \in Nat /\ Class = 0 .. nclasses - 1 /\ nclasses \in Nat
  BY PageFacts, ClassAssumption DEF Class, MAX_NUMBER_OF_SLAB_CLASSES
<1>5. \A c \in Class : class_size[c] \in Nat
  BY ClassAssumption
<1>6. PreClass \in FirstFit(size)
  <2>1. size <= class_size[PreClass]
    BY <1>3, <1>4
  <2>2. ASSUME NEW d \in 0 .. PreClass - 1 PROVE size > class_size[d]
    <3>1. d \in Class /\ ~(d >= PreClass)
      BY <1>4
    <3> QED BY <1>2, <1>3, <1>5, <3>1
  <2> QED BY <1>4, <2>1, <2>2 DEF FirstFit
<1>7. ASSUME NEW c \in FirstFit(size) PROVE c = PreClass
  <2>1. c \in Class /\ size <= class_size[c] /\ \A d \in 0 .. c - 1 : size > class_size[d]
    BY DEF FirstFit
  <2>2. c \in Nat /\ c >= PreClass
    BY <1>3, <1>4, <2>1
  <2>3. ASSUME c > PreClass PROVE FALSE
    <3>1. PreClass \in 0 .. c - 1
      BY <1>4, <2>2, <2>3
    <3>2. size <= class_size[PreClass] /\ class_size[PreClass] \in Nat
      BY <1>3, <1>4, <1>5
    <3> QED BY <1>2, <2>1, <3>1, <3>2
  <2> QED BY <1>4, <2>2, <2>3
<1>8. FirstFit(size) = {PreClass}
  BY <1>6, <1>7
<1>9. slabs_clsid(size) = PreClass
  BY <1>2, <1>8 DEF slabs_clsid
<1> QED BY <1>9 DEF size
-----------------------------------------------------------------------------
(* The inductive invariant: where main and the cache are, and what main    *)
(* has stored so far.                                                      *)

SetReq(a) == [op |-> "set", key |-> make_key(a), value |-> TheValue]
GetReq(a) == [op |-> "get", key |-> make_key(a), maxnval |-> MAX_MSG_SIZE - sizeof_int]
TheReply  == [rc |-> nval[TheValue], value |-> TheValue]

(* The first n keys. *)
Mine(n) == {make_key(a) : a \in 0 .. n - 1}

(* The store holds them and nothing else. *)
Holds(n) == \A k \in Key : store[k] = IF k \in Mine(n) THEN TheValue ELSE NULL

Named(n) == \A a \in 0 .. n - 1 : Rest(a) = 0

Filled == mpc \in {"pass", "get", "decrypt", "getting", "encrypt", "returned", "exit"}

WType ==
  /\ npasses \in Nat /\ nitems \in Nat /\ i \in Nat /\ j \in Nat
  /\ mpc \in {"wrapper_init", "set", "setting", "pass", "get", "decrypt", "getting",
              "encrypt", "returned", "exit", "aborted"}

(* One thread: where the cache is while main is somewhere. *)
Where ==
  /\ mpc = "wrapper_init" => pc \in {"init", "split", "idle", "crashed"}
  /\ mpc \in {"set", "pass", "get", "decrypt", "encrypt", "returned", "exit", "aborted"} =>
       pc = "idle"
  /\ mpc = "setting" => pc \in {"find", "free", "alloc", "idle", "crashed"}
  /\ mpc = "getting" => pc \in {"find", "idle"}
  /\ mpc = "setting" /\ pc \in {"find", "free", "alloc"} => req = SetReq(i)
  /\ mpc = "getting" /\ pc = "find" => req = GetReq(i)

(* How far main has come. *)
Counts ==
  /\ mpc = "wrapper_init" => i = 0
  /\ mpc \in {"set", "get"} => i <= nitems
  /\ mpc \in {"setting", "decrypt", "getting", "encrypt", "returned"} => i < nitems
  /\ mpc = "set" => Named(i)
  /\ mpc = "setting" => Named(i + 1)
  /\ Filled => Named(nitems)

(* What is stored, and when a set may fail. *)
Contents ==
  /\ mpc \in {"wrapper_init", "set"} => Holds(i)
  /\ mpc = "setting" /\ pc \in {"find", "free", "alloc"} => Holds(i)
  /\ mpc = "setting" /\ pc = "idle" =>
       \/ ret.rc = 0 /\ Holds(i + 1)
       \/ ret.rc = -1 /\ ~(HasMemory /\ nitems <= perslab)
  /\ mpc = "aborted" => ~(HasMemory /\ nitems <= perslab)
  /\ Filled => Holds(nitems)

(* The wrapper's messages and their 8-bit counters. *)
Messages ==
  /\ mpc = "getting" /\ pc = "idle" => ret = TheReply
  /\ mpc \in {"encrypt", "returned"} => ret = TheReply
  /\ mpc = "decrypt" =>
       /\ enclen \in {16, 32, 48, 64} /\ bytes_dec \in {0, 16, 32, 48, 64}
       /\ bytes_dec <= enclen
  /\ mpc \in {"decrypt", "getting"} => bytes_enc = 0 /\ sent = 0
  /\ mpc = "encrypt" =>
       /\ sent \in {0, 16, 32, 48, 64, 80, 96, 112, 128}
       /\ bytes_enc = IF sent = 128 THEN -128 ELSE sent
  /\ mpc = "returned" => sent >= nval[TheValue] + sizeof_int

WInv == SInv /\ WType /\ Where /\ Counts /\ Contents /\ Messages

-----------------------------------------------------------------------------
LEMMA ValueFacts ==
  /\ TheValue \in Value /\ TheValue # NULL
  /\ nval[TheValue] \in Nat /\ nval[TheValue] <= 124
  /\ sizeof_int = 4 /\ AesBlock = 16 /\ MAX_MSG_SIZE = 256
BY WorkloadAssumption, KeyAssumption, ItemAssumption DEF sizeof_int, AesBlock, MAX_MSG_SIZE

LEMMA RequestFacts ==
  ASSUME NEW a \in Nat
  PROVE  SetReq(a) \in SetRequest /\ GetReq(a) \in GetRequest
BY KeyIsString, WorkloadAssumption DEF SetReq, GetReq, SetRequest, GetRequest

(* The first n keys are n. *)
LEMMA MineCounted ==
  ASSUME NEW n \in Nat
  PROVE  /\ IsFiniteSet(Mine(n)) /\ Cardinality(Mine(n)) <= n
         /\ Named(n) => Cardinality(Mine(n)) = n
         /\ Mine(n) \subseteq Key
<1> DEFINE f == [a \in 0 .. n - 1 |-> make_key(a)]
<1>1. IsFiniteSet(0 .. n - 1) /\ Cardinality(0 .. n - 1) = n
  BY FS_Interval
<1>2. f \in Surjection(0 .. n - 1, Mine(n))
  BY DEF Surjection, Mine
<1>3. /\ IsFiniteSet(Mine(n)) /\ Cardinality(Mine(n)) <= n
      /\ Cardinality(Mine(n)) = n <=> f \in Injection(0 .. n - 1, Mine(n))
  <2> HIDE DEF f
  <2> QED BY <1>1, <1>2, FS_Surjection
<1>4. ASSUME Named(n) PROVE f \in Injection(0 .. n - 1, Mine(n))
  <2>1. \A a, b \in 0 .. n - 1 : make_key(a) = make_key(b) => a = b
    BY <1>4, KeysDiffer DEF Named
  <2> QED BY <2>1 DEF Injection, IsInjective, Mine
<1>5. Mine(n) \subseteq Key
  BY KeyIsString DEF Mine
<1> QED BY <1>3, <1>4, <1>5

(* Between calls the buckets hold an item for each of the keys stored. *)
LEMMA LinkedCounted ==
  ASSUME SInv, pc = "idle", NEW n \in Nat, Holds(n), Named(n)
  PROVE  Cardinality(Linked) = n /\ n <= perslab
<1> DEFINE g == [l \in Linked |-> ikey[l]]
<1>1. IInv /\ req = NULL /\ \A k \in Key : ~Replacing(k)
  BY DEF SInv, Calls, Replacing
<1>2. \A l \in Linked : ikey[l] \in Key /\ store[ikey[l]] \in Value
  <2> TAKE l \in Linked
  <2>1. ikey[l] \in Key
    BY <1>1 DEF IInv, KeysInPlace, Linked
  <2> QED BY <1>1, <2>1, StoreOfItem
<1>3. \A l \in Linked : g[l] \in Mine(n)
  BY <1>2, KeyAssumption DEF Holds
<1>4. \A k \in Mine(n) : \E l \in Linked : g[l] = k
  BY <1>1, StoreOfMiss, MineCounted, ValueFacts DEF Holds
<1>5. \A l, m \in Linked : g[l] = g[m] => l = m
  BY <1>1 DEF IInv, KeysInPlace
<1>6. g \in Bijection(Linked, Mine(n))
  BY <1>3, <1>4, <1>5 DEF Bijection, Injection, Surjection, IsInjective
<1>7. /\ Linked \in SUBSET (0 .. nsplit - 1) /\ nsplit \in Nat /\ nsplit <= perslab
      /\ perslab \in Nat
  BY <1>1, ListFacts, PageFacts DEF IInv, TypeOK
<1>8. IsFiniteSet(0 .. nsplit - 1) /\ Cardinality(0 .. nsplit - 1) = nsplit
  BY <1>7, FS_Interval
<1>9. IsFiniteSet(Linked) /\ Cardinality(Linked) <= nsplit
  BY <1>7, <1>8, FS_Subset
<1>10. Cardinality(Mine(n)) = Cardinality(Linked)
  <2>1. ExistsBijection(Linked, Mine(n))
    BY <1>6 DEF ExistsBijection
  <2> QED BY <1>9, <2>1, FS_Bijection
<1> QED BY <1>7, <1>9, <1>10, MineCounted

(* A set for which there is no room finds the page full. *)
LEMMA FailsWhenFull ==
  ASSUME SInv, pc = "alloc", i \in Nat, nitems \in Nat, i < nitems, req = SetReq(i), Holds(i),
         ~KV!HasRoom(req)
  PROVE  ~(HasMemory /\ nitems <= perslab)
<1>1. req.key = make_key(i) /\ req.value = TheValue /\ make_key(i) \in Key /\ TheValue \in Value
  BY KeyIsString, ValueFacts DEF SetReq
<1>2. slabs_clsid(SizeOf(make_key(i), TheValue)) = PreClass
  BY MainBacked
<1>3. status = "up" /\ TypeOK
  BY StatusFacts DEF SInv, IInv
<1>4. ~(Cardinality(KV!Others(make_key(i))) < nsplit)
  <2>1. <<make_key(i), TheValue>> \in {p \in Key \X Value : slabs_clsid(SizeOf(p[1], p[2])) = PreClass}
    BY <1>1, <1>2
  <2>2. (IF status = "booting" THEN 0 ELSE nsplit) = nsplit
    BY <1>3
  <2> QED BY <1>1, <2>1, <2>2, SameCardinality DEF KV!HasRoom
<1>5. KV!Others(make_key(i)) \in SUBSET Mine(i)
  BY DEF KV!Others, Holds
<1>6. /\ IsFiniteSet(Mine(i)) /\ Cardinality(Mine(i)) <= i /\ Cardinality(Mine(i)) \in Nat
  BY MineCounted, FS_CardinalityType
<1>7. /\ Cardinality(KV!Others(make_key(i))) <= Cardinality(Mine(i))
      /\ Cardinality(KV!Others(make_key(i))) \in Nat
  BY <1>5, <1>6, FS_Subset, FS_CardinalityType
<1>8. nsplit \in Nat /\ perslab \in Nat
  BY <1>3, PageFacts DEF TypeOK
<1> HIDE DEF Mine
<1> QED BY <1>4, <1>6, <1>7, <1>8 DEF HasMemory
-----------------------------------------------------------------------------
(* Every step of main is a step of the cache, or none. *)

LEMMA WInitWInv == WInit => WInv
<1> SUFFICES ASSUME WInit PROVE WInv
  OBVIOUS
<1> USE DEF WInit
<1>1. SInv /\ pc = "init"
  BY InitSInv DEF Init, SlabsInit
<1>2. WType /\ Where /\ Messages
  BY <1>1, WorkloadAssumption DEF WType, Where, Messages
<1>3. Counts
  BY DEF Counts, Filled
<1>4. Holds(0)
  <2>1. KV!Init
    BY InitKV
  <2>2. Mine(0) = {}
    BY DEF Mine
  <2> QED BY <2>1, <2>2 DEF Holds, KV!Init
<1>5. Contents
  BY <1>4 DEF Contents, Filled
<1> QED BY <1>1, <1>2, <1>3, <1>5 DEF WInv

(* While main does something else the cache stays as it is. *)
LEMMA IdleFrame ==
  ASSUME SInv, UNCHANGED vars
  PROVE  /\ SInv' /\ store' = store /\ pc' = pc /\ req' = req /\ ret' = ret
         /\ HasMemory' = HasMemory
         /\ \A n \in Nat : Holds(n)' <=> Holds(n)
<1>1. SInv'
  BY NextSInv
<1>2. store' = store
  BY StutterSimulates DEF KV!vars
<1>3. \A n \in Nat : Holds(n)' <=> Holds(n)
  BY <1>2 DEF Holds
<1> QED BY <1>1, <1>2, <1>3 DEF vars, HasMemory

(* The 8-bit counters, where they wrap and where not. *)
LEMMA CharFacts ==
  /\ \A n \in 0 .. 127 : SignedChar(n) = n /\ SizeT(n) = n
  /\ SignedChar(128) = -128
  /\ SizeT(-128) \in Int /\ SizeT(-128) > 128
BY SMT DEF SignedChar, SizeT, SizeMod

(* A reply that needs another block has sent less than 128 bytes, and one  *)
(* that needs none is complete, also where the counter has wrapped.        *)
LEMMA EncryptFacts ==
  ASSUME Messages, mpc = "encrypt"
  PROVE  /\ ret = TheReply
         /\ MoreToEncrypt =>
              /\ sent < nval[TheValue] + 4 /\ bytes_enc = sent
              /\ sent \in {0, 16, 32, 48, 64, 80, 96, 112}
         /\ ~MoreToEncrypt => sent >= nval[TheValue] + sizeof_int
<1>1. /\ ret = TheReply /\ ret.rc = nval[TheValue]
      /\ sent \in {0, 16, 32, 48, 64, 80, 96, 112, 128}
      /\ bytes_enc = IF sent = 128 THEN -128 ELSE sent
  BY DEF Messages, TheReply
<1>2. CASE sent = 128
  <2>1. bytes_enc = -128
    BY <1>1, <1>2
  <2>2. SizeT(bytes_enc) \in Int /\ SizeT(bytes_enc) > 128
    BY <2>1, CharFacts
  <2>3. ~MoreToEncrypt
    BY <1>1, <2>2, ValueFacts DEF MoreToEncrypt
  <2> QED BY <1>1, <1>2, <2>3, ValueFacts
<1>3. CASE sent # 128
  <2>1. SizeT(bytes_enc) = sent /\ bytes_enc = sent /\ sent \in 0 .. 127
    BY <1>1, <1>3, CharFacts
  <2> QED BY <1>1, <1>3, <2>1, ValueFacts DEF MoreToEncrypt
<1> QED BY <1>2, <1>3

(* wrapper_init ends. *)
LEMMA WrapperInitKeeps ==
  ASSUME WInv, wrapper_init, UNCHANGED <<npasses, nitems>>
  PROVE  WInv'
<1> USE DEF wrapper_init, CacheIdle
<1>0. /\ SInv /\ SInv' /\ WType /\ pc = "idle" /\ pc' = "idle" /\ req' = req /\ ret' = ret
      /\ HasMemory' = HasMemory
      /\ \A n \in Nat : Holds(n)' <=> Holds(n)
  BY IdleFrame DEF WInv
<1>1. WType'
  BY <1>0 DEF WInv, WType
<1>2. Where'
  BY <1>0 DEF WInv, Where
<1>3. Counts'
  BY <1>0 DEF WInv, WType, Counts, Named, Filled
<1>4. Contents'
  BY <1>0 DEF WInv, WType, Counts, Contents, Filled
<1>5. Messages'
  BY <1>0 DEF WInv, Where, Messages
<1> QED BY <1>0, <1>1, <1>2, <1>3, <1>4, <1>5 DEF WInv

(* assert(r >= 0). *)
LEMMA SetDoneKeeps ==
  ASSUME WInv, set_done, UNCHANGED <<npasses, nitems>>
  PROVE  WInv'
<1> USE DEF set_done, CacheIdle, Stored
<1>0. /\ SInv /\ SInv' /\ WType /\ pc = "idle" /\ pc' = "idle" /\ req' = req /\ ret' = ret
      /\ HasMemory' = HasMemory
      /\ \A n \in Nat : Holds(n)' <=> Holds(n)
  BY IdleFrame DEF WInv
<1>1. WType'
  BY <1>0 DEF WInv, WType
<1>2. Where'
  BY <1>0 DEF WInv, Where
<1>3. Counts'
  BY <1>0 DEF WInv, WType, Counts, Named, Filled
<1>4. Contents'
  BY <1>0 DEF WInv, WType, Counts, Contents, Filled
<1>5. Messages'
  BY <1>0 DEF WInv, Where, Messages
<1> QED BY <1>0, <1>1, <1>2, <1>3, <1>4, <1>5 DEF WInv

(* All items are stored. *)
LEMMA SetsDoneKeeps ==
  ASSUME WInv, sets_done, UNCHANGED <<npasses, nitems>>
  PROVE  WInv'
<1> USE DEF sets_done, CacheIdle
<1>0. /\ SInv /\ SInv' /\ WType /\ pc = "idle" /\ pc' = "idle" /\ req' = req /\ ret' = ret
      /\ HasMemory' = HasMemory
      /\ \A n \in Nat : Holds(n)' <=> Holds(n)
  BY IdleFrame DEF WInv
<1>1. WType'
  BY <1>0 DEF WInv, WType
<1>2. Where'
  BY <1>0 DEF WInv, Where
<1>3. Counts'
  BY <1>0 DEF WInv, WType, Counts, Named, Filled
<1>4. Contents'
  BY <1>0 DEF WInv, WType, Counts, Contents, Filled
<1>5. Messages'
  BY <1>0 DEF WInv, Where, Messages
<1> QED BY <1>0, <1>1, <1>2, <1>3, <1>4, <1>5 DEF WInv

(* A pass starts. *)
LEMMA PassStartKeeps ==
  ASSUME WInv, pass_start, UNCHANGED <<npasses, nitems>>
  PROVE  WInv'
<1> USE DEF pass_start, CacheIdle
<1>0. /\ SInv /\ SInv' /\ WType /\ pc = "idle" /\ pc' = "idle" /\ req' = req /\ ret' = ret
      /\ HasMemory' = HasMemory
      /\ \A n \in Nat : Holds(n)' <=> Holds(n)
  BY IdleFrame DEF WInv
<1>1. WType'
  BY <1>0 DEF WInv, WType
<1>2. Where'
  BY <1>0 DEF WInv, Where
<1>3. Counts'
  BY <1>0 DEF WInv, WType, Counts, Named, Filled
<1>4. Contents'
  BY <1>0 DEF WInv, WType, Counts, Contents, Filled
<1>5. Messages'
  BY <1>0 DEF WInv, Where, Messages
<1> QED BY <1>0, <1>1, <1>2, <1>3, <1>4, <1>5 DEF WInv

(* The request is encrypted. *)
LEMMA EncryptKeyKeeps ==
  ASSUME WInv, encrypt_key, UNCHANGED <<npasses, nitems>>
  PROVE  WInv'
<1> USE DEF encrypt_key, CacheIdle
<1>0. /\ SInv /\ SInv' /\ WType /\ pc = "idle" /\ pc' = "idle" /\ req' = req /\ ret' = ret
      /\ HasMemory' = HasMemory
      /\ \A n \in Nat : Holds(n)' <=> Holds(n)
  BY IdleFrame DEF WInv
<1>1. WType'
  BY <1>0 DEF WInv, WType
<1>2. Where'
  BY <1>0 DEF WInv, Where
<1>3. Counts'
  BY <1>0 DEF WInv, WType, Counts, Named, Filled
<1>4. Contents'
  BY <1>0 DEF WInv, WType, Counts, Contents, Filled
<1>5. Messages'
  <2>1. AesBlock * Blocks(NCHARS + sizeof_int) \in {16, 32, 48, 64}
    BY AlphabetFacts, ValueFacts DEF Blocks
  <2> QED BY <1>0, <2>1 DEF Messages
<1> QED BY <1>0, <1>1, <1>2, <1>3, <1>4, <1>5 DEF WInv

(* A block of the request. *)
LEMMA DecryptBlockKeeps ==
  ASSUME WInv, decrypt_block, UNCHANGED <<npasses, nitems>>
  PROVE  WInv'
<1> USE DEF decrypt_block, CacheIdle
<1>0. /\ SInv /\ SInv' /\ WType /\ pc = "idle" /\ pc' = "idle" /\ req' = req /\ ret' = ret
      /\ HasMemory' = HasMemory
      /\ \A n \in Nat : Holds(n)' <=> Holds(n)
  BY IdleFrame DEF WInv
<1>1. WType'
  BY <1>0 DEF WInv, WType
<1>2. Where'
  BY <1>0 DEF WInv, Where
<1>3. Counts'
  BY <1>0 DEF WInv, WType, Counts, Named, Filled
<1>4. Contents'
  BY <1>0 DEF WInv, WType, Counts, Contents, Filled
<1>5. Messages'
  <2>1. /\ enclen \in {16, 32, 48, 64} /\ bytes_dec \in {0, 16, 32, 48, 64} /\ bytes_dec < enclen
        /\ bytes_enc = 0 /\ sent = 0
    BY DEF WInv, Messages, MoreToDecrypt
  <2>2. /\ bytes_dec + 16 \in {16, 32, 48, 64} /\ bytes_dec + 16 <= enclen
        /\ SignedChar(bytes_dec + 16) = bytes_dec + 16
    BY <2>1, CharFacts
  <2>3. bytes_dec' = bytes_dec + 16
    BY <2>2, ValueFacts
  <2> QED BY <1>0, <2>1, <2>2, <2>3 DEF Messages
<1> QED BY <1>0, <1>1, <1>2, <1>3, <1>4, <1>5 DEF WInv

(* cache_get has answered. *)
LEMMA CacheGetDoneKeeps ==
  ASSUME WInv, cache_get_done, UNCHANGED <<npasses, nitems>>
  PROVE  WInv'
<1> USE DEF cache_get_done, CacheIdle
<1>0. /\ SInv /\ SInv' /\ WType /\ pc = "idle" /\ pc' = "idle" /\ req' = req /\ ret' = ret
      /\ HasMemory' = HasMemory
      /\ \A n \in Nat : Holds(n)' <=> Holds(n)
  BY IdleFrame DEF WInv
<1>1. WType'
  BY <1>0 DEF WInv, WType
<1>2. Where'
  BY <1>0 DEF WInv, Where
<1>3. Counts'
  BY <1>0 DEF WInv, WType, Counts, Named, Filled
<1>4. Contents'
  BY <1>0 DEF WInv, WType, Counts, Contents, Filled
<1>5. Messages'
  <2>1. ret = TheReply /\ bytes_enc = 0 /\ sent = 0
    BY <1>0 DEF WInv, Messages
  <2>2. ret.rc # -1
    BY <2>1, ValueFacts DEF TheReply
  <2> QED BY <1>0, <2>1, <2>2 DEF Messages
<1> QED BY <1>0, <1>1, <1>2, <1>3, <1>4, <1>5 DEF WInv

(* A block of the reply. *)
LEMMA EncryptBlockKeeps ==
  ASSUME WInv, encrypt_block, UNCHANGED <<npasses, nitems>>
  PROVE  WInv'
<1> USE DEF encrypt_block, CacheIdle
<1>0. /\ SInv /\ SInv' /\ WType /\ pc = "idle" /\ pc' = "idle" /\ req' = req /\ ret' = ret
      /\ HasMemory' = HasMemory
      /\ \A n \in Nat : Holds(n)' <=> Holds(n)
  BY IdleFrame DEF WInv
<1>1. WType'
  BY <1>0 DEF WInv, WType
<1>2. Where'
  BY <1>0 DEF WInv, Where
<1>3. Counts'
  BY <1>0 DEF WInv, WType, Counts, Named, Filled
<1>4. Contents'
  BY <1>0 DEF WInv, WType, Counts, Contents, Filled
<1>5. Messages'
  <2>1. sent < nval[TheValue] + 4 /\ sent \in {0, 16, 32, 48, 64, 80, 96, 112} /\ bytes_enc = sent
        /\ ret = TheReply
    BY EncryptFacts DEF WInv
  <2>2. bytes_enc' = SignedChar(sent + 16) /\ sent' = sent + 16
    BY <2>1, ValueFacts
  <2>3. SignedChar(sent + 16) = IF sent + 16 = 128 THEN -128 ELSE sent + 16
    BY <2>1, CharFacts
  <2> QED BY <1>0, <2>1, <2>2, <2>3 DEF Messages
<1> QED BY <1>0, <1>1, <1>2, <1>3, <1>4, <1>5 DEF WInv

(* The reply is complete. *)
LEMMA ReplyDoneKeeps ==
  ASSUME WInv, reply_done, UNCHANGED <<npasses, nitems>>
  PROVE  WInv'
<1> USE DEF reply_done, CacheIdle
<1>0. /\ SInv /\ SInv' /\ WType /\ pc = "idle" /\ pc' = "idle" /\ req' = req /\ ret' = ret
      /\ HasMemory' = HasMemory
      /\ \A n \in Nat : Holds(n)' <=> Holds(n)
  BY IdleFrame DEF WInv
<1>1. WType'
  BY <1>0 DEF WInv, WType
<1>2. Where'
  BY <1>0 DEF WInv, Where
<1>3. Counts'
  BY <1>0 DEF WInv, WType, Counts, Named, Filled
<1>4. Contents'
  BY <1>0 DEF WInv, WType, Counts, Contents, Filled
<1>5. Messages'
  <2>1. sent >= nval[TheValue] + sizeof_int /\ ret = TheReply
    BY EncryptFacts DEF WInv
  <2> QED BY <1>0, <2>1 DEF Messages
<1> QED BY <1>0, <1>1, <1>2, <1>3, <1>4, <1>5 DEF WInv

(* Back in main. *)
LEMMA GetDoneKeeps ==
  ASSUME WInv, get_done, UNCHANGED <<npasses, nitems>>
  PROVE  WInv'
<1> USE DEF get_done, CacheIdle
<1>0. /\ SInv /\ SInv' /\ WType /\ pc = "idle" /\ pc' = "idle" /\ req' = req /\ ret' = ret
      /\ HasMemory' = HasMemory
      /\ \A n \in Nat : Holds(n)' <=> Holds(n)
  BY IdleFrame DEF WInv
<1>1. WType'
  BY <1>0 DEF WInv, WType
<1>2. Where'
  BY <1>0 DEF WInv, Where
<1>3. Counts'
  BY <1>0 DEF WInv, WType, Counts, Named, Filled
<1>4. Contents'
  BY <1>0 DEF WInv, WType, Counts, Contents, Filled
<1>5. Messages'
  BY <1>0 DEF WInv, Where, Messages
<1> QED BY <1>0, <1>1, <1>2, <1>3, <1>4, <1>5 DEF WInv

(* A pass ends. *)
LEMMA PassDoneKeeps ==
  ASSUME WInv, pass_done, UNCHANGED <<npasses, nitems>>
  PROVE  WInv'
<1> USE DEF pass_done, CacheIdle, NextPass
<1>0. /\ SInv /\ SInv' /\ WType /\ pc = "idle" /\ pc' = "idle" /\ req' = req /\ ret' = ret
      /\ HasMemory' = HasMemory
      /\ \A n \in Nat : Holds(n)' <=> Holds(n)
  BY IdleFrame DEF WInv
<1>1. WType'
  BY <1>0 DEF WInv, WType
<1>2. Where'
  BY <1>0 DEF WInv, Where
<1>3. Counts'
  BY <1>0 DEF WInv, WType, Counts, Named, Filled
<1>4. Contents'
  BY <1>0 DEF WInv, WType, Counts, Contents, Filled
<1>5. Messages'
  BY <1>0 DEF WInv, Where, Messages
<1> QED BY <1>0, <1>1, <1>2, <1>3, <1>4, <1>5 DEF WInv

(* The end of main. *)
LEMMA ExitKeeps ==
  ASSUME WInv, exit, UNCHANGED <<npasses, nitems>>
  PROVE  WInv'
<1> USE DEF exit, CacheIdle
<1>0. /\ SInv /\ SInv' /\ WType /\ pc = "idle" /\ pc' = "idle" /\ req' = req /\ ret' = ret
      /\ HasMemory' = HasMemory
      /\ \A n \in Nat : Holds(n)' <=> Holds(n)
  BY IdleFrame DEF WInv
<1>1. WType'
  BY <1>0 DEF WInv, WType
<1>2. Where'
  BY <1>0 DEF WInv, Where
<1>3. Counts'
  BY <1>0 DEF WInv, WType, Counts, Named, Filled
<1>4. Contents'
  BY <1>0 DEF WInv, WType, Counts, Contents, Filled
<1>5. Messages'
  BY <1>0 DEF WInv, Where, Messages
<1> QED BY <1>0, <1>1, <1>2, <1>3, <1>4, <1>5 DEF WInv

-----------------------------------------------------------------------------
(* Every step of the cache that main waits for. *)

(* main enters cache_set, which crashes where there is no table. *)
LEMMA SetValueKeeps ==
  ASSUME WInv, set_value, UNCHANGED <<npasses, nitems>>
  PROVE  WInv'
<1> USE DEF set_value
<1>0. SInv /\ WType /\ i \in Nat /\ SetReq(i) \in Request
  BY RequestFacts DEF WInv, WType, Request
<1>1. Call(SetReq(i)) \/ call_faults
  BY DEF SetReq
<1>2. /\ SInv' /\ store' = store
      /\ pc' \in {"find", "crashed"} /\ (pc' = "find" => req' = SetReq(i))
  <2>1. CASE Call(SetReq(i))
    <3>1. KV!Call(SetReq(i))
      BY <1>0, <2>1, CallSimulates
    <3>2. SInv'
      BY <1>0, <2>1, NextSInv DEF Next
    <3> QED BY <2>1, <3>1, <3>2 DEF KV!Call, Call
  <2>2. CASE call_faults
    <3>1. KV!CallCrash
      BY <1>0, <2>2, FaultSimulates
    <3>2. SInv'
      BY <1>0, <2>2, NextSInv DEF Next
    <3> QED BY <2>2, <3>1, <3>2 DEF KV!CallCrash, call_faults
  <2> QED BY <1>1, <2>1, <2>2
<1>3. WType'
  BY <1>0 DEF WType
<1>4. Where'
  BY <1>0, <1>2 DEF Where, SetReq, make_key
<1>5. Counts'
  BY <1>0 DEF WInv, Counts, Named, Filled
<1>6. Contents'
  <2>1. Holds(i)
    BY DEF WInv, Contents
  <2>2. Holds(i)'
    BY <1>2, <2>1 DEF Holds, Mine
  <2> QED BY <1>2, <2>2 DEF Contents, Filled
<1>7. Messages'
  BY DEF Messages
<1> QED BY <1>2, <1>3, <1>4, <1>5, <1>6, <1>7 DEF WInv

(* The wrapper enters cache_get. *)
LEMMA CallCacheGetKeeps ==
  ASSUME WInv, call_cache_get, UNCHANGED <<npasses, nitems>>
  PROVE  WInv'
<1> USE DEF call_cache_get
<1>0. SInv /\ WType /\ i \in Nat /\ GetReq(i) \in Request
  BY RequestFacts DEF WInv, WType, Request
<1>1. Call(GetReq(i))
  BY DEF GetReq
<1>2. SInv' /\ store' = store /\ pc' = "find" /\ req' = GetReq(i)
  <2>1. KV!Call(GetReq(i))
    BY <1>0, <1>1, CallSimulates
  <2>2. SInv'
    BY <1>0, <1>1, NextSInv DEF Next
  <2> QED BY <1>1, <2>1, <2>2 DEF KV!Call, Call
<1>3. WType'
  BY <1>0 DEF WType
<1>4. Where'
  BY <1>0, <1>2 DEF Where, GetReq, make_key
<1>5. Counts'
  BY <1>0 DEF WInv, Counts, Named, Filled
<1>6. Contents'
  <2>1. Holds(nitems)
    BY DEF WInv, Contents, Filled
  <2>2. Holds(nitems)'
    BY <1>2, <2>1 DEF Holds, Mine
  <2> QED BY <1>2, <2>2 DEF Contents, Filled
<1>7. Messages'
  BY <1>2 DEF WInv, Messages
<1> QED BY <1>2, <1>3, <1>4, <1>5, <1>6, <1>7 DEF WInv

(* main does not move while the cache does. *)
LEMMA CacheFrame ==
  ASSUME WInv, Step, UNCHANGED mainVars
  PROVE  SInv /\ SInv' /\ WType /\ WType' /\ Counts /\ Counts'
<1>1. SInv'
  BY NextSInv DEF WInv, Next
<1>2. WType /\ WType' /\ Counts /\ Counts'
  BY DEF WInv, WType, Counts, Named, Filled, mainVars
<1> QED BY <1>1, <1>2 DEF WInv

(* slab_init stores nothing. *)
LEMMA CacheInitKeeps ==
  ASSUME WInv, cache_init, UNCHANGED mainVars
  PROVE  WInv'
<1>0. SInv /\ SInv' /\ WType /\ WType' /\ Counts /\ Counts'
  BY CacheFrame DEF Step
<1>1. pc \in {"init", "split"} /\ pc' \in {"init", "split", "idle", "crashed"}
  BY DEF cache_init, slab_preallocate, split_slab_page_into_freelist, slab_preallocated
<1>2. mpc = "wrapper_init"
  BY <1>1 DEF WInv, WType, Where
<1>3. store' = store
  BY <1>0, BootSimulates DEF KV!Boot, KV!BootCrash, KV!vars
<1>4. Holds(i)'
  <2>1. Holds(i)
    BY <1>2 DEF WInv, Contents
  <2> QED BY <1>3, <2>1 DEF Holds, Mine, mainVars
<1>5. mpc' = "wrapper_init"
  BY <1>2 DEF mainVars
<1>6. Where' /\ Contents' /\ Messages'
  BY <1>1, <1>4, <1>5 DEF Where, Contents, Messages, Filled
<1> QED BY <1>0, <1>6 DEF WInv

(* A step inside a call, which leaves the store as it is. *)
LEMMA InsideKeeps ==
  ASSUME WInv, WalkOn \/ item_unlink \/ unlink_missed \/ free_old, UNCHANGED mainVars
  PROVE  WInv'
<1>0. SInv /\ SInv' /\ WType /\ WType' /\ Counts /\ Counts'
  BY CacheFrame DEF Step, cache_set
<1>1. store' = store
  BY <1>0, WalkSimulates, UnlinkSimulates, FreeOldSimulates DEF KV!vars
<1>2. /\ pc \in {"find", "free"} /\ pc' \in {"find", "free", "alloc"} /\ req' = req
      /\ pc' # "find" => req.op = "set"
  <2>1. pc = "free" => req.op = "set"
    BY <1>0 DEF SInv, IInv, TypeOK, SetRequest
  <2> QED BY <2>1 DEF WalkOn, item_unlink, unlink_missed, free_old
<1>3. mpc \in {"setting", "getting"} /\ (mpc = "getting" => pc' = "find")
  BY <1>0, <1>2 DEF WInv, WType, Where, GetReq
<1>4. \A n \in Nat : Holds(n)' <=> Holds(n)
  BY <1>1 DEF Holds
<1>5. Where'
  BY <1>2, <1>3 DEF WInv, Where, SetReq, GetReq, make_key, mainVars
<1>6. Contents'
  BY <1>0, <1>2, <1>3, <1>4 DEF WInv, WType, Contents, Filled, mainVars
<1>7. Messages'
  BY <1>2, <1>3 DEF WInv, Messages, mainVars
<1> QED BY <1>0, <1>5, <1>6, <1>7 DEF WInv

(* A read finds what was stored, and the buffer is large enough for it. *)
LEMMA CacheGetKeeps ==
  ASSUME WInv, cache_get, UNCHANGED mainVars
  PROVE  WInv'
<1>0. SInv /\ SInv' /\ WType /\ WType' /\ Counts /\ Counts'
  BY CacheFrame DEF Step
<1>1. KV!Get
  BY <1>0, GetSimulates
<1>2. pc = "find" /\ pc' = "idle" /\ req.op = "get"
  BY DEF cache_get, Return
<1>3. mpc = "getting" /\ req = GetReq(i) /\ i < nitems /\ i \in Nat /\ nitems \in Nat
  BY <1>0, <1>2 DEF WInv, WType, Where, SetReq, Counts
<1>4. store[make_key(i)] = TheValue
  <2>1. Holds(nitems)
    BY <1>3 DEF WInv, Contents, Filled
  <2>2. make_key(i) \in Mine(nitems)
    BY <1>3 DEF Mine
  <2> QED BY <1>3, <2>1, <2>2, KeyIsString DEF Holds
<1>5. store' = store /\ ret' = KV!Hit(TheValue, 252)
  <2>1. req.key = make_key(i) /\ req.maxnval = 252
    BY <1>3, ValueFacts DEF GetReq
  <2> QED BY <1>1, <1>4, <2>1, ValueFacts DEF KV!Get, KV!Answer
<1>6. ret' = TheReply
  BY <1>5, ValueFacts DEF KV!Hit, TheReply
<1>7. \A n \in Nat : Holds(n)' <=> Holds(n)
  BY <1>5 DEF Holds
<1>8. Where'
  BY <1>2, <1>3 DEF Where, mainVars
<1>9. Contents'
  BY <1>0, <1>2, <1>3, <1>7 DEF WInv, WType, Contents, Filled, mainVars
<1>10. Messages'
  BY <1>2, <1>3, <1>6 DEF WInv, Messages, TheReply, mainVars
<1> QED BY <1>0, <1>8, <1>9, <1>10 DEF WInv

(* A set that succeeds adds its key to the keys stored. *)
LEMMA InsertKeeps ==
  ASSUME WInv, NEW n \in Item, insert_new(n), UNCHANGED mainVars
  PROVE  WInv'
<1>0. SInv /\ SInv' /\ WType /\ WType' /\ Counts /\ Counts'
  BY CacheFrame DEF Step, cache_set
<1>1. KV!SetOk
  BY <1>0, InsertSimulates
<1>2. pc = "alloc" /\ pc' = "idle" /\ ret'.rc = 0
  BY DEF insert_new, Return
<1>3. mpc = "setting" /\ req = SetReq(i) /\ i \in Nat /\ Holds(i)
  BY <1>0, <1>2 DEF WInv, WType, Where, Contents
<1>4. store' = [store EXCEPT ![make_key(i)] = TheValue] /\ DOMAIN store = Key
  <2>1. req.key = make_key(i) /\ req.value = TheValue
    BY <1>3 DEF SetReq
  <2> QED BY <1>1, <2>1 DEF KV!SetOk, store
<1>5. Mine(i + 1) = Mine(i) \cup {make_key(i)} /\ make_key(i) \in Key
  <2>1. 0 .. (i + 1) - 1 = (0 .. i - 1) \cup {i}
    BY <1>3
  <2> QED BY <1>3, <2>1, KeyIsString DEF Mine
<1>6. \A k \in Key : store'[k] = IF k \in Mine(i + 1) THEN TheValue ELSE NULL
  BY <1>3, <1>4, <1>5 DEF Holds
<1>7. Holds(i + 1)'
  BY <1>6 DEF Holds, Mine, mainVars
<1>8. Where'
  BY <1>2, <1>3 DEF Where, mainVars
<1>9. Contents'
  BY <1>2, <1>3, <1>7 DEF Contents, Filled, mainVars
<1>10. Messages'
  BY <1>2, <1>3 DEF Messages, mainVars
<1> QED BY <1>0, <1>8, <1>9, <1>10 DEF WInv

(* A set fails where there was no page, or a page too small for main. *)
LEMMA AllocFailedKeeps ==
  ASSUME WInv, alloc_failed, UNCHANGED mainVars
  PROVE  WInv'
<1>0. SInv /\ SInv' /\ WType /\ WType' /\ Counts /\ Counts'
  BY CacheFrame DEF Step, cache_set
<1>1. KV!SetFail
  BY <1>0, FailSimulates
<1>2. pc = "alloc" /\ pc' = "idle" /\ ret'.rc = -1 /\ nsplit' = nsplit
  BY DEF alloc_failed, Return
<1>3. mpc = "setting" /\ req = SetReq(i) /\ i \in Nat /\ nitems \in Nat /\ i < nitems /\ Holds(i)
  BY <1>0, <1>2 DEF WInv, WType, Where, Contents, Counts
<1>4. ~KV!HasRoom(req)
  BY <1>1 DEF KV!SetFail
<1>5. ~(HasMemory /\ nitems <= perslab)
  BY <1>0, <1>2, <1>3, <1>4, FailsWhenFull
<1>6. ~(HasMemory' /\ nitems' <= perslab)
  BY <1>2, <1>5 DEF HasMemory, mainVars
<1>7. Where'
  BY <1>2, <1>3 DEF Where, mainVars
<1>8. Contents'
  BY <1>2, <1>3, <1>6 DEF Contents, Filled, mainVars
<1>9. Messages'
  BY <1>2, <1>3 DEF Messages, mainVars
<1> QED BY <1>0, <1>7, <1>8, <1>9 DEF WInv

(* main's items are never too large for the allocator. *)
LEMMA NeverOversize ==
  ASSUME WInv, alloc_oversize, UNCHANGED mainVars
  PROVE  FALSE
<1>0. SInv /\ WType
  BY DEF WInv
<1>1. pc = "alloc" /\ ReqClass = NoClass
  BY DEF alloc_oversize
<1>2. req = SetReq(i) /\ i \in Nat
  BY <1>0, <1>1 DEF WInv, WType, Where
<1>3. ReqClass = PreClass
  BY <1>2, MainBacked DEF ReqClass, SetReq
<1>4. PreClass # NoClass
  BY PageFacts, ClassAssumption DEF Class, NoClass, MAX_NUMBER_OF_SLAB_CLASSES
<1> QED BY <1>1, <1>3, <1>4

LEMMA InCacheKeeps ==
  ASSUME WInv, InCache
  PROVE  WInv'
<1>1. UNCHANGED mainVars
  BY DEF InCache
<1>2. CASE cache_init
  BY <1>1, <1>2, CacheInitKeeps
<1>3. CASE WalkOn
  BY <1>1, <1>3, InsideKeeps
<1>4. CASE cache_get
  BY <1>1, <1>4, CacheGetKeeps
<1>5. CASE cache_set
  BY <1>1, <1>5, InsideKeeps, InsertKeeps, AllocFailedKeeps, NeverOversize DEF cache_set
<1> QED BY <1>2, <1>3, <1>4, <1>5 DEF InCache, Step

LEMMA StutterKeeps ==
  ASSUME WInv, UNCHANGED allVars
  PROVE  WInv'
<1>1. UNCHANGED vars /\ UNCHANGED mainVars
  BY DEF allVars
<1>2. /\ SInv' /\ pc' = pc /\ req' = req /\ ret' = ret /\ HasMemory' = HasMemory
      /\ \A n \in Nat : Holds(n)' <=> Holds(n)
  BY <1>1, IdleFrame DEF WInv
<1>3. WType' /\ Where' /\ Counts'
  BY <1>1, <1>2 DEF WInv, WType, Where, Counts, Named, Filled, mainVars, SetReq, GetReq, make_key
<1>4. Contents'
  BY <1>1, <1>2 DEF WInv, WType, Contents, Filled, mainVars
<1>5. Messages'
  BY <1>1, <1>2 DEF WInv, Messages, TheReply, mainVars
<1> QED BY <1>2, <1>3, <1>4, <1>5 DEF WInv

LEMMA WNextWInv == WInv /\ [WNext]_allVars => WInv'
<1> SUFFICES ASSUME WInv, [WNext]_allVars PROVE WInv'
  OBVIOUS
<1>1. CASE Main /\ UNCHANGED <<npasses, nitems>>
  BY <1>1, WrapperInitKeeps, SetValueKeeps, SetDoneKeeps, SetsDoneKeeps, PassStartKeeps,
     EncryptKeyKeeps, DecryptBlockKeeps, CallCacheGetKeeps, CacheGetDoneKeeps,
     EncryptBlockKeeps, ReplyDoneKeeps, GetDoneKeeps, PassDoneKeeps, ExitKeeps
     DEF Main
<1>2. CASE InCache
  BY <1>2, InCacheKeeps
<1>3. CASE UNCHANGED allVars
  BY <1>3, StutterKeeps
<1> QED BY <1>1, <1>2, <1>3 DEF WNext, Run, Gone

-----------------------------------------------------------------------------
(* What main can rely on. *)

(* WInv is an invariant of the program: where main and the cache are, what *)
(* is stored by then, and how far the 8-bit counters have come.            *)
THEOREM WInvariance == WSpec => []WInv
BY WInitWInv, WNextWInv, PTL DEF WSpec

(* No assertion on the result of cache_set fails while there are no more   *)
(* items than chunks in the page of slab_init.                             *)
THEOREM SetsSucceedTheorem == WSpec => []SetsSucceedWithinPage
<1>1. WInv => SetsSucceedWithinPage
  BY DEF WInv, Contents, SetsSucceedWithinPage
<1> QED BY <1>1, WInvariance, PTL

(* The assertion in make_key never fails: the page is full, and main gone, *)
(* before the names run out.                                               *)
THEOREM KeysSufficeTheorem == WSpec => []KeysSuffice
<1>1. ASSUME WInv PROVE KeysSuffice
  <2>1. i \in Nat /\ nitems \in Nat
    BY <1>1 DEF WInv, WType
  <2>2. ASSUME mpc = "set" PROVE Rest(i) = 0
    <3>1. SInv /\ pc = "idle" /\ Holds(i) /\ Named(i)
      BY <1>1, <2>2 DEF WInv, Where, Contents, Counts
    <3>2. i <= perslab /\ perslab \in Nat
      BY <2>1, <3>1, LinkedCounted, PageFacts
    <3> QED BY <2>1, <3>2, RestMonotone, NamesAssumption
  <2>3. ASSUME mpc = "get", i < nitems PROVE Rest(i) = 0
    BY <1>1, <2>1, <2>3 DEF WInv, Counts, Filled, Named
  <2> QED BY <2>2, <2>3 DEF KeysSuffice
<1> QED BY <1>1, WInvariance, PTL

(* Every read of main returns the value that was stored, all of it. *)
THEOREM GetsHitTheorem == WSpec => []GetsHit
<1>1. WInv => GetsHit
  BY DEF WInv, Messages, GetsHit, TheReply
<1> QED BY <1>1, WInvariance, PTL

(* The wrapper encrypts every byte of the reply before it returns. *)
THEOREM ReplyCompleteTheorem == WSpec => []ReplyComplete
<1>1. WInv => ReplyComplete
  BY DEF WInv, Messages, ReplyComplete, TheReply
<1> QED BY <1>1, WInvariance, PTL

(* After the sets, the buckets hold as many items as main was asked for. *)
THEOREM WorkingSetTheorem == WSpec => []WorkingSet
<1>1. ASSUME WInv PROVE WorkingSet
  <2>1. ASSUME mpc \in {"pass", "get", "exit"} PROVE Cardinality(Linked) = nitems
    <3>1. SInv /\ pc = "idle" /\ nitems \in Nat /\ Holds(nitems) /\ Named(nitems)
      BY <1>1, <2>1 DEF WInv, WType, Where, Contents, Counts, Filled
    <3> QED BY <3>1, LinkedCounted
  <2> QED BY <2>1 DEF WorkingSet
<1> QED BY <1>1, WInvariance, PTL

(* Every block of a message lies within its buffer. *)
THEOREM BlocksInBoundsTheorem == WSpec => []BlocksInBounds
<1>1. ASSUME WInv PROVE BlocksInBounds
  <2>1. ASSUME mpc = "decrypt", MoreToDecrypt
        PROVE  bytes_dec \in 0 .. MAX_MSG_SIZE - AesBlock
    BY <1>1, <2>1, ValueFacts DEF WInv, Messages
  <2>2. ASSUME mpc = "encrypt", MoreToEncrypt
        PROVE  bytes_enc \in 0 .. MAX_MSG_SIZE - AesBlock
    BY <1>1, <2>2, EncryptFacts, ValueFacts DEF WInv
  <2> QED BY <2>1, <2>2 DEF BlocksInBounds
<1> QED BY <1>1, WInvariance, PTL
=============================================================================
