----------------------------- MODULE CacheProofs -----------------------------
(***************************************************************************)
(* The lists of the cache stay well formed for every number of chunks,     *)
(* keys, values, buckets and size classes, and every hash function.        *)
(***************************************************************************)
EXTENDS Cache, NumberProofs, FiniteSetTheorems

-----------------------------------------------------------------------------
(* Facts about chains: what a chain holds, and what pushing an item on a   *)
(* list, taking the first one off and unlinking an inner one do to every   *)
(* chain that runs through the same next pointers.                         *)

(* A field that links the items of D. *)
IsLink(f, D) == f \in [D -> D \cup {NULL}] /\ NULL \notin D

(* A chain holds items only. *)
LEMMA ChainItems ==
  ASSUME NEW D, NEW f, IsLink(f, D), NEW h
  PROVE  Chain(f, h) \subseteq D
BY DEF Chain, IsLink

(* A chain lies in every closed set that its head lies in. *)
LEMMA ChainLeast ==
  ASSUME NEW D, NEW f, IsLink(f, D), NEW h, NEW S \in SUBSET D,
         StartsIn(h, S), Closed(f, S)
  PROVE  Chain(f, h) \subseteq S
BY DEF Chain, IsLink

(* The head of a chain is on it. *)
LEMMA ChainHead ==
  ASSUME NEW D, NEW f, IsLink(f, D), NEW h \in D \cup {NULL}
  PROVE  StartsIn(h, Chain(f, h))
BY DEF Chain, IsLink, StartsIn

(* Following next from an item of a chain stays on it. *)
LEMMA ChainClosed ==
  ASSUME NEW D, NEW f, IsLink(f, D), NEW h
  PROVE  Closed(f, Chain(f, h))
<1> SUFFICES ASSUME NEW i \in Chain(f, h), f[i] # NULL
             PROVE  f[i] \in Chain(f, h)
  BY DEF Closed
<1>1. i \in D /\ f[i] \in D
  BY ChainItems DEF IsLink
<1>2. ASSUME NEW S \in SUBSET D, StartsIn(h, S), Closed(f, S)
      PROVE  f[i] \in S
  <2>1. i \in S
    BY <1>2, ChainLeast
  <2> QED BY <2>1, <1>2 DEF Closed
<1> QED BY <1>1, <1>2 DEF Chain, IsLink

(* The null pointer starts the empty chain. *)
LEMMA ChainNull ==
  ASSUME NEW D, NEW f, IsLink(f, D)
  PROVE  Chain(f, NULL) = {}
<1>1. StartsIn(NULL, {}) /\ Closed(f, {})
  BY DEF StartsIn, Closed
<1> QED BY <1>1, ChainLeast

(* A chain depends only on the next pointers of its own items. *)
LEMMA ChainFrame ==
  ASSUME NEW D, NEW f, IsLink(f, D), NEW g, IsLink(g, D),
         NEW h \in D \cup {NULL},
         \A i \in Chain(f, h) : g[i] = f[i]
  PROVE  Chain(g, h) = Chain(f, h)
<1>1. Chain(f, h) \subseteq D /\ Chain(g, h) \subseteq D
  BY ChainItems
<1>2. Chain(g, h) \subseteq Chain(f, h)
  <2>1. StartsIn(h, Chain(f, h))
    BY ChainHead
  <2>2. Closed(g, Chain(f, h))
    BY ChainClosed DEF Closed
  <2> QED BY <1>1, <2>1, <2>2, ChainLeast
<1>3. Chain(f, h) \subseteq Chain(g, h)
  <2>1. StartsIn(h, Chain(g, h))
    BY ChainHead
  <2>2. Closed(g, Chain(g, h))
    BY ChainClosed
  <2>3. Closed(f, Chain(g, h))
    BY <1>2, <2>2 DEF Closed
  <2> QED BY <1>1, <2>1, <2>3, ChainLeast
<1> QED BY <1>2, <1>3

(* A chain is its first item and the chain of the rest. *)
LEMMA ChainCons ==
  ASSUME NEW D, NEW f, IsLink(f, D), NEW h \in D
  PROVE  Chain(f, h) = {h} \cup Chain(f, f[h])
<1>0. f[h] \in D \cup {NULL}
  BY DEF IsLink
<1>1. Chain(f, h) \subseteq D /\ Chain(f, f[h]) \subseteq D
  BY ChainItems
<1>2. Chain(f, h) \subseteq {h} \cup Chain(f, f[h])
  <2>1. StartsIn(f[h], Chain(f, f[h]))
    BY <1>0, ChainHead
  <2>2. Closed(f, Chain(f, f[h]))
    BY ChainClosed
  <2>3. Closed(f, {h} \cup Chain(f, f[h]))
    BY <2>1, <2>2 DEF Closed, StartsIn
  <2>4. StartsIn(h, {h} \cup Chain(f, f[h]))
    BY DEF StartsIn
  <2> QED BY <1>1, <2>3, <2>4, ChainLeast
<1>3. {h} \cup Chain(f, f[h]) \subseteq Chain(f, h)
  <2>1. h \in Chain(f, h)
    BY ChainHead DEF StartsIn, IsLink
  <2>2. Closed(f, Chain(f, h))
    BY ChainClosed
  <2>3. StartsIn(f[h], Chain(f, h))
    BY <2>1, <2>2 DEF Closed, StartsIn
  <2> QED BY <1>1, <2>1, <2>2, <2>3, ChainLeast
<1> QED BY <1>2, <1>3

(* What follows an item of a chain is on the chain. *)
LEMMA ChainTail ==
  ASSUME NEW D, NEW f, IsLink(f, D), NEW h, NEW i \in Chain(f, h)
  PROVE  Chain(f, i) \subseteq Chain(f, h) /\ Chain(f, f[i]) \subseteq Chain(f, h)
<1>1. Chain(f, h) \subseteq D
  BY ChainItems
<1>2. Closed(f, Chain(f, h))
  BY ChainClosed
<1>3. StartsIn(i, Chain(f, h)) /\ StartsIn(f[i], Chain(f, h))
  BY <1>2 DEF StartsIn, Closed
<1> QED BY <1>1, <1>2, <1>3, ChainLeast

(* Every item of a chain but its head has a predecessor on the chain. *)
LEMMA ChainPred ==
  ASSUME NEW D, NEW f, IsLink(f, D), NEW h \in D \cup {NULL},
         NEW i \in Chain(f, h), i # h
  PROVE  \E p \in Chain(f, h) : f[p] = i
<1> SUFFICES ASSUME \A p \in Chain(f, h) : f[p] # i
             PROVE  FALSE
  OBVIOUS
<1>1. Chain(f, h) \subseteq D /\ StartsIn(h, Chain(f, h)) /\ Closed(f, Chain(f, h))
  BY ChainItems, ChainHead, ChainClosed
<1>2. StartsIn(h, Chain(f, h) \ {i}) /\ Closed(f, Chain(f, h) \ {i})
  BY <1>1 DEF StartsIn, Closed
<1>3. Chain(f, h) \ {i} \in SUBSET D
  BY <1>1
<1>4. Chain(f, h) \subseteq Chain(f, h) \ {i}
  BY <1>2, <1>3, ChainLeast
<1> QED BY <1>4

-----------------------------------------------------------------------------
(* g is f but for the next pointer of item i, which is p. *)
Relinked(f, g, i, p, D) ==
  IsLink(g, D) /\ g[i] = p /\ \A j \in D \ {i} : g[j] = f[j]

(* Assigning to one next pointer relinks that item. *)
LEMMA RelinkExcept ==
  ASSUME NEW D, NEW f, IsLink(f, D), NEW i \in D, NEW p \in D \cup {NULL}
  PROVE  Relinked(f, [f EXCEPT ![i] = p], i, p, D)
BY DEF IsLink, Relinked

(* Changing the next pointer of an item changes no list it is not on. *)
LEMMA ChainElsewhere ==
  ASSUME NEW D, NEW f, IsLink(f, D), NEW h \in D \cup {NULL}, NEW i \in D,
         NEW p, NEW g, Relinked(f, g, i, p, D), i \notin Chain(f, h)
  PROVE  Chain(g, h) = Chain(f, h)
<1>1. \A j \in Chain(f, h) : g[j] = f[j]
  BY ChainItems DEF Relinked
<1> QED BY <1>1, ChainFrame DEF Relinked

(* Pushing an item on a list (do_slabs_free, slabs_free, the end of        *)
(* cache_set): the list gains the item and keeps the ones it had.          *)
LEMMA ChainPush ==
  ASSUME NEW D, NEW f, IsLink(f, D), NEW h \in D \cup {NULL}, NEW i \in D,
         i \notin Chain(f, h), NEW g, Relinked(f, g, i, h, D)
  PROVE  Chain(g, i) = {i} \cup Chain(f, h)
<1>1. Chain(g, h) = Chain(f, h)
  BY ChainElsewhere
<1>2. Chain(g, i) = {i} \cup Chain(g, g[i])
  BY ChainCons DEF Relinked
<1> QED BY <1>1, <1>2 DEF Relinked

(* Taking the first item off a list that does not run back into itself. *)
LEMMA ChainPop ==
  ASSUME NEW D, NEW f, IsLink(f, D), NEW h \in D, h \notin Chain(f, f[h])
  PROVE  Chain(f, f[h]) = Chain(f, h) \ {h}
BY ChainCons

(* Unlinking item i of a list through its predecessor p (item_unlink): the *)
(* list loses i and nothing else.                                          *)
LEMMA ChainUnlink ==
  ASSUME NEW D, NEW f, IsLink(f, D), NEW h \in D, NEW p \in Chain(f, h), NEW i \in D,
         f[p] = i, i # h, f[i] # i,
         \A j \in Chain(f, h) : f[j] = i => j = p,
         NEW g, Relinked(f, g, p, f[i], D)
  PROVE  Chain(g, h) = Chain(f, h) \ {i}
<1>1. Chain(f, h) \subseteq D /\ h \in Chain(f, h) /\ Closed(f, Chain(f, h))
  BY ChainItems, ChainHead, ChainClosed DEF StartsIn, IsLink
<1>2. IsLink(g, D) /\ g[p] = f[i] /\ \A j \in D \ {p} : g[j] = f[j]
  BY <1>1 DEF Relinked
<1>3. Chain(g, h) \subseteq D /\ h \in Chain(g, h) /\ Closed(g, Chain(g, h))
  BY <1>2, ChainItems, ChainHead, ChainClosed DEF StartsIn, IsLink
<1>4. i \in Chain(f, h)
  BY <1>1 DEF Closed, IsLink
<1>5. Chain(g, h) \subseteq Chain(f, h) \ {i}
  <2>1. StartsIn(h, Chain(f, h) \ {i})
    BY <1>1 DEF StartsIn
  <2>2. Closed(g, Chain(f, h) \ {i})
    <3> SUFFICES ASSUME NEW j \in Chain(f, h) \ {i}
                 PROVE  g[j] \in (Chain(f, h) \ {i}) \cup {NULL}
      BY DEF Closed
    <3>1. CASE j = p
      BY <3>1, <1>1, <1>2, <1>4 DEF Closed
    <3>2. CASE j # p
      BY <3>2, <1>1, <1>2 DEF Closed
    <3> QED BY <3>1, <3>2
  <2> QED BY <1>1, <1>2, <2>1, <2>2, ChainLeast
<1>6. p \in Chain(g, h)
  <2> SUFFICES ASSUME p \notin Chain(g, h)
               PROVE  FALSE
    OBVIOUS
  <2>1. Closed(f, Chain(g, h))
    BY <1>2, <1>3 DEF Closed
  <2>2. Chain(f, h) \subseteq Chain(g, h)
    BY <1>3, <2>1, ChainLeast DEF StartsIn
  <2> QED BY <2>2
<1>7. Chain(f, h) \subseteq Chain(g, h) \cup {i}
  <2>1. Closed(f, Chain(g, h) \cup {i})
    <3> SUFFICES ASSUME NEW j \in Chain(g, h) \cup {i}
                 PROVE  f[j] \in Chain(g, h) \cup {i} \cup {NULL}
      BY DEF Closed
    <3>1. CASE j = i
      BY <3>1, <1>2, <1>3, <1>6 DEF Closed
    <3>2. CASE j # i
      BY <3>2, <1>2, <1>3 DEF Closed
    <3> QED BY <3>1, <3>2
  <2>2. StartsIn(h, Chain(g, h) \cup {i})
    BY <1>3 DEF StartsIn
  <2>3. Chain(g, h) \cup {i} \in SUBSET D
    BY <1>3
  <2> QED BY <2>1, <2>2, <2>3, ChainLeast
<1> QED BY <1>5, <1>7

(* Pushing an item that no walk reaches makes no cycle. *)
LEMMA AcyclicPush ==
  ASSUME NEW D, NEW f, IsLink(f, D), Acyclic(f), NEW h \in D \cup {NULL}, NEW i \in D,
         i \notin Chain(f, h), \A j \in D \ {i} : i \notin Chain(f, f[j]),
         NEW g, Relinked(f, g, i, h, D)
  PROVE  Acyclic(g)
<1>1. DOMAIN f = D /\ DOMAIN g = D /\ \A j \in D : f[j] \in D \cup {NULL}
  BY DEF IsLink, Relinked
<1>2. ASSUME NEW j \in D \ {i}
      PROVE  j \notin Chain(g, g[j])
  <2>1. g[j] = f[j] /\ f[j] \in D \cup {NULL} /\ i \notin Chain(f, f[j])
    BY <1>1 DEF Relinked
  <2>2. Chain(g, f[j]) = Chain(f, f[j])
    BY <2>1, ChainElsewhere
  <2> QED BY <1>1, <2>1, <2>2 DEF Acyclic
<1>3. i \notin Chain(g, g[i])
  <2>1. Chain(g, h) = Chain(f, h)
    BY ChainElsewhere
  <2> QED BY <2>1 DEF Relinked
<1> QED BY <1>1, <1>2, <1>3 DEF Acyclic

(* Skipping an item makes no cycle. *)
LEMMA AcyclicUnlink ==
  ASSUME NEW D, NEW f, IsLink(f, D), Acyclic(f), NEW p \in D, NEW i \in D, f[p] = i,
         NEW g, Relinked(f, g, p, f[i], D)
  PROVE  Acyclic(g)
<1>1. IsLink(g, D) /\ DOMAIN f = D /\ DOMAIN g = D /\ g[p] = f[i] /\ \A j \in D \ {p} : g[j] = f[j]
  BY DEF IsLink, Relinked
<1>2. ASSUME NEW j \in D
      PROVE  Chain(g, g[j]) \subseteq Chain(f, f[j])
  <2>1. Chain(f, f[j]) \subseteq D /\ Closed(f, Chain(f, f[j]))
    BY ChainItems, ChainClosed
  <2>2. StartsIn(f[j], Chain(f, f[j]))
    <3>1. f[j] \in D \cup {NULL}
      BY DEF IsLink
    <3> QED BY <3>1, ChainHead
  <2>3. Closed(g, Chain(f, f[j]))
    <3> SUFFICES ASSUME NEW k \in Chain(f, f[j])
                 PROVE  g[k] \in Chain(f, f[j]) \cup {NULL}
      BY DEF Closed
    <3>1. CASE k = p
      BY <3>1, <1>1, <2>1 DEF Closed, IsLink
    <3>2. CASE k # p
      BY <3>2, <1>1, <2>1 DEF Closed
    <3> QED BY <3>1, <3>2
  <2>4. StartsIn(g[j], Chain(f, f[j]))
    <3>1. CASE j = p
      BY <3>1, <1>1, <2>1, <2>2 DEF StartsIn, Closed, IsLink
    <3>2. CASE j # p
      BY <3>2, <1>1, <2>2
    <3> QED BY <3>1, <3>2
  <2> QED BY <1>1, <2>1, <2>3, <2>4, ChainLeast
<1>3. \A j \in D : j \notin Chain(g, g[j])
  BY <1>1, <1>2 DEF Acyclic
<1> QED BY <1>1, <1>3 DEF Acyclic

-----------------------------------------------------------------------------
(* The page and its lists. *)

(* The number of chunks is a number, and pointers are links. *)
LEMMA PageFacts ==
  /\ perslab \in Nat
  /\ PreClass \in Class
  /\ NULL \notin Item
  /\ Class \subseteq Nat
  /\ NoClass \notin Class
<1>1. class_size[PreClass] \in Nat \ {0}
  BY ClassAssumption, PreallocAssumption
<1>2. slab_page_size \in Nat
  BY PageAssumption
<1>3. perslab \in Nat
  BY <1>1, <1>2 DEF perslab
<1>4. nclasses \in Nat
  BY ClassAssumption DEF MAX_NUMBER_OF_SLAB_CLASSES
<1> QED BY <1>3, <1>4, PreallocAssumption DEF Class, NoClass

(* slabs_clsid returns a class, whose chunks are large enough, or -1. *)
LEMMA ClsidFacts ==
  ASSUME NEW size, slabs_clsid(size) # NoClass
  PROVE  slabs_clsid(size) \in Class /\ size <= class_size[slabs_clsid(size)]
BY DEF slabs_clsid, FirstFit

(* The links of a well-typed state. *)
LEMMA NextIsLink ==
  ASSUME TypeOK
  PROVE  IsLink(next, Item)
BY PageFacts DEF TypeOK, IsLink

(* The arguments of a call name a key, and the key a bucket. *)
LEMMA ReqFacts ==
  ASSUME req \in Request
  PROVE  /\ req.key \in Key
         /\ hash[req.key] \in Bucket
         /\ req.op = "get" => req \in GetRequest
         /\ req.op = "set" => req \in SetRequest
BY KeyAssumption DEF Request, GetRequest, SetRequest

(* The invariant holds when the program starts. *)
LEMMA InitIInv == Init => IInv
<1> SUFFICES ASSUME Init
             PROVE  IInv
  OBVIOUS
<1> USE PageFacts
<1>1. TypeOK
  <2>1. \A c \in Class : 0 \in Class
    BY ClassAssumption DEF Class, MAX_NUMBER_OF_SLAB_CLASSES
  <2> QED BY <2>1 DEF Init, SlabsInit, TypeOK
<1>2. IsLink(next, Item)
  BY <1>1, NextIsLink
<1>3. Chain(next, NULL) = {}
  BY <1>2, ChainNull
<1>4. \A b \in Bucket : InBucket(b) = {}
  BY <1>3 DEF InBucket, Init
<1>5. Linked = {}
  BY <1>4 DEF Linked
<1>6. \A c \in Class : Free(c) = {}
  BY <1>3 DEF Free, Init, SlabsInit
<1>7. InHand = {}
  BY DEF InHand, Init, SlabsInit
<1>8. WalksEnd
  <2>1. \A i \in Item : next[i] = NULL
    BY DEF Init, SlabsInit
  <2>2. DOMAIN next = Item
    BY <1>2 DEF IsLink
  <2> QED BY <1>3, <2>1, <2>2 DEF WalksEnd, Acyclic
<1>9. ChunksPartitioned
  <2>1. 0 .. nsplit - 1 = {}
    BY DEF Init, SlabsInit
  <2> QED BY <1>4, <1>5, <1>6, <1>7, <2>1 DEF ChunksPartitioned
<1>10. BackLinks
  BY <1>5 DEF BackLinks, Init
<1>11. KeysInPlace
  BY <1>4, <1>5 DEF KeysInPlace
<1>12. FreeCounted
  BY <1>6, FS_EmptySet DEF FreeCounted, Init, SlabsInit
<1>13. ItemsFit
  BY <1>5, <1>7 DEF ItemsFit
<1>14. WalkMissesNothing
  BY DEF WalkMissesNothing, Init, SlabsInit
<1>15. Phases
  <2>1. 0 .. perslab - 1 = Item
    BY DEF Item
  <2> QED BY <2>1 DEF Phases, Init, SlabsInit
<1> QED BY <1>1, <1>8, <1>9, <1>10, <1>11, <1>12, <1>13, <1>14, <1>15 DEF IInv

-----------------------------------------------------------------------------
(* Which items the lists hold in a state of the invariant. *)
LEMMA ListFacts ==
  ASSUME IInv
  PROVE  /\ IsLink(next, Item)
         /\ Linked \subseteq 0 .. nsplit - 1
         /\ Free(PreClass) \subseteq 0 .. nsplit - 1
         /\ 0 .. nsplit - 1 \subseteq Item
         /\ \A b \in Bucket : InBucket(b) \subseteq Linked
         /\ \A b \in Bucket : hashtable[b] \in InBucket(b) \cup {NULL}
         /\ \A c \in Class : slots[c] \in Free(c) \cup {NULL}
         /\ \A c \in Class \ {PreClass} : slots[c] = NULL
         /\ Linked \cap (Free(PreClass) \cup InHand) = {}
         /\ \A b \in Bucket : \A i \in InBucket(b) : next[i] \in InBucket(b) \cup {NULL}
<1>1. IsLink(next, Item)
  BY NextIsLink DEF IInv
<1>2. Linked \subseteq 0 .. nsplit - 1 /\ Free(PreClass) \subseteq 0 .. nsplit - 1
  BY DEF IInv, ChunksPartitioned
<1>3. 0 .. nsplit - 1 \subseteq Item
  BY PageFacts DEF IInv, TypeOK, Item
<1>4. \A b \in Bucket : InBucket(b) \subseteq Linked
  BY DEF Linked
<1>5. \A b \in Bucket : hashtable[b] \in InBucket(b) \cup {NULL}
  <2> TAKE b \in Bucket
  <2>1. hashtable[b] \in Item \cup {NULL}
    BY DEF IInv, TypeOK
  <2> QED BY <1>1, <2>1, ChainHead DEF InBucket, StartsIn
<1>6. \A c \in Class : slots[c] \in Free(c) \cup {NULL}
  <2> TAKE c \in Class
  <2>1. slots[c] \in Item \cup {NULL}
    BY DEF IInv, TypeOK
  <2> QED BY <1>1, <2>1, ChainHead DEF Free, StartsIn
<1>7. \A c \in Class \ {PreClass} : slots[c] = NULL
  BY <1>6 DEF IInv, ChunksPartitioned
<1>8. Linked \cap (Free(PreClass) \cup InHand) = {}
  BY DEF IInv, ChunksPartitioned, Linked
<1>9. \A b \in Bucket : \A i \in InBucket(b) : next[i] \in InBucket(b) \cup {NULL}
  BY <1>1, ChainClosed DEF InBucket, Closed
<1> QED BY <1>1, <1>2, <1>3, <1>4, <1>5, <1>6, <1>7, <1>8, <1>9

(* An item that is in no bucket, and on the free list only as its head,    *)
(* is what no other item leads to.                                         *)
LEMMA NothingLeadsTo ==
  ASSUME IInv, NEW i \in Item, i \notin Linked, InHand \subseteq {i},
         i \in Free(PreClass) => i = slots[PreClass]
  PROVE  \A j \in Item \ {i} : i \notin Chain(next, next[j])
<1> SUFFICES ASSUME NEW j \in Item \ {i}
             PROVE  i \notin Chain(next, next[j])
  OBVIOUS
<1>1. IsLink(next, Item)
  BY ListFacts
<1>2. CASE j \in Linked
  <2>1. PICK b \in Bucket : j \in InBucket(b)
    BY <1>2 DEF Linked
  <2>2. Chain(next, next[j]) \subseteq InBucket(b)
    BY <1>1, <2>1, ChainTail DEF InBucket
  <2> QED BY <2>2, ListFacts
<1>3. CASE j \in Free(PreClass)
  <2>1. Chain(next, next[j]) \subseteq Free(PreClass)
    BY <1>1, <1>3, ChainTail DEF Free
  <2>2. CASE i \notin Free(PreClass)
    BY <2>1, <2>2
  <2>3. CASE i = slots[PreClass]
    <3>1. Free(PreClass) = {i} \cup Chain(next, next[i])
      BY <1>1, <2>3, ChainCons DEF Free
    <3>2. j \in Chain(next, next[i])
      BY <1>3, <3>1
    <3>3. Chain(next, next[j]) \subseteq Chain(next, next[i])
      BY <1>1, <3>2, ChainTail
    <3>4. i \notin Chain(next, next[i])
      BY <1>1 DEF IInv, WalksEnd, Acyclic, IsLink
    <3> QED BY <3>3, <3>4
  <2> QED BY <2>2, <2>3
<1>4. CASE j \notin 0 .. nsplit - 1
  <2>1. j \in nsplit .. perslab - 1
    BY <1>4, PageFacts DEF IInv, TypeOK, Item
  <2>2. next[j] = NULL
    BY <2>1 DEF IInv, Phases
  <2> QED BY <1>1, <2>2, ChainNull
<1> QED BY <1>2, <1>3, <1>4 DEF IInv, ChunksPartitioned

-----------------------------------------------------------------------------
(* do_slabs_free and slabs_free: the free list gains the chunk, the buckets *)
(* and the other classes are as before, and the counts stay right.          *)
LEMMA PushFreeEffect ==
  ASSUME IInv, NEW i \in Item, i \notin Linked, i \notin Free(PreClass),
         InHand \subseteq {i}, NEW p \in Item \cup {NULL},
         PushFree(i, PreClass, p), hashtable' = hashtable
  PROVE  /\ next' \in [Item -> Item \cup {NULL}]
         /\ prev' \in [Item -> Item \cup {NULL}]
         /\ slots' \in [Class -> Item \cup {NULL}]
         /\ sl_curr' \in [Class -> Nat]
         /\ WalksEnd' /\ FreeCounted' /\ BackLinks'
         /\ Free(PreClass)' = {i} \cup Free(PreClass)
         /\ \A c \in Class \ {PreClass} : Free(c)' = {}
         /\ \A b \in Bucket : InBucket(b)' = InBucket(b)
         /\ Linked' = Linked
         /\ \A j \in Item \ {i} : next'[j] = next[j]
<1> DEFINE h == slots[PreClass]
<1>0. TypeOK /\ PreClass \in Class
  BY PageFacts DEF IInv
<1>1. IsLink(next, Item) /\ h \in Item \cup {NULL}
  BY <1>0, ListFacts DEF TypeOK
<1>2. next' = [next EXCEPT ![i] = h]
  BY DEF PushFree
<1>3. Relinked(next, next', i, h, Item)
  BY <1>1, <1>2, RelinkExcept
<1>4. IsLink(next', Item)
  BY <1>3 DEF Relinked
<1>5. /\ next' \in [Item -> Item \cup {NULL}]
      /\ prev' \in [Item -> Item \cup {NULL}]
      /\ slots' \in [Class -> Item \cup {NULL}]
      /\ sl_curr' \in [Class -> Nat]
  BY <1>0, <1>4 DEF TypeOK, PushFree, SetLink, IsLink
<1>6. WalksEnd'
  <2>1. \A j \in Item \ {i} : i \notin Chain(next, next[j])
    BY NothingLeadsTo
  <2>2. i \notin Chain(next, h) /\ Acyclic(next)
    BY DEF Free, IInv, WalksEnd
  <2>3. Acyclic(next')
    BY <1>1, <1>3, <2>1, <2>2, AcyclicPush
  <2> QED BY <2>3 DEF WalksEnd
<1>7. Free(PreClass)' = {i} \cup Free(PreClass)
  <2>1. i \notin Chain(next, h)
    BY DEF Free
  <2>2. Chain(next', i) = {i} \cup Chain(next, h)
    BY <1>1, <1>3, <2>1, ChainPush
  <2>3. slots'[PreClass] = i
    BY <1>0 DEF PushFree, TypeOK
  <2> QED BY <2>2, <2>3 DEF Free
<1>8. \A c \in Class \ {PreClass} : Free(c)' = {}
  <2> TAKE c \in Class \ {PreClass}
  <2>1. slots'[c] = NULL
    BY <1>0, ListFacts DEF PushFree, TypeOK
  <2> QED BY <1>4, <2>1, ChainNull DEF Free
<1>9. \A b \in Bucket : InBucket(b)' = InBucket(b)
  <2> TAKE b \in Bucket
  <2>1. i \notin Chain(next, hashtable[b]) /\ hashtable[b] \in Item \cup {NULL}
    BY <1>0, ListFacts DEF InBucket, TypeOK
  <2>2. Chain(next', hashtable[b]) = Chain(next, hashtable[b])
    BY <1>1, <1>3, <2>1, ChainElsewhere
  <2> QED BY <2>2 DEF InBucket
<1>10. Linked' = Linked
  BY <1>9 DEF Linked
<1>11. FreeCounted'
  <2>1. ASSUME NEW c \in Class \ {PreClass} PROVE sl_curr'[c] = Cardinality(Free(c)')
    <3>1. sl_curr'[c] = sl_curr[c] /\ Free(c) = {}
      BY <1>0 DEF PushFree, TypeOK, IInv, ChunksPartitioned
    <3> QED BY <3>1, <1>8 DEF IInv, FreeCounted
  <2>2. sl_curr'[PreClass] = Cardinality(Free(PreClass)')
    <3>1. sl_curr'[PreClass] = sl_curr[PreClass] + 1
      BY <1>0 DEF PushFree, TypeOK
    <3>2. IsFiniteSet(Item)
      BY PageFacts, FS_Interval DEF Item
    <3>3. IsFiniteSet(Free(PreClass))
      BY <3>2, ListFacts, FS_Subset
    <3>4. Cardinality(Free(PreClass) \cup {i}) = Cardinality(Free(PreClass)) + 1
      BY <3>3, FS_AddElement
    <3>5. Free(PreClass)' = Free(PreClass) \cup {i}
      BY <1>7
    <3>6. sl_curr[PreClass] = Cardinality(Free(PreClass))
      BY <1>0 DEF IInv, FreeCounted
    <3> QED BY <3>1, <3>4, <3>5, <3>6
  <2> QED BY <2>1, <2>2 DEF FreeCounted
<1>12. \A j \in Item \ {i} : next'[j] = next[j]
  BY <1>3 DEF Relinked
<1>13. BackLinks'
  <2>1. \A j \in Linked : j \in Item /\ j # i /\ j # h
    BY <1>0, ListFacts, PageFacts
  <2>2. \A j \in Linked : prev'[j] = prev[j]
    BY <1>0, <1>1, <2>1 DEF PushFree, SetLink, TypeOK
  <2>3. \A j \in Linked : next'[j] = next[j] /\ next[j] \in Linked \cup {NULL}
    BY <1>12, <2>1, ListFacts DEF Linked
  <2>4. \A b \in Bucket : hashtable[b] \in Linked \cup {NULL}
    BY ListFacts
  <2> QED BY <1>10, <2>2, <2>3, <2>4 DEF BackLinks, IInv
<1> QED BY <1>5, <1>6, <1>7, <1>8, <1>9, <1>10, <1>11, <1>12, <1>13

(* The loop of split_slab_page_into_freelist. *)
LEMMA SplitPreserves ==
  ASSUME IInv, split_slab_page_into_freelist, UNCHANGED <<cacheVars, req, it, ret>>
  PROVE  IInv'
<1>0. TypeOK /\ PreClass \in Class /\ perslab \in Nat
  BY PageFacts DEF IInv
<1>1. /\ nsplit \in Item /\ nsplit \notin Linked /\ nsplit \notin Free(PreClass)
      /\ nsplit' = nsplit + 1 /\ nsplit \in Nat /\ nsplit < perslab
      /\ PushFree(nsplit, PreClass, NULL)
      /\ pc = "split" /\ pc' = "split" /\ clsid' = clsid /\ slabs' = slabs
  BY <1>0, ListFacts DEF split_slab_page_into_freelist, MoreChunks, do_slabs_free,
                            Item, TypeOK
<1>2. InHand = {} /\ InHand' = {}
  BY <1>1 DEF InHand
<1>3. hashtable' = hashtable /\ ikey' = ikey /\ ival' = ival
  BY DEF cacheVars
<1>4. /\ next' \in [Item -> Item \cup {NULL}]
      /\ prev' \in [Item -> Item \cup {NULL}]
      /\ slots' \in [Class -> Item \cup {NULL}]
      /\ sl_curr' \in [Class -> Nat]
      /\ WalksEnd' /\ FreeCounted' /\ BackLinks'
      /\ Free(PreClass)' = {nsplit} \cup Free(PreClass)
      /\ \A c \in Class \ {PreClass} : Free(c)' = {}
      /\ \A b \in Bucket : InBucket(b)' = InBucket(b)
      /\ Linked' = Linked
      /\ \A j \in Item \ {nsplit} : next'[j] = next[j]
  BY <1>1, <1>2, <1>3, PushFreeEffect
<1>5. TypeOK'
  BY <1>0, <1>1, <1>3, <1>4 DEF TypeOK, cacheVars
<1>6. ChunksPartitioned'
  <2>0. nsplit \in Nat /\ nsplit' - 1 = nsplit
    BY <1>0 DEF TypeOK, split_slab_page_into_freelist
  <2>1. 0 .. nsplit' - 1 = (0 .. nsplit - 1) \cup {nsplit}
    <3>1. 0 .. nsplit = (0 .. nsplit - 1) \cup {nsplit}
      BY <2>0
    <3> QED BY <2>0, <3>1
  <2>2. 0 .. nsplit' - 1 = Linked' \cup Free(PreClass)' \cup InHand'
    BY <1>2, <1>4, <2>1 DEF IInv, ChunksPartitioned
  <2>3. \A b \in Bucket : nsplit \notin InBucket(b)
    BY <1>1, ListFacts
  <2> QED BY <1>2, <1>4, <2>2, <2>3 DEF IInv, ChunksPartitioned
<1>7. KeysInPlace'
  BY <1>3, <1>4 DEF IInv, KeysInPlace
<1>8. ItemsFit'
  BY <1>1, <1>2, <1>3, <1>4 DEF IInv, ItemsFit
<1>9. WalkMissesNothing'
  BY <1>1 DEF WalkMissesNothing
<1>10. Phases'
  <2>1. \A i \in nsplit' .. perslab - 1 : i \in nsplit .. perslab - 1 /\ i \in Item \ {nsplit}
    BY <1>0, <1>1 DEF Item
  <2>2. \A i \in nsplit' .. perslab - 1 : next'[i] = NULL
    BY <1>4, <2>1 DEF IInv, Phases
  <2> QED BY <1>1, <1>3, <2>2 DEF IInv, Phases
<1> QED BY <1>4, <1>5, <1>6, <1>7, <1>8, <1>9, <1>10 DEF IInv

(* cache_set puts the item it unlinked back on the free list it came from. *)
LEMMA FreeOldPreserves ==
  ASSUME IInv, free_old
  PROVE  IInv'
<1>0. TypeOK /\ PreClass \in Class /\ perslab \in Nat
  BY PageFacts DEF IInv
<1>1. /\ pc = "free" /\ pc' = "alloc" /\ nsplit' = nsplit
      /\ hashtable' = hashtable /\ ikey' = ikey /\ ival' = ival
      /\ req' = req /\ it' = it /\ ret' = ret /\ clsid' = clsid /\ slabs' = slabs
      /\ table' = table
  BY DEF free_old, slabs_free, cacheVars
<1>2. InHand = {it} /\ InHand' = {}
  BY <1>1 DEF InHand
<1>3. it \in Item /\ it \notin Linked /\ it \notin Free(PreClass) /\ it \in 0 .. nsplit - 1
  BY <1>0, <1>1, <1>2, ListFacts DEF TypeOK, IInv, ChunksPartitioned
<1>4. PushFree(it, PreClass, prev[it]) /\ prev[it] \in Item \cup {NULL}
  BY <1>0, <1>2, <1>3 DEF free_old, slabs_free, IInv, ItemsFit, TypeOK
<1>5. /\ next' \in [Item -> Item \cup {NULL}]
      /\ prev' \in [Item -> Item \cup {NULL}]
      /\ slots' \in [Class -> Item \cup {NULL}]
      /\ sl_curr' \in [Class -> Nat]
      /\ WalksEnd' /\ FreeCounted' /\ BackLinks'
      /\ Free(PreClass)' = {it} \cup Free(PreClass)
      /\ \A c \in Class \ {PreClass} : Free(c)' = {}
      /\ \A b \in Bucket : InBucket(b)' = InBucket(b)
      /\ Linked' = Linked
      /\ \A j \in Item \ {it} : next'[j] = next[j]
  BY <1>1, <1>2, <1>3, <1>4, PushFreeEffect
<1>6. TypeOK'
  BY <1>0, <1>1, <1>5 DEF TypeOK
<1>7. ChunksPartitioned'
  <2>1. \A b \in Bucket : it \notin InBucket(b)
    BY <1>3, ListFacts
  <2> QED BY <1>1, <1>2, <1>5, <2>1 DEF IInv, ChunksPartitioned
<1>8. KeysInPlace'
  BY <1>1, <1>5 DEF IInv, KeysInPlace
<1>9. ItemsFit'
  BY <1>1, <1>2, <1>5 DEF IInv, ItemsFit
<1>10. WalkMissesNothing'
  BY <1>1 DEF WalkMissesNothing
<1>11. Phases'
  <2>1. \A i \in nsplit .. perslab - 1 : i \in Item \ {it}
    BY <1>0, <1>3 DEF Item, TypeOK
  <2>2. \A i \in nsplit' .. perslab - 1 : next'[i] = NULL
    BY <1>1, <1>5, <2>1 DEF IInv, Phases
  <2> QED BY <1>1, <1>5, <2>2 DEF IInv, Phases
<1> QED BY <1>5, <1>6, <1>7, <1>8, <1>9, <1>10, <1>11 DEF IInv

-----------------------------------------------------------------------------
(* The predecessor through which item_unlink reaches an item that is not   *)
(* the head of its bucket: prev points at it, and it is the only one.      *)
LEMMA PredecessorOf ==
  ASSUME IInv, NEW b \in Bucket, NEW i \in InBucket(b), i # hashtable[b]
  PROVE  /\ prev[i] \in InBucket(b)
         /\ next[prev[i]] = i
         /\ \A j \in Linked : next[j] = i => j = prev[i]
<1>1. IsLink(next, Item) /\ hashtable[b] \in Item \cup {NULL}
  BY ListFacts DEF IInv, TypeOK
<1>2. PICK p \in InBucket(b) : next[p] = i
  BY <1>1, ChainPred DEF InBucket
<1>3. i # NULL
  BY ListFacts, PageFacts
<1>4. \A j \in Linked : next[j] = i => j = prev[i]
  BY <1>3 DEF IInv, BackLinks
<1> QED BY <1>2, <1>4, ListFacts

(* item_unlink: the bucket loses the item, every other list is as before. *)
LEMMA UnlinkEffect ==
  ASSUME IInv, item_unlink
  PROVE  /\ next' \in [Item -> Item \cup {NULL}]
         /\ prev' \in [Item -> Item \cup {NULL}]
         /\ hashtable' \in [Bucket -> Item \cup {NULL}]
         /\ WalksEnd'
         /\ it \in InBucket(hash[req.key])
         /\ InBucket(hash[req.key])' = InBucket(hash[req.key]) \ {it}
         /\ \A b \in Bucket \ {hash[req.key]} : InBucket(b)' = InBucket(b)
         /\ \A c \in Class : Free(c)' = Free(c)
         /\ \A j \in Item \ Linked : next'[j] = next[j]
         /\ BackLinks'
<1> DEFINE b0 == hash[req.key]
<1>0. TypeOK /\ pc = "find" /\ it # NULL /\ slots' = slots /\ req' = req
  BY DEF IInv, item_unlink
<1>1. b0 \in Bucket
  BY <1>0, ReqFacts DEF TypeOK
<1>2. it \in InBucket(b0)
  BY <1>0 DEF IInv, WalkMissesNothing
<1>3. IsLink(next, Item) /\ it \in Item /\ it \in Linked /\ next[it] \in Item \cup {NULL}
  BY <1>1, <1>2, ListFacts DEF IsLink
<1>4. it \notin Chain(next, next[it]) /\ next[it] # it
  <2>1. it \notin Chain(next, next[it])
    BY <1>3 DEF IInv, WalksEnd, Acyclic, IsLink
  <2>2. next[it] # it
    <3> SUFFICES ASSUME next[it] = it PROVE FALSE
      OBVIOUS
    <3>1. it \in Chain(next, it)
      BY <1>3, <1>0, ChainHead DEF StartsIn
    <3> QED BY <2>1, <3>1
  <2> QED BY <2>1, <2>2
<1>5. \A j \in Linked : next[j] \in Linked \cup {NULL}
  BY ListFacts DEF Linked
<1>6. CASE IsHead(it)
  <2>1. /\ next' = next
        /\ hashtable' = [hashtable EXCEPT ![b0] = next[it]]
        /\ prev' = SetLink(prev, next[it], NULL)
        /\ it = hashtable[b0]
    BY <1>6 DEF item_unlink, UnlinkForward, UnlinkBack, IsHead
  <2>2. /\ next' \in [Item -> Item \cup {NULL}]
        /\ prev' \in [Item -> Item \cup {NULL}]
        /\ hashtable' \in [Bucket -> Item \cup {NULL}]
    BY <1>0, <1>3, <2>1 DEF TypeOK, SetLink
  <2>3. InBucket(b0)' = InBucket(b0) \ {it}
    <3>1. Chain(next, next[it]) = Chain(next, it) \ {it}
      BY <1>3, <1>4, ChainPop
    <3>2. hashtable'[b0] = next[it]
      BY <1>0, <1>1, <2>1 DEF TypeOK
    <3> QED BY <1>0, <2>1, <3>1, <3>2 DEF InBucket
  <2>4. \A b \in Bucket \ {b0} : hashtable'[b] = hashtable[b] /\ InBucket(b)' = InBucket(b)
    BY <1>0, <2>1 DEF TypeOK, InBucket
  <2>5. \A c \in Class : Free(c)' = Free(c)
    BY <1>0, <2>1 DEF Free
  <2>6. WalksEnd'
    BY <2>1 DEF IInv, WalksEnd
  <2>7. BackLinks'
    <3>1. \A j \in Item : prev'[j] = IF j = next[it] THEN NULL ELSE prev[j]
      BY <1>0, <1>3, <2>1 DEF SetLink, TypeOK, IsLink
    <3>2. hashtable'[b0] = next[it]
      BY <1>0, <1>1, <2>1 DEF TypeOK
    <3>3. ASSUME NEW b \in Bucket, hashtable'[b] # NULL
          PROVE  prev'[hashtable'[b]] = NULL
      <4>1. CASE b = b0
        BY <1>3, <3>1, <3>2, <3>3, <4>1
      <4>2. CASE b # b0
        BY <2>4, <3>1, <3>3, <4>2, ListFacts DEF IInv, BackLinks
      <4> QED BY <4>1, <4>2
    <3>4. \A j \in Linked' : j \in Linked /\ j # it
      <4>1. \A b \in Bucket \ {b0} : it \notin InBucket(b)
        BY <1>1, <1>2 DEF IInv, ChunksPartitioned
      <4>2. \A b \in Bucket : InBucket(b)' \subseteq InBucket(b) \ {it}
        BY <1>0, <2>3, <2>4, <4>1
      <4> QED BY <4>2 DEF Linked
    <3>5. ASSUME NEW j \in Linked', next'[j] # NULL
          PROVE  prev'[next'[j]] = j
      <4>1. j \in Linked /\ j # it /\ next[j] # NULL /\ prev[next[j]] = j
        BY <2>1, <3>4, <3>5 DEF IInv, BackLinks
      <4>2. next[j] # next[it]
        BY <1>3, <4>1 DEF IInv, BackLinks
      <4>3. next[j] \in Item
        BY <1>5, <4>1, ListFacts
      <4> QED BY <2>1, <3>1, <4>1, <4>2, <4>3
    <3> QED BY <3>3, <3>5 DEF BackLinks
  <2> QED BY <1>2, <2>1, <2>2, <2>3, <2>4, <2>5, <2>6, <2>7
<1>7. CASE ~IsHead(it)
  <2> DEFINE p == prev[it]
  <2>1. /\ next' = [next EXCEPT ![p] = next[it]]
        /\ hashtable' = hashtable
        /\ prev' = SetLink(prev, next[it], p)
        /\ it # hashtable[b0]
    BY <1>7 DEF item_unlink, UnlinkForward, UnlinkBack, IsHead
  <2>2. /\ p \in InBucket(b0) /\ next[p] = it
        /\ \A j \in Linked : next[j] = it => j = p
    BY <1>1, <1>2, <2>1, PredecessorOf
  <2>3. p \in Item /\ p \in Linked /\ p # it
    BY <1>1, <1>4, <2>2, ListFacts
  <2>4. Relinked(next, next', p, next[it], Item)
    BY <1>3, <2>1, <2>3, RelinkExcept
  <2>5. /\ next' \in [Item -> Item \cup {NULL}]
        /\ prev' \in [Item -> Item \cup {NULL}]
        /\ hashtable' \in [Bucket -> Item \cup {NULL}]
    BY <1>0, <1>3, <2>1, <2>3, <2>4 DEF TypeOK, SetLink, Relinked, IsLink
  <2>6. InBucket(b0)' = InBucket(b0) \ {it}
    <3>1. hashtable[b0] \in Item
      <4>1. InBucket(b0) # {}
        BY <1>2
      <4>2. hashtable[b0] # NULL
        BY <1>3, <4>1, ChainNull DEF InBucket
      <4> QED BY <1>0, <1>1, <4>2 DEF TypeOK
    <3>2. \A j \in Chain(next, hashtable[b0]) : next[j] = it => j = p
      BY <1>1, <2>2, ListFacts DEF InBucket
    <3>3. p \in Chain(next, hashtable[b0])
      BY <2>2 DEF InBucket
    <3>4. Chain(next', hashtable[b0]) = Chain(next, hashtable[b0]) \ {it}
      BY <1>3, <1>4, <2>1, <2>2, <2>4, <3>1, <3>2, <3>3, ChainUnlink
    <3> QED BY <1>0, <2>1, <3>4 DEF InBucket
  <2>7. \A b \in Bucket \ {b0} : InBucket(b)' = InBucket(b)
    <3> TAKE b \in Bucket \ {b0}
    <3>1. p \notin Chain(next, hashtable[b]) /\ hashtable[b] \in Item \cup {NULL}
      BY <1>0, <1>1, <2>2 DEF IInv, ChunksPartitioned, InBucket, TypeOK
    <3>2. Chain(next', hashtable[b]) = Chain(next, hashtable[b])
      BY <1>3, <2>3, <2>4, <3>1, ChainElsewhere
    <3> QED BY <2>1, <3>2 DEF InBucket
  <2>8. \A c \in Class : Free(c)' = Free(c)
    <3> TAKE c \in Class
    <3>1. p \notin Free(c)
      BY <2>3, ListFacts DEF IInv, ChunksPartitioned
    <3>2. slots[c] \in Item \cup {NULL}
      BY <1>0 DEF TypeOK
    <3>3. Chain(next', slots[c]) = Chain(next, slots[c])
      BY <1>3, <2>3, <2>4, <3>1, <3>2, ChainElsewhere DEF Free
    <3> QED BY <1>0, <3>3 DEF Free
  <2>9. WalksEnd'
    <3>1. Acyclic(next)
      BY DEF IInv, WalksEnd
    <3>2. Acyclic(next')
      BY <1>3, <2>2, <2>3, <2>4, <3>1, AcyclicUnlink
    <3> QED BY <3>2 DEF WalksEnd
  <2>10. \A j \in Item \ {p} : next'[j] = next[j]
    BY <2>4 DEF Relinked
  <2>11. BackLinks'
    <3>1. \A j \in Item : prev'[j] = IF j = next[it] THEN p ELSE prev[j]
      BY <1>0, <1>3, <2>1 DEF SetLink, TypeOK, IsLink
    <3>2. next[it] # NULL => next[it] \in Linked /\ prev[next[it]] = it
      BY <1>3, <1>5 DEF IInv, BackLinks
    <3>3. ASSUME NEW b \in Bucket, hashtable'[b] # NULL
          PROVE  prev'[hashtable'[b]] = NULL
      <4>1. hashtable[b] \in Linked /\ prev[hashtable[b]] = NULL
        BY <2>1, <3>3, ListFacts DEF IInv, BackLinks
      <4>2. hashtable[b] \in Item
        BY <4>1, ListFacts
      <4>3. hashtable[b] # next[it]
        BY <1>0, <2>1, <3>2, <3>3, <4>1
      <4> QED BY <2>1, <3>1, <4>1, <4>2, <4>3
    <3>4. \A j \in Linked' : j \in Linked /\ j # it
      <4>1. \A b \in Bucket \ {b0} : it \notin InBucket(b)
        BY <1>1, <1>2 DEF IInv, ChunksPartitioned
      <4>2. \A b \in Bucket : InBucket(b)' \subseteq InBucket(b) \ {it}
        BY <1>0, <2>6, <2>7, <4>1
      <4> QED BY <4>2 DEF Linked
    <3>5. ASSUME NEW j \in Linked', next'[j] # NULL
          PROVE  prev'[next'[j]] = j
      <4>1. j \in Linked /\ j # it /\ j \in Item
        BY <3>4, ListFacts
      <4>2. CASE j = p
        <5>1. next'[j] = next[it]
          BY <2>4, <4>2 DEF Relinked
        <5> QED BY <1>3, <3>1, <3>5, <4>2, <5>1
      <4>3. CASE j # p
        <5>1. next'[j] = next[j] /\ prev[next[j]] = j
          BY <2>10, <3>5, <4>1, <4>3 DEF IInv, BackLinks
        <5>2. next[j] \in Item /\ next[j] # next[it]
          BY <1>5, <3>2, <3>5, <4>1, <5>1, ListFacts
        <5> QED BY <3>1, <5>1, <5>2
      <4> QED BY <4>2, <4>3
    <3> QED BY <3>3, <3>5 DEF BackLinks
  <2> QED BY <1>2, <2>3, <2>5, <2>6, <2>7, <2>8, <2>9, <2>10, <2>11
<1> QED BY <1>6, <1>7

(* cache_set unlinks the item that holds its key. *)
LEMMA UnlinkPreserves ==
  ASSUME IInv, item_unlink
  PROVE  IInv'
<1> DEFINE b0 == hash[req.key]
<1>0. TypeOK /\ req \in Request /\ req.op = "set" /\ ikey[it] = req.key
  BY DEF IInv, TypeOK, item_unlink, Matches
<1>1. req \in SetRequest /\ b0 \in Bucket /\ req.key \in Key
  BY <1>0, ReqFacts
<1>2. /\ pc = "find" /\ pc' = "free" /\ nsplit' = nsplit
      /\ ikey' = ikey /\ ival' = ival /\ req' = req /\ it' = it /\ ret' = ret
      /\ clsid' = clsid /\ slabs' = slabs /\ slots' = slots /\ sl_curr' = sl_curr /\ table' = table
  BY DEF item_unlink
<1>3. InHand = {} /\ InHand' = {it}
  BY <1>2 DEF InHand
<1>4. /\ next' \in [Item -> Item \cup {NULL}]
      /\ prev' \in [Item -> Item \cup {NULL}]
      /\ hashtable' \in [Bucket -> Item \cup {NULL}]
      /\ WalksEnd' /\ BackLinks'
      /\ it \in InBucket(b0)
      /\ InBucket(b0)' = InBucket(b0) \ {it}
      /\ \A b \in Bucket \ {b0} : InBucket(b)' = InBucket(b)
      /\ \A c \in Class : Free(c)' = Free(c)
      /\ \A j \in Item \ Linked : next'[j] = next[j]
  BY UnlinkEffect
<1>5. it \in Linked /\ it \in Item
  BY <1>1, <1>4, ListFacts
<1>6. TypeOK'
  BY <1>0, <1>1, <1>2, <1>4, <1>5 DEF TypeOK
<1>7. \A b \in Bucket : InBucket(b)' = InBucket(b) \ {it}
  <2>1. \A b \in Bucket \ {b0} : it \notin InBucket(b)
    BY <1>1, <1>4 DEF IInv, ChunksPartitioned
  <2> QED BY <1>2, <1>4, <2>1
<1>8. Linked' = Linked \ {it}
  BY <1>7 DEF Linked
<1>9. ChunksPartitioned'
  <2>1. it \notin Free(PreClass)
    BY <1>5, ListFacts
  <2>2. PreClass \in Class
    BY PageFacts
  <2> QED BY <1>2, <1>3, <1>4, <1>5, <1>7, <1>8, <2>1, <2>2 DEF IInv, ChunksPartitioned
<1>10. KeysInPlace'
  BY <1>2, <1>7, <1>8 DEF IInv, KeysInPlace
<1>11. FreeCounted'
  BY <1>2, <1>4 DEF IInv, FreeCounted
<1>12. ItemsFit'
  BY <1>2, <1>3, <1>5, <1>8 DEF IInv, ItemsFit
<1>13. WalkMissesNothing'
  BY <1>2 DEF WalkMissesNothing
<1>14. Phases'
  <2>1. \A i \in nsplit .. perslab - 1 : i \in Item \ Linked
    BY <1>0, PageFacts, ListFacts DEF TypeOK, Item
  <2>2. \A i \in nsplit' .. perslab - 1 : next'[i] = NULL
    BY <1>2, <1>4, <2>1 DEF IInv, Phases
  <2>3. \A i \in Linked' : ikey'[i] # req'.key
    BY <1>0, <1>2, <1>5, <1>8 DEF IInv, KeysInPlace
  <2> QED BY <1>2, <2>2, <2>3 DEF IInv, Phases
<1> QED BY <1>4, <1>6, <1>9, <1>10, <1>11, <1>12, <1>13, <1>14 DEF IInv

-----------------------------------------------------------------------------
(* item_alloc and the end of cache_set: the first free chunk moves to the  *)
(* front of the bucket, and no other list is touched.                      *)
LEMMA InsertEffect ==
  ASSUME IInv, NEW i \in Item, insert_new(i)
  PROVE  /\ ReqClass = PreClass /\ i \in Free(PreClass) /\ i \notin Linked
         /\ next' \in [Item -> Item \cup {NULL}]
         /\ prev' \in [Item -> Item \cup {NULL}]
         /\ slots' \in [Class -> Item \cup {NULL}]
         /\ sl_curr' \in [Class -> Nat]
         /\ hashtable' \in [Bucket -> Item \cup {NULL}]
         /\ WalksEnd' /\ FreeCounted' /\ BackLinks'
         /\ Free(PreClass)' = Free(PreClass) \ {i}
         /\ \A c \in Class \ {PreClass} : Free(c)' = {}
         /\ \A b \in Bucket : InBucket(b)' =
              IF b = hash[req.key] THEN {i} \cup InBucket(b) ELSE InBucket(b)
         /\ \A j \in Item \ {i} : next'[j] = next[j]
<1> DEFINE b0 == hash[req.key]
           h  == hashtable[hash[req.key]]
<1>0. TypeOK /\ pc = "alloc" /\ PreClass \in Class /\ ReqClass \in Class
  BY PageFacts, ClsidFacts DEF IInv, insert_new, ReqClass
<1>1. req \in SetRequest /\ b0 \in Bucket
  BY <1>0, ReqFacts DEF TypeOK, Request
<1>2. i = slots[ReqClass] /\ sl_curr[ReqClass] # 0
  BY DEF insert_new, slabs_alloc
<1>3. ReqClass = PreClass /\ i \in Free(PreClass)
  BY <1>0, <1>2, ListFacts, PageFacts DEF IInv, ChunksPartitioned
<1>4. i \notin Linked /\ InHand = {}
  BY <1>0, <1>3, ListFacts DEF InHand
<1>5. IsLink(next, Item) /\ h \in Item \cup {NULL} /\ next[i] \in Item \cup {NULL}
  BY <1>0, <1>1, ListFacts DEF TypeOK, IsLink
<1>6. /\ next' = [next EXCEPT ![i] = h]
      /\ hashtable' = [hashtable EXCEPT ![b0] = i]
      /\ slots' = [slots EXCEPT ![PreClass] = next[i]]
      /\ sl_curr' = [sl_curr EXCEPT ![PreClass] = @ - 1]
      /\ prev' = SetLink([SetLink(prev, next[i], NULL) EXCEPT ![i] = NULL], h, i)
  BY <1>3 DEF insert_new, slabs_alloc, UnlinkFirst
<1>7. Relinked(next, next', i, h, Item)
  BY <1>5, <1>6, RelinkExcept
<1>8. IsLink(next', Item)
  BY <1>7 DEF Relinked
<1>9. /\ next' \in [Item -> Item \cup {NULL}]
      /\ prev' \in [Item -> Item \cup {NULL}]
      /\ slots' \in [Class -> Item \cup {NULL}]
      /\ hashtable' \in [Bucket -> Item \cup {NULL}]
  BY <1>0, <1>5, <1>6, <1>8 DEF TypeOK, SetLink, IsLink
<1>10. sl_curr' \in [Class -> Nat]
  <2>1. sl_curr[PreClass] \in Nat /\ sl_curr[PreClass] # 0
    BY <1>0, <1>2, <1>3 DEF TypeOK
  <2>2. sl_curr[PreClass] - 1 \in Nat
    BY <2>1
  <2> QED BY <1>0, <1>6, <2>2 DEF TypeOK
<1>11. i \notin Chain(next, next[i]) /\ i \notin Chain(next, h)
  BY <1>1, <1>4, <1>5, ListFacts DEF IInv, WalksEnd, Acyclic, IsLink, InBucket
<1>12. WalksEnd'
  <2>1. \A j \in Item \ {i} : i \notin Chain(next, next[j])
    BY <1>2, <1>3, <1>4, NothingLeadsTo
  <2>2. Acyclic(next')
    BY <1>5, <1>7, <1>11, <2>1, AcyclicPush DEF IInv, WalksEnd
  <2> QED BY <2>2 DEF WalksEnd
<1>13. Free(PreClass)' = Free(PreClass) \ {i}
  <2>1. Chain(next', next[i]) = Chain(next, next[i])
    BY <1>5, <1>7, <1>11, ChainElsewhere
  <2>2. Chain(next, next[i]) = Chain(next, i) \ {i}
    BY <1>5, <1>11, ChainPop
  <2>3. slots'[PreClass] = next[i]
    BY <1>0, <1>6 DEF TypeOK
  <2> QED BY <1>2, <1>3, <2>1, <2>2, <2>3 DEF Free
<1>14. \A c \in Class \ {PreClass} : Free(c)' = {}
  <2> TAKE c \in Class \ {PreClass}
  <2>1. slots'[c] = NULL
    BY <1>0, <1>6, ListFacts DEF TypeOK
  <2> QED BY <1>8, <2>1, ChainNull DEF Free
<1>15. \A b \in Bucket : InBucket(b)' = IF b = b0 THEN {i} \cup InBucket(b) ELSE InBucket(b)
  <2> TAKE b \in Bucket
  <2>1. CASE b = b0
    <3>1. Chain(next', i) = {i} \cup Chain(next, h)
      BY <1>5, <1>7, <1>11, ChainPush
    <3>2. hashtable'[b] = i
      BY <1>0, <1>6, <2>1 DEF TypeOK
    <3> QED BY <2>1, <3>1, <3>2 DEF InBucket
  <2>2. CASE b # b0
    <3>1. i \notin Chain(next, hashtable[b]) /\ hashtable[b] \in Item \cup {NULL}
      BY <1>0, <1>4, ListFacts DEF InBucket, TypeOK
    <3>2. Chain(next', hashtable[b]) = Chain(next, hashtable[b])
      BY <1>5, <1>7, <3>1, ChainElsewhere
    <3>3. hashtable'[b] = hashtable[b]
      BY <1>0, <1>6, <2>2 DEF TypeOK
    <3> QED BY <2>2, <3>2, <3>3 DEF InBucket
  <2> QED BY <2>1, <2>2
<1>16. FreeCounted'
  <2>1. ASSUME NEW c \in Class \ {PreClass} PROVE sl_curr'[c] = Cardinality(Free(c)')
    <3>1. sl_curr'[c] = sl_curr[c] /\ Free(c) = {}
      BY <1>0, <1>6 DEF TypeOK, IInv, ChunksPartitioned
    <3> QED BY <3>1, <1>14 DEF IInv, FreeCounted
  <2>2. sl_curr'[PreClass] = Cardinality(Free(PreClass)')
    <3>1. sl_curr'[PreClass] = sl_curr[PreClass] - 1
      BY <1>0, <1>6 DEF TypeOK
    <3>2. IsFiniteSet(Item)
      BY PageFacts, FS_Interval DEF Item
    <3>3. IsFiniteSet(Free(PreClass))
      BY <3>2, ListFacts, FS_Subset
    <3>4. Cardinality(Free(PreClass) \ {i}) = Cardinality(Free(PreClass)) - 1
      BY <1>3, <3>3, FS_RemoveElement
    <3>5. sl_curr[PreClass] = Cardinality(Free(PreClass))
      BY <1>0 DEF IInv, FreeCounted
    <3> QED BY <1>13, <3>1, <3>4, <3>5
  <2> QED BY <2>1, <2>2 DEF FreeCounted
<1>17. \A j \in Item \ {i} : next'[j] = next[j]
  BY <1>7 DEF Relinked
<1>18. BackLinks'
  <2>1. next[i] \in Free(PreClass) \cup {NULL}
    BY <1>3, <1>5, ChainClosed DEF Free, Closed
  <2>2. \A j \in Linked : j \in Item /\ j # i /\ j # next[i]
    BY <1>4, <2>1, ListFacts, PageFacts
  <2>3. h # NULL => h \in Linked
    BY <1>1, ListFacts
  <2>4. \A j \in Linked : prev'[j] = IF j = h THEN i ELSE prev[j]
    <3> DEFINE q == [SetLink(prev, next[i], NULL) EXCEPT ![i] = NULL]
    <3>1. DOMAIN q = Item /\ \A j \in Linked : q[j] = prev[j]
      BY <1>0, <1>5, <2>2 DEF SetLink, TypeOK
    <3>2. prev' = SetLink(q, h, i)
      BY <1>6
    <3> HIDE DEF q
    <3>3. CASE h = NULL
      BY <2>2, <3>1, <3>2, <3>3, PageFacts DEF SetLink
    <3>4. CASE h # NULL
      <4>1. prev' = [q EXCEPT ![h] = i]
        BY <3>2, <3>4 DEF SetLink
      <4> QED BY <2>2, <3>1, <4>1
    <3> QED BY <3>3, <3>4
  <2>5. prev'[i] = NULL
    BY <1>0, <1>5, <1>6, <2>2, <2>3 DEF SetLink, TypeOK
  <2>6. ASSUME NEW b \in Bucket, hashtable'[b] # NULL
        PROVE  prev'[hashtable'[b]] = NULL
    <3>1. CASE b = b0
      BY <1>0, <1>6, <2>5, <3>1 DEF TypeOK
    <3>2. CASE b # b0
      <4>1. hashtable'[b] = hashtable[b] /\ hashtable[b] \in InBucket(b)
        BY <1>0, <1>6, <2>6, <3>2, ListFacts DEF TypeOK
      <4>2. hashtable[b] # h
        BY <1>1, <2>6, <3>2, <4>1, ListFacts DEF IInv, ChunksPartitioned
      <4>3. hashtable[b] \in Linked /\ prev[hashtable[b]] = NULL
        BY <2>6, <4>1, ListFacts DEF IInv, BackLinks
      <4> QED BY <2>4, <4>1, <4>2, <4>3
    <3> QED BY <3>1, <3>2
  <2>7. ASSUME NEW j \in Linked', next'[j] # NULL
        PROVE  prev'[next'[j]] = j
    <3>1. j = i \/ j \in Linked
      <4>1. \A b \in Bucket : InBucket(b)' \subseteq {i} \cup InBucket(b)
        BY <1>15
      <4> QED BY <4>1 DEF Linked
    <3>2. CASE j = i
      <4>1. next'[j] = h
        BY <1>7, <3>2 DEF Relinked
      <4> QED BY <2>3, <2>4, <2>7, <3>2, <4>1
    <3>3. CASE j \in Linked
      <4>1. next'[j] = next[j]
        BY <1>17, <2>2, <3>3
      <4>2. next[j] \in Linked /\ prev[next[j]] = j
        BY <2>7, <3>3, <4>1, ListFacts DEF Linked, IInv, BackLinks
      <4>3. next[j] # h
        BY <1>1, <2>2, <2>7, <3>3, <4>1, <4>2, PageFacts DEF IInv, BackLinks
      <4> QED BY <2>4, <4>1, <4>2, <4>3
    <3> QED BY <3>1, <3>2, <3>3
  <2> QED BY <2>6, <2>7 DEF BackLinks
<1> QED BY <1>3, <1>4, <1>9, <1>10, <1>12, <1>13, <1>14, <1>15, <1>16, <1>17, <1>18

(* cache_set stores the new item. *)
LEMMA InsertPreserves ==
  ASSUME IInv, NEW i \in Item, insert_new(i)
  PROVE  IInv'
<1> DEFINE b0 == hash[req.key]
<1>0. TypeOK /\ pc = "alloc" /\ PreClass \in Class /\ req \in SetRequest
  BY PageFacts DEF IInv, insert_new, TypeOK
<1>1. b0 \in Bucket /\ req.key \in Key /\ req.value \in Value
  BY <1>0, ReqFacts DEF Request, SetRequest
<1>2. /\ ReqClass = PreClass /\ i \in Free(PreClass) /\ i \notin Linked
      /\ next' \in [Item -> Item \cup {NULL}]
      /\ prev' \in [Item -> Item \cup {NULL}]
      /\ slots' \in [Class -> Item \cup {NULL}]
      /\ sl_curr' \in [Class -> Nat]
      /\ hashtable' \in [Bucket -> Item \cup {NULL}]
      /\ WalksEnd' /\ FreeCounted' /\ BackLinks'
      /\ Free(PreClass)' = Free(PreClass) \ {i}
      /\ \A c \in Class \ {PreClass} : Free(c)' = {}
      /\ \A b \in Bucket : InBucket(b)' =
           IF b = b0 THEN {i} \cup InBucket(b) ELSE InBucket(b)
      /\ \A j \in Item \ {i} : next'[j] = next[j]
  BY InsertEffect
<1>3. /\ pc' = "idle" /\ req' = NULL /\ it' = NULL /\ nsplit' = nsplit /\ slabs' = slabs
      /\ ret' = [rc |-> 0, value |-> NULL]
      /\ clsid' = [clsid EXCEPT ![i] = PreClass]
      /\ ikey' = [ikey EXCEPT ![i] = req.key]
      /\ ival' = [ival EXCEPT ![i] = req.value] /\ table' = table
  BY <1>2 DEF insert_new, slabs_alloc, Return
<1>4. InHand = {} /\ InHand' = {}
  BY <1>0, <1>3 DEF InHand
<1>5. ret' \in Answer
  BY <1>3 DEF Answer
<1>6. TypeOK'
  BY <1>0, <1>1, <1>2, <1>3, <1>5 DEF TypeOK
<1>7. Linked' = {i} \cup Linked
  <2>1. \A b \in Bucket : InBucket(b)' \subseteq {i} \cup InBucket(b)
    BY <1>2
  <2>2. \A b \in Bucket : InBucket(b) \subseteq InBucket(b)'
    BY <1>2
  <2>3. i \in Linked'
    <3>1. \A b \in Bucket : b = b0 => i \in InBucket(b)'
      BY <1>2
    <3>2. \E b \in Bucket : i \in InBucket(b)'
      BY <1>1, <3>1
    <3> QED BY <3>2 DEF Linked
  <2> QED BY <2>1, <2>2, <2>3 DEF Linked
<1>8. ChunksPartitioned'
  <2>1. \A b \in Bucket : i \notin InBucket(b)
    BY <1>2, ListFacts
  <2> QED BY <1>2, <1>3, <1>4, <1>7, <2>1 DEF IInv, ChunksPartitioned
<1>9. \A j \in Linked : j \in Item /\ j # i
  BY <1>2, ListFacts
<1>10. /\ ikey'[i] = req.key /\ ival'[i] = req.value /\ clsid'[i] = PreClass
       /\ \A j \in Linked : ikey'[j] = ikey[j] /\ ival'[j] = ival[j] /\ clsid'[j] = clsid[j]
  BY <1>0, <1>3, <1>9 DEF TypeOK
<1>11. KeysInPlace'
  <2>1. ASSUME NEW b \in Bucket, NEW j \in InBucket(b)'
        PROVE  ikey'[j] \in Key /\ ival'[j] \in Value /\ hash[ikey'[j]] = b
    <3>1. (j = i /\ b = b0) \/ j \in InBucket(b)
      BY <1>2, <2>1
    <3>2. CASE j \in InBucket(b)
      BY <1>10, <3>2, ListFacts DEF IInv, KeysInPlace
    <3> QED BY <1>1, <1>10, <3>1, <3>2
  <2>2. \A j \in Linked : ikey[j] # req.key
    BY <1>0 DEF IInv, Phases
  <2>3. \A j, k \in Linked' : ikey'[j] = ikey'[k] => j = k
    BY <1>7, <1>10, <2>2 DEF IInv, KeysInPlace
  <2> QED BY <2>1, <2>3 DEF KeysInPlace
<1>12. ItemsFit'
  <2>1. SizeOf(req.key, req.value) <= class_size[PreClass]
    BY <1>2, ClsidFacts, PageFacts DEF ReqClass
  <2>2. SizeOf(ikey'[i], ival'[i]) <= class_size[PreClass]
    BY <1>10, <2>1
  <2>3. \A j \in Linked : SizeOf(ikey'[j], ival'[j]) <= class_size[PreClass] /\ clsid'[j] = PreClass
    BY <1>10 DEF IInv, ItemsFit
  <2> QED BY <1>4, <1>7, <1>10, <2>2, <2>3 DEF ItemsFit
<1>13. WalkMissesNothing'
  BY <1>3 DEF WalkMissesNothing
<1>14. Phases'
  <2>1. \A j \in nsplit .. perslab - 1 : j \in Item \ {i}
    BY <1>0, <1>2, PageFacts, ListFacts DEF TypeOK, Item
  <2>2. \A j \in nsplit' .. perslab - 1 : next'[j] = NULL
    BY <1>2, <1>3, <2>1 DEF IInv, Phases
  <2> QED BY <1>0, <1>3, <2>2 DEF IInv, Phases
<1> QED BY <1>2, <1>6, <1>8, <1>11, <1>12, <1>13, <1>14 DEF IInv

-----------------------------------------------------------------------------
(* A step that touches neither links nor items keeps every list, and what  *)
(* is said of the lists.                                                   *)
LEMMA QuietEffect ==
  ASSUME IInv, UNCHANGED <<next, prev, clsid, slots, sl_curr, nsplit, cacheVars>>,
         pc # "free", pc' # "free"
  PROVE  /\ WalksEnd' /\ ChunksPartitioned' /\ BackLinks' /\ KeysInPlace'
         /\ FreeCounted' /\ ItemsFit'
         /\ Linked' = Linked /\ \A b \in Bucket : InBucket(b)' = InBucket(b)
<1>1. \A b \in Bucket : InBucket(b)' = InBucket(b)
  BY DEF InBucket, cacheVars
<1>2. \A c \in Class : Free(c)' = Free(c)
  BY DEF Free
<1>3. Linked' = Linked
  BY <1>1 DEF Linked
<1>4. InHand = {} /\ InHand' = {}
  BY DEF InHand
<1>5. PreClass \in Class
  BY PageFacts
<1>6. WalksEnd'
  BY DEF IInv, WalksEnd
<1>7. ChunksPartitioned'
  BY <1>1, <1>2, <1>3, <1>4, <1>5 DEF IInv, ChunksPartitioned
<1>8. BackLinks'
  BY <1>3 DEF IInv, BackLinks, cacheVars
<1>9. KeysInPlace'
  BY <1>1, <1>3 DEF IInv, KeysInPlace, cacheVars
<1>10. FreeCounted'
  BY <1>2 DEF IInv, FreeCounted
<1>11. ItemsFit'
  BY <1>3, <1>4 DEF IInv, ItemsFit, cacheVars
<1> QED BY <1>1, <1>3, <1>6, <1>7, <1>8, <1>9, <1>10, <1>11

(* The two ends of slab_init: getting the page, and recording it. *)
LEMMA BootPreserves ==
  ASSUME IInv, slab_preallocate \/ slab_preallocated, UNCHANGED <<cacheVars, req, it, ret>>
  PROVE  IInv'
<1>1. /\ UNCHANGED <<next, prev, clsid, slots, sl_curr, nsplit, cacheVars, req, it, ret>>
      /\ pc \in {"init", "split"}
      /\ pc' \in {"crashed", "idle", "split"}
  BY DEF slab_preallocate, slab_preallocated, slabVars
<1>2. /\ WalksEnd' /\ ChunksPartitioned' /\ BackLinks' /\ KeysInPlace'
      /\ FreeCounted' /\ ItemsFit' /\ Linked' = Linked
  BY <1>1, QuietEffect
<1>3. TypeOK'
  <2>1. slabs' \in [Class -> Nat]
    <3>1. CASE slab_preallocate
      BY <3>1 DEF slab_preallocate, slabVars, IInv, TypeOK
    <3>2. CASE slab_preallocated
      <4>1. slabs[PreClass] + 1 \in Nat
        BY PageFacts DEF IInv, TypeOK
      <4> QED BY <3>2, <4>1 DEF slab_preallocated, WithPage, IInv, TypeOK
    <3> QED BY <3>1, <3>2
  <2> QED BY <1>1, <2>1 DEF IInv, TypeOK, cacheVars
<1>4. WalkMissesNothing'
  BY <1>1 DEF WalkMissesNothing
<1>5. Phases'
  <2>1. pc' = "split" \/ nsplit' \in {0, perslab}
    BY DEF IInv, Phases, slab_preallocate, slab_preallocated
  <2> QED BY <1>1, <2>1 DEF IInv, Phases, cacheVars
<1> QED BY <1>2, <1>3, <1>4, <1>5 DEF IInv

(* A call starts at the head of its key's bucket, where nothing is missed. *)
LEMMA CallPreserves ==
  ASSUME IInv, NEW r \in Request, Call(r)
  PROVE  IInv'
<1> DEFINE b0 == hash[r.key]
<1>1. /\ UNCHANGED <<next, prev, clsid, slots, sl_curr, slabs, nsplit, cacheVars, ret>>
      /\ pc = "idle" /\ pc' = "find" /\ req' = r /\ it' = hashtable[b0]
  BY DEF Call, slabVars
<1>2. /\ WalksEnd' /\ ChunksPartitioned' /\ BackLinks' /\ KeysInPlace'
      /\ FreeCounted' /\ ItemsFit' /\ Linked' = Linked
      /\ \A b \in Bucket : InBucket(b)' = InBucket(b)
  BY <1>1, QuietEffect
<1>3. r.key \in Key /\ b0 \in Bucket
  BY KeyAssumption DEF Request, GetRequest, SetRequest
<1>4. it' \in InBucket(b0) \cup {NULL} /\ it' \in Item \cup {NULL}
  BY <1>1, <1>3, ListFacts
<1>5. TypeOK'
  BY <1>1, <1>4 DEF IInv, TypeOK, cacheVars
<1>6. WalkMissesNothing'
  <2>1. it' \in InBucket(hash[req.key])' \cup {NULL}
    BY <1>1, <1>3, <1>4 DEF InBucket, cacheVars
  <2>2. ASSUME NEW i \in Linked', ikey'[i] = req'.key
        PROVE  i \in Chain(next', it')
    <3>1. PICK b \in Bucket : i \in InBucket(b)
      BY <1>2 DEF Linked
    <3>2. b = b0
      BY <1>1, <2>2, <3>1 DEF IInv, KeysInPlace, cacheVars
    <3> QED BY <1>1, <3>1, <3>2 DEF InBucket, cacheVars
  <2> QED BY <2>1, <2>2 DEF WalkMissesNothing
<1>7. Phases'
  BY <1>1 DEF IInv, Phases, cacheVars
<1> QED BY <1>2, <1>5, <1>6, <1>7 DEF IInv

(* An iteration of the walk leaves behind only items with other keys. *)
LEMMA WalkPreserves ==
  ASSUME IInv, WalkOn
  PROVE  IInv'
<1>1. /\ UNCHANGED <<next, prev, clsid, slots, sl_curr, slabs, nsplit, cacheVars, ret, req, pc>>
      /\ pc = "find" /\ it # NULL /\ ikey[it] # req.key /\ it' = next[it]
  BY DEF WalkOn, Matches, slabVars
<1>2. /\ WalksEnd' /\ ChunksPartitioned' /\ BackLinks' /\ KeysInPlace'
      /\ FreeCounted' /\ ItemsFit' /\ Linked' = Linked
      /\ \A b \in Bucket : InBucket(b)' = InBucket(b)
  BY <1>1, QuietEffect
<1>3. hash[req.key] \in Bucket /\ it \in InBucket(hash[req.key])
  BY <1>1, ReqFacts DEF IInv, TypeOK, WalkMissesNothing
<1>4. it \in Item /\ next[it] \in InBucket(hash[req.key]) \cup {NULL}
  BY <1>3, ListFacts
<1>5. TypeOK'
  BY <1>1, <1>4 DEF IInv, TypeOK, cacheVars
<1>6. WalkMissesNothing'
  <2>1. it' \in InBucket(hash[req.key])' \cup {NULL}
    BY <1>1, <1>4 DEF InBucket, cacheVars
  <2>2. Chain(next, it) = {it} \cup Chain(next, next[it])
    BY <1>4, ListFacts, ChainCons
  <2>3. \A i \in Linked' : ikey'[i] = req'.key => i \in Chain(next', it')
    BY <1>1, <1>2, <2>2 DEF IInv, WalkMissesNothing, cacheVars
  <2> QED BY <2>1, <2>3 DEF WalkMissesNothing
<1>7. Phases'
  BY <1>1 DEF IInv, Phases, cacheVars
<1> QED BY <1>2, <1>5, <1>6, <1>7 DEF IInv

(* A get answers with a value of the cache, and changes nothing. *)
LEMMA GetPreserves ==
  ASSUME IInv, cache_get
  PROVE  IInv'
<1>1. /\ UNCHANGED <<next, prev, clsid, slots, sl_curr, slabs, nsplit, cacheVars>>
      /\ pc = "find" /\ pc' = "idle" /\ req' = NULL /\ it' = NULL /\ req.op = "get"
  BY DEF cache_get, Return, slabVars
<1>2. /\ WalksEnd' /\ ChunksPartitioned' /\ BackLinks' /\ KeysInPlace'
      /\ FreeCounted' /\ ItemsFit'
  BY <1>1, QuietEffect
<1>3. req \in GetRequest /\ hash[req.key] \in Bucket
  BY <1>1, ReqFacts DEF IInv, TypeOK
<1>4. ret' \in Answer
  <2>1. CASE it = NULL
    BY <2>1 DEF cache_get, Return, Answer
  <2>2. CASE it # NULL
    <3>1. it \in InBucket(hash[req.key])
      BY <1>1, <2>2 DEF IInv, WalkMissesNothing
    <3>2. ival[it] \in Value
      BY <1>3, <3>1 DEF IInv, KeysInPlace
    <3>3. nval[ival[it]] \in Int /\ req.maxnval - 1 \in Int
      <4>1. req.maxnval \in Nat
        BY <1>3, KeyAssumption DEF GetRequest
      <4>2. nval[ival[it]] \in Nat
        BY <3>2, KeyAssumption
      <4> QED BY <4>1, <4>2
    <3>4. Bytes(nval[ival[it]], req.maxnval - 1) \in Int
      BY <3>3 DEF Bytes
    <3> QED BY <2>2, <3>2, <3>4 DEF cache_get, Return, Answer
  <2> QED BY <2>1, <2>2
<1>5. TypeOK'
  BY <1>1, <1>4 DEF IInv, TypeOK, cacheVars
<1>6. WalkMissesNothing'
  BY <1>1 DEF WalkMissesNothing
<1>7. Phases'
  BY <1>1 DEF IInv, Phases, cacheVars
<1> QED BY <1>2, <1>5, <1>6, <1>7 DEF IInv

(* A set that finds no old item, one that gets no chunk and one that       *)
(* faults leave the lists alone.                                           *)
LEMMA QuietSetPreserves ==
  ASSUME IInv, unlink_missed \/ alloc_failed \/ alloc_oversize
  PROVE  IInv'
<1>1. /\ UNCHANGED <<next, prev, clsid, slots, sl_curr, slabs, nsplit, cacheVars>>
      /\ pc \in {"find", "alloc"} /\ pc' \in {"alloc", "idle", "crashed"}
  BY DEF unlink_missed, alloc_failed, alloc_oversize, Return, slabVars
<1>2. /\ WalksEnd' /\ ChunksPartitioned' /\ BackLinks' /\ KeysInPlace'
      /\ FreeCounted' /\ ItemsFit' /\ Linked' = Linked
  BY <1>1, QuietEffect
<1>3. /\ it' \in Item \cup {NULL}
      /\ req' \in Request \cup {NULL}
      /\ ret' \in Answer \cup {NULL}
      /\ pc' = "alloc" => pc = "find" /\ it = NULL /\ req' = req /\ req \in SetRequest
  <2>1. CASE unlink_missed
    BY <1>1, <2>1, ReqFacts DEF unlink_missed, IInv, TypeOK
  <2>2. CASE alloc_failed
    BY <2>2 DEF alloc_failed, Return, Answer
  <2>3. CASE alloc_oversize
    BY <2>3 DEF alloc_oversize, IInv, TypeOK
  <2> QED BY <2>1, <2>2, <2>3
<1>4. TypeOK'
  BY <1>1, <1>3 DEF IInv, TypeOK, cacheVars, Request
<1>5. WalkMissesNothing'
  BY <1>1 DEF WalkMissesNothing
<1>6. Phases'
  <2>1. ASSUME pc' = "alloc" PROVE \A i \in Linked' : ikey'[i] # req'.key
    <3>1. Chain(next, it) = {}
      BY <1>3, <2>1, ListFacts, ChainNull
    <3> QED BY <1>1, <1>2, <1>3, <2>1, <3>1 DEF IInv, WalkMissesNothing, cacheVars
  <2>2. pc' # "split" /\ pc' # "init" /\ pc' # "free" /\ pc # "split"
    BY <1>1
  <2> QED BY <1>1, <2>1, <2>2 DEF IInv, Phases, cacheVars
<1> QED BY <1>2, <1>4, <1>5, <1>6 DEF IInv

(* A call without a table ends the program. *)
LEMMA FaultPreserves ==
  ASSUME IInv, call_faults
  PROVE  IInv'
<1>1. /\ UNCHANGED <<next, prev, clsid, slots, sl_curr, slabs, nsplit, cacheVars, req, it, ret>>
      /\ pc = "idle" /\ pc' = "crashed"
  BY DEF call_faults, slabVars
<1>2. /\ WalksEnd' /\ ChunksPartitioned' /\ BackLinks' /\ KeysInPlace'
      /\ FreeCounted' /\ ItemsFit'
  BY <1>1, QuietEffect
<1>3. TypeOK'
  BY <1>1 DEF IInv, TypeOK, cacheVars
<1>4. WalkMissesNothing' /\ Phases'
  BY <1>1 DEF IInv, WalkMissesNothing, Phases, cacheVars
<1> QED BY <1>2, <1>3, <1>4 DEF IInv

(* A stuttering step changes nothing. *)
LEMMA StutterPreserves ==
  ASSUME IInv, UNCHANGED vars
  PROVE  IInv'
BY DEF vars, slabVars, cacheVars, IInv, TypeOK, WalksEnd, ChunksPartitioned, BackLinks,
       KeysInPlace, FreeCounted, ItemsFit, WalkMissesNothing, Phases, Linked, InBucket,
       Free, InHand

(* Every step of the program preserves the invariant. *)
LEMMA NextIInv == IInv /\ [Next]_vars => IInv'
<1> SUFFICES ASSUME IInv, [Next]_vars
             PROVE  IInv'
  OBVIOUS
<1>1. CASE cache_init
  BY <1>1, BootPreserves, SplitPreserves DEF cache_init
<1>2. CASE WalkOn
  BY <1>2, WalkPreserves
<1>3. CASE cache_get
  BY <1>3, GetPreserves
<1>4. CASE cache_set
  BY <1>4, UnlinkPreserves, FreeOldPreserves, InsertPreserves, QuietSetPreserves DEF cache_set
<1>5. CASE \E r \in Request : Call(r)
  BY <1>5, CallPreserves
<1>6. CASE call_faults
  BY <1>6, FaultPreserves
<1>7. CASE Halted \/ UNCHANGED vars
  BY <1>7, StutterPreserves DEF Halted
<1> QED BY <1>1, <1>2, <1>3, <1>4, <1>5, <1>6, <1>7 DEF Next, Step

-----------------------------------------------------------------------------
(* The inductive invariant holds in every reachable state. *)
THEOREM Invariance == Spec => []IInv
BY InitIInv, NextIInv, PTL DEF Spec

(* No variable ever leaves its type: in particular every pointer is null   *)
(* or points at a chunk of the page, and the count of free chunks never    *)
(* goes below zero.                                                        *)
THEOREM TypeCorrect == Spec => []TypeOK
<1>1. IInv => TypeOK
  BY DEF IInv
<1> QED BY <1>1, Invariance, PTL

(* Every chunk is on exactly one list: set neither leaks chunks nor hands  *)
(* out one that is in use.                                                 *)
THEOREM ChunksNeverShared == Spec => []ChunksPartitioned
<1>1. IInv => ChunksPartitioned
  BY DEF IInv
<1> QED BY <1>1, Invariance, PTL

(* The walks along buckets and free lists come to an end. *)
THEOREM WalksTerminate == Spec => []WalksEnd
<1>1. IInv => WalksEnd
  BY DEF IInv
<1> QED BY <1>1, Invariance, PTL

(* prev mirrors next in every bucket, although slabs_free leaves stale     *)
(* prev pointers behind.                                                   *)
THEOREM PrevMirrorsNext == Spec => []BackLinks
<1>1. IInv => BackLinks
  BY DEF IInv
<1> QED BY <1>1, Invariance, PTL

(* A key is stored once, and where cache_get looks for it. *)
THEOREM KeysUnique == Spec => []KeysInPlace
<1>1. IInv => KeysInPlace
  BY DEF IInv
<1> QED BY <1>1, Invariance, PTL

(* The test of sl_curr in slabs_alloc guards its use of the list head. *)
THEOREM CountsExact == Spec => []FreeCounted
<1>1. IInv => FreeCounted
  BY DEF IInv
<1> QED BY <1>1, Invariance, PTL

(* Items fit their chunks and go back to the list they came from. *)
THEOREM ItemsAlwaysFit == Spec => []ItemsFit
<1>1. IInv => ItemsFit
  BY DEF IInv
<1> QED BY <1>1, Invariance, PTL

(* A search never passes the key it is looking for. *)
THEOREM SearchComplete == Spec => []WalkMissesNothing
<1>1. IInv => WalkMissesNothing
  BY DEF IInv
<1> QED BY <1>1, Invariance, PTL

-----------------------------------------------------------------------------
(* The memory in use. *)

(* The page is recorded when all of it is on the free list, or there is    *)
(* none.                                                                   *)
Pages ==
  /\ \A c \in Class \ {PreClass} : slabs[c] = 0
  /\ pc \in {"init", "split"} => slabs[PreClass] = 0
  /\ pc = "init" => nsplit = 0
  /\ pc \notin {"init", "split"} =>
       \/ slabs[PreClass] = 1 /\ nsplit = perslab
       \/ slabs[PreClass] = 0 /\ nsplit = 0

LEMMA InitPages == Init => Pages
BY PageFacts DEF Init, SlabsInit, Pages

LEMMA NextPages == IInv /\ Pages /\ [Next]_vars => Pages'
<1> SUFFICES ASSUME IInv, Pages, [Next]_vars PROVE Pages'
  OBVIOUS
<1>0. slabs \in [Class -> Nat] /\ PreClass \in Class
  BY PageFacts DEF IInv, TypeOK
<1> USE DEF Pages, slabVars, cacheVars
<1>1. CASE slab_preallocate
  BY <1>1 DEF slab_preallocate
<1>2. CASE split_slab_page_into_freelist
  BY <1>2 DEF split_slab_page_into_freelist
<1>3. CASE slab_preallocated
  BY <1>0, <1>3 DEF slab_preallocated, WithPage
<1>4. CASE WalkOn \/ cache_get
  BY <1>4 DEF WalkOn, cache_get, Return
<1>5. CASE cache_set
  BY <1>5 DEF cache_set, item_unlink, unlink_missed, free_old, slabs_free, insert_new,
              slabs_alloc, alloc_failed, alloc_oversize, Return
<1>6. CASE (\E r \in Request : Call(r)) \/ call_faults
  BY <1>6 DEF Call, call_faults
<1>7. CASE Halted \/ UNCHANGED vars
  BY <1>7 DEF Halted, vars
<1> QED BY <1>1, <1>2, <1>3, <1>4, <1>5, <1>6, <1>7 DEF Next, Step, cache_init

(* The loop of slabs_memory_used adds up to the bytes of one class. *)
LEMMA UsedInClass ==
  ASSUME IInv, Pages
  PROVE  slabs_memory_used = slabs[PreClass] * slab_page_size - sl_curr[PreClass] * class_size[PreClass]
<1> DEFINE t == [c \in Class |-> slabs[c] * slab_page_size - sl_curr[c] * class_size[c]]
           P(f) == f = [n \in 0 .. nclasses |-> IF n = 0 THEN 0 ELSE f[n - 1] +
                          (slabs[n - 1] * slab_page_size - sl_curr[n - 1] * class_size[n - 1])]
           e == CHOOSE f : P(f)
<1>0. slabs_memory_used = e[nclasses]
  BY DEF slabs_memory_used
<1>1. Class = 0 .. nclasses - 1 /\ nclasses \in Nat /\ PreClass \in Class /\ slab_page_size \in Nat
  BY PageFacts, PageAssumption, ClassAssumption DEF Class, MAX_NUMBER_OF_SLAB_CLASSES
<1>2. ASSUME NEW c \in Class
      PROVE  /\ slabs[c] \in Nat /\ sl_curr[c] \in Nat /\ class_size[c] \in Nat
             /\ c # PreClass => slabs[c] = 0 /\ sl_curr[c] = 0
  <2>1. slabs[c] \in Nat /\ sl_curr[c] \in Nat /\ class_size[c] \in Nat
    BY ClassAssumption DEF IInv, TypeOK
  <2>2. c # PreClass => Free(c) = {}
    BY DEF IInv, ChunksPartitioned
  <2>3. c # PreClass => sl_curr[c] = 0
    BY <2>2, FS_EmptySet DEF IInv, FreeCounted
  <2> QED BY <2>1, <2>3 DEF Pages
<1>3. ASSUME NEW c \in Class
      PROVE  slabs[c] * slab_page_size - sl_curr[c] * class_size[c] \in Int
  BY <1>1, <1>2
<1>4. t \in [0 .. nclasses - 1 -> Int] /\ \A c \in Class : c # PreClass => t[c] = 0
  BY <1>1, <1>2, <1>3
<1>5. \A n \in 1 .. nclasses : n - 1 \in Class /\
         t[n - 1] = slabs[n - 1] * slab_page_size - sl_curr[n - 1] * class_size[n - 1]
  BY <1>1
<1> HIDE DEF t
<1>6. PICK s : Sums(s, t, nclasses)
  BY <1>1, <1>4, SumsExist
<1>7. P(s)
  BY <1>1, <1>5, <1>6 DEF Sums
<1>8. P(e)
  <2> HIDE DEF P
  <2> QED BY <1>7
<1>9. /\ e = [n \in 0 .. nclasses |-> e[n]] /\ e[0] = 0
      /\ \A n \in 1 .. nclasses : e[n] = e[n - 1] + t[n - 1]
  <2> HIDE DEF e, P
  <2>1. e = [n \in 0 .. nclasses |-> IF n = 0 THEN 0 ELSE e[n - 1] +
               (slabs[n - 1] * slab_page_size - sl_curr[n - 1] * class_size[n - 1])]
    BY <1>8 DEF P
  <2>2. e = [n \in 0 .. nclasses |-> e[n]] /\ e[0] = 0
    BY <1>1, <2>1
  <2>3. ASSUME NEW n \in 1 .. nclasses PROVE e[n] = e[n - 1] + t[n - 1]
    <3>1. n \in 0 .. nclasses /\ n # 0
      BY <1>1
    <3>2. e[n] = e[n - 1] + (slabs[n - 1] * slab_page_size - sl_curr[n - 1] * class_size[n - 1])
      BY <2>1, <3>1, Zenon
    <3> QED BY <1>5, <3>2, Zenon
  <2> QED BY <2>2, <2>3
<1> HIDE DEF e
<1>10. e \in [0 .. nclasses -> Int]
  <2> DEFINE T == {x \in 0 .. nclasses : e[x] \notin Int}
  <2>0. T = {}
    <3> SUFFICES ASSUME T # {} PROVE FALSE
      OBVIOUS
    <3>1. PICK x \in T : \A y \in T : x <= y
      <4>1. T \in SUBSET Nat
        BY <1>1
      <4> HIDE DEF T
      <4> QED BY <4>1, LeastNat
    <3>2. x # 0 /\ x \in 1 .. nclasses /\ x - 1 \in 0 .. nclasses - 1 /\ x - 1 \in 0 .. nclasses /\ x - 1 < x
      BY <1>1, <1>9
    <3>3. e[x - 1] \in Int /\ t[x - 1] \in Int
      BY <1>4, <3>1, <3>2
    <3>4. e[x] = e[x - 1] + t[x - 1]
      BY <1>9, <3>2
    <3>5. e[x] \in Int
      BY <3>3, <3>4
    <3> QED BY <3>1, <3>5
  <2> QED BY <1>9, <2>0
<1>11. Sums(e, t, nclasses)
  BY <1>9, <1>10 DEF Sums
<1>12. e[nclasses] = t[PreClass]
  BY <1>1, <1>4, <1>11, SumOfOne
<1> QED BY <1>0, <1>1, <1>12 DEF t

(* slabs_memory_used reports the chunks in use and the tail of the page,   *)
(* whatever was stored, replaced or refused before.                        *)
THEOREM UsageExact == Spec => []MemoryAccounted
<1>1. ASSUME IInv, Pages PROVE MemoryAccounted
  <2> SUFFICES ASSUME pc \notin {"init", "split", "crashed"}
               PROVE  slabs_memory_used = Cardinality(Linked \cup InHand) * class_size[PreClass]
                        + slabs[PreClass] * (slab_page_size % class_size[PreClass])
    BY DEF MemoryAccounted
  <2> DEFINE size == class_size[PreClass]
             used == Linked \cup InHand
             free == Free(PreClass)
  <2>1. /\ PreClass \in Class /\ size \in Nat \ {0} /\ slab_page_size \in Nat /\ nsplit \in Nat
        /\ perslab = slab_page_size \div size
    BY <1>1, PageFacts, PageAssumption, ClassAssumption DEF IInv, TypeOK, perslab
  <2>2. 0 .. nsplit - 1 = used \cup free /\ used \cap free = {}
    <3>1. \A b \in Bucket : InBucket(b) \cap (Free(PreClass) \cup InHand) = {}
      BY <1>1 DEF IInv, ChunksPartitioned
    <3>2. Linked \cap Free(PreClass) = {}
      BY <3>1 DEF Linked
    <3> QED BY <1>1, <3>2 DEF IInv, ChunksPartitioned
  <2>3. /\ IsFiniteSet(used) /\ IsFiniteSet(free) /\ Cardinality(used) \in Nat
        /\ Cardinality(free) \in Nat /\ Cardinality(used) + Cardinality(free) = nsplit
    <3>0. nsplit \in Nat
      BY <2>1
    <3>1. IsFiniteSet(0 .. nsplit - 1) /\ Cardinality(0 .. nsplit - 1) = nsplit
      BY <3>0, FS_Interval
    <3>2. IsFiniteSet(used) /\ IsFiniteSet(free)
      BY <2>2, <3>1, FS_Subset
    <3> HIDE DEF used, free
    <3>3. Cardinality(used \cap free) = 0
      BY <2>2, FS_EmptySet
    <3>4. Cardinality(used) \in Nat /\ Cardinality(free) \in Nat
      BY <3>2, FS_CardinalityType
    <3>5. Cardinality(used \cup free) = Cardinality(used) + Cardinality(free) - Cardinality(used \cap free)
      BY <3>2, FS_Union
    <3>6. Cardinality(used \cup free) = nsplit
      BY <2>2, <3>1
    <3> QED BY <3>0, <3>2, <3>3, <3>4, <3>5, <3>6
  <2>4. sl_curr[PreClass] = Cardinality(free)
    BY <1>1, <2>1 DEF IInv, FreeCounted
  <2>5. slabs_memory_used = slabs[PreClass] * slab_page_size - Cardinality(free) * size
    BY <1>1, <2>4, UsedInClass
  <2>6. slab_page_size = perslab * size + (slab_page_size % size) /\ slab_page_size % size \in Nat
    <3> HIDE DEF size
    <3> QED BY <2>1
  <2> HIDE DEF size, used, free
  <2> DEFINE u == Cardinality(used)
             f == Cardinality(free)
             r == slab_page_size % size
  <2>7. (u + f) * size = u * size + f * size
    BY <2>1, <2>3
  <2>8. CASE slabs[PreClass] = 1 /\ nsplit = perslab
    <3>1. u + f = perslab /\ u \in Nat /\ f \in Nat /\ size \in Nat /\ r \in Nat
      BY <2>1, <2>3, <2>6, <2>8
    <3>2. slabs_memory_used = slab_page_size - f * size /\ slabs[PreClass] * r = r
      BY <2>1, <2>5, <2>6, <2>8, <3>1
    <3>3. slab_page_size = (u + f) * size + r
      BY <2>6, <3>1
    <3>4. u * size \in Nat /\ f * size \in Nat
      BY <3>1
    <3> HIDE DEF u, f, r
    <3>5. slabs_memory_used = u * size + slabs[PreClass] * r
      BY <2>7, <3>1, <3>2, <3>3, <3>4
    <3> QED BY <3>5 DEF u, r, size, used
  <2>9. CASE slabs[PreClass] = 0 /\ nsplit = 0
    <3>1. u = 0 /\ f = 0
      BY <2>3, <2>9
    <3>2. slabs_memory_used = 0 /\ u * size = 0 /\ slabs[PreClass] * r = 0
      BY <2>1, <2>5, <2>6, <2>9, <3>1
    <3> QED BY <3>2 DEF size, used
  <2> QED BY <1>1, <2>8, <2>9 DEF Pages, size, used
<1>2. Spec => []Pages
  <2>1. Spec => []IInv
    BY Invariance
  <2> QED BY <2>1, InitPages, NextPages, PTL DEF Spec
<1> QED BY <1>1, <1>2, Invariance, PTL

-----------------------------------------------------------------------------
(***************************************************************************)
(* The cache implements the key-value store of module KVStore, step by     *)
(* step: what its buckets hold is the store, a call in progress is a call  *)
(* in progress, and every step of the program is a step of the store or    *)
(* none.                                                                   *)
(***************************************************************************)

(* Between calls there is no request, and no chunk before slab_init. *)
Calls ==
  /\ pc \in {"init", "split", "idle"} => req = NULL
  /\ pc = "init" => nsplit = 0

SInv == IInv /\ Calls

(* Whether cache_set has taken the item of key k out of its bucket. *)
Replacing(k) == req # NULL /\ pc \in {"free", "alloc", "crashed"} /\ k = req.key

LEMMA InitSInv == Init => SInv
BY InitIInv DEF SInv, Calls, Init, SlabsInit

LEMMA NextSInv == SInv /\ [Next]_vars => SInv'
<1> SUFFICES ASSUME SInv, [Next]_vars PROVE SInv'
  OBVIOUS
<1>1. IInv'
  BY NextIInv DEF SInv
<1>2. Calls'
  <2> USE DEF SInv, Calls, slabVars, cacheVars
  <2>1. CASE cache_init
    BY <2>1 DEF cache_init, slab_preallocate, split_slab_page_into_freelist, slab_preallocated
  <2>2. CASE WalkOn
    BY <2>2 DEF WalkOn
  <2>3. CASE cache_get
    BY <2>3 DEF cache_get, Return
  <2>4. CASE cache_set
    BY <2>4 DEF cache_set, item_unlink, unlink_missed, free_old, insert_new, alloc_failed,
                alloc_oversize, Return
  <2>5. CASE \E r \in Request : Call(r)
    BY <2>5 DEF Call
  <2>6. CASE call_faults
    BY <2>6 DEF call_faults
  <2>7. CASE Halted \/ UNCHANGED vars
    BY <2>7 DEF Halted, vars
  <2> QED BY <2>1, <2>2, <2>3, <2>4, <2>5, <2>6, <2>7 DEF Next, Step
<1> QED BY <1>1, <1>2 DEF SInv

-----------------------------------------------------------------------------
(* The state of the store, read off the structures. *)

LEMMA StatusFacts ==
  ASSUME TypeOK
  PROVE  /\ status = "booting" <=> pc \in {"init", "split"}
         /\ status = "crashed" <=> pc = "crashed"
         /\ status = "up" <=> pc \in {"idle", "find", "free", "alloc"}
BY DEF status, TypeOK

(* A key outside a set in progress has the value of the one item that      *)
(* holds it, or none.                                                      *)
LEMMA StoreOfItem ==
  ASSUME IInv, NEW i \in Linked, ~Replacing(ikey[i])
  PROVE  store[ikey[i]] = ival[i] /\ store[ikey[i]] \in Value /\ ikey[i] \in Key
<1>1. ikey[i] \in Key /\ ival[i] \in Value
  BY DEF IInv, KeysInPlace, Linked
<1>2. Holder(ikey[i]) = {i}
  BY DEF Holder, IInv, KeysInPlace
<1>3. (CHOOSE h \in Holder(ikey[i]) : TRUE) = i
  BY <1>2
<1> QED BY <1>1, <1>2, <1>3 DEF store, Replacing

LEMMA StoreOfMiss ==
  ASSUME NEW k \in Key, ~Replacing(k), \A i \in Linked : ikey[i] # k
  PROVE  store[k] = NULL
<1>1. Holder(k) = {}
  BY DEF Holder
<1> QED BY <1>1 DEF store, Replacing

LEMMA StoreReplacing ==
  ASSUME NEW k \in Key, Replacing(k)
  PROVE  store[k] = IF it = NULL THEN NULL ELSE ival[it]
BY DEF store, Replacing

(* Steps that leave the linked items and the set in progress alone leave   *)
(* the store alone.                                                        *)
LEMMA StoreFrame ==
  ASSUME Linked' = Linked, ikey' = ikey, ival' = ival,
         \A k \in Key : Replacing(k)' <=> Replacing(k),
         (\E k \in Key : Replacing(k)) => it' = it
  PROVE  store' = store
<1>1. \A k \in Key : Holder(k)' = Holder(k)
  BY DEF Holder
<1>2. ASSUME NEW k \in Key PROVE store'[k] = store[k]
  <2>1. CASE Replacing(k)
    BY <2>1 DEF store, Replacing
  <2>2. CASE ~Replacing(k)
    <3>1. ~Replacing(k)'
      BY <2>2
    <3>2. store[k] = IF Holder(k) = {} THEN NULL ELSE ival[CHOOSE i \in Holder(k) : TRUE]
      BY <2>2 DEF store, Replacing
    <3>3. store'[k] = IF Holder(k)' = {} THEN NULL ELSE ival'[CHOOSE i \in Holder(k)' : TRUE]
      BY <3>1 DEF store, Replacing
    <3>4. (CHOOSE i \in Holder(k)' : TRUE) = (CHOOSE i \in Holder(k) : TRUE)
      BY <1>1
    <3>5. CASE Holder(k) = {}
      <4>1. Holder(k)' = {}
        BY <1>1, <3>5
      <4> QED BY <3>2, <3>3, <3>5, <4>1
    <3>6. CASE Holder(k) # {}
      <4>1. Holder(k)' # {}
        BY <1>1, <3>6
      <4>2. store[k] = ival[CHOOSE i \in Holder(k) : TRUE]
        BY <3>2, <3>6
      <4>3. store'[k] = ival[CHOOSE i \in Holder(k)' : TRUE]
        BY <3>3, <4>1
      <4> QED BY <3>4, <4>2, <4>3
    <3> QED BY <3>5, <3>6
  <2> QED BY <2>1, <2>2
<1> QED BY <1>2 DEF store

(* Starting to replace an item, or finding that there is none, is no step  *)
(* of the store.                                                           *)
LEMMA StoreBeginsReplacing ==
  ASSUME IInv, pc = "find", req \in SetRequest, req # NULL, req' = req, it' = it,
         pc' \in {"free", "alloc"}, ikey' = ikey, ival' = ival,
         \/ it \in Linked /\ ikey[it] = req.key /\ Linked' = Linked \ {it} /\ it # NULL
         \/ it = NULL /\ Linked' = Linked /\ \A i \in Linked : ikey[i] # req.key
  PROVE  store' = store
<1>1. req.key \in Key
  BY DEF SetRequest
<1>2. \A k \in Key : ~Replacing(k) /\ (Replacing(k)' <=> k = req.key)
  BY DEF Replacing
<1>3. store'[req.key] = store[req.key]
  <2>1. store'[req.key] = IF it = NULL THEN NULL ELSE ival[it]
    BY <1>1, <1>2 DEF store, Replacing
  <2>2. store[req.key] = IF it = NULL THEN NULL ELSE ival[it]
    BY <1>1, <1>2, StoreOfItem, StoreOfMiss
  <2> QED BY <2>1, <2>2
<1>4. ASSUME NEW k \in Key, k # req.key PROVE store'[k] = store[k]
  <2>1. Holder(k)' = Holder(k)
    BY <1>4 DEF Holder
  <2> QED BY <1>2, <1>4, <2>1 DEF store, Replacing
<1> QED BY <1>3, <1>4 DEF store

(* The module of the store counts as this one does. *)
LEMMA SameCardinality == \A S : KV!Cardinality(S) = Cardinality(S)
BY DEF KV!Cardinality, Cardinality

(* While a set is in progress the other keys of the store are those of the *)
(* linked items, one each.                                                 *)
LEMMA OthersCounted ==
  ASSUME IInv, req \in SetRequest, pc = "alloc"
  PROVE  Cardinality(KV!Others(req.key)) = Cardinality(Linked) /\ IsFiniteSet(Linked)
<1> DEFINE T == KV!Others(req.key)
           f == [i \in Linked |-> ikey[i]]
<1>1. IsFiniteSet(Linked)
  <2>1. Linked \in SUBSET (0 .. nsplit - 1) /\ nsplit \in Int
    BY ListFacts, PageFacts DEF IInv, TypeOK
  <2>2. IsFiniteSet(0 .. nsplit - 1)
    BY <2>1, FS_Interval
  <2> QED BY <2>1, <2>2, FS_Subset
<1>2. req.key \in Key /\ req # NULL /\ \A i \in Linked : ikey[i] # req.key
  BY RequestAssumption DEF SetRequest, Request, IInv, Phases
<1>3. \A k \in Key : k # req.key => ~Replacing(k)
  BY DEF Replacing
<1>4. T = {k \in Key \ {req.key} : store[k] # NULL}
  BY DEF KV!Others
<1>5. \A i \in Linked : f[i] \in T
  <2> SUFFICES ASSUME NEW i \in Linked PROVE ikey[i] \in T
    OBVIOUS
  <2>1. ikey[i] \in Key /\ ~Replacing(ikey[i])
    BY <1>2 DEF IInv, KeysInPlace, Linked, Replacing
  <2>2. store[ikey[i]] \in Value
    BY <2>1, StoreOfItem
  <2> QED BY <1>2, <1>4, <2>1, <2>2, KeyAssumption
<1>6. \A k \in T : \E i \in Linked : f[i] = k
  BY <1>3, <1>4, StoreOfMiss
<1>7. \A i, j \in Linked : f[i] = f[j] => i = j
  BY DEF IInv, KeysInPlace
<1>8. f \in Bijection(Linked, T)
  BY <1>5, <1>6, <1>7 DEF Bijection, Injection, Surjection, IsInjective
<1>9. ExistsBijection(Linked, T)
  BY <1>8 DEF ExistsBijection
<1> QED BY <1>1, <1>9, FS_Bijection
(* A set that gets a chunk is one that the store has room for. *)
LEMMA RoomIffChunk ==
  ASSUME IInv, req \in SetRequest, pc = "alloc"
  PROVE  KV!HasRoom(req) <=> (ReqClass = PreClass /\ sl_curr[PreClass] # 0)
<1>1. <<req.key, req.value>> \in {p \in Key \X Value : slabs_clsid(SizeOf(p[1], p[2])) = PreClass}
        <=> ReqClass = PreClass
  BY DEF SetRequest, ReqClass
<1>2. TypeOK /\ nsplit \in Nat /\ PreClass \in Class /\ InHand = {}
  BY PageFacts DEF IInv, TypeOK, InHand
<1>3. status = "up"
  BY <1>2, StatusFacts
<1>4. Cardinality(KV!Others(req.key)) = Cardinality(Linked) /\ IsFiniteSet(Linked)
  BY OthersCounted
<1> DEFINE All == 0 .. nsplit - 1
<1>5. IsFiniteSet(All) /\ Cardinality(All) = nsplit
  BY <1>2, FS_Interval
<1>6. /\ Linked \in SUBSET All /\ Free(PreClass) \in SUBSET All
      /\ All = Linked \cup Free(PreClass) /\ Linked \cap Free(PreClass) = {}
  BY <1>2, ListFacts DEF IInv, ChunksPartitioned
<1> HIDE DEF All
<1>7. Cardinality(Linked) <= nsplit /\ (Cardinality(Linked) = nsplit <=> Linked = All)
  BY <1>5, <1>6, FS_Subset
<1>8. Free(PreClass) = {} <=> sl_curr[PreClass] = 0
  <2>1. IsFiniteSet(Free(PreClass))
    BY <1>5, <1>6, FS_Subset
  <2>2. sl_curr[PreClass] = Cardinality(Free(PreClass))
    BY <1>2 DEF IInv, FreeCounted
  <2> QED BY <2>1, <2>2, FS_EmptySet
<1>9. Cardinality(Linked) \in Nat
  BY <1>4, FS_CardinalityType
<1>10. Cardinality(Linked) < nsplit <=> sl_curr[PreClass] # 0
  <2>1. Linked = All <=> Free(PreClass) = {}
    BY <1>6
  <2> QED BY <1>2, <1>7, <1>8, <1>9, <2>1
<1>11. (IF status = "booting" THEN 0 ELSE nsplit) = nsplit
  BY <1>3
<1> QED BY <1>1, <1>4, <1>10, <1>11, SameCardinality DEF KV!HasRoom
-----------------------------------------------------------------------------
(* The steps of the program, as steps of the store. *)

LEMMA InitKV == Init => KV!Init
<1> SUFFICES ASSUME Init PROVE KV!Init
  OBVIOUS
<1>1. IInv /\ TypeOK
  BY InitIInv DEF IInv
<1>2. status = "booting"
  BY <1>1, StatusFacts DEF Init, SlabsInit
<1>3. Linked = {}
  <2>1. 0 .. nsplit - 1 = {}
    BY DEF Init, SlabsInit
  <2> QED BY <1>1, <2>1, ListFacts
<1>4. \A k \in Key : ~Replacing(k)
  BY DEF Init, Replacing
<1>5. \A k \in Key : store[k] = NULL
  BY <1>3, <1>4, StoreOfMiss
<1>6. store = [k \in Key |-> NULL]
  BY <1>5 DEF store
<1> QED BY <1>2, <1>6 DEF KV!Init, Init

(* slab_init. *)
LEMMA BootSimulates ==
  ASSUME SInv, cache_init
  PROVE  [KV!Boot \/ KV!BootCrash]_(KV!vars)
<1> USE DEF slabVars, cacheVars
<1>1. IInv /\ TypeOK /\ TypeOK' /\ IInv'
  BY NextSInv DEF SInv, IInv, Next, Step
<1>2. pc \in {"init", "split"} /\ req = NULL /\ UNCHANGED <<table, req, it, ret, ikey, ival>>
  BY DEF cache_init, slab_preallocate, split_slab_page_into_freelist, slab_preallocated, SInv, Calls
<1>3. \A b \in Bucket : hashtable[b] = NULL /\ hashtable'[b] = NULL
  BY <1>1, <1>2 DEF IInv, Phases, cache_init
<1>4. Linked = {} /\ Linked' = {}
  <2>1. Chain(next, NULL) = {}
    BY <1>1, ListFacts, ChainNull
  <2>2. IsLink(next', Item)
    BY <1>1, PageFacts DEF TypeOK, IsLink
  <2>3. Chain(next', NULL) = {}
    BY <2>2, ChainNull
  <2>4. \A b \in Bucket : InBucket(b) = {} /\ InBucket(b)' = {}
    BY <1>3, <2>1, <2>3 DEF InBucket
  <2> QED BY <2>4 DEF Linked
<1>5. \A k \in Key : ~Replacing(k) /\ ~Replacing(k)'
  BY <1>2 DEF Replacing
<1>6. store' = store
  BY <1>2, <1>4, <1>5, StoreFrame
<1>7. status = "booting"
  BY <1>1, <1>2, StatusFacts
<1>8. CASE pc' = "split"
  <2>1. status' = "booting"
    BY <1>1, <1>8 DEF status, TypeOK
  <2> QED BY <1>2, <1>6, <1>7, <2>1 DEF KV!vars
<1>9. CASE pc' = "idle"
  <2>1. status' = "up"
    BY <1>9 DEF status
  <2>2. nsplit' \in {0, perslab}
    BY <1>1, <1>9 DEF IInv, Phases
  <2> QED BY <1>2, <1>6, <1>7, <2>1, <2>2 DEF KV!Boot
<1>10. CASE pc' = "crashed"
  <2>1. status' = "crashed"
    BY <1>10 DEF status
  <2>2. pc = "init" /\ nsplit' = nsplit
    BY <1>2, <1>10 DEF cache_init, slab_preallocate, split_slab_page_into_freelist, slab_preallocated
  <2>3. nsplit' = 0
    BY <2>2 DEF SInv, Calls
  <2> QED BY <1>2, <1>6, <1>7, <2>1, <2>3 DEF KV!BootCrash
<1>11. pc' \in {"split", "idle", "crashed"}
  BY <1>2 DEF cache_init, slab_preallocate, split_slab_page_into_freelist, slab_preallocated
<1> QED BY <1>8, <1>9, <1>10, <1>11

(* What the steps of a call leave alone. *)
LEMMA CallFrame ==
  ASSUME SInv, SInv', pc \in {"idle", "find", "free", "alloc"}, nsplit' = nsplit, table' = table
  PROVE  /\ status = "up"
         /\ pc' \in {"idle", "find", "free", "alloc"} => status' = "up"
         /\ pc' = "crashed" => status' = "crashed"
         /\ pc' \notin {"init", "split"} =>
              (IF status = "booting" THEN 0 ELSE nsplit)' = (IF status = "booting" THEN 0 ELSE nsplit)
<1>1. status = "up"
  BY StatusFacts DEF SInv, IInv
<1>2. (pc' \in {"idle", "find", "free", "alloc"} => status' = "up") /\ (pc' = "crashed" => status' = "crashed")
  BY DEF status
<1>3. pc' \notin {"init", "split"} => status' # "booting"
  BY <1>2 DEF SInv, IInv, TypeOK
<1> QED BY <1>1, <1>2, <1>3

(* A call, made without a table or with one. *)
LEMMA CallSimulates ==
  ASSUME SInv, NEW r \in Request, Call(r)
  PROVE  KV!Call(r)
<1> USE DEF slabVars, cacheVars
<1>0. SInv'
  BY NextSInv DEF Next
<1>1. /\ pc = "idle" /\ pc' = "find" /\ req = NULL /\ req' = r /\ table /\ nsplit' = nsplit
      /\ UNCHANGED <<next, hashtable, table, ikey, ival, ret>>
  BY DEF Call, SInv, Calls
<1>2. Linked' = Linked
  BY <1>1 DEF Linked, InBucket
<1>3. \A k \in Key : ~Replacing(k) /\ ~Replacing(k)'
  BY <1>1 DEF Replacing
<1>4. store' = store
  BY <1>1, <1>2, <1>3, StoreFrame
<1> QED BY <1>0, <1>1, <1>4, CallFrame DEF KV!Call

LEMMA FaultSimulates ==
  ASSUME SInv, call_faults
  PROVE  KV!CallCrash
<1> USE DEF slabVars, cacheVars
<1>0. SInv'
  BY NextSInv DEF Next
<1>1. /\ pc = "idle" /\ pc' = "crashed" /\ req = NULL /\ req' = req /\ ~table /\ nsplit' = nsplit
      /\ UNCHANGED <<next, hashtable, table, ikey, ival, ret>>
  BY DEF call_faults, SInv, Calls
<1>2. Linked' = Linked
  BY <1>1 DEF Linked, InBucket
<1>3. \A k \in Key : ~Replacing(k) /\ ~Replacing(k)'
  BY <1>1 DEF Replacing
<1>4. store' = store
  BY <1>1, <1>2, <1>3, StoreFrame
<1> QED BY <1>0, <1>1, <1>4, CallFrame DEF KV!CallCrash

(* The walk is no step of the store. *)
LEMMA WalkSimulates ==
  ASSUME SInv, WalkOn
  PROVE  UNCHANGED KV!vars
<1> USE DEF slabVars, cacheVars
<1>0. SInv'
  BY NextSInv DEF Next, Step
<1>1. /\ pc = "find" /\ pc' = "find" /\ req' = req /\ nsplit' = nsplit
      /\ UNCHANGED <<next, hashtable, table, ikey, ival, ret>>
  BY DEF WalkOn
<1>2. Linked' = Linked
  BY <1>1 DEF Linked, InBucket
<1>3. \A k \in Key : ~Replacing(k) /\ ~Replacing(k)'
  BY <1>1 DEF Replacing
<1>4. store' = store
  BY <1>1, <1>2, <1>3, StoreFrame
<1> QED BY <1>0, <1>1, <1>4, CallFrame DEF KV!vars
(* During a walk nothing is being replaced: the store has the item that    *)
(* the walk stands on, and nothing when it has come to the end.            *)
LEMMA WalkFinds ==
  ASSUME IInv, pc = "find"
  PROVE  /\ req \in Request /\ req # NULL /\ req.key \in Key
         /\ it = NULL => store[req.key] = NULL /\ \A i \in Linked : ikey[i] # req.key
         /\ it # NULL /\ Matches(it) =>
              it \in Linked /\ store[req.key] = ival[it] /\ ival[it] \in Value
<1>1. req \in Request /\ req # NULL /\ req.key \in Key /\ hash[req.key] \in Bucket
  BY ReqFacts, RequestAssumption DEF IInv, TypeOK
<1>2. ~Replacing(req.key)
  BY DEF Replacing
<1>3. ASSUME it = NULL PROVE store[req.key] = NULL /\ \A i \in Linked : ikey[i] # req.key
  <2>1. Chain(next, it) = {}
    BY <1>3, ListFacts, ChainNull
  <2>2. \A i \in Linked : ikey[i] # req.key
    BY <2>1 DEF IInv, WalkMissesNothing
  <2> QED BY <1>1, <1>2, <2>2, StoreOfMiss
<1>4. ASSUME it # NULL, Matches(it)
      PROVE  it \in Linked /\ store[req.key] = ival[it] /\ ival[it] \in Value
  <2>1. it \in Linked
    BY <1>1, <1>4 DEF IInv, WalkMissesNothing, Linked
  <2> QED BY <1>2, <1>4, <2>1, StoreOfItem DEF Matches
<1> QED BY <1>1, <1>3, <1>4

(* A get answers with what the store has. *)
LEMMA GetSimulates ==
  ASSUME SInv, cache_get
  PROVE  KV!Get
<1> USE DEF slabVars, cacheVars
<1>0. SInv' /\ IInv
  BY NextSInv DEF Next, Step, SInv
<1>1. /\ pc = "find" /\ pc' = "idle" /\ req' = NULL /\ nsplit' = nsplit /\ req.op = "get"
      /\ UNCHANGED <<next, hashtable, table, ikey, ival>>
  BY DEF cache_get, Return
<1>2. Linked' = Linked
  BY <1>1 DEF Linked, InBucket
<1>3. \A k \in Key : ~Replacing(k) /\ ~Replacing(k)'
  BY <1>1 DEF Replacing
<1>4. store' = store
  BY <1>1, <1>2, <1>3, StoreFrame
<1>5. req \in KV!GetRequest
  BY <1>0, <1>1, WalkFinds, ReqFacts DEF KV!GetRequest, GetRequest
<1>6. ret' = IF store[req.key] = NULL THEN KV!Miss ELSE KV!Hit(store[req.key], req.maxnval)
  <2>1. CASE it = NULL
    BY <1>0, <1>1, <2>1, WalkFinds DEF cache_get, Return, KV!Miss
  <2>2. CASE it # NULL
    <3>1. store[req.key] = ival[it] /\ ival[it] # NULL
      BY <1>0, <1>1, <2>2, WalkFinds, KeyAssumption DEF cache_get
    <3> QED BY <2>2, <3>1 DEF cache_get, Return, KV!Hit, Bytes
  <2> QED BY <2>1, <2>2
<1> QED BY <1>0, <1>1, <1>4, <1>5, <1>6, CallFrame DEF KV!Get, KV!Answer

(* A set that takes an old item out, puts it on the free list, or finds    *)
(* none, has not changed the store yet.                                    *)
LEMMA UnlinkSimulates ==
  ASSUME SInv, item_unlink \/ unlink_missed
  PROVE  UNCHANGED KV!vars
<1> USE DEF slabVars, cacheVars
<1>0. SInv' /\ IInv
  BY NextSInv DEF Next, Step, cache_set, SInv
<1>1. /\ pc = "find" /\ pc' \in {"free", "alloc"} /\ nsplit' = nsplit /\ req.op = "set"
      /\ UNCHANGED <<table, ikey, ival, req, it, ret>>
  BY DEF item_unlink, unlink_missed
<1>2. req \in SetRequest /\ req # NULL /\ hash[req.key] \in Bucket
  BY <1>0, <1>1, WalkFinds, ReqFacts
<1>3. CASE unlink_missed
  <2>1. Linked' = Linked /\ it = NULL
    BY <1>3 DEF unlink_missed, Linked, InBucket
  <2>2. store' = store
    BY <1>0, <1>1, <1>2, <2>1, WalkFinds, StoreBeginsReplacing
  <2> QED BY <1>0, <1>1, <2>2, CallFrame DEF KV!vars
<1>4. CASE item_unlink
  <2>1. it # NULL /\ Matches(it) /\ it \in Linked /\ ikey[it] = req.key
    BY <1>0, <1>1, <1>4, WalkFinds DEF item_unlink, Matches
  <2>2. /\ it \in InBucket(hash[req.key])
        /\ InBucket(hash[req.key])' = InBucket(hash[req.key]) \ {it}
        /\ \A b \in Bucket \ {hash[req.key]} : InBucket(b)' = InBucket(b)
    BY <1>0, <1>4, UnlinkEffect
  <2>3. \A b \in Bucket : InBucket(b)' = InBucket(b) \ {it}
    <3>1. \A b \in Bucket \ {hash[req.key]} : it \notin InBucket(b)
      BY <1>0, <1>2, <2>2 DEF IInv, ChunksPartitioned
    <3> QED BY <1>1, <2>2, <3>1
  <2>4. Linked' = Linked \ {it}
    BY <2>3 DEF Linked
  <2>5. store' = store
    BY <1>0, <1>1, <1>2, <2>1, <2>4, StoreBeginsReplacing
  <2> QED BY <1>0, <1>1, <2>5, CallFrame DEF KV!vars
<1> QED BY <1>3, <1>4

LEMMA FreeOldSimulates ==
  ASSUME SInv, free_old
  PROVE  UNCHANGED KV!vars
<1> USE DEF slabVars, cacheVars
<1>0. SInv' /\ IInv
  BY NextSInv DEF Next, Step, cache_set, SInv
<1>1. /\ pc = "free" /\ pc' = "alloc" /\ nsplit' = nsplit
      /\ UNCHANGED <<hashtable, table, ikey, ival, req, it, ret>>
  BY DEF free_old
<1>2. InHand = {it} /\ it \in Item /\ it \notin Linked /\ it \notin Free(PreClass)
  <2>1. InHand = {it} /\ it \in Item
    BY <1>0, <1>1 DEF InHand, IInv, TypeOK
  <2> QED BY <1>0, <2>1, ListFacts DEF IInv, ChunksPartitioned
<1>3. PushFree(it, PreClass, prev[it]) /\ prev[it] \in Item \cup {NULL}
  BY <1>0, <1>2 DEF free_old, slabs_free, IInv, ItemsFit, TypeOK
<1>4. Linked' = Linked
  BY <1>0, <1>1, <1>2, <1>3, PushFreeEffect
<1>5. \A k \in Key : Replacing(k)' <=> Replacing(k)
  BY <1>1 DEF Replacing
<1>6. store' = store
  BY <1>1, <1>4, <1>5, StoreFrame
<1> QED BY <1>0, <1>1, <1>6, CallFrame DEF KV!vars

(* A set that gets a chunk takes effect. *)
LEMMA InsertSimulates ==
  ASSUME SInv, NEW i \in Item, insert_new(i)
  PROVE  KV!SetOk
<1> USE DEF slabVars, cacheVars
<1>0. SInv' /\ IInv /\ IInv' /\ TypeOK
  BY NextSInv DEF Next, Step, cache_set, SInv, IInv
<1>1. /\ pc = "alloc" /\ pc' = "idle" /\ nsplit' = nsplit /\ req' = NULL /\ table' = table
      /\ ret' = [rc |-> 0, value |-> NULL]
      /\ ikey' = [ikey EXCEPT ![i] = req.key] /\ ival' = [ival EXCEPT ![i] = req.value]
  BY DEF insert_new, Return
<1>2. req \in SetRequest /\ req # NULL /\ req.key \in Key /\ req.value \in Value /\ hash[req.key] \in Bucket
  <2>1. req \in SetRequest
    BY <1>0, <1>1 DEF TypeOK
  <2> QED BY <2>1, RequestAssumption, KeyAssumption DEF Request, SetRequest
<1>3. /\ ReqClass = PreClass /\ i \in Free(PreClass) /\ i \notin Linked
      /\ \A b \in Bucket : InBucket(b)' =
           IF b = hash[req.key] THEN {i} \cup InBucket(b) ELSE InBucket(b)
  BY <1>0, InsertEffect
<1>4. PICK k0 \in Key, b0 \in Bucket : k0 = req.key /\ b0 = hash[req.key]
  BY <1>2
<1>5. Linked' = Linked \cup {i}
  <2>1. i \in InBucket(b0)'
    BY <1>3, <1>4
  <2>2. \A b \in Bucket : InBucket(b) \subseteq InBucket(b)' /\ InBucket(b)' \subseteq {i} \cup InBucket(b)
    BY <1>3
  <2> QED BY <2>1, <2>2 DEF Linked
<1>6. KV!HasRoom(req)
  <2>1. sl_curr[PreClass] # 0
    BY <1>3 DEF insert_new, slabs_alloc
  <2> QED BY <1>0, <1>1, <1>2, <1>3, <2>1, RoomIffChunk
<1>7. \A k \in Key : ~Replacing(k)' /\ (Replacing(k) <=> k = k0)
  BY <1>1, <1>2, <1>4 DEF Replacing
<1>8. /\ ikey'[i] = k0 /\ ival'[i] = req.value
      /\ \A j \in Linked : ikey'[j] = ikey[j] /\ ival'[j] = ival[j] /\ ikey[j] # k0
  <2>1. \A j \in Linked : j # i /\ j \in Item /\ ikey[j] # k0
    BY <1>0, <1>1, <1>3, <1>4, ListFacts DEF IInv, Phases
  <2> QED BY <1>0, <1>1, <1>4, <2>1 DEF TypeOK
<1>9. store'[k0] = req.value
  <2>1. Holder(k0)' = {i}
    BY <1>5, <1>8 DEF Holder
  <2>2. store'[k0] = ival'[CHOOSE j \in Holder(k0)' : TRUE]
    BY <1>7, <2>1 DEF store, Replacing
  <2>3. (CHOOSE j \in Holder(k0)' : TRUE) = i
    BY <2>1
  <2> QED BY <1>8, <2>2, <2>3
<1>10. ASSUME NEW k \in Key, k # k0 PROVE store'[k] = store[k]
  <2>1. Holder(k)' = Holder(k)
    BY <1>5, <1>8, <1>10 DEF Holder
  <2>2. store'[k] = IF Holder(k)' = {} THEN NULL ELSE ival'[CHOOSE j \in Holder(k)' : TRUE]
    BY <1>7 DEF store, Replacing
  <2>3. store[k] = IF Holder(k) = {} THEN NULL ELSE ival[CHOOSE j \in Holder(k) : TRUE]
    BY <1>7, <1>10 DEF store, Replacing
  <2>4. CASE Holder(k) = {}
    BY <2>1, <2>2, <2>3, <2>4
  <2>5. CASE Holder(k) # {}
    <3> DEFINE c == CHOOSE j \in Holder(k) : TRUE
    <3>1. c \in Linked
      BY <2>5 DEF Holder
    <3>2. store[k] = ival[c]
      BY <2>3, <2>5
    <3>3. (CHOOSE j \in Holder(k)' : TRUE) = c
      BY <2>1
    <3>4. Holder(k)' # {}
      BY <2>1, <2>5
    <3>5. store'[k] = ival'[CHOOSE j \in Holder(k)' : TRUE]
      BY <2>2, <3>4
    <3> HIDE DEF c
    <3> QED BY <1>8, <3>1, <3>2, <3>3, <3>5
  <2> QED BY <2>4, <2>5
<1>11. store' = [store EXCEPT ![req.key] = req.value]
  <2>1. store = [k \in Key |-> store[k]] /\ store' = [k \in Key |-> store'[k]]
    BY DEF store
  <2> QED BY <1>4, <1>9, <1>10, <2>1
<1>12. req \in KV!SetRequest
  BY <1>2 DEF KV!SetRequest, SetRequest
<1> QED BY <1>0, <1>1, <1>6, <1>11, <1>12, CallFrame DEF KV!SetOk, KV!Answer, KV!Stored

(* A set that gets none is one the store has no room for, and leaves its   *)
(* key without a value.                                                    *)
LEMMA FailSimulates ==
  ASSUME SInv, alloc_failed
  PROVE  KV!SetFail
<1> USE DEF slabVars, cacheVars
<1>0. SInv' /\ IInv /\ IInv' /\ TypeOK
  BY NextSInv DEF Next, Step, cache_set, SInv, IInv
<1>1. /\ pc = "alloc" /\ pc' = "idle" /\ nsplit' = nsplit /\ req' = NULL
      /\ ret' = [rc |-> -1, value |-> NULL]
      /\ UNCHANGED <<next, hashtable, table, ikey, ival>>
      /\ ReqClass # NoClass /\ sl_curr[ReqClass] = 0
  BY DEF alloc_failed, Return
<1>2. req \in SetRequest /\ req # NULL /\ req.key \in Key /\ req.value \in Value
  <2>1. req \in SetRequest
    BY <1>0, <1>1 DEF TypeOK
  <2> QED BY <2>1, RequestAssumption DEF Request, SetRequest
<1>3. PICK k0 \in Key : k0 = req.key
  BY <1>2
<1>4. ~KV!HasRoom(req)
  BY <1>0, <1>1, <1>2, RoomIffChunk
<1>5. <<req.key, req.value>> \notin {p \in Key \X Value : slabs_clsid(SizeOf(p[1], p[2])) = NoClass}
  BY <1>1 DEF ReqClass
<1>6. \A k \in Key : ~Replacing(k)' /\ (Replacing(k) <=> k = k0)
  BY <1>1, <1>2, <1>3 DEF Replacing
<1>7. Linked' = Linked
  BY <1>1 DEF Linked, InBucket
<1>8. \A k \in Key : Holder(k)' = Holder(k)
  BY <1>1, <1>7 DEF Holder
<1>9. store'[k0] = NULL
  <2>1. Holder(k0) = {}
    BY <1>0, <1>1, <1>3 DEF Holder, IInv, Phases
  <2> QED BY <1>6, <1>8, <2>1 DEF store, Replacing
<1>10. ASSUME NEW k \in Key, k # k0 PROVE store'[k] = store[k]
  <2>1. Holder(k)' = Holder(k)
    BY <1>8
  <2>2. store'[k] = IF Holder(k)' = {} THEN NULL ELSE ival'[CHOOSE j \in Holder(k)' : TRUE]
    BY <1>6 DEF store, Replacing
  <2>3. store[k] = IF Holder(k) = {} THEN NULL ELSE ival[CHOOSE j \in Holder(k) : TRUE]
    BY <1>6, <1>10 DEF store, Replacing
  <2>4. CASE Holder(k) = {}
    BY <2>1, <2>2, <2>3, <2>4
  <2>5. CASE Holder(k) # {}
    <3>1. store[k] = ival[CHOOSE j \in Holder(k) : TRUE]
      BY <2>3, <2>5
    <3>2. (CHOOSE j \in Holder(k)' : TRUE) = CHOOSE j \in Holder(k) : TRUE
      BY <2>1
    <3>3. Holder(k)' # {}
      BY <2>1, <2>5
    <3>4. store'[k] = ival[CHOOSE j \in Holder(k)' : TRUE]
      BY <1>1, <2>2, <3>3
    <3> QED BY <3>1, <3>2, <3>4
  <2> QED BY <2>4, <2>5
<1>11. store' = [store EXCEPT ![req.key] = NULL]
  <2>1. store = [k \in Key |-> store[k]] /\ store' = [k \in Key |-> store'[k]]
    BY DEF store
  <2> QED BY <1>3, <1>9, <1>10, <2>1
<1>12. req \in KV!SetRequest
  BY <1>2 DEF KV!SetRequest, SetRequest
<1> QED BY <1>0, <1>1, <1>4, <1>5, <1>11, <1>12, CallFrame DEF KV!SetFail, KV!Answer, KV!Miss

(* A value too large for every class takes the program down. *)
LEMMA OversizeSimulates ==
  ASSUME SInv, alloc_oversize
  PROVE  KV!SetCrash
<1> USE DEF slabVars, cacheVars
<1>0. SInv' /\ IInv /\ TypeOK
  BY NextSInv DEF Next, Step, cache_set, SInv, IInv
<1>1. /\ pc = "alloc" /\ pc' = "crashed" /\ nsplit' = nsplit /\ ReqClass = NoClass
      /\ UNCHANGED <<next, hashtable, table, ikey, ival, req, it, ret>>
  BY DEF alloc_oversize
<1>2. req \in SetRequest
  BY <1>0, <1>1 DEF TypeOK
<1>3. <<req.key, req.value>> \in {p \in Key \X Value : slabs_clsid(SizeOf(p[1], p[2])) = NoClass}
  BY <1>1, <1>2 DEF ReqClass, SetRequest
<1>4. Linked' = Linked
  BY <1>1 DEF Linked, InBucket
<1>5. \A k \in Key : Replacing(k)' <=> Replacing(k)
  BY <1>1 DEF Replacing
<1>6. store' = store
  BY <1>1, <1>4, <1>5, StoreFrame
<1>7. req \in KV!SetRequest
  BY <1>2 DEF KV!SetRequest, SetRequest
<1> QED BY <1>0, <1>1, <1>3, <1>6, <1>7, CallFrame DEF KV!SetCrash

LEMMA StutterSimulates ==
  ASSUME UNCHANGED vars
  PROVE  UNCHANGED KV!vars
<1>1. Linked' = Linked
  BY DEF vars, slabVars, cacheVars, Linked, InBucket
<1>2. \A k \in Key : Replacing(k)' <=> Replacing(k)
  BY DEF vars, Replacing
<1>3. store' = store
  BY <1>1, <1>2, StoreFrame DEF vars, cacheVars
<1>4. status' = status
  BY DEF vars, status
<1> QED BY <1>3, <1>4 DEF vars, cacheVars, KV!vars

(* Every step of the program is a step of the store, or none. *)
LEMMA NextSimulates == SInv /\ [Next]_vars => [KV!Next]_(KV!vars)
<1> SUFFICES ASSUME SInv, [Next]_vars PROVE [KV!Next]_(KV!vars)
  OBVIOUS
<1>1. CASE cache_init
  BY <1>1, BootSimulates DEF KV!Next
<1>2. CASE WalkOn
  BY <1>2, WalkSimulates
<1>3. CASE cache_get
  BY <1>3, GetSimulates DEF KV!Next, KV!Respond
<1>4. CASE cache_set
  BY <1>4, UnlinkSimulates, FreeOldSimulates, InsertSimulates, FailSimulates, OversizeSimulates
     DEF cache_set, KV!Next, KV!Respond
<1>5. ASSUME NEW r \in Request, Call(r) PROVE KV!Next
  <2>1. r \in KV!Request
    BY DEF KV!Request, KV!GetRequest, KV!SetRequest, Request, GetRequest, SetRequest
  <2> QED BY <1>5, <2>1, CallSimulates DEF KV!Next
<1>6. CASE call_faults
  BY <1>6, FaultSimulates DEF KV!Next
<1>7. CASE Halted \/ UNCHANGED vars
  BY <1>7, StutterSimulates DEF Halted
<1> QED BY <1>1, <1>2, <1>3, <1>4, <1>5, <1>6, <1>7 DEF Next, Step

-----------------------------------------------------------------------------
(* The cache is the key-value store of cache.h, as far as safety goes, for *)
(* every number of chunks, keys, buckets and classes and every hash        *)
(* function: a get returns what the last successful set of its key stored, *)
(* a set disturbs no other key and fails only for want of memory.          *)
THEOREM ImplementsStore == Spec => KV!Init /\ [][KV!Next]_(KV!vars)
<1>1. Spec => []SInv
  BY InitSInv, NextSInv, PTL DEF Spec
<1> QED BY <1>1, InitKV, NextSimulates, PTL DEF Spec
==============================================================================
