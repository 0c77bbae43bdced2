------------------------------- MODULE Slabs --------------------------------
(***************************************************************************)
(* The slab allocator of src/src/slabs.c.                                  *)
(*                                                                         *)
(* Memory comes from one slab page, split into equal chunks of one size    *)
(* class when the program starts; no class ever gets another page ("No     *)
(* free blocks?! Actually should reallocate. Now, won't bother").  Every   *)
(* class has a LIFO free list threaded through the next/prev fields of the *)
(* chunks (an item header overlays the start of a chunk) and a count of    *)
(* the chunks on it.  The program is single-threaded: pc is the point the  *)
(* one thread has reached.                                                 *)
(***************************************************************************)
EXTENDS Integers, FiniteSets, ItemList

CONSTANTS
  min_size,         \* smallest chunk size              (32 in the code)
  max_size,         \* largest chunk size               (16 * 1024)
  slab_page_size,   \* bytes of one slab page           (32 * 1024 * 1024)
  prealloc_size,    \* size whose class gets the page   (64)
  nclasses,         \* classes slab_init gives a size   (10)
  class_size        \* slabclass[].size, by class

MAX_NUMBER_OF_SLAB_CLASSES == 64

Class == 0 .. nclasses - 1

(* slabs_clsid's -1.  Returned through an unsigned int: see slabs_alloc. *)
NoClass == -1

(* The loop of slab_init: sizes start at min_size and are multiplied by    *)
(* factor = 2 until they would exceed max_size.                            *)
ASSUME ClassAssumption ==
  /\ nclasses \in 1 .. MAX_NUMBER_OF_SLAB_CLASSES
  /\ class_size \in [Class -> Nat \ {0}]
  /\ class_size[0] = min_size
  /\ \A c \in Class \ {0} : class_size[c] = 2 * class_size[c - 1]
  /\ class_size[nclasses - 1] <= max_size
  /\ max_size < 2 * class_size[nclasses - 1]

ASSUME PageAssumption == slab_page_size \in Nat /\ prealloc_size \in Nat

(* Mutant: the search stops one byte too early. *)
FirstFit_OffByOne(size) ==
  {c \in Class : size - 1 <= class_size[c] /\ \A d \in 0 .. c - 1 : size - 1 > class_size[d]}

(* The classes at which the search of slabs_clsid stops: the chunk is      *)
(* large enough and every smaller class was too small.                     *)
FirstFit(size) ==
  {c \in Class : size <= class_size[c] /\ \A d \in 0 .. c - 1 : size > class_size[d]}

slabs_clsid(size) ==
  IF size = 0 \/ FirstFit(size) = {} THEN NoClass ELSE CHOOSE c \in FirstFit(size) : TRUE

(* The one class that slab_init gives a page, and the page's chunks.  A    *)
(* pointer to an item is the number of its chunk in the page.              *)
PreClass == slabs_clsid(prealloc_size)
perslab  == slab_page_size \div class_size[PreClass]
Item     == 0 .. perslab - 1

ASSUME PreallocAssumption == PreClass \in Class /\ NULL \notin Item

VARIABLES
  next, prev,    \* the link fields of every chunk
  clsid,         \* item.slabs_clsid of every chunk
  slots,         \* slabclass[].slots, head of the class's free list
  sl_curr,       \* slabclass[].sl_curr, number of free chunks of the class
  slabs,         \* slabclass[].slabs, pages given to the class
  nsplit,        \* x, the chunks of the page put on the free list so far
  pc

slabVars == <<next, prev, clsid, slots, sl_curr, slabs>>

SlabsInit ==
  /\ next    = [i \in Item |-> NULL]
  /\ prev    = [i \in Item |-> NULL]
  /\ clsid   = [i \in Item |-> 0]
  /\ slots   = [c \in Class |-> NULL]
  /\ sl_curr = [c \in Class |-> 0]
  /\ slabs   = [c \in Class |-> 0]
  /\ nsplit = 0
  /\ pc = "init"

-----------------------------------------------------------------------------
(* The free list of a class. *)
Free(c) == Chain(next, slots[c])

(* Putting a chunk on its free list; prev of the chunk is what differs     *)
(* between do_slabs_free (cleared) and slabs_free (left as it was).        *)
PushFree(i, c, prevOfItem) ==
  /\ next'    = [next EXCEPT ![i] = slots[c]]
  /\ prev'    = SetLink([prev EXCEPT ![i] = prevOfItem], slots[c], i)
  /\ slots'   = [slots EXCEPT ![c] = i]
  /\ sl_curr' = [sl_curr EXCEPT ![c] = @ + 1]

do_slabs_free(i, c) == PushFree(i, c, NULL)

(* Mutant: the chunk goes back on the list but is not counted. *)
slabs_free_Uncounted(i) ==
  /\ next'    = [next EXCEPT ![i] = slots[clsid[i]]]
  /\ prev'    = SetLink(prev, slots[clsid[i]], i)
  /\ slots'   = [slots EXCEPT ![clsid[i]] = i]
  /\ UNCHANGED <<sl_curr, clsid, slabs>>

slabs_free(i) == PushFree(i, clsid[i], prev[i]) /\ UNCHANGED <<clsid, slabs>>

(* Taking chunk i, the first, off the free list of class c.  The caller    *)
(* overwrites next[i] and prev[i]; UnlinkFirst is prev as slabs_alloc      *)
(* leaves it.                                                              *)
slabs_alloc(i, c) ==
  /\ sl_curr[c] # 0
  /\ i = slots[c]
  /\ slots'   = [slots EXCEPT ![c] = next[i]]
  /\ sl_curr' = [sl_curr EXCEPT ![c] = @ - 1]
  /\ clsid'   = [clsid EXCEPT ![i] = c]
  /\ UNCHANGED slabs

UnlinkFirst(i) == SetLink(prev, next[i], NULL)

(* slabs_memory_used: pages handed out less the chunks still free. *)
slabs_memory_used ==
  LET InClass(id) == slabs[id] * slab_page_size - sl_curr[id] * class_size[id]
      storage[n \in 0 .. nclasses] == IF n = 0 THEN 0 ELSE storage[n - 1] + InClass(n - 1)
  IN storage[nclasses]

-----------------------------------------------------------------------------
(* slab_init and slab_preallocate.  mmap reports failure as MAP_FAILED and *)
(* not as NULL, so the memset that follows faults; if the list of pages    *)
(* cannot be grown the page is given back and the result is ignored, which *)
(* leaves a cache without memory.                                          *)
slab_preallocate ==
  /\ pc = "init"
  /\ pc' \in {"crashed", "idle", "split"}
  /\ UNCHANGED <<slabVars, nsplit>>

(* Mutant: the loop runs to x <= perslab. *)
MoreChunks_OneTooMany == nsplit <= perslab

MoreChunks == nsplit < perslab

(* One iteration of the loop of split_slab_page_into_freelist. *)
split_slab_page_into_freelist ==
  /\ pc = "split"
  /\ MoreChunks
  /\ do_slabs_free(nsplit, PreClass)
  /\ nsplit' = nsplit + 1
  /\ UNCHANGED <<clsid, slabs, pc>>

(* Mutant: the page is not recorded. *)
WithPage_Unrecorded == slabs

WithPage == [slabs EXCEPT ![PreClass] = @ + 1]

(* slab->slab_list[slab->slabs++] = slabarea once the loop is done. *)
slab_preallocated ==
  /\ pc = "split"
  /\ nsplit = perslab
  /\ slabs' = WithPage
  /\ pc' = "idle"
  /\ UNCHANGED <<next, prev, clsid, slots, sl_curr, nsplit>>
=============================================================================
