# A verification project for seccell-memcache

The repository holds a single-threaded, memcached-like key-value store, a
benchmark that drives it through an encrypting front end, a Pin tool that
records the benchmark's memory accesses, and a simulator that turns the
recorded trace into TLB and cache miss counts.  `run.py` runs one after the
other.  This directory models all of that in TLA+, checks it with TLC on small
instances, and proves the central invariants with TLAPS for every instance.

Paths below are relative to the repository's root.

## 1. Inventory

| part | source | state | operations |
|---|---|---|---|
| slab allocator | `src/slabs.c` | `slabclass[]`: sizes, free list `slots`, count `sl_curr`, pages `slabs` | `slab_init`, `slab_preallocate`, `slabs_alloc`, `slabs_free`, `slabs_memory_used` |
| key-value cache | `src/cache.c` | `hashtable[]`, and in every chunk `next`, `prev`, key, value, class | `cache_init`, `cache_get`, `cache_set` |
| Jenkins hash | `src/jenkins_hash.c` | none | `jenkins_hash` |
| front end | `src/cache_wrapper.c` | two AES contexts | `wrapper_init`, `cache_get_wrapper`, `wrapper_free` |
| benchmark | `src/main.c` | loop variables | `make_key`, `encrypt_key`, a loop of sets, passes of gets |
| Pin tool | `memtrace/pintool/memtrace.cpp` | `accesses[]`, `PinLogBuf`, the file, `AccessTrackingOn` | `DoAccessAccounting`, `PrintMarker`, `SetTrigger`, `flush_accesses`, `Fini` |
| trace reader | `tracing/main.c` | `reps`, `repstarted`, `cur_comp_id`, `warmup`, a timer | `timer_setup`, one iteration per line of the trace |
| simulator | `tracing/tlbcache.c` | six arrays of tags, six miss counters | `cycle_access`, `cycle_helper`, `access_cache` |
| driver | `run.py` | built programs, a directory with traces and a log | `build`, `run`, `run_datapoint`: program under Pin, then the reader |
| vendored | `mbedtls-3.1.0`, `memtrace/pin` | | AES, instrumentation |

**Interactions.** `main` calls `cache_set` directly and `cache_get` through
`cache_get_wrapper`.  The cache allocates from the slab allocator, and the two
share the link fields of the items: an item hangs either in a bucket or on a
free list, by the same `next` and `prev`.  The Pin tool observes the program:
tracking is on during `cache_get_wrapper`, markers are recorded around
`cache_get` ("compartment switch") and around each pass.  The file is the only
thing the reader sees; the reader calls the simulator once per access.  The
driver builds the three programs, runs them for one size after the other and
collects what the reader prints.  `cache_set` and `cache_get` hash the same key
from different buffers.

**What is hard.** Each program is single-threaded, and nothing is recovered
after a crash; what runs concurrently is invocations of `run.py` in one
checkout, and the reader with its own timer.  The other difficulties are those
of shared linked structures under long call sequences
(stale `prev` fields, chains that lead into each other, counts that drift), of
memory that runs out in the middle of an operation, of boundaries (an item of
exactly one chunk, an 8-bit counter, a -1 returned as unsigned, a buffer that
is flushed at 5/6), and of protocols between programs that no test exercises:
markers that must pair up, entries that cross two buffers, a warm-up counted in
an uninitialised variable, a key hashed at two alignments, a trace left over
from another datapoint.  `PROJECT.json` lists them under `hazards`, each at
its line, with the properties that would catch it.

**What makes each part correct.**  Slabs and cache: every chunk is in exactly
one place, chains are acyclic and doubly linked, counts match lists, items fit
their chunks, and seen from outside it is a map.  Benchmark: its assertions
hold, gets hit, replies are complete, it ends.  Simulator: its contents are
those of LRU, sets hold no tag twice, counters are consistent.  Pin tool: buffers do not overflow
and the trace is what was recorded.  Reader: its assertions hold, every access
is simulated once, in the compartment the switches give it, and what is measured
is a steady state.  Hash: it depends on nothing but the key.  Driver: a result belongs to
the datapoint it is logged under.

## 2. Modules

| module | models | composes |
|---|---|---|
| `ItemList` | pointer chains: `Chain(next, head)`, the items reachable from a head, defined without recursion; `Acyclic` | |
| `Slabs` | `slabs.c` | `ItemList` |
| `Cache` | `cache.c` | `Slabs` |
| `KVStore` | abstract specification: the promise of `cache.h` | |
| `Workload` | `main.c`, `cache_wrapper.c` | `Cache` |
| `JenkinsHash` | `jenkins_hash.c` | |
| `TlbCache`, `TlbHistory` | `tlbcache.c`, `util.h`; a history of uses | |
| `Pintool` | `memtrace.cpp` | |
| `TraceReader` | `tracing/main.c` | `Pintool` (reads its file), `TlbCache` (calls it) |
| `Tracing` | one datapoint of `run.py` | `Workload`, `Pintool`, `TraceReader`, and so all but the hash and the driver |
| `Driver` | `run.py`: invocations, directories, logs | datapoints by their outcomes |
| `CacheProofs`, `WorkloadProofs`, `TracingProofs`, `TlbCacheProofs`, `PintoolProofs`, `DriverProofs`, `JenkinsProofs` | theorems, each about the module of its name (`CacheProofs` also that `Cache` implements `KVStore`); `WorkloadProofs` rests on `CacheProofs`, `TracingProofs` on `WorkloadProofs`, `PintoolProofs` and an instance of `TlbCacheProofs` | |
| `NumberProofs` | lemmas on division and least numbers | |
| `MCCache`, `MCWorkload`, `MCTlbCache`, `MCPintool`, `MCTracing`, `MCJenkins`, `MCDriver` | constants for TLC | |

Definitions keep the names of the code.  `PROJECT.json`, `map`, gives the
lines of each.  Operators whose names end in a capitalised suffix
(`WalkOn_Past`, `BufferFull_Late`) and whose comment starts with "Mutant" are
plausible bugs; each is used in place of the definition that follows it to
show that some property notices, and in no specification.

### Slabs and Cache

A pointer to an item is the number of its chunk in the page, or `NULL`.
`next`, `prev`, `clsid`, `ikey`, `ival` are the fields of every chunk; fields
keep their old contents when a chunk is freed, as memory does.  `pc` is the
point the thread has reached:

    init -> split -> idle -> find -> (get) idle
                               \--> (set) [free ->] alloc -> idle

`find` is the loop of `item_get` and of `item_unlink`, one step (`WalkOn`) per
iteration; `item_unlink`, `free_old` (the call of `slabs_free`) and
`insert_new` (`item_alloc` and the linking in `cache_set`) are one step each,
in the code's order, so that the states between them are visible.
`slabs_alloc`, `PushFree` and `SetLink` are the assignments of the allocator.
`crashed` is reached where the code faults: when `mmap` fails (the test is for
null, the failure value is `MAP_FAILED`), on the first call when `calloc` gave
no memory for the hash table (`table`, `call_faults`), and when an item fits no
class (the test `< 0` is made on an unsigned value).  When `grow_slab_list` fails,
`slab_init` ignores it and the cache runs without memory.

The sizes are the code's: `ClassAssumption` states what the loop of
`slab_init` produces, for any `min_size` and `max_size`.  Keys and values are
atoms with a length; `hash` is an arbitrary function, so everything about the
cache holds whatever `jenkins_hash` computes.

`KVStore` is what `cache.h` promises: a partial map that holds at most `cap`
keys; a set drops the old value, then succeeds exactly if the pair's class has
memory and fewer than `cap` *other* keys are stored; a set that fails leaves
the key absent.  `Cache!IsKVStore` maps the structures to it.  While a set runs
its key still has the old value abstractly (the value is still in the chunk
`it` points to); the set takes effect when it returns.

### Workload

`main` with `nitems` and `npasses` chosen from `Items` and `Passes`.  A key is
the function from positions to characters that `make_key` computes, digit by
digit.  `cache_get_wrapper` is modelled block by block, with `bytes_dec` and
`bytes_enc` as 8-bit signed values; `SizeT` is the conversion to `size_t` in
the second loop (2^30 stands for 2^64: the value is only compared with small
lengths).  AES never fails and is not interpreted; a failed assertion leads to
`aborted`.  `pass_start` and `pass_done` are the two marker instructions.

### TlbCache and TlbHistory

One action per iteration of `cycle_helper`, on arrays of tags in LRU order
with 0 for an unused way.  Set and tag are `%` and `\div` by the number of
sets, as mask and shift are for the powers of two in `config.h`; ASIDs are
above `AsidUnit`.  `CACHE_INCLUSIVE` is 0, so `evict` is never called.
`TlbHistory` adds a clock and, for every cache, the blocks asked for with the
time of their last use (`used`), *identified by compartment and page, not by
the mixed address*; the age of a block is the number of blocks of its set used
since, and `IsLRU` says that way `n` holds the tag of the block of age `n`, and
nothing if there is none.

`HitsWereAsked` says that nothing hits that was not asked for before.

### JenkinsHash

The function on a memory of bytes.  `path` is the choice by the alignment of
the pointer, `load` the bytes of one word of a block as that path gets them
(words read whole and `masked`, halves, or bytes), `whole_block` an iteration of
the loop, `last_block` the switch and the final mixing.  A 32-bit word is two
16-bit halves, because TLC's integers are 32 bits and signed; `Add32`, `Sub32`,
`Xor32` and `rot` wrap as `uint32_t` does, and exclusive or is defined by halves
down to bits.  `read` collects the addresses that were read.  The memory around
the key (`Memory`), where a key starts and how long it is are parameters.  The
reference `Hash` is defined on strings, without memory or alignment: `Absorbed`
is the state after so many blocks, a recursive function, in which a word is just
the value of its bytes (`WordOf`).  `MCJenkins!Vectors` compares it with values
returned by the compiled C function.

### Pintool, TraceReader, Tracing

An entry is a marker, or an access: the part of the program whose code made it
(its routine's name is in the line; the reader does not look at it, which is
what makes `RightCompartment` worth checking), its address and its size.  The
stack accesses of `cache_get`'s first instruction and of its return are kinds of
their own, "entry" and "return", because they share their instruction with a
switch.  A line is its length.  `snprintf` cuts a line of 100 bytes or more and returns
the length it would have had, so the text behind it is hidden by a NUL until
the buffer is written; `nul` is that.  `flush_line` is one iteration of
`flush_accesses`.

`TraceReader` has one action per kind of line; the assertions decide between
`read` and `aborted`.  `reps` starts with any value of `Garbage`, since the
code does not initialise it.  An access is passed to `Sim`, an instance of
`TlbCache`: `read_access` is the call of `cycle_access`, `simulate` its loops,
`access_done` its return.  The timer is armed before `sigaction` installs its
handler, and `timer_expires` in between kills the process.
`ReaderAssumption` says that no routine of the traced program has a name so
long that its lines are cut.

`Tracing` runs `Workload` under `Pintool`: every step of the program leaves in
`calls` the analysis routines its instructions trigger (`Instrumented`, from
`InstrumentAccess` and `ImageLoad`), and the program goes on when all of them
have run, flushes included.  The accesses of a step are those to the data the
step works on, at the addresses the instance gives the buffers, the hash table
and the page; how many instructions that takes is abstract.

The first instruction of `cache_get_wrapper` and of `cache_get` and their
returns touch the stack (at `Stack`) and carry a call of `ImageLoad` too
(`Boundary`).  The two calls are inserted by two callbacks with the same
`CALL_ORDER`, and for that case Pin's documentation says that the order "depends
on the implementation and may change without notice"
(`memtrace/pin/doc/html/group__INST__ARGS.html`).  `MarkersFirst` is the set of
`ImageLoad`'s calls that run before the access of their instruction.  It is a
constant because an installed Pin has one order; the theorems hold for every
value, and the runs use two.  `RightCompartment` therefore says which compartment
each access gets, in terms of `MarkersFirst`: everything inside `cache_get` is
the cache's and everything outside the wrapper's, and each of the two border
accesses is on the side of the switch on which Pin runs it.  So the "compartment
switch around cache_get" of `ImageLoad`'s comment is not quite that.  For all of
`cache_get`'s accesses to be the cache's, "switch_cache" would have to run before
and "switch_wrapper" after the access of its instruction; when Pin treats the two
alike, one access per get is simulated in the wrapper's compartment.

The tool finishes
when the program is gone, or is gone with it (`fini_skipped`), and then the
reader runs.  `ends` remembers the simulator at the end of every repetition.

### Driver

Several invocations of `run.py` share the clock, the built programs and the
directories.  A directory's name is a second; `mkdir` and `open` with `x` fail
when the name is taken.  A datapoint is two steps, `run_pin` and
`run_tlbcache`, each with every outcome the modules above give it (no trace, a
cut trace, a whole one; a result or none); the driver looks at none of them.
`make clean` of one invocation takes the Pin tool and the reader away from
another; that of `src` removes the object files and leaves the program.

## 3. Runs

| run | spec | checks |
|---|---|---|
| `cache_lists` | `Cache!Spec` | `TypeOK`, `WalksEnd`, `ChunksPartitioned`, `BackLinks`, `KeysInPlace`, `FreeCounted`, `ItemsFit`, `WalkMissesNothing`, `MemoryAccounted` |
| `cache_store` | `Cache!Spec` | `IsKVStore` (refinement, liveness included) |
| `tlb_lru` | `TlbHistory!HSpec` | `TypeOK`, `SetsDistinct`, `StatsNested`, `IsLRU` |
| `workload` | `Workload!WSpec` | `SetsSucceedWithinPage`, `KeysSuffice`, `GetsHit`, `ReplyComplete`, `WorkingSet`, `BlocksInBounds`, `Ends` |
| `pintool` | `Pintool!PinSpec`, bounded | `BuffersFit`, `TraceIntact` |
| `tracing` | `Tracing!TSpec` | `AssertsHold`, `RightCompartment`, `AllSimulated`, `SteadyState`, `UsesSimulator` (refinement of `TlbCache!Spec`), `Finished` |
| `jenkins` | `JenkinsHash!Spec` | `HashOfKey`, `ReadsInWords`, `MixReversible` |
| `driver` | `Driver!DSpec` | `SeparateDirs`, `OwnTrace`, `LogComplete`, `DriverEnds` |
| `tlb_evict` | `TlbHistory!HSpec` | `ReturnsEvicted` is violated |
| `tlb_null` | `TlbHistory!HSpec` | `HitsWereAsked` is violated |
| `workload_full` | `Workload!WSpec` | `SetsSucceed` is violated |
| `tracing_rounds` | `Tracing!TSpec` | `RoundsTotal` is violated |

The four violations are disagreements between a comment or an assertion and
the code: `access_cache` returns a tag where its comment says an address; its
arrays are cleared on the assumption that the null address is invalid, but all
addresses with tag 0, 1 MiB in the last-level cache, hit in an empty cache; the
assertion in `main` on `cache_set` fails for one item more than a page holds
(run.py's largest datapoint, 512 * 1024 items, is exactly a page of 64-byte
chunks); and the number of rounds printed is an uninitialised variable.  The
comment at the end of the warm-up says that it lasts one repetition, where the
code has two; the mutant of `SteadyState` follows the comment and shows that
two are needed: after one, the second levels are still settling.

`UsesSimulator` is where the parts meet: it shows that the reader calls the
simulator only as `TlbCache!Spec` allows, so that `SetsDistinct` and
`StatsNested`, proved of every behaviour of `TlbCache`, hold of a datapoint.

Some properties hold only under a condition that the code does not establish,
and say so: `GetsHit`, `ReplyComplete` and `SetsSucceedWithinPage` speak of
runs in which the page was obtained (`HasMemory`), `SteadyState` of runs in
which `reps` happened to start at 0.

### Bounds

* `cache_lists`: four keys, three of them in one bucket, three chunks: a
  bucket of three (unlink at head, middle and tail), two buckets exchanging
  chunks through the free list, and exhaustion with a fourth key.  The page of
  200 bytes has a tail that is no chunk.  One value fits the class with memory
  exactly, the other is one byte too long.
* `cache_store`: three keys on two chunks, values that fit, that have no memory
  behind their class, and that fit no class; buffers that cut the value and
  that do not.
* `tlb_lru`: two-way sets, one set in the first level and two in the second;
  addresses that fill a set three times over; an access that spans two lines
  and two pages; two compartments; four accesses, enough to fill a set, hit in
  its last way, evict and come back.  One line has tag 0 in the last level,
  which the code takes for an unused way.  The trace ends, so deadlock is not
  checked.
* `workload`: keys of three characters out of two, so eight names; four chunks;
  0, 3, 4 and 9 items; 0, 1 and 3 passes.  9 items are more than the names and
  more than the chunks.  A value of 123 bytes makes an item of exactly a chunk
  (160 bytes), as main's 25 bytes do with a chunk of 64, and with its length a
  reply of 127 bytes in eight blocks: `bytes_enc` wraps to -128 at its end.  The
  mutant of `BlocksInBounds` compares it as a signed number and goes on to
  encrypt in front of the reply.
* `pintool`: seven entries, markers and accesses with lines of three lengths, one
  of them too long and cut (`Recorded`); two entries in `accesses` and 30 bytes of
  text, so that several flushes happen, with lines cut before, at and after the
  threshold.  The tool stops when the bound is reached, so deadlock is not
  checked.
* `tracing`: the program with a value of 27 bytes and chunks of 64, with 0, 4
  and 5 items (a full page, and one item more) and 0, 1 and 4 passes, so that there are two repetitions after the
  warm-up; `accesses` of five entries and a text buffer of 48 bytes, which fill
  up at different places in every pass; TLBs and caches smaller than the working
  set; `reps` starting at 0, 1 or 7; "on" and "switch_wrapper" run before the
  access of their instruction, "off" and "switch_cache" after it, so both orders
  occur at an entry and at a return (`tracing_rounds` has
  the markers first everywhere).
* `jenkins`: the four alignments of a pointer; lengths 0 to 16 and 23 to 25,
  which are all sizes of a last block and one, two and three blocks; memories of
  which every byte, no byte and some bytes have the top bit.
* `driver`: two invocations, two seconds, two sizes; every combination of
  arguments and of programs that are already built.

### Fairness

`Cache!Spec`: weak fairness of the steps inside a call, none on `Call`: the
thread that is in a call goes on, nobody has to call.  `WSpec` and `TSpec`:
weak fairness of the running thread, for which there is always exactly one
process to run (`timer_expires` is one of the outcomes of a step, and nothing
is assumed about which one happens).  There is no lock, no wait and no other thread that could take
turns, so a thread that can take a step does.  `DSpec`: weak fairness for every
invocation that was started, none for starting one and none for the clock; that
a process the driver waits for ends is `Ends` and `Finished`.  `JenkinsHash` and
`Pintool` on their own have safety properties only and no fairness.

## 4. Proofs

All theorems hold for every value of the constants that satisfies the named
assumptions: any number of keys, buckets, chunks, items and passes, any hash
function, any cache geometry and trace, any buffer sizes, any number of
invocations of the driver.  Every assumption is evaluated by the run of the
module that states it.

| assumption | says | because |
|---|---|---|
| `ClassAssumption`, `PageAssumption`, `PreallocAssumption` | class sizes double from `min_size` up to `max_size`; the preallocated size has a class | the loop of `slab_init`, and its one call of `slab_preallocate` |
| `KeyAssumption`, `RequestAssumption` | lengths are numbers, `hash` is a function into the buckets, `NULL` is none of the values | C |
| `WorkloadAssumption`, `NamesAssumption`, `ItemAssumption` | keys fit `keybuf`; there are names for more items than a page has chunks; main's item fits the preallocated class and no smaller one, its value and length fit 128 bytes | the constants of `config.h` and `main.c`: 64^5 names against 2^19 chunks, 32 + 5 + 1 + 25 + 1 = 64 bytes |
| `PintoolAssumption`, `ReaderAssumption` | a line is at most a sixth of the buffer; the traced routines' lines are not cut | 100 against `LOGBUFSIZE`; the names in the two programs |
| `DataAssumption` | the addresses the program touches, the stack's included, are accesses of the simulator | `Access` is the program's data |
| `OrderAssumption` | `MarkersFirst` is a set of calls of `ImageLoad`, any set | Pin leaves the order open |
| `SimulatorAssumption` | what the simulator requires (next row), and accesses below 100 bytes | no x86 instruction accesses more than 64 bytes at a time but the `xsave` family, which the traced code does not execute |
| `GeometryAssumption`, `AccessAssumption` | at least one set and one way; accesses of a byte or more, of pages below the ASID bits | `config.h`; user addresses |
| `NoTagZero` (a hypothesis of `NothingHitsUnasked` only) | no access has tag 0 in any cache | user code is above the first MiB and compartments are 1 and 2.  Without it the theorem is false, which is what `tlb_null` shows |
| `MemoryAssumption` | memory is whole words, and the key lies in it | pages are words |
| `DriverAssumption`, `SizesAssumption` | sizes are whole kilobytes below a megabyte | the list in `run()` |

**CacheProofs.** `Invariance` proves `Spec => []IInv`; from it `TypeCorrect`,
`WalksTerminate`, `ChunksNeverShared`, `PrevMirrorsNext`, `KeysUnique`,
`CountsExact`, `ItemsAlwaysFit` and `SearchComplete`.  None of these is
inductive alone:

* unlinking through `prev` is right only if `BackLinks` holds, and `BackLinks`
  survives a reuse of a chunk only because the chunk is in no other chain
  (`ChunksPartitioned`);
* taking the head of the free list needs `FreeCounted`, to know that there is
  one, and `ItemsFit`, to know that it goes back to its own class;
* `KeysInPlace` survives an insertion because the search before it was
  complete (`WalkMissesNothing`), which `Phases` carries from the end of the
  search to the insertion;
* `Phases` also says that chunks not yet split off the page point nowhere;
* `WalksEnd` gives the meaning of all of them: what a head reaches.

Chains are the difficulty.  The first section of `CacheProofs` defines nothing
by recursion: `Chain(next, head)` is the least set that contains the head and is
closed under `next`, and the lemmas say what pushing in front, removing the
first and bypassing one item do to it, to its acyclicity and to its cardinality.

`UsageExact` (`MemoryAccounted`) adds `Pages`: a page is counted only when all
of it is on the free list, and only in the preallocated class.  So the sum over
all classes has one term that is not zero, and the chunks in use are those that
`ChunksPartitioned` leaves outside the free list.

`ImplementsStore`: the initial states map to those of
`KVStore` and every step maps to a step or a stutter, under the refinement
mapping of `Cache!IsKVStore`; this is its safety part.  On top of `IInv` it
needs only that there is no request between calls.  The mapping speaks of what
is reachable from a bucket and of the item a set is replacing; the lemmas say
which keys each step of a set changes, and that is one key, when the call
returns.  That a get misses exactly when the map has no such key is
`WalkMissesNothing` at the end of a chain.

**WorkloadProofs.** `WInvariance`, and from it the six invariants of the
`workload` run.  `WInv` is stated over the abstract map, not over chains:
`Contents` says that while main stores item `i` the map holds exactly the first
`i` keys.  It uses `KVStore`'s steps, through `ImplementsStore`'s lemmas, for what a set or
a get does to the map, and `make_key` being injective on the items that have
names (`Named`), an argument on digits.  A failing set is impossible within a page because
the map then holds fewer keys than the page has chunks and the pair's class is
the one with memory.  `Messages` carries the 8-bit counters: `bytes_enc` becomes
-128 when 128 bytes are sent, which ends the loop since the comparison is
unsigned, so `ReplyComplete` holds up to the 128 bytes of
`ItemAssumption`.

**PintoolProofs.** `PinInvariance`, `PinBuffersFit`, `PinTraceIntact`, for the
tool on its own, whatever the program makes it record and however long its
lines are.  The invariant adds to the two properties the types and `NulAfterCut`
(the buffer holds a NUL only behind a line that was cut); the argument is
associativity of concatenation at each step of the flush, as far as the first
cut line, and 5/6 of the buffer plus a line is within it.

**TracingProofs.** About the whole datapoint: `ReaderNeverAborts`,
`CompartmentsRight`, `NothingSkipped` and `SimulatorUsed`, the refinement of
`TlbCache!Spec`.  `TInv` joins the two invariants above with

* `Recorded`: what the tool has recorded is `WellFormed` (repetitions and
  switches alternate, an access is inside a repetition and of the compartment
  the switches say), and the analysis routines that are still to run lead from
  where the trace is to where main is (`Leads`);
* `Early`: until main has stored its items nothing is recorded, so that a
  program that is killed there leaves a trace that is empty and not cut;
* `FileComplete`: the closed file is what was recorded (`TraceIntact`, and no
  line is cut);
* `ReadAhead` and `Simulated`: the reader's `repstarted` and `cur_comp_id` are
  what the lines before say, and `naccess` counts the accesses among them.

`CompartmentsRight` is about every access, the two border accesses of
`cache_get` included, for every `MarkersFirst`: `WellFormed` puts an access
between the switches exactly if `BetweenSwitches` says so, and `Leads` carries
that through the calls still to run, of which a step of the program leaves up to
three.  With `TInv` the reader's assertions follow from `WellFormed`, whatever `reps`
started with.

`TraceRepeats`: the file, unless it is empty, is `npasses` copies of one
list of lines.  The steps of a pass follow from what the
program is at (`View`, `NextView`), because the passes only read: the chains,
the keys and the values stay as the last set left them.  So there is one
`Orbit` from the start of a pass, whatever the pass; the invariant `Repeating`
says that the trace so far is whole copies of the lines along it (`Whole`) and
then as much of one more copy as the program has come along the orbit
(`InStep`).  The orbit is what makes it inductive: that the next line equals
the line one copy earlier follows only if the program stands where it stood
then.

`MeasurementSteady` is `TSpec => []SteadyState`: after two repetitions, each
further one leaves all TLBs and caches as it found them and adds the same
misses and accesses to the statistics, for every program of the workload, every
geometry and every placement of the flushes.  It joins `TraceRepeats` with
`AllSettle`.  What joins them is the invariant `Reading`: arrays, statistics and
`data_counter` are functions of the lines read so far (`Reached`), and `ends`
holds their values at the ends of the repetitions (`EndAt`).  To be a function
of the trace, a lookup gets a time that the trace alone determines: a line takes
`Slots` units, from 0 on for the pages that its access spans and from `Half` on
for its cache lines, and a time at which nothing is looked up changes nothing
(`Quiet`).  That is what needs accesses below 100 bytes.  The times of the
lookups repeat since the lines do (`LookupsRepeat`), so the instance `Lru` of
`TlbCacheProofs` applies.

**TlbCacheProofs.** `TlbTypes`, `TagsUnique` and `StatsConsistent`, by an
invariant that adds the shape of the arrays.  The LRU update is shown to be a
rotation of a prefix of the set; the least way that holds a tag comes from
well-foundedness.

`TrueLRU` says what the simulator holds: `HSpec => []IsLRU`,
for every trace.  The invariant `HInv` adds to the one above the meaning of
cycle_helper's arguments (`CallShape`) and of the history (`History`: finitely
many blocks, no two used at the same time).  The heart is `LruStep`: one
rotation changes the ages of the blocks in a set as a use of the block does
(`RankMoves`), because the way the tag was found in *is* the block's age.  A
block with tag 0 may also be found in a way that was never used; then it was
not asked for before, that way is the first unused one, since the ages in a set
have no gaps (`RankDense`), and the rotation is the one of an insertion.  So
tag 0 spoils the count of misses and never the contents: `NothingHitsUnasked`,
`HitsWereAsked` for every trace, is the one that needs `NoTagZero`.  That different blocks of a set have different tags (`BlocksDiffer`) is
where the mixing of page and compartment counts: `mixpageasid` is injective on
pages below the ASID bits, and set and tag determine an address.

`CacheSettles` and `TwoLevelsSettle` say why `WARMUP_REPS` is 2.  They are about
an LRU cache as a function of what it was asked for and when (`LruWays`,
`Missing`, which `OrderedWays` shows to be what the simulator holds): once the
questions to a cache repeat with a period, it misses on the same ones from one
period later on (`CacheSettles`); since the questions to a second level are the
misses of the first, a second level settles one period after that
(`TwoLevelsSettle`), which is the end of the second repetition and, in general,
no earlier.  `AllSettle` puts the six together as they are connected, two first
levels and the second levels behind them, and `CountPeriods` turns it into
numbers of misses.

**JenkinsProofs.** `HashDependsOnKey` and `ReadsStayInWords`, for a key of any
length at any address in any memory: whichever of the three paths the alignment
chooses, the result is `Hash` of the bytes of the key, and what is read are
words that hold a byte of the key.  So `cache_set` and `cache_get`, which hash
copies of a key at different alignments, look in the same bucket.  The invariant
`JInv` says that after `b` blocks the state is `Absorbed(TheKey)[b]`; the loads of
each path are compared with `WordOf` by the carries of `Add32`.  That the
recursive function exists is shown with `LeastNat` (`AbsorbsExists`).
`MixLosesNothing` (`MixReversible`) runs the lines of `mix` backwards, with
`Sub32` undoing `Add32` and `Xor32` undoing itself; so two keys that differ in a
block before the last leave different states there.

**DriverProofs.** `DInvariance`, and from it `DirectoriesSeparate`,
`ResultsOwn` and `LogsComplete`.  `SeparateDirs` is inductive only with
`Directories` (a directory is there before its owner works in it, so `mkdir`
never gives it to a second one); `OwnTrace` needs that every trace in a
directory is its owner's and under the name of its own size (`TracesOwn`), and
that `readable` tells the sizes apart (`ReadableInjective`), which is where
`SizesAssumption` is used.

**NumberProofs.** Division, and the least element of a set of numbers
(`LeastNat`).  The latter stands for induction wherever it is needed.

**Only model-checked.**

* Liveness, which this prover does not do: `Ends`, `Finished`, `DriverEnds`, and
  the fairness in `IsKVStore`.
* The properties that are violated, of which there is nothing to prove.

## 5. Not modelled

* The vendored libraries: mbed TLS (`mbedtls-3.1.0`) and Intel Pin
  (`memtrace/pin`).  They are all but about 1,500 of the repository's 600,000
  lines; the program calls AES block functions of the one, which do not fail and
  are not interpreted, and the other is modelled as the order in which it runs
  the analysis routines.  Of the repository's own code, every operation that
  changes state is modelled but for what follows.
* `dump_cache` (both), the statistics' text, the body of the signal handler,
  which is empty, `icount`, `user_insts` and `kern_insts`, which nothing uses;
  `evict`, which this configuration never calls.
* In `jenkins_hash.c` the branch for VALGRIND and the function for big-endian
  machines: neither is compiled on the machines that Pin runs on.
* Messages of 128 bytes or more in the wrapper, where `bytes_dec` would wrap:
  `main` sends one request of 16 bytes per get and the cache holds 25-byte
  values, and no other caller exists.  `BlocksInBounds` checks the messages it
  sends.
* In the reader, a line that is not one that the Pin tool writes whole: after a
  crash of Pin the last line may be cut, and the reader then reads a token that
  is not there.  `Driver` has this as a reader without a result.
* `flush_all` is declared in `cache.h` and defined nowhere.

## 6. Plan

Done: all modules and runs; every safety property of a passing run as a theorem
for all values of the constants: the invariants of the cache, the workload, the
Pin tool, the datapoint, the simulator, the hash and the driver, the safety part
of `IsKVStore`, `UsesSimulator`, `IsLRU` and `SteadyState`.

What is left to TLC is liveness, and the four properties that are violated.
