------------------------------ MODULE Tracing ------------------------------
(***************************************************************************)
(* One datapoint of src/run.py: the program of module Workload runs under  *)
(* the Pin tool, and then the trace is read and simulated.                 *)
(*                                                                         *)
(* Every step of the program makes its instrumented instructions run       *)
(* analysis routines, which the tool executes one after the other before   *)
(* the program goes on.                                                    *)
(***************************************************************************)
EXTENDS Workload, TraceReader

CONSTANTS
  Message, Reply, Table, Page, Stack,   \* addresses of the program's data
  MarkersFirst      \* calls of ImageLoad that run before the access of their instruction

VARIABLES
  calls,            \* analysis routines that the program's last step calls
  ends              \* history: the simulator at the end of every repetition

tvars == <<allVars, pinVars, readVars, calls, ends>>

TInit == WInit /\ PinInit /\ ReadInit /\ calls = <<>> /\ ends = <<>>

-----------------------------------------------------------------------------
At(a, n) == [addr |-> a, size |-> n]

Do(what) == [what |-> what, at |-> NoData]

(* Access holds the program's data: the blocks of the messages, the        *)
(* buckets, the items and the stack.  The compartments and the kind of     *)
(* access are those of the reader.                                         *)
ASSUME DataAssumption ==
  /\ {Message, Reply, Table, Page, Stack} \subseteq Nat
  /\ \A n \in 0 .. 15 : At(Message + AesBlock * n, AesBlock) \in Access
                      /\ At(Reply + AesBlock * n, AesBlock) \in Access
  /\ \A b \in Bucket : At(Table + 8 * b, 8) \in Access
  /\ \A n \in Item : At(Page + class_size[PreClass] * n, 8) \in Access
  /\ At(Stack, 8) \in Access
  /\ {WRAPPER_COMPARTMENT_ID, CACHE_COMPARTMENT_ID} \subseteq Asid
  /\ "DATA" \in AccessType

(* ImageLoad and InstrumentAccess put their calls on the first and the     *)
(* last instruction of a routine both, and Pin leaves open which of the    *)
(* two then runs first.  A first instruction that does not touch the stack *)
(* is as if its marker came first.                                         *)
ASSUME OrderAssumption == MarkersFirst \subseteq {"on", "off", "switch_cache", "switch_wrapper"}

(* The wrapper works on its two messages, block by block. *)
Wrapper(a) == [what |-> "wrapper", at |-> At(a, AesBlock)]

(* The cache reads a bucket, then the items of its chain. *)
InTable == [what |-> "cache", at |-> At(Table + 8 * hash[make_key(i)], 8)]
InChunk == [what |-> "cache", at |-> At(Page + class_size[clsid[it]] * it, 8)]

(* The first instruction of a routine, or its return: both touch the stack *)
(* and carry a call of ImageLoad.                                          *)
Boundary(marker, what) ==
  LET access == [what |-> what, at |-> At(Stack, 8)] IN
  IF marker \in MarkersFirst THEN <<Do(marker), access>> ELSE <<access, Do(marker)>>

EnterWrapper == Boundary("on", "wrapper")
LeaveWrapper == Boundary("off", "wrapper")
EnterCache   == Boundary("switch_cache", "entry")
LeaveCache   == Boundary("switch_wrapper", "return")

(* The analysis routines that InstrumentAccess and ImageLoad insert, by    *)
(* the step of the program: "on" and "off" around cache_get_wrapper, the   *)
(* switches around cache_get, the two instructions that mark a repetition, *)
(* and the accesses of each compartment.                                   *)
Instrumented ==
  LET main == [what |-> "main", at |-> At(Message, AesBlock)] IN
  CASE mpc = "pass" /\ mpc' = "get" -> <<Do("repstart")>>
    [] mpc = "get" /\ mpc' = "pass" -> <<Do("repend")>>
    [] mpc = "get" /\ mpc' = "decrypt" -> <<main>> \o EnterWrapper
    [] mpc = "decrypt" /\ mpc' = "decrypt" -> <<Wrapper(Message + bytes_dec)>>
    [] mpc = "decrypt" /\ mpc' = "getting" -> EnterCache \o <<InTable>>
    [] mpc = "getting" /\ pc = "find" /\ pc' = "find" -> <<InChunk>>
    [] mpc = "getting" /\ pc = "find" /\ pc' = "idle" ->
         IF it = NULL THEN LeaveCache ELSE <<InChunk>> \o LeaveCache
    [] mpc = "getting" /\ mpc' = "encrypt" -> <<Wrapper(Reply)>>
    [] mpc = "encrypt" /\ mpc' = "encrypt" -> <<Wrapper(Reply + bytes_enc)>>
    [] mpc # "returned" /\ mpc' = "returned" -> LeaveWrapper
    [] OTHER -> <<main>>

program_step ==
  /\ calls = <<>>
  /\ ppc = "run"
  /\ Run
  /\ calls' = Instrumented
  /\ UNCHANGED <<pinVars, readVars, ends>>

analysis_routine ==
  /\ calls # <<>>
  /\ LET e == Head(calls) IN
       \/ e.what \in {"on", "off"} /\ SetTrigger(e.what = "on")
       \/ e.what \in Marker /\ PrintMarker(e.what)
       \/ e.what \in Code /\ DoAccessAccounting(e.what, e.at)
  /\ calls' = Tail(calls)
  /\ UNCHANGED <<allVars, readVars, ends>>

flush ==
  /\ flush_line \/ flush_done
  /\ UNCHANGED <<allVars, readVars, calls, ends>>

(* The program is gone, by exit, by an assertion or by a fault. *)
fini ==
  /\ mpc \in {"exit", "aborted"} \/ pc = "crashed"
  /\ calls = <<>>
  /\ Fini \/ fini_done
  /\ UNCHANGED <<allVars, readVars, calls, ends>>

(* A signal may take the tool with it, and what is in its buffers. *)
fini_skipped ==
  /\ mpc = "aborted" \/ pc = "crashed"
  /\ ppc = "run"
  /\ calls = <<>>
  /\ ppc' = "closed"
  /\ UNCHANGED <<allVars, accesses, flushed, PinLogBuf, nul, PinLogBufSize, PinLog,
                 AccessTrackingOn, dcount, seen, readVars, calls, ends>>

read ==
  /\ ReadNext
  /\ ends' = IF reps' # reps
               THEN Append(ends, [array |-> array, misses |-> misses, data |-> data_counter])
               ELSE ends
  /\ UNCHANGED <<allVars, pinVars, calls>>

TRun == program_step \/ analysis_routine \/ flush \/ fini \/ fini_skipped \/ read

TDone == rpc \in {"aborted", "killed", "done"} /\ UNCHANGED tvars

TNext == TRun \/ TDone

(* run.py starts one process after the other, and each of them runs on. *)
TSpec == TInit /\ [][TNext]_tvars /\ WF_tvars(TRun)

-----------------------------------------------------------------------------
(* Properties *)

(* The accesses on cache_get's own instructions between the two switches.  *)
BetweenSwitches(what) ==
  \/ what = "cache"
  \/ what = "entry" /\ "switch_cache" \in MarkersFirst
  \/ what = "return" /\ "switch_wrapper" \notin MarkersFirst

(* Every access of the wrapper is simulated in the wrapper's compartment   *)
(* and every access of the cache in the cache's, but for those of the two  *)
(* instructions that are the border: the stack access of cache_get's first *)
(* instruction is the cache's only if Pin runs "switch_cache" before it,   *)
(* and that of its return only if Pin runs "switch_wrapper" after it.      *)
RightCompartment ==
  stage # "idle" =>
    call.asid = IF BetweenSwitches(Line.what) THEN CACHE_COMPARTMENT_ID
                                              ELSE WRAPPER_COMPARTMENT_ID

(* What the repetition k adds to the printed statistics. *)
Gain(k) == [data |-> ends[k].data - ends[k - 1].data,
            misses |-> [c \in Sim!CacheName |-> ends[k].misses[c] - ends[k - 1].misses[c]]]

(* The measurement is a steady state, although the second levels are still *)
(* settling when the first ones are warm: provided that reps starts at     *)
(* zero, every repetition after the warm-up leaves all TLBs and caches as  *)
(* it found them and adds as many accesses and misses as any other, so     *)
(* that the totals are those of one repetition times their number.         *)
SteadyState ==
  reps = Len(ends) =>
    /\ \A k \in WARMUP_REPS + 1 .. Len(ends) :
         /\ ends[k].array = ends[k - 1].array
         /\ Gain(k) = Gain(WARMUP_REPS + 1)
    /\ rpc = "done" /\ npasses >= WARMUP_REPS =>
         data_counter * npasses = dcount * (npasses - WARMUP_REPS)

(* The datapoint comes to an end, and with a result unless the timer kills *)
(* the reader.                                                             *)
Finished == <>(rpc \in {"done", "killed"})
=============================================================================
