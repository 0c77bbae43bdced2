---------------------------- MODULE TraceReader ----------------------------
(***************************************************************************)
(* The reader of src/tracing/main.c.  It runs once the traced program and  *)
(* the Pin tool are done (run.py), reads the file line by line and passes  *)
(* the accesses of the repetitions to the simulator of module TlbCache,    *)
(* with the compartment that the switch markers say is running.            *)
(***************************************************************************)
EXTENDS Pintool

CONSTANTS
  Garbage,          \* values the uninitialised variable reps may start with
  sets, assoc, LineSize, PageSize, AsidUnit, Asid, AccessType, MaxAccesses

(* Mutant: one repetition, as the comment in the loop has it. *)
WARMUP_REPS_One == 1

WARMUP_REPS == 2
WRAPPER_COMPARTMENT_ID == 1
CACHE_COMPARTMENT_ID == 2

(* No routine of the traced program has a name so long that its lines are  *)
(* cut (the longest that mbed TLS and the cache make are of 70 bytes).     *)
ASSUME ReaderAssumption ==
  /\ Garbage \subseteq Int
  /\ \A w \in Marker \cup Code : linelen[w] < LineMax

VARIABLES
  rpc,              \* "wait", "armed", "read", "aborted", "killed" or "done"
  lines_handled,
  reps, repstarted,
  cur_comp_id,
  data_counter,     \* of tlbcache.c, counted by account_data
  array, misses, warmup, stage, call, acc, evict_addr, naccess

Sim == INSTANCE TlbCache

(* What the simulator requires, and accesses whose size is printed in two  *)
(* digits.                                                                 *)
ASSUME SimulatorAssumption ==
  /\ sets \in [Sim!CacheName -> Nat \ {0}] /\ assoc \in [Sim!CacheName -> Nat \ {0}]
  /\ LineSize \in Nat \ {0} /\ PageSize \in Nat \ {0} /\ AsidUnit \in Nat \ {0}
  /\ Access \subseteq [addr : Nat, size : Nat \ {0}]
  /\ \A a \in Access : a.size < 100 /\ (a.addr + a.size - 1) \div PageSize < AsidUnit
  /\ Asid \subseteq Nat /\ AccessType \subseteq {"INST", "DATA"} /\ MaxAccesses \in Nat

simVars == <<array, misses, warmup, stage, call, acc, evict_addr, naccess>>
loopVars == <<rpc, lines_handled, reps, repstarted, cur_comp_id, data_counter>>
readVars == <<loopVars, simVars>>

ReadInit ==
  /\ rpc = "wait"
  /\ lines_handled = 0
  /\ reps \in Garbage
  /\ repstarted = FALSE
  /\ cur_comp_id = WRAPPER_COMPARTMENT_ID
  /\ data_counter = 0
  /\ Sim!Init

-----------------------------------------------------------------------------
(* timer_setup arms the timer first and installs its handler afterwards: a *)
(* reader that is kept from running for two seconds in between is killed   *)
(* by the signal.  From then on the signals do nothing.                    *)
timer_settime ==
  /\ rpc = "wait"
  /\ ppc = "closed"
  /\ rpc' = "armed"
  /\ UNCHANGED <<lines_handled, reps, repstarted, cur_comp_id, data_counter, simVars>>

timer_expires ==
  /\ rpc = "armed"
  /\ rpc' = "killed"
  /\ UNCHANGED <<lines_handled, reps, repstarted, cur_comp_id, data_counter, simVars>>

(* sigaction, and main up to its loop. *)
sigaction ==
  /\ rpc = "armed"
  /\ rpc' = "read"
  /\ UNCHANGED <<lines_handled, reps, repstarted, cur_comp_id, data_counter, simVars>>

-----------------------------------------------------------------------------
(* The line that is being handled. *)
Line == PinLog[lines_handled + 1]

(* "%02d", and strtoul of what it printed. *)
SizeText(n) == <<n \div 10, n % 10>>

(* Mutant: strtoul with base 0, for which "08" is not a number. *)
ToSize_Octal(t) == IF t[1] = 0 /\ t[2] > 7 THEN 0 ELSE 10 * t[1] + t[2]

ToSize(t) == 10 * t[1] + t[2]

(* Mutant: the format of fscanf does not consume the newline. *)
Consumed_NoNewline == lines_handled' = lines_handled

(* The end of an iteration of the loop of main. *)
Consumed == lines_handled' = lines_handled + 1

(* A line that reads as one of Words. *)
ReadLine(Words) ==
  /\ rpc = "read"
  /\ stage = "idle"
  /\ lines_handled < Len(PinLog)
  /\ Line.what \in Words

(* A marker; its assertion decides how it ends. *)
ReadMarker(marker, assertion) ==
  /\ ReadLine({marker})
  /\ rpc' = IF assertion THEN "read" ELSE "aborted"
  /\ Consumed
  /\ UNCHANGED data_counter

read_repstart ==
  /\ ReadMarker("repstart", ~repstarted)
  /\ repstarted' = ~repstarted
  /\ UNCHANGED <<reps, cur_comp_id, simVars>>

(* "++reps == WARMUP_REPS" *)
WarmupOver == reps + 1 = WARMUP_REPS

read_repend ==
  /\ ReadMarker("repend", repstarted)
  /\ repstarted' = ~repstarted
  /\ reps' = reps + 1
  /\ \/ WarmupOver /\ Sim!end_warmup
     \/ ~WarmupOver /\ UNCHANGED simVars
  /\ UNCHANGED cur_comp_id

Switch(marker, from, to) ==
  /\ ReadMarker(marker, cur_comp_id = from)
  /\ cur_comp_id' = to
  /\ UNCHANGED <<reps, repstarted, simVars>>

(* Mutant: the compartment is not switched. *)
read_switch_cache_Stay ==
  Switch("switch_cache", WRAPPER_COMPARTMENT_ID, WRAPPER_COMPARTMENT_ID)

read_switch_cache ==
  Switch("switch_cache", WRAPPER_COMPARTMENT_ID, CACHE_COMPARTMENT_ID)

(* Mutant: the compartment is not switched back. *)
read_switch_wrapper_Stay ==
  Switch("switch_wrapper", CACHE_COMPARTMENT_ID, CACHE_COMPARTMENT_ID)

read_switch_wrapper ==
  Switch("switch_wrapper", CACHE_COMPARTMENT_ID, WRAPPER_COMPARTMENT_ID)

(* An access: cycle_access up to the loops of cycle_helper, if it is part  *)
(* of a repetition.                                                        *)
read_access ==
  /\ ReadLine(Code)
  /\ IF repstarted
       THEN /\ LET size == ToSize(SizeText(Line.at.size)) IN
                 Sim!cycle_access([addr |-> Line.at.addr, size |-> size], cur_comp_id, "DATA")
            /\ UNCHANGED loopVars
       ELSE Consumed /\ UNCHANGED <<rpc, reps, repstarted, cur_comp_id, data_counter, simVars>>

simulate ==
  /\ Sim!hit_first \/ Sim!miss_first \/ Sim!to_caches
  /\ UNCHANGED loopVars

(* cycle_access returns; account_data. *)
access_done ==
  /\ Sim!return
  /\ data_counter' = IF warmup THEN data_counter ELSE data_counter + 1
  /\ Consumed
  /\ UNCHANGED <<rpc, reps, repstarted, cur_comp_id>>

(* EOF: the results are printed. *)
account_final ==
  /\ rpc = "read"
  /\ stage = "idle"
  /\ lines_handled = Len(PinLog)
  /\ rpc' = "done"
  /\ UNCHANGED <<lines_handled, reps, repstarted, cur_comp_id, data_counter, simVars>>

ReadNext ==
  \/ timer_settime \/ timer_expires \/ sigaction
  \/ read_repstart \/ read_repend \/ read_switch_cache \/ read_switch_wrapper
  \/ read_access \/ simulate \/ access_done
  \/ account_final

-----------------------------------------------------------------------------
(* Properties *)

(* The assertions of main hold on every trace the Pin tool writes:         *)
(* repetitions do not nest, and switches alternate.                        *)
AssertsHold == rpc # "aborted"

(* Every access that the Pin tool counted is simulated, once. *)
AllSimulated == rpc = "done" => naccess = dcount

(* What main makes the simulator do is what module TlbCache allows, so     *)
(* that its invariants hold of the datapoint: whole accesses only, one     *)
(* after the other, of one byte or more, by the two compartments, and a    *)
(* warm-up that ends once and between two accesses.                        *)
UsesSimulator == Sim!Spec

(* The repetitions of which the end has been read. *)
RepsRead == Len(SelectSeq(SubSeq(PinLog, 1, lines_handled), LAMBDA e : e.what = "repend"))

(* "Rounds total: %d" prints the repetitions of the trace. *)
RoundsTotal == rpc = "done" => reps = RepsRead
=============================================================================
