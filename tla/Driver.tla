------------------------------- MODULE Driver -------------------------------
(***************************************************************************)
(* The experiment driver src/run.py, of which several may be running in    *)
(* the same checkout.  They share the programs that make builds, the       *)
(* directories named after the second they were started in, and the clock, *)
(* which is local time and may be set back.                                *)
(*                                                                         *)
(* The driver starts one process at a time and never looks at how it       *)
(* ended; a program that does not exist, a directory or a log that does,   *)
(* end it with an exception.                                               *)
(***************************************************************************)
EXTENDS Integers, Sequences

CONSTANTS
  Invocation,       \* invocations of run.py
  Second,           \* times of the clock
  Sizes,            \* the list in run()
  NULL

Kilo == 1024

TraceRec == [by : Invocation, size : Nat, whole : BOOLEAN]
LogRec   == [by : Invocation, size : Nat, out : TraceRec \cup {NULL}]

ASSUME DriverAssumption ==
  /\ Sizes \in Seq(Nat) /\ Len(Sizes) > 0
  /\ NULL \notin Second /\ NULL \notin Seq(LogRec)

(* The sizes of run() are whole kilobytes below a megabyte. *)
ASSUME SizesAssumption ==
  \A k \in 1 .. Len(Sizes) :
    Sizes[k] >= Kilo /\ Sizes[k] < Kilo * Kilo /\ Sizes[k] % Kilo = 0

(* In the order in which build() makes them. *)
Programs == <<"mycache", "pintool", "tlbcache">>

(* Mutant: kilobytes are rounded to megabytes. *)
readable_Coarse(size) == <<size \div (Kilo * Kilo), "M">>

(* A size, as it is printed and used in file names. *)
readable(size) ==
  IF size < Kilo THEN <<size, "">>
  ELSE IF size < Kilo * Kilo THEN <<size \div Kilo, "K">>
  ELSE IF size < Kilo * Kilo * Kilo THEN <<size \div (Kilo * Kilo), "M">>
  ELSE <<size \div (Kilo * Kilo * Kilo), "G">>

FileName == {readable(Sizes[k]) : k \in DOMAIN Sizes}

VARIABLES
  now,              \* the clock
  built,            \* whether a program is there
  dirs,             \* data directories, by the second in their name
  traces,           \* the trace in a file pin_<runs>_<size>.log, if any
  log,              \* the records in a directory's log, if there is one
  dpc, clean, n,    \* of every invocation: where it is, its argument -c, a
  data_dir, stdout  \* loop variable, its directory, the reader's output

shared == <<now, built, dirs, traces, log>>
dvars  == <<shared, dpc, clean, n, data_dir, stdout>>

DInit ==
  /\ now \in Second
  /\ built \in [{Programs[k] : k \in 1 .. 3} -> BOOLEAN]
  /\ dirs = {}
  /\ traces = [f \in Second \X FileName |-> NULL]
  /\ log = [d \in Second |-> NULL]
  /\ dpc = [p \in Invocation |-> "new"]
  /\ clean = [p \in Invocation |-> FALSE]
  /\ n = [p \in Invocation |-> 1]
  /\ data_dir = [p \in Invocation |-> NULL]
  /\ stdout = [p \in Invocation |-> NULL]

Goto(p, label) == dpc' = [dpc EXCEPT ![p] = label]

-----------------------------------------------------------------------------
(* main *)
start(p, b, c) ==
  /\ dpc[p] = "new"
  /\ clean' = [clean EXCEPT ![p] = c]
  /\ Goto(p, IF ~b THEN "now" ELSE IF c THEN "clean" ELSE "make")
  /\ UNCHANGED <<shared, n, data_dir, stdout>>

(* The Makefile of src removes the object files only: mycache stays. *)
make_clean(p) ==
  /\ dpc[p] = "clean"
  /\ built' = [built EXCEPT ![Programs[n[p]]] = @ /\ Programs[n[p]] = "mycache"]
  /\ Goto(p, "make")
  /\ UNCHANGED <<now, dirs, traces, log, clean, n, data_dir, stdout>>

(* A make that fails leaves the program as it was. *)
make(p) ==
  /\ dpc[p] = "make"
  /\ \E ok \in {TRUE, built[Programs[n[p]]]} : built' = [built EXCEPT ![Programs[n[p]]] = ok]
  /\ n' = [n EXCEPT ![p] = (@ % 3) + 1]
  /\ Goto(p, IF n[p] = 3 THEN "now" ELSE IF clean[p] THEN "clean" ELSE "make")
  /\ UNCHANGED <<now, dirs, traces, log, clean, data_dir, stdout>>

-----------------------------------------------------------------------------
(* run *)
datetime_now(p) ==
  /\ dpc[p] = "now"
  /\ data_dir' = [data_dir EXCEPT ![p] = now]
  /\ Goto(p, "mkdir")
  /\ UNCHANGED <<shared, clean, n, stdout>>

(* Mutant: os.makedirs(data_dir, exist_ok=True). *)
AfterMkdir_ExistOk(d) == "open"

(* os.mkdir raises FileExistsError. *)
AfterMkdir(d) == IF d \in dirs THEN "failed" ELSE "open"

mkdir(p) ==
  /\ dpc[p] = "mkdir"
  /\ dirs' = dirs \cup {data_dir[p]}
  /\ Goto(p, AfterMkdir(data_dir[p]))
  /\ UNCHANGED <<now, built, traces, log, clean, n, data_dir, stdout>>

(* open(..., 'x'); mkdir has made sure that there is none. *)
open_log(p) ==
  /\ dpc[p] = "open"
  /\ log' = [log EXCEPT ![data_dir[p]] = IF @ = NULL THEN <<>> ELSE @]
  /\ Goto(p, IF log[data_dir[p]] = NULL THEN "pin" ELSE "failed")
  /\ UNCHANGED <<now, built, dirs, traces, clean, n, data_dir, stdout>>

-----------------------------------------------------------------------------
(* run_datapoint *)
Size(p) == Sizes[n[p]]
File(p) == <<data_dir[p], readable(Size(p))>>

(* Pin may end before the tool opens its file; otherwise the trace is      *)
(* whole, or cut short with the program or with Pin.                       *)
run_pin(p) ==
  /\ dpc[p] = "pin"
  /\ \/ UNCHANGED traces
     \/ /\ built["mycache"] /\ built["pintool"]
        /\ \E whole \in BOOLEAN :
             traces' = [traces EXCEPT ![File(p)] = [by |-> p, size |-> Size(p), whole |-> whole]]
  /\ Goto(p, "trace")
  /\ UNCHANGED <<now, built, dirs, log, clean, n, data_dir, stdout>>

(* Mutant: a datapoint without a result is run again. *)
AfterTrace_Retry(out) == IF out = NULL THEN "pin" ELSE "log"

(* The driver goes on whatever the reader printed. *)
AfterTrace(out) == "log"

(* The reader prints what it makes of the trace, or nothing: it crashes    *)
(* without a file, and the timer may kill it.                              *)
run_tlbcache(p) ==
  /\ dpc[p] = "trace"
  /\ \/ /\ built["tlbcache"]
        /\ \E out \in {NULL, traces[File(p)]} :
             stdout' = [stdout EXCEPT ![p] = out] /\ Goto(p, AfterTrace(out))
     \/ /\ ~built["tlbcache"]
        /\ Goto(p, "failed")
        /\ UNCHANGED stdout
  /\ UNCHANGED <<shared, clean, n, data_dir>>

(* Mutant: a datapoint without a result is left out of the log. *)
Logged_Results(p) ==
  IF stdout[p] = NULL THEN <<>> ELSE <<[by |-> p, size |-> Size(p), out |-> stdout[p]]>>

(* What a datapoint adds to the log. *)
Logged(p) == <<[by |-> p, size |-> Size(p), out |-> stdout[p]]>>

append_log(p) ==
  /\ dpc[p] = "log"
  /\ log' = [log EXCEPT ![data_dir[p]] = @ \o Logged(p)]
  /\ n' = [n EXCEPT ![p] = @ + 1]
  /\ Goto(p, IF n[p] = Len(Sizes) THEN "exit" ELSE "pin")
  /\ UNCHANGED <<now, built, dirs, traces, clean, data_dir, stdout>>

-----------------------------------------------------------------------------
clock ==
  /\ \E t \in Second \ {now} : now' = t
  /\ UNCHANGED <<built, dirs, traces, log, dpc, clean, n, data_dir, stdout>>

Begin(p) == \E b, c \in BOOLEAN : start(p, b, c)

Work(p) ==
  \/ make_clean(p) \/ make(p) \/ datetime_now(p) \/ mkdir(p) \/ open_log(p)
  \/ run_pin(p) \/ run_tlbcache(p) \/ append_log(p)

DNext == clock \/ \E p \in Invocation : Begin(p) \/ Work(p)

(* A driver that was started runs on, and so do the processes it waits     *)
(* for (Ends of module Workload and Finished of module Tracing).           *)
DSpec == DInit /\ [][DNext]_dvars /\ \A p \in Invocation : WF_dvars(Work(p))

-----------------------------------------------------------------------------
(* Properties *)

Owns(p) == dpc[p] \in {"open", "pin", "trace", "log", "exit"}

(* Invocations that start in the same second, or once the clock was set    *)
(* back to it, never work in the same directory.                           *)
SeparateDirs ==
  \A p, q \in Invocation : p # q /\ Owns(p) /\ Owns(q) => data_dir[p] # data_dir[q]

Logs == {log[d] : d \in {d \in Second : log[d] # NULL}}

(* A result in the log is of the trace that this datapoint of this         *)
(* invocation made: when Pin fails there is no older trace in its place,   *)
(* neither of another size nor of another invocation.                      *)
OwnTrace ==
  \A recs \in Logs : \A k \in DOMAIN recs :
    LET r == recs[k] IN r.out # NULL => r.out.by = r.by /\ r.out.size = r.size

(* An invocation that gets through leaves a log with one record of its own *)
(* for each size, in order, whatever failed on the way.                    *)
LogComplete ==
  \A p \in Invocation : dpc[p] = "exit" =>
    LET recs == log[data_dir[p]] IN
      /\ Len(recs) = Len(Sizes)
      /\ \A k \in DOMAIN recs : recs[k].by = p /\ recs[k].size = Sizes[k]

(* An invocation that was started comes to its end. *)
DriverEnds ==
  \A p \in Invocation : dpc[p] # "new" ~> dpc[p] \in {"exit", "failed"}
=============================================================================
