---------------------------- MODULE DriverProofs ----------------------------
(***************************************************************************)
(* Any number of invocations of run.py, with any number of sizes, at any   *)
(* times of a clock that goes forward or back, keep out of each other's    *)
(* directories, results and logs.                                          *)
(***************************************************************************)
EXTENDS Driver, TLAPS

Label == {"new", "clean", "make", "now", "mkdir", "open", "pin", "trace", "log", "exit",
          "failed"}

DType ==
  /\ now \in Second
  /\ built \in [{"mycache", "pintool", "tlbcache"} -> BOOLEAN]
  /\ dirs \subseteq Second
  /\ traces \in [Second \X FileName -> TraceRec \cup {NULL}]
  /\ log \in [Second -> Seq(LogRec) \cup {NULL}]
  /\ dpc \in [Invocation -> Label]
  /\ clean \in [Invocation -> BOOLEAN]
  /\ n \in [Invocation -> Nat]
  /\ data_dir \in [Invocation -> Second \cup {NULL}]
  /\ stdout \in [Invocation -> TraceRec \cup {NULL}]

InRun(p) == dpc[p] \in {"pin", "trace", "log", "exit"}

(* Where the loop variables stand. *)
Loops ==
  \A p \in Invocation :
    /\ dpc[p] \in {"new", "now", "mkdir", "open"} => n[p] = 1
    /\ dpc[p] \in {"clean", "make"} => n[p] \in 1 .. 3
    /\ dpc[p] \in {"pin", "trace", "log"} => n[p] \in 1 .. Len(Sizes)
    /\ dpc[p] = "exit" => n[p] = Len(Sizes) + 1

(* A directory is there before its owner works in it, and nothing is in a  *)
(* directory that is not there.                                            *)
Directories ==
  /\ \A p \in Invocation : dpc[p] = "mkdir" => data_dir[p] \in Second
  /\ \A p \in Invocation : Owns(p) => data_dir[p] \in dirs
  /\ \A d \in Second \ dirs, f \in FileName : traces[<<d, f>>] = NULL

(* The traces in a directory are its owner's, each under the name of its   *)
(* size; what the reader printed is of the trace just made.                *)
TracesOwn ==
  /\ \A p \in Invocation, f \in FileName :
       Owns(p) /\ traces[<<data_dir[p], f>>] # NULL =>
         LET t == traces[<<data_dir[p], f>>] IN
           t.by = p /\ f = readable(t.size) /\ \E k \in 1 .. Len(Sizes) : t.size = Sizes[k]
  /\ \A p \in Invocation :
       dpc[p] = "log" /\ stdout[p] # NULL => stdout[p].by = p /\ stdout[p].size = Size(p)

(* The log of an invocation so far. *)
LogsSoFar ==
  \A p \in Invocation : InRun(p) =>
    LET recs == log[data_dir[p]] IN
      /\ recs \in Seq(LogRec)
      /\ Len(recs) = n[p] - 1
      /\ \A k \in 1 .. Len(recs) : recs[k].by = p /\ recs[k].size = Sizes[k]

(* The inductive invariant. *)
DInv == DType /\ Loops /\ SeparateDirs /\ Directories /\ TracesOwn /\ OwnTrace /\ LogsSoFar

-----------------------------------------------------------------------------
(* Whole kilobytes are told apart by the names of their files. *)
LEMMA ReadableInjective ==
  ASSUME NEW j \in 1 .. Len(Sizes), NEW k \in 1 .. Len(Sizes),
         readable(Sizes[j]) = readable(Sizes[k])
  PROVE  Sizes[j] = Sizes[k]
<1> DEFINE x == Sizes[j]
           y == Sizes[k]
<1>0. Kilo \in Nat \ {0}
  BY DEF Kilo
<1>1. /\ x \in Nat /\ x >= Kilo /\ x < Kilo * Kilo /\ x % Kilo = 0
      /\ y \in Nat /\ y >= Kilo /\ y < Kilo * Kilo /\ y % Kilo = 0
  <2>1. x \in Nat /\ y \in Nat
    BY DriverAssumption
  <2> QED BY <2>1, SizesAssumption, Zenon
<1> HIDE DEF x, y
<1>2. readable(x) = <<x \div Kilo, "K">> /\ readable(y) = <<y \div Kilo, "K">>
  <2>1. ~(x < Kilo) /\ ~(y < Kilo)
    BY <1>0, <1>1
  <2>2. readable(x) = <<x \div Kilo, "K">>
    BY <1>1, <2>1, Zenon DEF readable
  <2>3. readable(y) = <<y \div Kilo, "K">>
    BY <1>1, <2>1, Zenon DEF readable
  <2> QED BY <2>2, <2>3
<1>3. readable(x) = readable(y)
  BY DEF x, y
<1>4. x \div Kilo = y \div Kilo
  BY <1>2, <1>3
<1>5. x = Kilo * (x \div Kilo) + (x % Kilo) /\ y = Kilo * (y \div Kilo) + (y % Kilo)
  BY <1>0, <1>1
<1>6. x = y
  BY <1>0, <1>1, <1>4, <1>5
<1> QED BY <1>6 DEF x, y

LEMMA SizeFacts ==
  ASSUME NEW k \in 1 .. Len(Sizes)
  PROVE  Sizes[k] \in Nat /\ readable(Sizes[k]) \in FileName
BY DriverAssumption DEF FileName

(* The invariant holds before any invocation was started. *)
LEMMA DInitDInv == DInit => DInv
<1> SUFFICES ASSUME DInit PROVE DInv
  OBVIOUS
<1>1. {Programs[k] : k \in 1 .. 3} = {"mycache", "pintool", "tlbcache"}
  <2>1. 1 .. 3 = {1, 2, 3}
    OBVIOUS
  <2> QED BY <2>1 DEF Programs
<1>2. DType
  BY <1>1 DEF DInit, DType, Label
<1>3. Loops /\ SeparateDirs /\ Directories /\ TracesOwn /\ LogsSoFar
  BY DEF DInit, Loops, SeparateDirs, Owns, Directories, TracesOwn, LogsSoFar, InRun
<1>4. OwnTrace
  BY DEF DInit, OwnTrace, Logs
<1> QED BY <1>2, <1>3, <1>4 DEF DInv

-----------------------------------------------------------------------------
(* The operands of the steps of an invocation. *)
LEMMA StepFacts ==
  ASSUME DInv, NEW p \in Invocation
  PROVE  /\ dpc[p] \in {"clean", "make"} =>
              Programs[n[p]] \in {"mycache", "pintool", "tlbcache"}
         /\ Owns(p) => data_dir[p] \in Second /\ data_dir[p] \in dirs
         /\ dpc[p] \in {"pin", "trace", "log"} =>
              /\ n[p] \in 1 .. Len(Sizes)
              /\ Size(p) \in Nat
              /\ readable(Size(p)) \in FileName
              /\ File(p) \in Second \X FileName
<1>1. dpc[p] \in {"clean", "make"} => Programs[n[p]] \in {"mycache", "pintool", "tlbcache"}
  <2>1. ASSUME n[p] \in 1 .. 3 PROVE n[p] = 1 \/ n[p] = 2 \/ n[p] = 3
    BY <2>1
  <2> QED BY <2>1 DEF DInv, Loops, Programs
<1>2. Owns(p) => data_dir[p] \in Second /\ data_dir[p] \in dirs
  BY DEF DInv, Directories, DType
<1>3. dpc[p] \in {"pin", "trace", "log"} => n[p] \in 1 .. Len(Sizes)
  BY DEF DInv, Loops
<1>4. dpc[p] \in {"pin", "trace", "log"} => Size(p) \in Nat /\ readable(Size(p)) \in FileName
  BY <1>3, SizeFacts DEF Size
<1> QED BY <1>1, <1>2, <1>3, <1>4 DEF File, Owns

(* A sequence with one element more. *)
LEMMA OneMore ==
  ASSUME NEW S, NEW s \in Seq(S), NEW e \in S
  PROVE  /\ s \o <<e>> \in Seq(S)
         /\ Len(s \o <<e>>) = Len(s) + 1
         /\ DOMAIN (s \o <<e>>) = 1 .. Len(s) + 1
         /\ \A k \in 1 .. Len(s) : (s \o <<e>>)[k] = s[k]
         /\ (s \o <<e>>)[Len(s) + 1] = e
<1>1. <<e>> \in Seq(S) /\ Len(<<e>>) = 1
  OBVIOUS
<1>2. s \o <<e>> \in Seq(S) /\ Len(s \o <<e>>) = Len(s) + 1
  BY <1>1
<1> QED BY <1>1, <1>2

(* Results already in a log stay as they are. *)
LEMMA LogFrame ==
  ASSUME OwnTrace, log' = log
  PROVE  OwnTrace'
BY DEF OwnTrace, Logs

(* main reads its arguments. *)
LEMMA StartKeeps ==
  ASSUME DInv, NEW p \in Invocation, NEW b \in BOOLEAN, NEW c \in BOOLEAN, start(p, b, c)
  PROVE  DInv'
<1> USE DEF start, Goto, shared, DInv
<1>1. DType'
  BY DEF DType, Label
<1>2. Loops'
  BY DriverAssumption DEF Loops, DType
<1>3. SeparateDirs'
  BY DEF SeparateDirs, Owns, Directories, DType
<1>4. Directories'
  BY DEF Directories, Owns, DType
<1>5. TracesOwn'
  BY DEF TracesOwn, Owns, Directories, DType, Size
<1>6. OwnTrace'
  BY LogFrame
<1>7. LogsSoFar'
  BY DEF LogsSoFar, InRun, DType
<1> QED BY <1>1, <1>2, <1>3, <1>4, <1>5, <1>6, <1>7

(* make clean. *)
LEMMA CleanKeeps ==
  ASSUME DInv, NEW p \in Invocation, make_clean(p)
  PROVE  DInv'
<1> USE DEF make_clean, Goto, shared, DInv
<1>1. DType'
  BY StepFacts DEF DType, Label
<1>2. Loops'
  BY DriverAssumption DEF Loops, DType
<1>3. SeparateDirs'
  BY DEF SeparateDirs, Owns, Directories, DType
<1>4. Directories'
  BY DEF Directories, Owns, DType
<1>5. TracesOwn'
  BY DEF TracesOwn, Owns, Directories, DType, Size
<1>6. OwnTrace'
  BY LogFrame
<1>7. LogsSoFar'
  BY DEF LogsSoFar, InRun, DType
<1> QED BY <1>1, <1>2, <1>3, <1>4, <1>5, <1>6, <1>7

(* make. *)
LEMMA MakeKeeps ==
  ASSUME DInv, NEW p \in Invocation, make(p)
  PROVE  DInv'
<1> USE DEF make, Goto, shared, DInv
<1>0. n[p] \in 1 .. 3 /\ Programs[n[p]] \in {"mycache", "pintool", "tlbcache"}
  BY StepFacts DEF Loops
<1>a. n'[p] \in 1 .. 3 /\ (n[p] = 3 => n'[p] = 1)
  <2>1. CASE n[p] = 1
    BY <2>1 DEF DType
  <2>2. CASE n[p] = 2
    BY <2>2 DEF DType
  <2>3. CASE n[p] = 3
    BY <2>3 DEF DType
  <2> QED BY <1>0, <2>1, <2>2, <2>3
<1>b. \A q \in Invocation : q # p => n'[q] = n[q] /\ dpc'[q] = dpc[q]
  BY DEF DType
<1>c. dpc'[p] = IF n[p] = 3 THEN "now" ELSE IF clean[p] THEN "clean" ELSE "make"
  BY DEF DType
<1>1. DType'
  <2>1. built' \in [{"mycache", "pintool", "tlbcache"} -> BOOLEAN]
    <3>1. PICK ok \in {TRUE, built[Programs[n[p]]]} : built' = [built EXCEPT ![Programs[n[p]]] = ok]
      OBVIOUS
    <3>2. ok \in BOOLEAN
      BY <1>0, <3>1 DEF DType
    <3> QED BY <1>0, <3>1, <3>2 DEF DType
  <2>2. n' \in [Invocation -> Nat]
    <3>1. (n[p] % 3) + 1 \in Nat
      BY <1>0
    <3> QED BY <3>1 DEF DType
  <2>3. dpc' \in [Invocation -> Label]
    BY DEF DType, Label
  <2> QED BY <2>1, <2>2, <2>3 DEF DType
<1>2. Loops'
  BY <1>a, <1>b, <1>c DEF Loops
<1>3. SeparateDirs'
  BY DEF SeparateDirs, Owns, Directories, DType
<1>4. Directories'
  BY DEF Directories, Owns, DType
<1>5. TracesOwn'
  BY DEF TracesOwn, Owns, Directories, DType, Size
<1>6. OwnTrace'
  BY LogFrame
<1>7. LogsSoFar'
  BY DEF LogsSoFar, InRun, DType
<1> QED BY <1>1, <1>2, <1>3, <1>4, <1>5, <1>6, <1>7

(* The name of a directory. *)
LEMMA NowKeeps ==
  ASSUME DInv, NEW p \in Invocation, datetime_now(p)
  PROVE  DInv'
<1> USE DEF datetime_now, Goto, shared, DInv
<1>1. DType'
  BY DEF DType, Label
<1>2. Loops'
  BY DriverAssumption DEF Loops, DType
<1>3. SeparateDirs'
  BY DEF SeparateDirs, Owns, Directories, DType
<1>4. Directories'
  BY DEF Directories, Owns, DType
<1>5. TracesOwn'
  BY DEF TracesOwn, Owns, Directories, DType, Size
<1>6. OwnTrace'
  BY LogFrame
<1>7. LogsSoFar'
  BY DEF LogsSoFar, InRun, DType
<1> QED BY <1>1, <1>2, <1>3, <1>4, <1>5, <1>6, <1>7

(* The directory is made, or there is one already. *)
LEMMA MkdirKeeps ==
  ASSUME DInv, NEW p \in Invocation, mkdir(p)
  PROVE  DInv'
<1> USE DEF mkdir, Goto, shared, DInv, AfterMkdir
<1>1. DType'
  BY DEF DType, Label, Directories
<1>2. Loops'
  BY DriverAssumption DEF Loops, DType
<1>3. SeparateDirs'
  BY DEF SeparateDirs, Owns, Directories, DType
<1>4. Directories'
  BY DEF Directories, Owns, DType
<1>5. TracesOwn'
  BY DEF TracesOwn, Owns, Directories, DType, Size
<1>6. OwnTrace'
  BY LogFrame
<1>7. LogsSoFar'
  BY DEF LogsSoFar, InRun, DType
<1> QED BY <1>1, <1>2, <1>3, <1>4, <1>5, <1>6, <1>7

(* The log is created. *)
LEMMA OpenKeeps ==
  ASSUME DInv, NEW p \in Invocation, open_log(p)
  PROVE  DInv'
<1> USE DEF open_log, Goto, shared, DInv
<1>0. data_dir[p] \in Second
  BY StepFacts DEF Owns
<1>a. /\ log[data_dir[p]] = NULL => log'[data_dir[p]] = <<>> /\ dpc'[p] = "pin"
      /\ log[data_dir[p]] # NULL => log'[data_dir[p]] = log[data_dir[p]] /\ dpc'[p] = "failed"
      /\ \A d \in Second : d # data_dir[p] => log'[d] = log[d]
      /\ \A q \in Invocation : q # p => dpc'[q] = dpc[q]
  BY <1>0 DEF DType
<1>b. <<>> \in Seq(LogRec)
  OBVIOUS
<1>1. DType'
  <2>1. log' \in [Second -> Seq(LogRec) \cup {NULL}]
    BY <1>0, <1>b DEF DType
  <2>2. dpc' \in [Invocation -> Label]
    BY DEF DType, Label
  <2> QED BY <2>1, <2>2 DEF DType
<1>2. Loops'
  BY DriverAssumption DEF Loops, DType
<1>3. SeparateDirs'
  BY DEF SeparateDirs, Owns, Directories, DType
<1>4. Directories'
  BY DEF Directories, Owns, DType
<1>5. TracesOwn'
  BY DEF TracesOwn, Owns, Directories, DType, Size
<1>6. OwnTrace'
  <2> SUFFICES ASSUME NEW d \in Second, log'[d] # NULL, NEW k \in DOMAIN log'[d],
                      log'[d][k].out # NULL
               PROVE  log'[d][k].out.by = log'[d][k].by /\ log'[d][k].out.size = log'[d][k].size
    BY DEF OwnTrace, Logs
  <2>1. CASE d = data_dir[p] /\ log[d] = NULL
    BY <1>a, <2>1
  <2>2. CASE d # data_dir[p] \/ log[d] # NULL
    <3>1. log'[d] = log[d]
      BY <1>a, <2>2
    <3> QED BY <3>1 DEF OwnTrace, Logs
  <2> QED BY <2>1, <2>2
<1>7. LogsSoFar'
  <2> SUFFICES ASSUME NEW q \in Invocation, InRun(q)'
               PROVE  LET recs == log'[data_dir[q]] IN
                        /\ recs \in Seq(LogRec)
                        /\ Len(recs) = n[q] - 1
                        /\ \A k \in 1 .. Len(recs) : recs[k].by = q /\ recs[k].size = Sizes[k]
    BY DEF LogsSoFar
  <2>1. CASE q = p
    <3>1. log'[data_dir[p]] = <<>>
      BY <1>a, <2>1 DEF InRun
    <3>2. n[p] = 1
      BY DEF Loops
    <3>3. Len(<<>>) = 0 /\ n[p] - 1 = 0 /\ 1 .. 0 = {}
      BY <3>2
    <3> QED BY <1>b, <2>1, <3>1, <3>3
  <2>2. CASE q # p
    <3>1. InRun(q)
      BY <1>a, <2>2 DEF InRun
    <3>2. data_dir[q] # data_dir[p] /\ data_dir[q] \in Second
      BY <2>2, <3>1, StepFacts DEF SeparateDirs, Owns, InRun
    <3> QED BY <1>a, <3>1, <3>2 DEF LogsSoFar
  <2> QED BY <2>1, <2>2
<1> QED BY <1>1, <1>2, <1>3, <1>4, <1>5, <1>6, <1>7

(* The program is traced. *)
LEMMA PinKeeps ==
  ASSUME DInv, NEW p \in Invocation, run_pin(p)
  PROVE  DInv'
<1> USE DEF run_pin, Goto, shared, DInv
<1>0. File(p) \in Second \X FileName /\ Size(p) \in Nat /\ n[p] \in 1 .. Len(Sizes)
      /\ data_dir[p] \in dirs /\ data_dir[p] \in Second /\ readable(Size(p)) \in FileName
  BY StepFacts DEF Owns
<1>a. \/ traces' = traces
      \/ \E whole \in BOOLEAN :
           traces' = [traces EXCEPT ![File(p)] = [by |-> p, size |-> Size(p), whole |-> whole]]
  OBVIOUS
<1>b. \/ traces' = traces
      \/ /\ traces'[File(p)] \in TraceRec
         /\ traces'[File(p)].by = p /\ traces'[File(p)].size = Size(p)
         /\ \A x \in Second \X FileName : x # File(p) => traces'[x] = traces[x]
  BY <1>0, <1>a DEF DType, TraceRec
<1>1. DType'
  <2>1. traces' \in [Second \X FileName -> TraceRec \cup {NULL}]
    <3>1. CASE traces' = traces
      BY <3>1 DEF DType
    <3>2. ASSUME NEW whole \in BOOLEAN,
                 traces' = [traces EXCEPT ![File(p)] = [by |-> p, size |-> Size(p), whole |-> whole]]
          PROVE  traces' \in [Second \X FileName -> TraceRec \cup {NULL}]
      <4>1. [by |-> p, size |-> Size(p), whole |-> whole] \in TraceRec
        BY <1>0 DEF TraceRec
      <4> HIDE DEF run_pin, DInv
      <4>2. traces \in [Second \X FileName -> TraceRec \cup {NULL}]
        BY DEF DInv, DType
      <4> QED BY <3>2, <4>1, <4>2
    <3> QED BY <1>a, <3>1, <3>2
  <2>2. dpc' \in [Invocation -> Label]
    BY DEF DType, Label
  <2> QED BY <2>1, <2>2 DEF DType
<1>2. Loops'
  BY DriverAssumption DEF Loops, DType
<1>3. SeparateDirs'
  BY DEF SeparateDirs, Owns, Directories, DType
<1>4. Directories'
  <2>1. \A d \in Second \ dirs, f \in FileName : traces'[<<d, f>>] = NULL
    BY <1>0, <1>b DEF Directories, File
  <2> QED BY <2>1 DEF Directories, Owns, DType
<1>5. TracesOwn'
  <2>1. ASSUME NEW q \in Invocation, NEW f \in FileName, Owns(q)',
               traces'[<<data_dir[q], f>>] # NULL
        PROVE  LET t == traces'[<<data_dir[q], f>>] IN
                 t.by = q /\ f = readable(t.size) /\ \E k \in 1 .. Len(Sizes) : t.size = Sizes[k]
    <3>1. Owns(q) /\ data_dir[q] \in Second
      BY <2>1, StepFacts DEF Owns, DType
    <3>2. CASE traces'[<<data_dir[q], f>>] = traces[<<data_dir[q], f>>]
      BY <2>1, <3>1, <3>2 DEF TracesOwn
    <3>3. CASE traces'[<<data_dir[q], f>>] # traces[<<data_dir[q], f>>]
      <4>1. /\ <<data_dir[q], f>> = File(p)
            /\ traces'[File(p)].by = p /\ traces'[File(p)].size = Size(p)
        BY <1>b, <3>1, <3>3
      <4>2. data_dir[q] = data_dir[p] /\ f = readable(Size(p))
        BY <4>1 DEF File
      <4>3. q = p
        BY <3>1, <4>2 DEF SeparateDirs, Owns
      <4> QED BY <1>0, <4>1, <4>2, <4>3 DEF Size
    <3> QED BY <3>2, <3>3
  <2>2. \A q \in Invocation :
          dpc'[q] = "log" /\ stdout[q] # NULL => stdout[q].by = q /\ stdout[q].size = Size(q)
    BY DEF TracesOwn, DType
  <2> QED BY <2>1, <2>2 DEF TracesOwn, Size
<1>6. OwnTrace'
  BY LogFrame
<1>7. LogsSoFar'
  BY DEF LogsSoFar, InRun, DType
<1> QED BY <1>1, <1>2, <1>3, <1>4, <1>5, <1>6, <1>7

(* The trace is read. *)
LEMMA ReaderKeeps ==
  ASSUME DInv, NEW p \in Invocation, run_tlbcache(p)
  PROVE  DInv'
<1> USE DEF run_tlbcache, Goto, shared, DInv, AfterTrace
<1>0. File(p) \in Second \X FileName /\ n[p] \in 1 .. Len(Sizes)
      /\ data_dir[p] \in Second /\ readable(Size(p)) \in FileName
  BY StepFacts DEF Owns
<1>a. \/ stdout' = stdout /\ dpc' = [dpc EXCEPT ![p] = "failed"]
      \/ \E out \in {NULL, traces[File(p)]} :
           stdout' = [stdout EXCEPT ![p] = out] /\ dpc' = [dpc EXCEPT ![p] = "log"]
  OBVIOUS
<1>1. DType'
  <2>1. traces[File(p)] \in TraceRec \cup {NULL}
    BY <1>0 DEF DType
  <2>2. stdout' \in [Invocation -> TraceRec \cup {NULL}]
    BY <1>a, <2>1 DEF DType
  <2>3. dpc' \in [Invocation -> Label]
    BY <1>a DEF DType, Label
  <2> QED BY <2>2, <2>3 DEF DType
<1>2. Loops'
  BY DriverAssumption DEF Loops, DType
<1>3. SeparateDirs'
  BY DEF SeparateDirs, Owns, Directories, DType
<1>4. Directories'
  BY DEF Directories, Owns, DType
<1>5. TracesOwn'
  <2>1. \A q \in Invocation : Owns(q)' => Owns(q)
    BY <1>a DEF Owns, DType
  <2>2. ASSUME NEW q \in Invocation, dpc'[q] = "log", stdout'[q] # NULL
        PROVE  stdout'[q].by = q /\ stdout'[q].size = Size(q)
    <3>1. CASE q # p
      <4>1. dpc[q] = "log" /\ stdout'[q] = stdout[q]
        BY <1>a, <2>2, <3>1 DEF DType
      <4> QED BY <2>2, <4>1 DEF TracesOwn
    <3>2. CASE q = p
      <4>1. stdout'[p] = traces[File(p)]
        BY <1>a, <2>2, <3>2 DEF DType
      <4>2. Owns(p)
        BY DEF Owns
      <4> DEFINE t == traces[File(p)]
      <4>3. t.by = p /\ readable(Size(p)) = readable(t.size) /\ \E k \in 1 .. Len(Sizes) : t.size = Sizes[k]
        BY <1>0, <2>2, <3>2, <4>1, <4>2 DEF TracesOwn, File
      <4>4. t.size = Size(p)
        BY <1>0, <4>3, ReadableInjective DEF Size
      <4> QED BY <3>2, <4>1, <4>3, <4>4
    <3> QED BY <3>1, <3>2
  <2> QED BY <2>1, <2>2 DEF TracesOwn, Size
<1>6. OwnTrace'
  BY LogFrame
<1>7. LogsSoFar'
  BY DEF LogsSoFar, InRun, DType
<1> QED BY <1>1, <1>2, <1>3, <1>4, <1>5, <1>6, <1>7

(* A record goes to the log. *)
LEMMA LogKeeps ==
  ASSUME DInv, NEW p \in Invocation, append_log(p)
  PROVE  DInv'
<1> USE DEF append_log, Goto, shared, DInv
<1>0. /\ n[p] \in 1 .. Len(Sizes) /\ Size(p) \in Nat /\ data_dir[p] \in Second
      /\ log[data_dir[p]] \in Seq(LogRec) /\ Len(log[data_dir[p]]) = n[p] - 1
  BY StepFacts DEF Owns, LogsSoFar, InRun
<1> DEFINE old == log[data_dir[p]]
           rec == [by |-> p, size |-> Size(p), out |-> stdout[p]]
<1>a. rec \in LogRec
  BY <1>0 DEF LogRec, DType
<1> DEFINE new == old \o <<rec>>
<1>b. /\ new \in Seq(LogRec) /\ Len(new) = n[p]
      /\ DOMAIN new = 1 .. n[p]
      /\ \A k \in 1 .. n[p] - 1 : new[k] = old[k]
      /\ new[n[p]] = rec
  <2>1. old \in Seq(LogRec) /\ n[p] = Len(old) + 1 /\ n[p] - 1 = Len(old)
    BY <1>0
  <2> HIDE DEF old, rec, append_log, DInv
  <2>2. /\ old \o <<rec>> \in Seq(LogRec)
        /\ Len(old \o <<rec>>) = Len(old) + 1
        /\ DOMAIN (old \o <<rec>>) = 1 .. Len(old) + 1
        /\ \A k \in 1 .. Len(old) : (old \o <<rec>>)[k] = old[k]
        /\ (old \o <<rec>>)[Len(old) + 1] = rec
    BY <1>a, <2>1, OneMore, Zenon
  <2> QED BY <2>1, <2>2, Zenon
<1>c. /\ log'[data_dir[p]] = new
      /\ \A d \in Second : d # data_dir[p] => log'[d] = log[d]
      /\ n'[p] = n[p] + 1
      /\ dpc'[p] \in {"exit", "pin"}
      /\ \A q \in Invocation : q # p => dpc'[q] = dpc[q] /\ n'[q] = n[q]
  BY <1>0 DEF DType, Logged
<1>d. rec.by = p /\ rec.size = Sizes[n[p]] /\ rec.out = stdout[p]
  BY DEF Size
<1>e. DOMAIN old = 1 .. n[p] - 1
  BY <1>0
<1> HIDE DEF new
<1>1. DType'
  <2>1. log' \in [Second -> Seq(LogRec) \cup {NULL}]
    BY <1>0, <1>b DEF DType, Logged, new
  <2>2. dpc' \in [Invocation -> Label] /\ n' \in [Invocation -> Nat]
    BY DEF DType, Label
  <2> QED BY <2>1, <2>2 DEF DType
<1>2. Loops'
  BY DriverAssumption DEF Loops, DType
<1>3. SeparateDirs'
  BY DEF SeparateDirs, Owns, Directories, DType
<1>4. Directories'
  BY DEF Directories, Owns, DType
<1>5. TracesOwn'
  BY DEF TracesOwn, Owns, Directories, DType, Size
<1>6. OwnTrace'
  <2> SUFFICES ASSUME NEW d \in Second, log'[d] # NULL, NEW k \in DOMAIN log'[d],
                      log'[d][k].out # NULL
               PROVE  log'[d][k].out.by = log'[d][k].by /\ log'[d][k].out.size = log'[d][k].size
    <3> HIDE DEF append_log, DInv
    <3> QED BY DEF OwnTrace, Logs
  <2>1. CASE d # data_dir[p]
    <3>1. log'[d] = log[d]
      BY <1>c, <2>1
    <3> QED BY <3>1 DEF OwnTrace, Logs
  <2>2. CASE d = data_dir[p] /\ k = n[p]
    <3>1. log'[d][k] = rec
      BY <1>b, <1>c, <2>2
    <3>2. stdout[p] # NULL => stdout[p].by = p /\ stdout[p].size = Size(p)
      BY DEF TracesOwn
    <3> QED BY <1>d, <3>1, <3>2 DEF Size
  <2>3. CASE d = data_dir[p] /\ k # n[p]
    <3>0. k \in 1 .. n[p]
      BY <1>b, <1>c, <2>3
    <3>1. k \in DOMAIN old /\ log'[d][k] = old[k]
      BY <1>0, <1>b, <1>c, <1>e, <2>3, <3>0
    <3>2. old # NULL
      BY <1>0, DriverAssumption
    <3>3. old \in Logs
      BY <1>0, <3>2 DEF Logs
    <3>4. old[k].out # NULL => old[k].out.by = old[k].by /\ old[k].out.size = old[k].size
      BY <3>1, <3>3, Zenon DEF OwnTrace
    <3> QED BY <3>1, <3>4
  <2> QED BY <2>1, <2>2, <2>3
<1>7. LogsSoFar'
  <2> SUFFICES ASSUME NEW q \in Invocation, InRun(q)'
               PROVE  LET recs == log'[data_dir[q]] IN
                        /\ recs \in Seq(LogRec)
                        /\ Len(recs) = n'[q] - 1
                        /\ \A k \in 1 .. Len(recs) : recs[k].by = q /\ recs[k].size = Sizes[k]
    BY DEF LogsSoFar
  <2>1. CASE q = p
    <3>1. \A k \in 1 .. n[p] - 1 : old[k].by = p /\ old[k].size = Sizes[k]
      BY <1>0 DEF LogsSoFar, InRun
    <3> HIDE DEF rec, old, append_log, DInv
    <3>2. ASSUME NEW k \in 1 .. n[p] PROVE new[k].by = p /\ new[k].size = Sizes[k]
      <4>1. CASE k = n[p]
        BY <1>b, <1>d, <4>1
      <4>2. CASE k # n[p]
        <5>1. k \in 1 .. n[p] - 1
          BY <1>0, <4>2
        <5> QED BY <1>b, <3>1, <5>1
      <4> QED BY <4>1, <4>2
    <3>3. n'[p] - 1 = n[p]
      BY <1>0, <1>c
    <3> QED BY <1>b, <1>c, <2>1, <3>2, <3>3
  <2>2. CASE q # p
    <3>1. InRun(q)
      BY <1>c, <2>2 DEF InRun
    <3>2. data_dir[q] # data_dir[p] /\ data_dir[q] \in Second
      BY <2>2, <3>1, StepFacts DEF SeparateDirs, Owns, InRun
    <3> QED BY <1>c, <2>2, <3>1, <3>2 DEF LogsSoFar
  <2> QED BY <2>1, <2>2
<1> QED BY <1>1, <1>2, <1>3, <1>4, <1>5, <1>6, <1>7
(* The clock may be set to any time. *)
LEMMA ClockKeeps ==
  ASSUME DInv, clock
  PROVE  DInv'
<1> USE DEF clock, DInv
<1>1. DType'
  BY DEF DType
<1>2. Loops' /\ SeparateDirs' /\ Directories'
  BY DEF Loops, SeparateDirs, Owns, Directories
<1>3. TracesOwn'
  BY DEF TracesOwn, Owns, Size
<1>4. OwnTrace'
  BY LogFrame
<1>5. LogsSoFar'
  BY DEF LogsSoFar, InRun
<1> QED BY <1>1, <1>2, <1>3, <1>4, <1>5

LEMMA DStutter ==
  ASSUME DInv, UNCHANGED dvars
  PROVE  DInv'
<1> USE DEF dvars, shared, DInv
<1>1. DType'
  BY DEF DType
<1>2. Loops' /\ SeparateDirs' /\ Directories'
  BY DEF Loops, SeparateDirs, Owns, Directories
<1>3. TracesOwn'
  BY DEF TracesOwn, Owns, Size
<1>4. OwnTrace'
  BY LogFrame
<1>5. LogsSoFar'
  BY DEF LogsSoFar, InRun
<1> QED BY <1>1, <1>2, <1>3, <1>4, <1>5

(* The invariant is inductive. *)
LEMMA DNextDInv == DInv /\ [DNext]_dvars => DInv'
<1> SUFFICES ASSUME DInv, [DNext]_dvars PROVE DInv'
  OBVIOUS
<1>1. CASE clock
  BY <1>1, ClockKeeps
<1>2. ASSUME NEW p \in Invocation, Begin(p) PROVE DInv'
  BY <1>2, StartKeeps DEF Begin
<1>3. ASSUME NEW p \in Invocation, Work(p) PROVE DInv'
  BY <1>3, CleanKeeps, MakeKeeps, NowKeeps, MkdirKeeps, OpenKeeps, PinKeeps, ReaderKeeps,
     LogKeeps DEF Work
<1>4. CASE UNCHANGED dvars
  BY <1>4, DStutter
<1> QED BY <1>1, <1>2, <1>3, <1>4 DEF DNext

-----------------------------------------------------------------------------
THEOREM DInvariance == DSpec => []DInv
BY DInitDInv, DNextDInv, PTL DEF DSpec

(* Two invocations never work in one directory, whenever they are started  *)
(* and wherever the clock is set: os.mkdir lets only one of them through.  *)
THEOREM DirectoriesSeparate == DSpec => []SeparateDirs
<1>1. DInv => SeparateDirs
  BY DEF DInv
<1> QED BY <1>1, DInvariance, PTL

(* A result in a log is of the trace that the same datapoint of the same   *)
(* invocation made, however often Pin, the reader or make failed.          *)
THEOREM ResultsOwn == DSpec => []OwnTrace
<1>1. DInv => OwnTrace
  BY DEF DInv
<1> QED BY <1>1, DInvariance, PTL

(* An invocation that gets through has logged each size once, in order.    *)
THEOREM LogsComplete == DSpec => []LogComplete
<1>1. DInv => LogComplete
  <2> SUFFICES ASSUME DInv, NEW p \in Invocation, dpc[p] = "exit"
               PROVE  LET recs == log[data_dir[p]] IN
                        /\ Len(recs) = Len(Sizes)
                        /\ \A k \in DOMAIN recs : recs[k].by = p /\ recs[k].size = Sizes[k]
    BY DEF LogComplete
  <2>1. n[p] = Len(Sizes) + 1
    BY DEF DInv, Loops
  <2>2. Len(Sizes) \in Nat
    BY DriverAssumption
  <2>3. /\ log[data_dir[p]] \in Seq(LogRec)
        /\ Len(log[data_dir[p]]) = n[p] - 1
        /\ \A k \in 1 .. Len(log[data_dir[p]]) :
             log[data_dir[p]][k].by = p /\ log[data_dir[p]][k].size = Sizes[k]
    BY DEF DInv, LogsSoFar, InRun
  <2>4. DOMAIN log[data_dir[p]] = 1 .. Len(log[data_dir[p]])
    BY <2>3
  <2>5. Len(log[data_dir[p]]) = Len(Sizes)
    BY <2>1, <2>2, <2>3
  <2> QED BY <2>3, <2>4, <2>5, Zenon
<1> QED BY <1>1, DInvariance, PTL
=============================================================================
