---------------------------- MODULE TracingProofs ----------------------------
(***************************************************************************)
(* The reader of a trace can rely on what the Pin tool wrote: whatever the *)
(* program was asked to do and wherever the buffers were flushed, no       *)
(* assertion of the reader fails, every access is simulated, once and in   *)
(* the compartment that its place in the trace says, the simulator is used *)
(* as module TlbCache allows, and what it measures after the warm-up is a  *)
(* steady state.                                                           *)
(***************************************************************************)
EXTENDS Tracing, WorkloadProofs, PintoolProofs, SequenceTheorems

-----------------------------------------------------------------------------
(* What a trace says about its own entries. *)

(* Whether the last of the markers on and off among the first n entries is *)
(* on.                                                                     *)
Open(t, n, on, off) ==
  \E m \in 1 .. n : t[m].what = on /\ \A q \in m + 1 .. n : t[q].what # off

(* In a repetition, and in the cache's compartment, after n entries. *)
InRep(t, n)  == Open(t, n, "repstart", "repend")
InComp(t, n) == Open(t, n, "switch_cache", "switch_wrapper")

(* Whether an entry w may come where rep and comp say the trace is. *)
Legal(w, rep, comp) ==
  /\ w = "repstart" => ~rep
  /\ w = "repend" => rep
  /\ w = "switch_cache" => ~comp
  /\ w = "switch_wrapper" => comp
  /\ w \in Code => rep /\ (BetweenSwitches(w) <=> comp)

WellFormed(t) == \A n \in 1 .. Len(t) : Legal(t[n].what, InRep(t, n - 1), InComp(t, n - 1))

(* The accesses among the first n entries. *)
AccessesIn(t, n) == {m \in 1 .. n : t[m].what \in Code}

-----------------------------------------------------------------------------
(* The inductive invariant. *)

CallRecord == [what : Marker \cup {"on", "off"}, at : {NoData}] \cup [what : Code, at : Access]

(* Where main is, as its trace should have it. *)
MainRep  == mpc \in {"get", "decrypt", "getting", "encrypt", "returned"}
MainComp == mpc = "getting" /\ pc = "find"
MainOn   == mpc \in {"decrypt", "getting", "encrypt"}

(* What a call does to where the trace is. *)
RepAfter(w, rep)   == w = "repstart" \/ (rep /\ w # "repend")
CompAfter(w, comp) == w = "switch_cache" \/ (comp /\ w # "switch_wrapper")
OnAfter(w, on)     == w = "on" \/ (on /\ w # "off")

(* A call may come: what it records, if it does, is legal. *)
MayCome(w, rep, comp, on) == (w \in Code /\ ~on) \/ Legal(w, rep, comp)

(* A place (rep, comp, on) is the place (R, C, O), or a call, or two, or   *)
(* three that may come there one after the other lead to it.               *)
Arrived(rep, comp, on, R, C, O) == (rep <=> R) /\ (comp <=> C) /\ (on <=> O)

After1(w, rep, comp, on, R, C, O) ==
  /\ MayCome(w, rep, comp, on)
  /\ Arrived(RepAfter(w, rep), CompAfter(w, comp), OnAfter(w, on), R, C, O)

After2(w, x, rep, comp, on, R, C, O) ==
  /\ MayCome(w, rep, comp, on)
  /\ After1(x, RepAfter(w, rep), CompAfter(w, comp), OnAfter(w, on), R, C, O)

After3(w, x, y, rep, comp, on, R, C, O) ==
  /\ MayCome(w, rep, comp, on)
  /\ After2(x, y, RepAfter(w, rep), CompAfter(w, comp), OnAfter(w, on), R, C, O)

LeadsTo(cs, rep, comp, on, R, C, O) ==
  /\ Len(cs) = 0 => Arrived(rep, comp, on, R, C, O)
  /\ Len(cs) = 1 => After1(cs[1].what, rep, comp, on, R, C, O)
  /\ Len(cs) = 2 => After2(cs[1].what, cs[2].what, rep, comp, on, R, C, O)
  /\ Len(cs) = 3 => After3(cs[1].what, cs[2].what, cs[3].what, rep, comp, on, R, C, O)

(* The calls that are left may come one after the other and lead to where  *)
(* main is.                                                                *)
Leads(cs, rep, comp, on) == LeadsTo(cs, rep, comp, on, MainRep, MainComp, MainOn)

(* The program and the tool. *)
Recorded ==
  /\ AccessTrackingOn \in BOOLEAN
  /\ calls \in Seq(CallRecord) /\ Len(calls) <= 3
  /\ Leads(calls, InRep(seen, Len(seen)), InComp(seen, Len(seen)), AccessTrackingOn)
  /\ WellFormed(seen)
  /\ dcount = Cardinality(AccessesIn(seen, Len(seen)))

(* Until main has stored its items nothing is recorded. *)
Early ==
  mpc \in {"wrapper_init", "set", "setting", "aborted"} =>
    seen = <<>> /\ \A n \in 1 .. Len(calls) : calls[n].what \in Code

(* Once the file is closed it holds everything. *)
FileComplete ==
  ppc = "closed" => PinLog = seen

(* The reader: what it takes the program to be doing is what the lines it  *)
(* has read say.                                                           *)
ReadAhead ==
  /\ rpc \in {"wait", "armed", "read", "killed", "done"}
  /\ rpc # "wait" => ppc = "closed"
  /\ rpc = "wait" => lines_handled = 0
  /\ lines_handled \in Nat /\ lines_handled <= Len(PinLog)
  /\ rpc = "done" => lines_handled = Len(PinLog) /\ stage = "idle"
  /\ repstarted \in BOOLEAN /\ (repstarted <=> InRep(PinLog, lines_handled))
  /\ cur_comp_id = IF InComp(PinLog, lines_handled) THEN CACHE_COMPARTMENT_ID
                                                    ELSE WRAPPER_COMPARTMENT_ID
  /\ reps \in Int /\ warmup \in BOOLEAN /\ (warmup \/ reps >= WARMUP_REPS)

(* The access that is being simulated. *)
Simulated ==
  /\ stage \in {"idle", "tlb", "line"}
  /\ stage # "idle" =>
       /\ rpc = "read" /\ lines_handled < Len(PinLog)
       /\ PinLog[lines_handled + 1].what \in Code
       /\ call.asid = cur_comp_id
  /\ naccess = Cardinality(AccessesIn(PinLog, lines_handled)) + (IF stage = "idle" THEN 0 ELSE 1)

TInv == WInv /\ PinInv /\ Recorded /\ Early /\ FileComplete /\ ReadAhead /\ Simulated

-----------------------------------------------------------------------------
(* Traces, entry by entry. *)

LEMMA OpenNone ==
  ASSUME NEW t
  PROVE  ~InRep(t, 0) /\ ~InComp(t, 0)
BY DEF InRep, InComp, Open

(* One more entry opens, closes or leaves things as they were. *)
LEMMA OpenNext ==
  ASSUME NEW t, NEW n \in Nat, NEW on, NEW off, on # off
  PROVE  Open(t, n + 1, on, off) <=> (t[n + 1].what = on \/ (Open(t, n, on, off) /\ t[n + 1].what # off))
<1>1. ASSUME t[n + 1].what = on PROVE Open(t, n + 1, on, off)
  <2>1. n + 1 \in 1 .. n + 1 /\ (n + 1) + 1 .. n + 1 = {}
    OBVIOUS
  <2> QED BY <1>1, <2>1 DEF Open
<1>2. ASSUME Open(t, n, on, off), t[n + 1].what # off PROVE Open(t, n + 1, on, off)
  <2>1. PICK m \in 1 .. n : t[m].what = on /\ \A q \in m + 1 .. n : t[q].what # off
    BY <1>2 DEF Open
  <2>2. m \in 1 .. n + 1 /\ \A q \in m + 1 .. n + 1 : q = n + 1 \/ q \in m + 1 .. n
    OBVIOUS
  <2> QED BY <1>2, <2>1, <2>2 DEF Open
<1>3. ASSUME Open(t, n + 1, on, off), t[n + 1].what # on
      PROVE  Open(t, n, on, off) /\ t[n + 1].what # off
  <2>1. PICK m \in 1 .. n + 1 : t[m].what = on /\ \A q \in m + 1 .. n + 1 : t[q].what # off
    BY <1>3 DEF Open
  <2>2. m # n + 1
    BY <1>3, <2>1
  <2>3. m \in 1 .. n /\ n + 1 \in m + 1 .. n + 1 /\ \A q \in m + 1 .. n : q \in m + 1 .. n + 1
    BY <2>2
  <2> QED BY <2>1, <2>3 DEF Open
<1> QED BY <1>1, <1>2, <1>3

LEMMA PlaceNext ==
  ASSUME NEW t, NEW n \in Nat
  PROVE  /\ InRep(t, n + 1) <=> RepAfter(t[n + 1].what, InRep(t, n))
         /\ InComp(t, n + 1) <=> CompAfter(t[n + 1].what, InComp(t, n))
<1>1. InRep(t, n + 1) <=> RepAfter(t[n + 1].what, InRep(t, n))
  BY OpenNext DEF InRep, RepAfter
<1>2. InComp(t, n + 1) <=> CompAfter(t[n + 1].what, InComp(t, n))
  BY OpenNext DEF InComp, CompAfter
<1> QED BY <1>1, <1>2

(* Only the first n entries count. *)
LEMMA PlaceSame ==
  ASSUME NEW t, NEW s, NEW n \in Nat, \A m \in 1 .. n : s[m] = t[m]
  PROVE  /\ InRep(s, n) <=> InRep(t, n)
         /\ InComp(s, n) <=> InComp(t, n)
         /\ AccessesIn(s, n) = AccessesIn(t, n)
<1>1. ASSUME NEW on, NEW off PROVE Open(s, n, on, off) <=> Open(t, n, on, off)
  <2>1. \A m \in 1 .. n : \A q \in m + 1 .. n : q \in 1 .. n
    OBVIOUS
  <2> QED BY <2>1 DEF Open
<1>2. (InRep(s, n) <=> InRep(t, n)) /\ (InComp(s, n) <=> InComp(t, n))
  BY <1>1 DEF InRep, InComp
<1>3. AccessesIn(s, n) = AccessesIn(t, n)
  BY DEF AccessesIn
<1> QED BY <1>2, <1>3

LEMMA AccessesCounted ==
  ASSUME NEW t, NEW n \in Nat
  PROVE  /\ Cardinality(AccessesIn(t, 0)) = 0
         /\ Cardinality(AccessesIn(t, n)) \in Nat
         /\ Cardinality(AccessesIn(t, n + 1)) =
              Cardinality(AccessesIn(t, n)) + (IF t[n + 1].what \in Code THEN 1 ELSE 0)
<1>1. Cardinality(AccessesIn(t, 0)) = 0
  <2>1. AccessesIn(t, 0) = {}
    BY DEF AccessesIn
  <2> QED BY <2>1, FS_EmptySet
<1>2. IsFiniteSet(AccessesIn(t, n)) /\ Cardinality(AccessesIn(t, n)) \in Nat
  <2>1. IsFiniteSet(1 .. n)
    BY FS_Interval
  <2>2. AccessesIn(t, n) \in SUBSET (1 .. n)
    BY DEF AccessesIn
  <2> QED BY <2>1, <2>2, FS_Subset, FS_CardinalityType
<1>3. n + 1 \notin AccessesIn(t, n)
  BY DEF AccessesIn
<1>4. 1 .. n + 1 = (1 .. n) \cup {n + 1}
  OBVIOUS
<1>5. AccessesIn(t, n + 1) = IF t[n + 1].what \in Code THEN AccessesIn(t, n) \cup {n + 1} ELSE AccessesIn(t, n)
  BY <1>4 DEF AccessesIn
<1>6. CASE t[n + 1].what \in Code
  <2>1. Cardinality(AccessesIn(t, n) \cup {n + 1}) = Cardinality(AccessesIn(t, n)) + 1
    BY <1>2, <1>3, FS_AddElement
  <2> QED BY <1>1, <1>2, <1>5, <1>6, <2>1
<1>7. CASE t[n + 1].what \notin Code
  BY <1>1, <1>2, <1>5, <1>7
<1> QED BY <1>6, <1>7

(* A legal entry behind a well-formed trace. *)
LEMMA TraceGrows ==
  ASSUME NEW t \in Seq(Entry), NEW e \in Entry, WellFormed(t),
         Legal(e.what, InRep(t, Len(t)), InComp(t, Len(t))), NEW s, s = Append(t, e)
  PROVE  /\ WellFormed(s)
         /\ InRep(s, Len(s)) <=> RepAfter(e.what, InRep(t, Len(t)))
         /\ InComp(s, Len(s)) <=> CompAfter(e.what, InComp(t, Len(t)))
         /\ Cardinality(AccessesIn(s, Len(s))) =
              Cardinality(AccessesIn(t, Len(t))) + (IF e.what \in Code THEN 1 ELSE 0)
<1> DEFINE n == Len(t)
<1>1. n \in Nat /\ Len(s) = n + 1 /\ s[n + 1] = e /\ \A m \in 1 .. n : s[m] = t[m]
  OBVIOUS
<1> HIDE DEF n
<1>2. ASSUME NEW k \in Nat, k <= n
      PROVE  /\ InRep(s, k) <=> InRep(t, k)
             /\ InComp(s, k) <=> InComp(t, k)
             /\ AccessesIn(s, k) = AccessesIn(t, k)
  <2>1. \A m \in 1 .. k : s[m] = t[m]
    BY <1>1, <1>2
  <2> QED BY <2>1, PlaceSame
<1>3. ASSUME NEW m \in 1 .. Len(s)
      PROVE  Legal(s[m].what, InRep(s, m - 1), InComp(s, m - 1))
  <2>1. CASE m = n + 1
    <3>1. m - 1 = n /\ s[m] = e
      BY <1>1, <2>1
    <3>2. (InRep(s, n) <=> InRep(t, n)) /\ (InComp(s, n) <=> InComp(t, n))
      BY <1>1, <1>2
    <3> QED BY <3>1, <3>2 DEF Legal, n
  <2>2. CASE m # n + 1
    <3>1. m \in 1 .. n /\ m - 1 \in Nat /\ m - 1 <= n
      BY <1>1, <2>2
    <3>2. s[m] = t[m] /\ (InRep(s, m - 1) <=> InRep(t, m - 1)) /\ (InComp(s, m - 1) <=> InComp(t, m - 1))
      BY <1>1, <1>2, <3>1
    <3>3. Legal(t[m].what, InRep(t, m - 1), InComp(t, m - 1))
      BY <3>1 DEF WellFormed, n
    <3> QED BY <3>2, <3>3 DEF Legal
  <2> QED BY <2>1, <2>2
<1>4. WellFormed(s)
  BY <1>3 DEF WellFormed
<1>5. /\ InRep(s, n + 1) <=> RepAfter(e.what, InRep(t, n))
      /\ InComp(s, n + 1) <=> CompAfter(e.what, InComp(t, n))
  <2>1. (InRep(s, n) <=> InRep(t, n)) /\ (InComp(s, n) <=> InComp(t, n))
    BY <1>1, <1>2
  <2> QED BY <1>1, <2>1, PlaceNext DEF RepAfter, CompAfter
<1>6. Cardinality(AccessesIn(s, n + 1)) =
        Cardinality(AccessesIn(t, n)) + (IF e.what \in Code THEN 1 ELSE 0)
  <2>1. AccessesIn(s, n) = AccessesIn(t, n)
    BY <1>1, <1>2
  <2> QED BY <1>1, <2>1, AccessesCounted
<1> QED BY <1>1, <1>4, <1>5, <1>6 DEF n

-----------------------------------------------------------------------------
(* The parts that a step leaves alone. *)

LEMMA TInitTInv == TInit => TInv
<1> SUFFICES ASSUME TInit PROVE TInv
  OBVIOUS
<1> USE DEF TInit
<1>1. WInv /\ PinInv
  BY WInitWInv, PinInitInv
<1>2. mpc = "wrapper_init" /\ calls = <<>> /\ seen = <<>> /\ Len(seen) = 0 /\ dcount = 0
  BY DEF WInit, PinInit
<1>3. AccessTrackingOn = FALSE /\ ppc = "run" /\ PinLog = <<>>
  BY Zenon DEF PinInit
<1>4. Recorded
  <2>1. AccessTrackingOn \in BOOLEAN /\ ~AccessTrackingOn
    BY <1>3, Zenon
  <2>2. Leads(<<>>, InRep(seen, 0), InComp(seen, 0), AccessTrackingOn)
    <3>1. Len(<<>>) = 0
      OBVIOUS
    <3>2. ~MainRep /\ ~MainComp /\ ~MainOn
      BY <1>2 DEF MainRep, MainComp, MainOn
    <3> QED BY <2>1, <3>1, <3>2, OpenNone DEF Leads, LeadsTo, Arrived
  <2>3. WellFormed(seen) /\ dcount = Cardinality(AccessesIn(seen, 0))
    BY <1>2, AccessesCounted DEF WellFormed
  <2> QED BY <1>2, <2>1, <2>2, <2>3 DEF Recorded
<1>5. Early /\ FileComplete
  BY <1>2, <1>3 DEF Early, FileComplete
<1>6. /\ rpc = "wait" /\ lines_handled = 0 /\ cur_comp_id = WRAPPER_COMPARTMENT_ID
      /\ stage = "idle" /\ naccess = 0 /\ reps \in Int
  BY ReaderAssumption DEF ReadInit, Sim!Init
<1>7. repstarted = FALSE /\ warmup = TRUE
  BY Zenon DEF ReadInit, Sim!Init
<1>8. repstarted \in BOOLEAN /\ ~repstarted /\ warmup \in BOOLEAN /\ warmup
  BY <1>7, Zenon
<1>9. ReadAhead
  BY <1>3, <1>6, <1>8, OpenNone DEF ReadAhead
<1>10. Simulated
  BY <1>6, AccessesCounted DEF Simulated
<1> QED BY <1>1, <1>4, <1>5, <1>9, <1>10 DEF TInv

(* No line of the traced program is cut, so nothing is missing. *)
LEMMA NothingCut ==
  ASSUME PinInv
  PROVE  Trace = seen
<1>1. \A e \in Entry : ~Cut(e)
  <2> TAKE e \in Entry
  <2>1. e.what \in Marker \cup Code
    BY DEF Entry
  <2>2. linelen[e.what] < LineMax /\ linelen[e.what] \in Nat /\ LineMax \in Nat
    BY <2>1, ReaderAssumption, PintoolAssumption
  <2> QED BY <2>2 DEF Cut
<1>2. \A m \in 1 .. Len(seen) : seen[m] \in Entry
  BY DEF PinInv, PinTypes
<1>3. ~CutBefore(Len(seen) + 1)
  BY <1>1, <1>2 DEF CutBefore, PinInv, PinTypes
<1> QED BY <1>3 DEF PinInv, TraceIntact

(* The reader waits for the file to be closed. *)
LEMMA ReaderFrame ==
  ASSUME ReadAhead, Simulated, UNCHANGED readVars, PinInv',
         rpc # "wait" => PinLog' = PinLog /\ ppc' = ppc
  PROVE  ReadAhead' /\ Simulated'
<1> USE DEF readVars, loopVars, simVars
<1>1. CASE rpc # "wait"
  <2>1. PinLog' = PinLog /\ ppc' = ppc
    BY <1>1
  <2>2. ReadAhead'
    BY <2>1 DEF ReadAhead, InRep, InComp, Open
  <2>3. Simulated'
    BY <2>1 DEF Simulated, AccessesIn
  <2> QED BY <2>2, <2>3
<1>2. CASE rpc = "wait"
  <2>1. lines_handled = 0 /\ stage = "idle" /\ naccess = 0
    BY <1>2, AccessesCounted DEF ReadAhead, Simulated
  <2>2. PinLog' \in Seq(Entry)
    BY DEF PinInv, PinTypes
  <2>3. ~repstarted /\ repstarted \in BOOLEAN /\ cur_comp_id = WRAPPER_COMPARTMENT_ID
    BY <2>1, OpenNone DEF ReadAhead
  <2>4. ReadAhead'
    <3>1. lines_handled' = 0 /\ lines_handled' \in Nat /\ lines_handled' <= Len(PinLog')
      BY <2>1, <2>2
    <3>2. ~InRep(PinLog', lines_handled') /\ ~InComp(PinLog', lines_handled')
      BY <3>1, OpenNone
    <3> QED BY <1>2, <2>1, <2>3, <3>1, <3>2 DEF ReadAhead, InRep, InComp, Open
  <2>5. Simulated'
    <3>1. Cardinality(AccessesIn(PinLog', 0)) = 0
      BY AccessesCounted
    <3> QED BY <2>1, <3>1 DEF Simulated, AccessesIn
  <2> QED BY <2>4, <2>5
<1> QED BY <1>1, <1>2

LEMMA ProgramFrame ==
  ASSUME Recorded, Early, UNCHANGED <<allVars, calls, seen, dcount, AccessTrackingOn>>
  PROVE  Recorded' /\ Early'
<1>1. mpc' = mpc /\ pc' = pc
  BY DEF allVars, vars, mainVars
<1>2. Recorded'
  <2>1. Leads(calls, InRep(seen, Len(seen)), InComp(seen, Len(seen)), AccessTrackingOn)'
    BY <1>1 DEF Recorded, Leads, MainRep, MainComp, MainOn
  <2>2. WellFormed(seen)' /\ dcount' = Cardinality(AccessesIn(seen, Len(seen)))'
    BY DEF Recorded
  <2> QED BY <2>1, <2>2 DEF Recorded
<1>3. Early'
  BY <1>1 DEF Early
<1> QED BY <1>2, <1>3

-----------------------------------------------------------------------------
(* The tool. *)

(* A sequence of one, two or three elements. *)
LEMMA UpToThree ==
  ASSUME NEW S, NEW s \in Seq(S), s # <<>>, Len(s) <= 3
  PROVE  /\ Len(s) \in {1, 2, 3}
         /\ Head(s) = s[1] /\ s[1] \in S
         /\ Tail(s) \in Seq(S) /\ Len(Tail(s)) = Len(s) - 1
         /\ Len(s) = 1 => Tail(s) = <<>>
         /\ Len(s) # 1 => Tail(s) # <<>> /\ Tail(s)[1] = s[2]
         /\ Len(s) = 3 => Tail(s)[2] = s[3]
<1>1. Len(s) \in Nat \ {0}
  BY EmptySeq
<1>2. Len(s) \in {1, 2, 3}
  <2>1. \A n \in Nat \ {0} : n <= 3 => n \in {1, 2, 3}
    OBVIOUS
  <2> QED BY <1>1, <2>1, Zenon
<1>3. Head(s) = s[1] /\ s[1] \in S
  BY <1>2
<1>4. /\ Tail(s) \in Seq(S) /\ Len(Tail(s)) = Len(s) - 1
      /\ \A m \in 1 .. Len(Tail(s)) : Tail(s)[m] = s[m + 1]
  BY HeadTailProperties
<1>5. Len(s) = 1 => Tail(s) = <<>>
  <2>1. \A t \in Seq(S) : t # <<>> => Len(t) \in Nat \ {0}
    BY EmptySeq
  <2>2. 1 - 1 = 0
    OBVIOUS
  <2> QED BY <1>4, <2>1, <2>2, Zenon
<1>6. Len(s) # 1 => Tail(s) # <<>> /\ Tail(s)[1] = s[2]
  <2>1. Len(<<>>) = 0
    BY EmptySeq
  <2>2. /\ 2 - 1 = 1 /\ 3 - 1 = 2 /\ 1 + 1 = 2 /\ 1 # 0 /\ 2 # 0
        /\ 1 \in 1 .. 1 /\ 1 \in 1 .. 2
    OBVIOUS
  <2> QED BY <1>2, <1>4, <2>1, <2>2, Zenon
<1>7. Len(s) = 3 => Tail(s)[2] = s[3]
  <2>1. 3 - 1 = 2 /\ 2 + 1 = 3 /\ 2 \in 1 .. 2
    OBVIOUS
  <2> QED BY <1>4, <2>1, Zenon
<1> QED BY <1>2, <1>3, <1>4, <1>5, <1>6, <1>7

(* It does not matter how a place is written. *)
LEMMA SamePlace ==
  ASSUME NEW rep, NEW comp, NEW on, NEW rep2, NEW comp2, NEW on2, NEW R, NEW C, NEW O,
         rep <=> rep2, comp <=> comp2, on <=> on2, NEW w
  PROVE  /\ MayCome(w, rep, comp, on) <=> MayCome(w, rep2, comp2, on2)
         /\ RepAfter(w, rep) <=> RepAfter(w, rep2)
         /\ CompAfter(w, comp) <=> CompAfter(w, comp2)
         /\ OnAfter(w, on) <=> OnAfter(w, on2)
         /\ After1(w, rep, comp, on, R, C, O) <=> After1(w, rep2, comp2, on2, R, C, O)
<1>1. MayCome(w, rep, comp, on) <=> MayCome(w, rep2, comp2, on2)
  BY DEF MayCome, Legal
<1>2. RepAfter(w, rep) <=> RepAfter(w, rep2)
  BY DEF RepAfter
<1>3. CompAfter(w, comp) <=> CompAfter(w, comp2)
  BY DEF CompAfter
<1>4. OnAfter(w, on) <=> OnAfter(w, on2)
  BY DEF OnAfter
<1>5. After1(w, rep, comp, on, R, C, O) <=> After1(w, rep2, comp2, on2, R, C, O)
  BY <1>1, <1>2, <1>3, <1>4 DEF After1, Arrived
<1> QED BY <1>1, <1>2, <1>3, <1>4, <1>5

LEMMA SameTwo ==
  ASSUME NEW rep, NEW comp, NEW on, NEW rep2, NEW comp2, NEW on2, NEW R, NEW C, NEW O,
         rep <=> rep2, comp <=> comp2, on <=> on2, NEW w, NEW x
  PROVE  After2(w, x, rep, comp, on, R, C, O) <=> After2(w, x, rep2, comp2, on2, R, C, O)
<1>1. /\ MayCome(w, rep, comp, on) <=> MayCome(w, rep2, comp2, on2)
      /\ RepAfter(w, rep) <=> RepAfter(w, rep2)
      /\ CompAfter(w, comp) <=> CompAfter(w, comp2)
      /\ OnAfter(w, on) <=> OnAfter(w, on2)
  BY SamePlace
<1>2. After1(x, RepAfter(w, rep), CompAfter(w, comp), OnAfter(w, on), R, C, O)
      <=> After1(x, RepAfter(w, rep2), CompAfter(w, comp2), OnAfter(w, on2), R, C, O)
  BY <1>1, SamePlace
<1> QED BY <1>1, <1>2 DEF After2

LEMMA SameThree ==
  ASSUME NEW rep, NEW comp, NEW on, NEW rep2, NEW comp2, NEW on2, NEW R, NEW C, NEW O,
         rep <=> rep2, comp <=> comp2, on <=> on2, NEW w, NEW x, NEW y
  PROVE  After3(w, x, y, rep, comp, on, R, C, O) <=> After3(w, x, y, rep2, comp2, on2, R, C, O)
<1>1. /\ MayCome(w, rep, comp, on) <=> MayCome(w, rep2, comp2, on2)
      /\ RepAfter(w, rep) <=> RepAfter(w, rep2)
      /\ CompAfter(w, comp) <=> CompAfter(w, comp2)
      /\ OnAfter(w, on) <=> OnAfter(w, on2)
  BY SamePlace
<1>2. After2(x, y, RepAfter(w, rep), CompAfter(w, comp), OnAfter(w, on), R, C, O)
      <=> After2(x, y, RepAfter(w, rep2), CompAfter(w, comp2), OnAfter(w, on2), R, C, O)
  BY <1>1, SameTwo
<1> QED BY <1>1, <1>2 DEF After3

LEMMA SameLead ==
  ASSUME NEW rep, NEW comp, NEW on, NEW rep2, NEW comp2, NEW on2, NEW R, NEW C, NEW O,
         rep <=> rep2, comp <=> comp2, on <=> on2, NEW cs, LeadsTo(cs, rep, comp, on, R, C, O)
  PROVE  LeadsTo(cs, rep2, comp2, on2, R, C, O)
<1>1. Len(cs) = 0 => Arrived(rep2, comp2, on2, R, C, O)
  BY DEF LeadsTo, Arrived
<1>2. Len(cs) = 1 => After1(cs[1].what, rep2, comp2, on2, R, C, O)
  BY SamePlace DEF LeadsTo
<1>3. Len(cs) = 2 => After2(cs[1].what, cs[2].what, rep2, comp2, on2, R, C, O)
  BY SameTwo DEF LeadsTo
<1>4. Len(cs) = 3 => After3(cs[1].what, cs[2].what, cs[3].what, rep2, comp2, on2, R, C, O)
  BY SameThree DEF LeadsTo
<1> QED BY <1>1, <1>2, <1>3, <1>4 DEF LeadsTo

(* The first of the calls that are left, which is made next. *)
LEMMA NextCall ==
  ASSUME Recorded, calls # <<>>
  PROVE  /\ Head(calls) = calls[1] /\ calls[1] \in CallRecord
         /\ Tail(calls) \in Seq(CallRecord) /\ Len(Tail(calls)) = Len(calls) - 1
         /\ Len(calls) \in {1, 2, 3}
         /\ Len(calls) = 1 => Tail(calls) = <<>>
         /\ Len(calls) # 1 => Tail(calls) # <<>> /\ Tail(calls)[1] = calls[2]
         /\ Len(calls) = 3 => Tail(calls)[2] = calls[3]
         /\ MayCome(calls[1].what, InRep(seen, Len(seen)), InComp(seen, Len(seen)), AccessTrackingOn)
<1>1. calls \in Seq(CallRecord) /\ Len(calls) <= 3
  BY DEF Recorded
<1>2. /\ Len(calls) \in {1, 2, 3}
      /\ Head(calls) = calls[1] /\ calls[1] \in CallRecord
      /\ Tail(calls) \in Seq(CallRecord) /\ Len(Tail(calls)) = Len(calls) - 1
      /\ Len(calls) = 1 => Tail(calls) = <<>>
      /\ Len(calls) # 1 => Tail(calls) # <<>> /\ Tail(calls)[1] = calls[2]
      /\ Len(calls) = 3 => Tail(calls)[2] = calls[3]
  BY <1>1, UpToThree, Zenon
<1>3. MayCome(calls[1].what, InRep(seen, Len(seen)), InComp(seen, Len(seen)), AccessTrackingOn)
  BY <1>2 DEF Recorded, Leads, LeadsTo, After1, After2, After3
<1> QED BY <1>1, <1>2, <1>3, Zenon

(* The calls that are left when the first is made. *)
LEMMA CallsLeft ==
  ASSUME Recorded, calls # <<>>, NEW left, left = Tail(calls)
  PROVE  /\ left \in Seq(CallRecord)
         /\ Len(calls) \in {1, 2, 3}
         /\ Len(calls) = 1 => left = <<>> /\ Len(left) = 0
         /\ Len(calls) = 2 => Len(left) = 1 /\ left[1] = calls[2]
         /\ Len(calls) = 3 => Len(left) = 2 /\ left[1] = calls[2] /\ left[2] = calls[3]
<1>1. /\ left \in Seq(CallRecord) /\ Len(left) = Len(calls) - 1
      /\ Len(calls) \in {1, 2, 3}
      /\ Len(calls) = 1 => left = <<>>
      /\ Len(calls) # 1 => left[1] = calls[2]
      /\ Len(calls) = 3 => left[2] = calls[3]
  BY NextCall, Zenon
<1>2. 1 - 1 = 0 /\ 2 - 1 = 1 /\ 3 - 1 = 2 /\ 2 # 1 /\ 3 # 1
  OBVIOUS
<1> QED BY <1>1, <1>2, Zenon

(* After the call, the others still lead to where main is. *)
LEMMA CallMade ==
  ASSUME Recorded, Early, calls # <<>>, calls' = Tail(calls), UNCHANGED allVars,
         InRep(seen', Len(seen')) <=> RepAfter(calls[1].what, InRep(seen, Len(seen))),
         InComp(seen', Len(seen')) <=> CompAfter(calls[1].what, InComp(seen, Len(seen))),
         AccessTrackingOn' <=> OnAfter(calls[1].what, AccessTrackingOn),
         AccessTrackingOn' \in BOOLEAN,
         WellFormed(seen'), dcount' = Cardinality(AccessesIn(seen', Len(seen'))),
         seen' = seen \/ calls[1].what \in Marker \/ AccessTrackingOn
  PROVE  Recorded' /\ Early'
<1>1. mpc' = mpc /\ pc' = pc
  BY DEF allVars, vars, mainVars
<1>0. PICK left : left = Tail(calls)
  OBVIOUS
<1>2. /\ calls' = left
      /\ left \in Seq(CallRecord)
      /\ Len(calls) \in {1, 2, 3}
      /\ Len(calls) = 1 => left = <<>> /\ Len(left) = 0
      /\ Len(calls) = 2 => Len(left) = 1 /\ left[1] = calls[2]
      /\ Len(calls) = 3 => Len(left) = 2 /\ left[1] = calls[2] /\ left[2] = calls[3]
  BY <1>0, CallsLeft, Zenon
<1>3. LeadsTo(left, RepAfter(calls[1].what, InRep(seen, Len(seen))),
              CompAfter(calls[1].what, InComp(seen, Len(seen))),
              OnAfter(calls[1].what, AccessTrackingOn), MainRep, MainComp, MainOn)
  <2>1. CASE Len(calls) = 1
    BY <1>2, <2>1 DEF Recorded, Leads, LeadsTo, After1
  <2>2. CASE Len(calls) = 2
    BY <1>2, <2>2 DEF Recorded, Leads, LeadsTo, After2
  <2>3. CASE Len(calls) = 3
    <3>1. After2(calls[2].what, calls[3].what, RepAfter(calls[1].what, InRep(seen, Len(seen))),
                 CompAfter(calls[1].what, InComp(seen, Len(seen))),
                 OnAfter(calls[1].what, AccessTrackingOn), MainRep, MainComp, MainOn)
      BY <2>3 DEF Recorded, Leads, LeadsTo, After3
    <3>2. Len(left) = 2 /\ left[1] = calls[2] /\ left[2] = calls[3] /\ 2 # 0 /\ 2 # 1 /\ 2 # 3
      BY <1>2, <2>3
    <3> QED BY <3>1, <3>2, Zenon DEF LeadsTo
  <2> QED BY <1>2, <2>1, <2>2, <2>3
<1>4. Leads(calls, InRep(seen, Len(seen)), InComp(seen, Len(seen)), AccessTrackingOn)'
  <2>1. LeadsTo(left, InRep(seen', Len(seen')), InComp(seen', Len(seen')), AccessTrackingOn',
                MainRep, MainComp, MainOn)
    BY <1>3, SameLead
  <2> QED BY <1>1, <1>2, <2>1 DEF Leads, MainRep, MainComp, MainOn
<1>5. Recorded'
  <2>1. Len(left) <= 3
    BY <1>2
  <2> QED BY <1>2, <1>4, <2>1 DEF Recorded
<1>6. Early'
  <2> SUFFICES ASSUME mpc \in {"wrapper_init", "set", "setting", "aborted"}
               PROVE  seen' = <<>> /\ \A n \in 1 .. Len(calls') : calls'[n].what \in Code
    BY <1>1 DEF Early
  <2>1. seen = <<>> /\ \A n \in 1 .. Len(calls) : calls[n].what \in Code
    BY DEF Early
  <2>2. /\ calls[1].what \in Code
        /\ Len(calls) \in {2, 3} => calls[2].what \in Code
        /\ Len(calls) = 3 => calls[3].what \in Code
    BY <1>2, <2>1
  <2>3. \A n \in 1 .. Len(calls') : calls'[n].what \in Code
    <3>1. CASE Len(calls) = 1
      <4>1. Len(calls') = 0 /\ 1 .. 0 = {}
        BY <1>2, <3>1
      <4> QED BY <4>1, Zenon
    <3>2. CASE Len(calls) = 2
      <4>1. Len(calls') = 1 /\ calls'[1] = calls[2] /\ 1 .. 1 = {1}
        BY <1>2, <3>2
      <4> QED BY <2>2, <3>2, <4>1, Zenon
    <3>3. CASE Len(calls) = 3
      <4>0. 1 .. 2 = {1, 2}
        OBVIOUS
      <4>1. Len(calls') = 2 /\ calls'[1] = calls[2] /\ calls'[2] = calls[3] /\ 1 .. 2 = {1, 2}
        BY <1>2, <3>3, <4>0, Zenon
      <4> QED BY <2>2, <3>3, <4>1, Zenon
    <3> QED BY <1>2, <3>1, <3>2, <3>3
  <2>4. ~AccessTrackingOn
    <3>1. ~MainOn
      BY DEF MainOn
    <3>2. \A w \in Code : \A on : OnAfter(w, on) <=> on
      BY DEF OnAfter, Code
    <3>3. CASE Len(calls) = 1
      BY <2>2, <3>1, <3>2, <3>3 DEF Recorded, Leads, LeadsTo, After1, Arrived
    <3>4. CASE Len(calls) = 2
      BY <2>2, <3>1, <3>2, <3>4 DEF Recorded, Leads, LeadsTo, After2, After1, Arrived
    <3>5. CASE Len(calls) = 3
      BY <2>2, <3>1, <3>2, <3>5 DEF Recorded, Leads, LeadsTo, After3, After2, After1, Arrived
    <3> QED BY <1>2, <3>3, <3>4, <3>5
  <2>5. calls[1].what \notin Marker
    BY <2>2 DEF Marker, Code
  <2> QED BY <2>1, <2>3, <2>4, <2>5
<1> QED BY <1>5, <1>6

(* What an analysis routine does with its call. *)
LEMMA AnalysisStep ==
  ASSUME TInv, analysis_routine
  PROVE  /\ PinNext /\ ppc = "run" /\ PinLog' = PinLog /\ ppc' \in {"run", "flush"}
         /\ AccessTrackingOn' \in BOOLEAN
         /\ AccessTrackingOn' <=> OnAfter(calls[1].what, AccessTrackingOn)
         /\ \/ /\ seen' = seen /\ dcount' = dcount
               /\ calls[1].what \in Code => ~AccessTrackingOn
               /\ calls[1].what \in Code \cup {"on", "off"}
            \/ /\ calls[1] \in Entry /\ seen' = Append(seen, calls[1])
               /\ dcount' = dcount + (IF calls[1].what \in Code THEN 1 ELSE 0)
               /\ calls[1].what \in Code => AccessTrackingOn
<1> DEFINE e == calls[1]
<1>1. Recorded /\ AccessTrackingOn \in BOOLEAN
  BY DEF TInv, Recorded
<1>2. Head(calls) = e /\ e \in CallRecord
  BY <1>1, NextCall DEF analysis_routine
<1>3. \/ e.what \in {"on", "off"} /\ SetTrigger(e.what = "on")
      \/ e.what \in Marker /\ PrintMarker(e.what)
      \/ e.what \in Code /\ DoAccessAccounting(e.what, e.at)
  BY <1>2 DEF analysis_routine
<1>4. dcount \in Nat
  BY <1>1, AccessesCounted DEF Recorded, TInv, PinInv, PinTypes
<1>5. /\ e.what \in Marker => e.at = NoData /\ e \in Entry /\ e = [what |-> e.what, at |-> NoData]
      /\ e.what \in Code => e.at \in Access /\ e \in Entry /\ e = [what |-> e.what, at |-> e.at]
  BY <1>2 DEF CallRecord, Entry, Marker, Code
<1> HIDE DEF e
<1>6. CASE e.what \in {"on", "off"} /\ SetTrigger(e.what = "on")
  <2>1. AccessTrackingOn' = (e.what = "on") /\ (e.what = "on") \in BOOLEAN
    BY <1>6, Zenon DEF SetTrigger
  <2>2. AccessTrackingOn' \in BOOLEAN /\ (AccessTrackingOn' <=> OnAfter(e.what, AccessTrackingOn))
    <3>1. AccessTrackingOn' \in BOOLEAN /\ (AccessTrackingOn' <=> e.what = "on")
      BY <2>1, Zenon
    <3>2. e.what # "on" => e.what = "off"
      BY <1>6
    <3> QED BY <3>1, <3>2, Zenon DEF OnAfter
  <2>3. PinNext
    BY <1>6, <2>1, Zenon DEF PinNext
  <2>4. seen' = seen /\ dcount' = dcount /\ ppc = "run" /\ ppc' = ppc /\ PinLog' = PinLog
    BY <1>6, Zenon DEF SetTrigger
  <2>5. e.what \notin Code
    BY <1>6 DEF Code
  <2> QED BY <1>6, <2>2, <2>3, <2>4, <2>5, Zenon DEF e
<1>7. CASE e.what \in Marker /\ PrintMarker(e.what)
  <2>1. /\ ppc = "run" /\ PinLog' = PinLog /\ AccessTrackingOn' = AccessTrackingOn
        /\ seen' = Append(seen, e) /\ dcount' = dcount /\ ppc' \in {"run", "flush"}
    BY <1>5, <1>7 DEF PrintMarker, Record
  <2>2. PinNext
    BY <1>7, Zenon DEF PinNext
  <2>3. e.what \notin Code /\ e.what # "on" /\ e.what # "off"
    BY <1>7 DEF Marker, Code
  <2>4. AccessTrackingOn' \in BOOLEAN /\ (AccessTrackingOn' <=> OnAfter(e.what, AccessTrackingOn))
    BY <1>1, <2>1, <2>3, Zenon DEF OnAfter
  <2>5. dcount' = dcount + (IF e.what \in Code THEN 1 ELSE 0)
    BY <1>4, <2>1, <2>3
  <2> QED BY <1>5, <1>7, <2>1, <2>2, <2>3, <2>4, <2>5, Zenon DEF e
<1>8. CASE e.what \in Code /\ DoAccessAccounting(e.what, e.at)
  <2>1. PinNext /\ ppc = "run"
    BY <1>5, <1>8, Zenon DEF PinNext, DoAccessAccounting
  <2>2. e.what # "on" /\ e.what # "off"
    BY <1>8 DEF Code
  <2>3. CASE ~AccessTrackingOn /\ UNCHANGED pinVars
    <3>1. /\ PinLog' = PinLog /\ AccessTrackingOn' = AccessTrackingOn /\ ppc' = ppc
          /\ seen' = seen /\ dcount' = dcount
      BY <2>3, Zenon DEF pinVars
    <3>2. AccessTrackingOn' \in BOOLEAN /\ (AccessTrackingOn' <=> OnAfter(e.what, AccessTrackingOn))
      BY <1>1, <2>2, <3>1, Zenon DEF OnAfter
    <3> QED BY <1>8, <2>1, <2>3, <3>1, <3>2, Zenon DEF e
  <2>4. CASE AccessTrackingOn /\ Record([what |-> e.what, at |-> e.at]) /\ dcount' = dcount + 1
    <3>1. /\ PinLog' = PinLog /\ AccessTrackingOn' = AccessTrackingOn
          /\ seen' = Append(seen, e) /\ ppc' \in {"run", "flush"}
      BY <1>5, <1>8, <2>4 DEF Record
    <3>2. AccessTrackingOn' \in BOOLEAN /\ (AccessTrackingOn' <=> OnAfter(e.what, AccessTrackingOn))
      BY <1>1, <2>2, <3>1, Zenon DEF OnAfter
    <3>3. dcount' = dcount + (IF e.what \in Code THEN 1 ELSE 0)
      BY <1>8, <2>4
    <3> QED BY <1>5, <1>8, <2>1, <2>4, <3>1, <3>2, <3>3, Zenon DEF e
  <2> QED BY <1>8, <2>3, <2>4, Zenon DEF DoAccessAccounting
<1> QED BY <1>3, <1>6, <1>7, <1>8, Zenon

(* What a tool that is still running leaves of the invariant. *)
LEMMA StillOpen ==
  ASSUME TInv, PinInv', UNCHANGED readVars, ppc # "closed", ppc' # "closed"
  PROVE  FileComplete' /\ ReadAhead' /\ Simulated'
<1>1. rpc = "wait"
  BY DEF TInv, ReadAhead
<1>2. ReadAhead' /\ Simulated'
  BY <1>1, ReaderFrame DEF TInv
<1> QED BY <1>2 DEF FileComplete

LEMMA AnalysisKeeps ==
  ASSUME TInv, analysis_routine
  PROVE  TInv'
<1> DEFINE w == calls[1].what
<1>1. Recorded /\ Early /\ calls # <<>> /\ calls' = Tail(calls) /\ UNCHANGED allVars /\ UNCHANGED readVars
  BY DEF analysis_routine, TInv
<1>2. PinNext /\ ppc = "run" /\ ppc' # "closed"
  BY AnalysisStep
<1>3. PinInv'
  BY <1>2, PinNextInv DEF TInv
<1>4. WInv'
  BY <1>1, StutterKeeps DEF TInv
<1>5. FileComplete' /\ ReadAhead' /\ Simulated'
  BY <1>1, <1>2, <1>3, StillOpen
<1>6. MayCome(w, InRep(seen, Len(seen)), InComp(seen, Len(seen)), AccessTrackingOn)
  BY <1>1, NextCall
<1>7. WellFormed(seen) /\ dcount = Cardinality(AccessesIn(seen, Len(seen))) /\ seen \in Seq(Entry)
  BY <1>1 DEF Recorded, TInv, PinInv, PinTypes
<1>8. AccessTrackingOn' \in BOOLEAN /\ (AccessTrackingOn' <=> OnAfter(w, AccessTrackingOn))
  BY AnalysisStep, Zenon
<1>9. /\ InRep(seen', Len(seen')) <=> RepAfter(w, InRep(seen, Len(seen)))
      /\ InComp(seen', Len(seen')) <=> CompAfter(w, InComp(seen, Len(seen)))
      /\ WellFormed(seen') /\ dcount' = Cardinality(AccessesIn(seen', Len(seen')))
      /\ seen' = seen \/ w \in Marker \/ AccessTrackingOn
  <2>1. CASE /\ seen' = seen /\ dcount' = dcount
             /\ w \in Code \cup {"on", "off"}
    <3>1. w \notin Marker
      BY <2>1 DEF Code, Marker
    <3>2. w # "repstart" /\ w # "repend" /\ w # "switch_cache" /\ w # "switch_wrapper"
      BY <3>1 DEF Marker
    <3> HIDE DEF w
    <3> QED BY <1>7, <2>1, <3>2 DEF RepAfter, CompAfter
  <2>2. CASE /\ calls[1] \in Entry /\ seen' = Append(seen, calls[1])
             /\ dcount' = dcount + (IF w \in Code THEN 1 ELSE 0)
             /\ w \in Code => AccessTrackingOn
    <3>1. Legal(w, InRep(seen, Len(seen)), InComp(seen, Len(seen)))
      BY <1>6, <2>2, Zenon DEF MayCome
    <3>2. /\ WellFormed(seen')
          /\ InRep(seen', Len(seen')) <=> RepAfter(w, InRep(seen, Len(seen)))
          /\ InComp(seen', Len(seen')) <=> CompAfter(w, InComp(seen, Len(seen)))
          /\ Cardinality(AccessesIn(seen', Len(seen'))) =
               Cardinality(AccessesIn(seen, Len(seen))) + (IF w \in Code THEN 1 ELSE 0)
      BY <1>7, <2>2, <3>1, TraceGrows, Zenon
    <3>3. w \in Marker \/ w \in Code
      BY <2>2 DEF Entry
    <3> QED BY <1>7, <2>2, <3>2, <3>3, Zenon
  <2> QED BY AnalysisStep, <2>1, <2>2, Zenon
<1>10. Recorded' /\ Early'
  BY <1>1, <1>8, <1>9, CallMade, Zenon
<1> QED BY <1>3, <1>4, <1>5, <1>10 DEF TInv

LEMMA FlushKeeps ==
  ASSUME TInv, flush
  PROVE  TInv'
<1>1. (flush_line \/ flush_done) /\ UNCHANGED allVars /\ UNCHANGED readVars /\ calls' = calls
  BY DEF flush
<1>2. /\ ppc # "closed" /\ ppc' # "closed" /\ seen' = seen /\ dcount' = dcount
      /\ AccessTrackingOn' = AccessTrackingOn
  BY <1>1, Zenon DEF flush_line, flush_done
<1>3. PinInv'
  BY <1>1, PinNextInv DEF TInv, PinNext
<1>4. WInv'
  BY <1>1, StutterKeeps DEF TInv
<1>5. FileComplete' /\ ReadAhead' /\ Simulated'
  BY <1>1, <1>2, <1>3, StillOpen
<1>6. Recorded' /\ Early'
  BY <1>1, <1>2, ProgramFrame DEF TInv
<1> QED BY <1>3, <1>4, <1>5, <1>6 DEF TInv

(* The file is closed with everything in it. *)
LEMMA FiniKeeps ==
  ASSUME TInv, fini
  PROVE  TInv'
<1>1. (Fini \/ fini_done) /\ UNCHANGED allVars /\ UNCHANGED readVars /\ calls' = calls
  BY DEF fini
<1>2. /\ ppc # "closed" /\ seen' = seen /\ dcount' = dcount
      /\ AccessTrackingOn' = AccessTrackingOn
  BY <1>1, Zenon DEF Fini, fini_done
<1>3. PinInv'
  BY <1>1, PinNextInv DEF TInv, PinNext
<1>4. WInv'
  BY <1>1, StutterKeeps DEF TInv
<1>5. Recorded' /\ Early'
  BY <1>1, <1>2, ProgramFrame DEF TInv
<1>6. ReadAhead' /\ Simulated'
  <2>1. rpc = "wait"
    BY <1>2 DEF TInv, ReadAhead
  <2> QED BY <1>1, <1>3, <2>1, ReaderFrame DEF TInv
<1>7. FileComplete'
  <2>1. CASE Fini
    BY <2>1 DEF Fini, FileComplete
  <2>2. CASE fini_done
    <3>1. /\ PinLog \in Seq(Entry) /\ PinLogBuf \in Seq(Entry) /\ accesses \in Seq(Entry)
      BY DEF TInv, PinInv, PinTypes
    <3>2. SubSeq(accesses, flushed + 1, Len(accesses)) = <<>>
      BY <2>2, <3>1, RestOfAll DEF fini_done
    <3>3. (PinLog \o PinLogBuf) \o <<>> = PinLog \o PinLogBuf
      BY <3>1, Assoc
    <3>4. Trace = seen
      BY NothingCut DEF TInv
    <3>5. PinLog' = PinLog \o PinLogBuf
      BY <2>2 DEF fini_done
    <3> QED BY <1>2, <3>2, <3>3, <3>4, <3>5, Zenon DEF Trace, FileComplete
  <2> QED BY <1>1, <2>1, <2>2
<1> QED BY <1>3, <1>4, <1>5, <1>6, <1>7 DEF TInv

(* A program that faults or fails an assertion does so before it marks a   *)
(* repetition: nothing is lost with the tool's buffers.                    *)
LEMMA FiniSkippedKeeps ==
  ASSUME TInv, fini_skipped
  PROVE  TInv'
<1>1. /\ UNCHANGED allVars /\ UNCHANGED readVars /\ calls' = calls
      /\ ppc = "run" /\ ppc' = "closed" /\ PinLog' = PinLog
      /\ UNCHANGED <<accesses, flushed, PinLogBuf, nul, PinLogBufSize, PinLog, seen>>
      /\ dcount' = dcount /\ AccessTrackingOn' = AccessTrackingOn
      /\ mpc = "aborted" \/ pc = "crashed"
  BY Zenon DEF fini_skipped
<1>2. PinInv'
  BY <1>1, OtherInv DEF TInv
<1>3. WInv'
  BY <1>1, StutterKeeps DEF TInv
<1>4. Recorded' /\ Early'
  BY <1>1, ProgramFrame DEF TInv
<1>5. ReadAhead' /\ Simulated'
  <2>1. rpc = "wait"
    BY <1>1 DEF TInv, ReadAhead
  <2> QED BY <1>1, <1>2, <2>1, ReaderFrame DEF TInv
<1>6. FileComplete'
  <2>1. mpc \in {"wrapper_init", "set", "setting", "aborted"}
    BY <1>1 DEF TInv, WInv, WType, Where
  <2>2. seen = <<>>
    BY <2>1 DEF TInv, Early
  <2>3. Trace = <<>>
    BY <2>2, NothingCut DEF TInv
  <2>4. /\ PinLog \in Seq(Entry) /\ PinLogBuf \in Seq(Entry)
        /\ SubSeq(accesses, flushed + 1, Len(accesses)) \in Seq(Entry)
    BY <1>1, SubSeqProperties DEF TInv, PinInv, PinTypes
  <2>5. ASSUME NEW a \in Seq(Entry), NEW b \in Seq(Entry), a \o b = <<>>
        PROVE  a = <<>>
    <3>1. Len(a \o b) = Len(a) + Len(b) /\ Len(a) \in Nat /\ Len(b) \in Nat
      BY ConcatProperties
    <3>2. Len(a) = 0
      BY <2>5, <3>1
    <3> QED BY <3>2
  <2>6. PinLog \o PinLogBuf \in Seq(Entry)
    BY <2>4, ConcatProperties
  <2>7. PinLog \o PinLogBuf = <<>>
    BY <2>3, <2>4, <2>5, <2>6 DEF Trace
  <2>8. PinLog = <<>>
    BY <2>4, <2>5, <2>7
  <2> QED BY <1>1, <2>2, <2>8 DEF FileComplete
<1> QED BY <1>2, <1>3, <1>4, <1>5, <1>6 DEF TInv

-----------------------------------------------------------------------------
(* The program. *)

(* main before its first repetition. *)
Starting == {"wrapper_init", "set", "setting", "aborted"}

(* The steps that no call but an access of main belongs to. *)
Plain ==
  \/ mpc \in Starting /\ mpc' \in Starting
  \/ mpc = "set" /\ mpc' = "pass"
  \/ mpc = "pass" /\ mpc' = "exit"
  \/ mpc = "returned" /\ mpc' = "get"

(* Where a step of the program goes. *)
LEMMA ProgramMoves ==
  ASSUME WInv, Run
  PROVE  \/ mpc = "pass" /\ mpc' = "get"
         \/ mpc = "get" /\ mpc' = "pass"
         \/ mpc = "get" /\ mpc' = "decrypt"
         \/ mpc = "decrypt" /\ mpc' = "decrypt" /\ MoreToDecrypt
         \/ mpc = "decrypt" /\ mpc' = "getting" /\ pc' = "find"
         \/ mpc = "getting" /\ mpc' = "getting" /\ pc = "find" /\ pc' = "find" /\ it # NULL
         \/ mpc = "getting" /\ mpc' = "getting" /\ pc = "find" /\ pc' = "idle"
         \/ mpc = "getting" /\ pc = "idle" /\ mpc' = "encrypt"
         \/ mpc = "encrypt" /\ mpc' = "encrypt" /\ MoreToEncrypt
         \/ mpc \in {"getting", "encrypt"} /\ mpc' = "returned" /\ pc = "idle"
         \/ Plain
<1>1. CASE Main
  BY <1>1 DEF Main, Plain, Starting, CacheIdle, Call, wrapper_init, set_value, set_done, sets_done,
     pass_start, encrypt_key, decrypt_block, call_cache_get, cache_get_done, encrypt_block,
     reply_done, get_done, pass_done, exit
<1>2. CASE InCache
  <2>1. mpc' = mpc /\ Step
    BY <1>2 DEF InCache, mainVars
  <2>2. CASE cache_init
    <3>1. pc \in {"init", "split"}
      BY <2>2 DEF cache_init, slab_preallocate, split_slab_page_into_freelist, slab_preallocated
    <3>2. mpc = "wrapper_init"
      BY <3>1 DEF WInv, WType, Where
    <3> QED BY <2>1, <3>2 DEF Plain, Starting
  <2>3. CASE WalkOn
    <3>1. pc = "find" /\ pc' = pc /\ it # NULL
      BY <2>3 DEF WalkOn
    <3>2. mpc \in {"setting", "getting"}
      BY <3>1 DEF WInv, WType, Where
    <3> QED BY <2>1, <3>1, <3>2 DEF Plain, Starting
  <2>4. CASE cache_get
    <3>1. pc = "find" /\ pc' = "idle"
      BY <2>4 DEF cache_get, Return
    <3>2. mpc \in {"setting", "getting"}
      BY <3>1 DEF WInv, WType, Where
    <3> QED BY <2>1, <3>1, <3>2 DEF Plain, Starting
  <2>5. CASE cache_set
    <3>1. pc \in {"find", "free", "alloc"} /\ (pc = "find" => req.op = "set")
      BY <2>5 DEF cache_set, item_unlink, unlink_missed, free_old, insert_new, alloc_failed, alloc_oversize
    <3>2. mpc = "setting"
      BY <3>1 DEF WInv, WType, Where, GetReq
    <3> QED BY <2>1, <3>2 DEF Plain, Starting
  <2> QED BY <2>1, <2>2, <2>3, <2>4, <2>5 DEF Step
<1> QED BY <1>1, <1>2 DEF Run

MainCall == [what |-> "main", at |-> At(Message, AesBlock)]

(* The calls that belong to a step. *)
LEMMA CallsOf ==
  /\ mpc = "pass" /\ mpc' = "get" => Instrumented = <<Do("repstart")>>
  /\ mpc = "get" /\ mpc' = "pass" => Instrumented = <<Do("repend")>>
  /\ mpc = "get" /\ mpc' = "decrypt" => Instrumented = <<MainCall>> \o EnterWrapper
  /\ mpc = "decrypt" /\ mpc' = "decrypt" => Instrumented = <<Wrapper(Message + bytes_dec)>>
  /\ mpc = "decrypt" /\ mpc' = "getting" => Instrumented = EnterCache \o <<InTable>>
  /\ mpc = "getting" /\ mpc' = "getting" /\ pc = "find" /\ pc' = "find" => Instrumented = <<InChunk>>
  /\ mpc = "getting" /\ mpc' = "getting" /\ pc = "find" /\ pc' = "idle" =>
       Instrumented = IF it = NULL THEN LeaveCache ELSE <<InChunk>> \o LeaveCache
  /\ mpc = "getting" /\ pc = "idle" /\ mpc' = "encrypt" => Instrumented = <<Wrapper(Reply)>>
  /\ mpc = "encrypt" /\ mpc' = "encrypt" => Instrumented = <<Wrapper(Reply + bytes_enc)>>
  /\ mpc \in {"getting", "encrypt"} /\ mpc' = "returned" /\ pc = "idle" =>
       Instrumented = LeaveWrapper
  /\ Plain => Instrumented = <<MainCall>>
<1>1. mpc = "pass" /\ mpc' = "get" => Instrumented = <<Do("repstart")>>
  BY DEF Instrumented
<1>2. mpc = "get" /\ mpc' = "pass" => Instrumented = <<Do("repend")>>
  BY DEF Instrumented
<1>3. mpc = "get" /\ mpc' = "decrypt" => Instrumented = <<MainCall>> \o EnterWrapper
  BY DEF Instrumented, MainCall
<1>4. mpc = "decrypt" /\ mpc' = "decrypt" => Instrumented = <<Wrapper(Message + bytes_dec)>>
  BY DEF Instrumented
<1>5. mpc = "decrypt" /\ mpc' = "getting" => Instrumented = EnterCache \o <<InTable>>
  BY DEF Instrumented
<1>6. mpc = "getting" /\ mpc' = "getting" /\ pc = "find" /\ pc' = "find" => Instrumented = <<InChunk>>
  BY DEF Instrumented
<1>7. mpc = "getting" /\ mpc' = "getting" /\ pc = "find" /\ pc' = "idle" =>
       Instrumented = IF it = NULL THEN LeaveCache ELSE <<InChunk>> \o LeaveCache
  BY DEF Instrumented
<1>8. mpc = "encrypt" /\ mpc' = "encrypt" => Instrumented = <<Wrapper(Reply + bytes_enc)>>
  BY DEF Instrumented
<1>9. mpc \in {"getting", "encrypt"} /\ mpc' = "returned" /\ pc = "idle" =>
       Instrumented = LeaveWrapper
  BY DEF Instrumented
<1>10. Plain => Instrumented = <<MainCall>>
  BY DEF Instrumented, MainCall, Plain, Starting
<1>11. mpc = "getting" /\ pc = "idle" /\ mpc' = "encrypt" => Instrumented = <<Wrapper(Reply)>>
  BY DEF Instrumented
<1> QED BY <1>1, <1>2, <1>3, <1>4, <1>5, <1>6, <1>7, <1>8, <1>9, <1>10, <1>11

(* The calls on the border of a routine, in the order that Pin has chosen. *)
OnStack(w) == [what |-> w, at |-> At(Stack, 8)]

LEMMA BordersAre ==
  ASSUME NEW marker, NEW w, NEW c
  PROVE  /\ marker \in MarkersFirst =>
              /\ Boundary(marker, w) = <<Do(marker), OnStack(w)>>
              /\ <<c>> \o Boundary(marker, w) = <<c, Do(marker), OnStack(w)>>
              /\ Boundary(marker, w) \o <<c>> = <<Do(marker), OnStack(w), c>>
         /\ marker \notin MarkersFirst =>
              /\ Boundary(marker, w) = <<OnStack(w), Do(marker)>>
              /\ <<c>> \o Boundary(marker, w) = <<c, OnStack(w), Do(marker)>>
              /\ Boundary(marker, w) \o <<c>> = <<OnStack(w), Do(marker), c>>
<1>1. ASSUME NEW a, NEW b
      PROVE  <<c>> \o <<a, b>> = <<c, a, b>> /\ <<a, b>> \o <<c>> = <<a, b, c>>
  <2>0. PICK S : S = {a, b, c}
    OBVIOUS
  <2>1. PICK p, q, r, s : p = <<c>> /\ q = <<a, b>> /\ r = <<c, a, b>> /\ s = <<a, b, c>>
    OBVIOUS
  <2>2. /\ p \in Seq(S) /\ Len(p) = 1 /\ p[1] = c
        /\ q \in Seq(S) /\ Len(q) = 2 /\ q[1] = a /\ q[2] = b
        /\ r \in Seq(S) /\ Len(r) = 3 /\ r[1] = c /\ r[2] = a /\ r[3] = b
        /\ s \in Seq(S) /\ Len(s) = 3 /\ s[1] = a /\ s[2] = b /\ s[3] = c
    BY <2>0, <2>1
  <2>3. \A n \in 1 .. 3 : n = 1 \/ n = 2 \/ n = 3
    OBVIOUS
  <2>4. p \o q = r
    <3>0. /\ p \o q \in Seq(S) /\ Len(p \o q) = 1 + 2
          /\ \A n \in 1 .. 1 + 2 : (p \o q)[n] = IF n <= 1 THEN p[n] ELSE q[n - 1]
      <4>1. /\ p \o q \in Seq(S) /\ Len(p \o q) = Len(p) + Len(q)
            /\ \A n \in 1 .. Len(p) + Len(q) :
                 (p \o q)[n] = IF n <= Len(p) THEN p[n] ELSE q[n - Len(p)]
        BY <2>2, ConcatProperties
      <4> QED BY <2>2, <4>1, Zenon
    <3>a. 1 + 2 = 3 /\ 1 <= 1 /\ ~(2 <= 1) /\ ~(3 <= 1) /\ 2 - 1 = 1 /\ 3 - 1 = 2
          /\ 1 \in 1 .. 3 /\ 2 \in 1 .. 3 /\ 3 \in 1 .. 3
      OBVIOUS
    <3>1. p \o q \in Seq(S) /\ Len(p \o q) = 3 /\ (p \o q)[1] = c /\ (p \o q)[2] = a /\ (p \o q)[3] = b
      BY <2>2, <3>0, <3>a, Zenon
    <3>2. \A n \in 1 .. 3 : (p \o q)[n] = r[n]
      BY <2>2, <2>3, <3>1, Zenon
    <3> QED BY <2>2, <3>1, <3>2, SeqEqual
  <2>5. q \o p = s
    <3>0. /\ q \o p \in Seq(S) /\ Len(q \o p) = 2 + 1
          /\ \A n \in 1 .. 2 + 1 : (q \o p)[n] = IF n <= 2 THEN q[n] ELSE p[n - 2]
      <4>1. /\ q \o p \in Seq(S) /\ Len(q \o p) = Len(q) + Len(p)
            /\ \A n \in 1 .. Len(q) + Len(p) :
                 (q \o p)[n] = IF n <= Len(q) THEN q[n] ELSE p[n - Len(q)]
        BY <2>2, ConcatProperties
      <4> QED BY <2>2, <4>1, Zenon
    <3>a. 2 + 1 = 3 /\ 1 <= 2 /\ 2 <= 2 /\ ~(3 <= 2) /\ 3 - 2 = 1
          /\ 1 \in 1 .. 3 /\ 2 \in 1 .. 3 /\ 3 \in 1 .. 3
      OBVIOUS
    <3>1. q \o p \in Seq(S) /\ Len(q \o p) = 3 /\ (q \o p)[1] = a /\ (q \o p)[2] = b /\ (q \o p)[3] = c
      BY <2>2, <3>0, <3>a, Zenon
    <3>2. \A n \in 1 .. 3 : (q \o p)[n] = s[n]
      BY <2>2, <2>3, <3>1, Zenon
    <3> QED BY <2>2, <3>1, <3>2, SeqEqual
  <2> QED BY <2>1, <2>4, <2>5, Zenon
<1>2. marker \in MarkersFirst => Boundary(marker, w) = <<Do(marker), OnStack(w)>>
  BY DEF Boundary, OnStack
<1>3. marker \notin MarkersFirst => Boundary(marker, w) = <<OnStack(w), Do(marker)>>
  BY DEF Boundary, OnStack
<1> QED BY <1>1, <1>2, <1>3, Zenon

(* The calls' data are accesses. *)
LEMMA CallsAre ==
  ASSUME WInv
  PROVE  /\ MainCall \in CallRecord /\ MainCall.what = "main"
         /\ \A w \in Marker \cup {"on", "off"} : Do(w) \in CallRecord /\ Do(w).what = w
         /\ Wrapper(Reply) \in CallRecord
         /\ \A w \in Code : OnStack(w) \in CallRecord /\ OnStack(w).what = w
         /\ mpc = "decrypt" /\ MoreToDecrypt => Wrapper(Message + bytes_dec) \in CallRecord
         /\ mpc = "encrypt" /\ MoreToEncrypt => Wrapper(Reply + bytes_enc) \in CallRecord
         /\ InTable \in CallRecord
         /\ pc = "find" /\ it # NULL => InChunk \in CallRecord
         /\ InTable.what = "cache" /\ InChunk.what = "cache"
         /\ \A a : Wrapper(a).what = "wrapper"
<1> DEFINE Rec(w, a) == [what |-> w, at |-> a]
<1>1. \A w \in Code : \A a \in Access : Rec(w, a) \in CallRecord /\ Rec(w, a).what = w
  BY DEF CallRecord
<1>2. \A w \in Marker \cup {"on", "off"} : Rec(w, NoData) \in CallRecord /\ Rec(w, NoData).what = w
  BY DEF CallRecord
<1>3. AesBlock = 16 /\ Message \in Nat /\ Reply \in Nat
  BY DataAssumption, ValueFacts
<1>4. ASSUME NEW n \in 0 .. 15
      PROVE  At(Message + 16 * n, AesBlock) \in Access /\ At(Reply + 16 * n, AesBlock) \in Access
  BY <1>3, DataAssumption
<1>5. At(Message, AesBlock) \in Access /\ At(Reply, AesBlock) \in Access
  <2>1. 0 \in 0 .. 15 /\ Message + 16 * 0 = Message /\ Reply + 16 * 0 = Reply
    BY <1>3
  <2> QED BY <1>4, <2>1
<1>6. ASSUME NEW b \in {0, 16, 32, 48, 64, 80, 96, 112}
      PROVE  At(Message + b, AesBlock) \in Access /\ At(Reply + b, AesBlock) \in Access
  <2>1. b \div 16 \in 0 .. 15 /\ b = 16 * (b \div 16)
    OBVIOUS
  <2> QED BY <1>4, <2>1
<1>7. mpc = "decrypt" /\ MoreToDecrypt => At(Message + bytes_dec, AesBlock) \in Access
  <2> SUFFICES ASSUME mpc = "decrypt", MoreToDecrypt PROVE At(Message + bytes_dec, AesBlock) \in Access
    OBVIOUS
  <2>1. bytes_dec \in {0, 16, 32, 48}
    BY DEF WInv, Messages, MoreToDecrypt
  <2>2. bytes_dec \in {0, 16, 32, 48, 64, 80, 96, 112}
    BY <2>1
  <2> QED BY <1>6, <2>2
<1>8. mpc = "encrypt" /\ MoreToEncrypt => At(Reply + bytes_enc, AesBlock) \in Access
  <2> SUFFICES ASSUME mpc = "encrypt", MoreToEncrypt PROVE At(Reply + bytes_enc, AesBlock) \in Access
    OBVIOUS
  <2>1. bytes_enc \in {0, 16, 32, 48, 64, 80, 96, 112}
    BY EncryptFacts DEF WInv
  <2> QED BY <1>6, <2>1
<1>9. At(Table + 8 * hash[make_key(i)], 8) \in Access
  <2>1. make_key(i) \in Key
    BY KeyIsString DEF WInv, WType
  <2>2. hash[make_key(i)] \in Bucket
    BY <2>1, KeyAssumption
  <2> QED BY <2>2, DataAssumption
<1>10. pc = "find" /\ it # NULL => At(Page + class_size[clsid[it]] * it, 8) \in Access
  <2> SUFFICES ASSUME pc = "find", it # NULL PROVE At(Page + class_size[clsid[it]] * it, 8) \in Access
    OBVIOUS
  <2>1. IInv
    BY DEF WInv, SInv
  <2>2. it \in InBucket(hash[req.key]) /\ hash[req.key] \in Bucket /\ it \in Item
    BY <2>1, ReqFacts DEF IInv, WalkMissesNothing, TypeOK
  <2>3. it \in Linked
    BY <2>2 DEF Linked
  <2>4. clsid[it] = PreClass
    BY <2>1, <2>3 DEF IInv, ItemsFit
  <2> QED BY <2>2, <2>4, DataAssumption
<1>11. \A a : Wrapper(a) = Rec("wrapper", At(a, AesBlock))
  BY DEF Wrapper
<1>12. /\ MainCall = Rec("main", At(Message, AesBlock))
       /\ InTable = Rec("cache", At(Table + 8 * hash[make_key(i)], 8))
       /\ InChunk = Rec("cache", At(Page + class_size[clsid[it]] * it, 8))
       /\ \A w : Do(w) = Rec(w, NoData)
       /\ \A w : OnStack(w) = Rec(w, At(Stack, 8))
  BY DEF MainCall, InTable, InChunk, Do, OnStack
<1>13. \A w, a : Rec(w, a).what = w
  OBVIOUS
<1>14. "main" \in Code /\ "wrapper" \in Code /\ "cache" \in Code
  BY DEF Code
<1>15. At(Stack, 8) \in Access
  BY DataAssumption
<1> HIDE DEF Rec
<1>16. \A w \in Code : OnStack(w) \in CallRecord /\ OnStack(w).what = w
  BY <1>1, <1>12, <1>15
<1> QED BY <1>1, <1>2, <1>5, <1>7, <1>8, <1>9, <1>10, <1>11, <1>12, <1>13, <1>14, <1>16

(* A step whose calls lead from where main was to where it is. *)
LEMMA StepCalls ==
  ASSUME Recorded, Early, calls = <<>>, seen' = seen, dcount' = dcount,
         AccessTrackingOn' = AccessTrackingOn,
         NEW cs \in Seq(CallRecord), calls' = cs, Len(cs) <= 3,
         LeadsTo(cs, MainRep, MainComp, MainOn, MainRep', MainComp', MainOn'),
         mpc' \in Starting => mpc \in Starting /\ \A n \in 1 .. Len(cs) : cs[n].what \in Code
  PROVE  Recorded' /\ Early'
<1> DEFINE rep == InRep(seen, Len(seen))
           comp == InComp(seen, Len(seen))
           on == AccessTrackingOn
<1>1. (rep <=> MainRep) /\ (comp <=> MainComp) /\ (on <=> MainOn)
  <2>1. Len(<<>>) = 0
    OBVIOUS
  <2> QED BY <2>1 DEF Recorded, Leads, LeadsTo, Arrived
<1>2. (rep' <=> MainRep) /\ (comp' <=> MainComp) /\ (on' <=> MainOn)
  BY <1>1
<1> HIDE DEF rep, comp, on
<1>3. LeadsTo(cs, rep', comp', on', MainRep', MainComp', MainOn')
  BY <1>2, SameLead
<1>4. Leads(calls, rep, comp, on)'
  BY <1>3 DEF Leads
<1>5. WellFormed(seen)' /\ dcount' = Cardinality(AccessesIn(seen, Len(seen)))'
  BY DEF Recorded
<1>6. AccessTrackingOn' \in BOOLEAN
  BY DEF Recorded
<1>7. Recorded'
  BY <1>4, <1>5, <1>6 DEF Recorded, rep, comp, on
<1>8. Early'
  BY DEF Early, Starting
<1> QED BY <1>7, <1>8

(* The same, for one, two and three calls. *)
LEMMA OneCall ==
  ASSUME Recorded, Early, calls = <<>>, seen' = seen, dcount' = dcount,
         AccessTrackingOn' = AccessTrackingOn,
         NEW c \in CallRecord, calls' = <<c>>,
         After1(c.what, MainRep, MainComp, MainOn, MainRep', MainComp', MainOn'),
         mpc' \in Starting => mpc \in Starting /\ c.what \in Code
  PROVE  Recorded' /\ Early'
<1>1. PICK cs : cs = <<c>>
  OBVIOUS
<1>2. cs \in Seq(CallRecord) /\ Len(cs) = 1 /\ Len(cs) <= 3 /\ cs[1] = c /\ 1 .. 1 = {1}
  BY <1>1
<1>3. LeadsTo(cs, MainRep, MainComp, MainOn, MainRep', MainComp', MainOn')
  BY <1>2 DEF LeadsTo
<1>4. c.what \in Code => \A n \in 1 .. Len(cs) : cs[n].what \in Code
  BY <1>2, Zenon
<1> QED BY <1>1, <1>2, <1>3, <1>4, StepCalls, Zenon

LEMMA TwoCalls ==
  ASSUME Recorded, Early, calls = <<>>, seen' = seen, dcount' = dcount,
         AccessTrackingOn' = AccessTrackingOn,
         NEW c \in CallRecord, NEW d \in CallRecord, calls' = <<c, d>>,
         After2(c.what, d.what, MainRep, MainComp, MainOn, MainRep', MainComp', MainOn'),
         mpc' \notin Starting
  PROVE  Recorded' /\ Early'
<1>1. PICK cs : cs = <<c, d>>
  OBVIOUS
<1>2. cs \in Seq(CallRecord) /\ Len(cs) = 2 /\ Len(cs) <= 3 /\ cs[1] = c /\ cs[2] = d
  BY <1>1
<1>3. LeadsTo(cs, MainRep, MainComp, MainOn, MainRep', MainComp', MainOn')
  BY <1>2 DEF LeadsTo
<1> QED BY <1>1, <1>2, <1>3, StepCalls, Zenon

LEMMA ThreeCalls ==
  ASSUME Recorded, Early, calls = <<>>, seen' = seen, dcount' = dcount,
         AccessTrackingOn' = AccessTrackingOn,
         NEW c \in CallRecord, NEW d \in CallRecord, NEW e \in CallRecord, calls' = <<c, d, e>>,
         After3(c.what, d.what, e.what, MainRep, MainComp, MainOn, MainRep', MainComp', MainOn'),
         mpc' \notin Starting
  PROVE  Recorded' /\ Early'
<1>1. PICK cs : cs = <<c, d, e>>
  OBVIOUS
<1>2. cs \in Seq(CallRecord) /\ Len(cs) = 3 /\ Len(cs) <= 3 /\ cs[1] = c /\ cs[2] = d /\ cs[3] = e
  BY <1>1
<1>3. LeadsTo(cs, MainRep, MainComp, MainOn, MainRep', MainComp', MainOn')
  BY <1>2 DEF LeadsTo
<1> QED BY <1>1, <1>2, <1>3, StepCalls, Zenon

LEMMA Words ==
  /\ {"main", "wrapper", "cache", "entry", "return"} \subseteq Code
  /\ ~BetweenSwitches("main") /\ ~BetweenSwitches("wrapper") /\ BetweenSwitches("cache")
  /\ \A w \in Marker \cup {"on", "off"} : w \notin Code
  /\ {"repstart", "repend", "switch_cache", "switch_wrapper"} \subseteq Marker
BY DEF Code, Marker, BetweenSwitches

(* Every step of the program makes calls that may come where the trace is, *)
(* and that bring it to where main then is.                                *)
LEMMA ProgramCalls ==
  ASSUME WInv, Recorded, Early, program_step
  PROVE  Recorded' /\ Early'
<1>1. /\ WInv /\ Recorded /\ Early /\ calls = <<>> /\ seen' = seen /\ dcount' = dcount
      /\ AccessTrackingOn' = AccessTrackingOn /\ calls' = Instrumented
  BY Zenon DEF program_step, pinVars
<1>2. CASE mpc = "pass" /\ mpc' = "get"
  <2>1. calls' = <<Do("repstart")>> /\ Do("repstart") \in CallRecord /\ Do("repstart").what = "repstart"
    BY <1>1, <1>2, CallsOf, CallsAre DEF Marker
  <2>2. /\ After1("repstart", MainRep, MainComp, MainOn, MainRep', MainComp', MainOn')
        /\ mpc' \in Starting => mpc \in Starting /\ "repstart" \in Code
    BY <1>2, Words DEF After1, Arrived, MainRep, MainComp, MainOn, RepAfter, CompAfter, OnAfter, MayCome, Legal, Starting
  <2> QED BY <1>1, <2>1, <2>2, OneCall
<1>3. CASE mpc = "get" /\ mpc' = "pass"
  <2>1. calls' = <<Do("repend")>> /\ Do("repend") \in CallRecord /\ Do("repend").what = "repend"
    BY <1>1, <1>3, CallsOf, CallsAre DEF Marker
  <2>2. /\ After1("repend", MainRep, MainComp, MainOn, MainRep', MainComp', MainOn')
        /\ mpc' \in Starting => mpc \in Starting /\ "repend" \in Code
    BY <1>3, Words DEF After1, Arrived, MainRep, MainComp, MainOn, RepAfter, CompAfter, OnAfter, MayCome, Legal, Starting
  <2> QED BY <1>1, <2>1, <2>2, OneCall
<1>4. CASE mpc = "get" /\ mpc' = "decrypt"
  <2>0. /\ Do("on") \in CallRecord /\ Do("on").what = "on"
        /\ OnStack("wrapper") \in CallRecord /\ OnStack("wrapper").what = "wrapper"
        /\ MainCall \in CallRecord /\ MainCall.what = "main"
    BY <1>4, CallsAre, Words DEF Marker
  <2>1. calls' = <<MainCall>> \o EnterWrapper /\ mpc' \notin Starting
    BY <1>1, <1>4, CallsOf DEF Starting
  <2>2. CASE "on" \in MarkersFirst
    <3>1. calls' = <<MainCall, Do("on"), OnStack("wrapper")>>
      BY <2>1, <2>2, BordersAre DEF EnterWrapper
    <3>2. After3("main", "on", "wrapper", MainRep, MainComp, MainOn, MainRep', MainComp', MainOn')
      BY <1>4, <2>2, Words DEF After3, After2, After1, Arrived, BetweenSwitches, MainRep, MainComp, MainOn, RepAfter,
         CompAfter, OnAfter, MayCome, Legal
    <3> QED BY <1>1, <2>0, <2>1, <3>1, <3>2, ThreeCalls
  <2>3. CASE "on" \notin MarkersFirst
    <3>1. calls' = <<MainCall, OnStack("wrapper"), Do("on")>>
      BY <2>1, <2>3, BordersAre DEF EnterWrapper
    <3>2. After3("main", "wrapper", "on", MainRep, MainComp, MainOn, MainRep', MainComp', MainOn')
      BY <1>4, <2>3, Words DEF After3, After2, After1, Arrived, BetweenSwitches, MainRep, MainComp, MainOn, RepAfter,
         CompAfter, OnAfter, MayCome, Legal
    <3> QED BY <1>1, <2>0, <2>1, <3>1, <3>2, ThreeCalls
  <2> QED BY <2>2, <2>3
<1>5. CASE mpc = "decrypt" /\ mpc' = "decrypt" /\ MoreToDecrypt
  <2>1. calls' = <<Wrapper(Message + bytes_dec)>> /\ Wrapper(Message + bytes_dec) \in CallRecord /\ Wrapper(Message + bytes_dec).what = "wrapper"
    BY <1>1, <1>5, CallsOf, CallsAre DEF Marker
  <2>2. /\ After1("wrapper", MainRep, MainComp, MainOn, MainRep', MainComp', MainOn')
        /\ mpc' \in Starting => mpc \in Starting /\ "wrapper" \in Code
    BY <1>5, Words DEF After1, Arrived, MainRep, MainComp, MainOn, RepAfter, CompAfter, OnAfter, MayCome, Legal, Starting
  <2> QED BY <1>1, <2>1, <2>2, OneCall
<1>6. CASE mpc = "decrypt" /\ mpc' = "getting" /\ pc' = "find"
  <2>0. /\ Do("switch_cache") \in CallRecord /\ Do("switch_cache").what = "switch_cache"
        /\ OnStack("entry") \in CallRecord /\ OnStack("entry").what = "entry"
        /\ InTable \in CallRecord /\ InTable.what = "cache"
    BY <1>6, CallsAre, Words DEF Marker
  <2>1. calls' = EnterCache \o <<InTable>> /\ mpc' \notin Starting
    BY <1>1, <1>6, CallsOf DEF Starting
  <2>2. CASE "switch_cache" \in MarkersFirst
    <3>1. calls' = <<Do("switch_cache"), OnStack("entry"), InTable>>
      BY <2>1, <2>2, BordersAre DEF EnterCache
    <3>2. After3("switch_cache", "entry", "cache", MainRep, MainComp, MainOn, MainRep', MainComp', MainOn')
      BY <1>6, <2>2, Words DEF After3, After2, After1, Arrived, BetweenSwitches, MainRep, MainComp, MainOn, RepAfter,
         CompAfter, OnAfter, MayCome, Legal
    <3> QED BY <1>1, <2>0, <2>1, <3>1, <3>2, ThreeCalls
  <2>3. CASE "switch_cache" \notin MarkersFirst
    <3>1. calls' = <<OnStack("entry"), Do("switch_cache"), InTable>>
      BY <2>1, <2>3, BordersAre DEF EnterCache
    <3>2. After3("entry", "switch_cache", "cache", MainRep, MainComp, MainOn, MainRep', MainComp', MainOn')
      BY <1>6, <2>3, Words DEF After3, After2, After1, Arrived, BetweenSwitches, MainRep, MainComp, MainOn, RepAfter,
         CompAfter, OnAfter, MayCome, Legal
    <3> QED BY <1>1, <2>0, <2>1, <3>1, <3>2, ThreeCalls
  <2> QED BY <2>2, <2>3
<1>7. CASE mpc = "getting" /\ mpc' = "getting" /\ pc = "find" /\ pc' = "find" /\ it # NULL
  <2>1. calls' = <<InChunk>> /\ InChunk \in CallRecord /\ InChunk.what = "cache"
    BY <1>1, <1>7, CallsOf, CallsAre DEF Marker
  <2>2. /\ After1("cache", MainRep, MainComp, MainOn, MainRep', MainComp', MainOn')
        /\ mpc' \in Starting => mpc \in Starting /\ "cache" \in Code
    BY <1>7, Words DEF After1, Arrived, MainRep, MainComp, MainOn, RepAfter, CompAfter, OnAfter, MayCome, Legal, Starting
  <2> QED BY <1>1, <2>1, <2>2, OneCall
<1>8. CASE mpc = "getting" /\ mpc' = "getting" /\ pc = "find" /\ pc' = "idle" /\ it = NULL
  <2>0. /\ Do("switch_wrapper") \in CallRecord /\ Do("switch_wrapper").what = "switch_wrapper"
        /\ OnStack("return") \in CallRecord /\ OnStack("return").what = "return"
    BY <1>8, CallsAre, Words DEF Marker
  <2>1. calls' = LeaveCache /\ mpc' \notin Starting
    BY <1>1, <1>8, CallsOf DEF Starting
  <2>2. CASE "switch_wrapper" \in MarkersFirst
    <3>1. calls' = <<Do("switch_wrapper"), OnStack("return")>>
      BY <2>1, <2>2, BordersAre DEF LeaveCache
    <3>2. After2("switch_wrapper", "return", MainRep, MainComp, MainOn, MainRep', MainComp', MainOn')
      BY <1>8, <2>2, Words DEF After2, After1, Arrived, BetweenSwitches, MainRep, MainComp, MainOn, RepAfter,
         CompAfter, OnAfter, MayCome, Legal
    <3> QED BY <1>1, <2>0, <2>1, <3>1, <3>2, TwoCalls
  <2>3. CASE "switch_wrapper" \notin MarkersFirst
    <3>1. calls' = <<OnStack("return"), Do("switch_wrapper")>>
      BY <2>1, <2>3, BordersAre DEF LeaveCache
    <3>2. After2("return", "switch_wrapper", MainRep, MainComp, MainOn, MainRep', MainComp', MainOn')
      BY <1>8, <2>3, Words DEF After2, After1, Arrived, BetweenSwitches, MainRep, MainComp, MainOn, RepAfter,
         CompAfter, OnAfter, MayCome, Legal
    <3> QED BY <1>1, <2>0, <2>1, <3>1, <3>2, TwoCalls
  <2> QED BY <2>2, <2>3
<1>9. CASE mpc = "getting" /\ mpc' = "getting" /\ pc = "find" /\ pc' = "idle" /\ it # NULL
  <2>0. /\ Do("switch_wrapper") \in CallRecord /\ Do("switch_wrapper").what = "switch_wrapper"
        /\ OnStack("return") \in CallRecord /\ OnStack("return").what = "return"
        /\ InChunk \in CallRecord /\ InChunk.what = "cache"
    BY <1>9, CallsAre, Words DEF Marker
  <2>1. calls' = <<InChunk>> \o LeaveCache /\ mpc' \notin Starting
    BY <1>1, <1>9, CallsOf DEF Starting
  <2>2. CASE "switch_wrapper" \in MarkersFirst
    <3>1. calls' = <<InChunk, Do("switch_wrapper"), OnStack("return")>>
      BY <2>1, <2>2, BordersAre DEF LeaveCache
    <3>2. After3("cache", "switch_wrapper", "return", MainRep, MainComp, MainOn, MainRep', MainComp', MainOn')
      BY <1>9, <2>2, Words DEF After3, After2, After1, Arrived, BetweenSwitches, MainRep, MainComp, MainOn, RepAfter,
         CompAfter, OnAfter, MayCome, Legal
    <3> QED BY <1>1, <2>0, <2>1, <3>1, <3>2, ThreeCalls
  <2>3. CASE "switch_wrapper" \notin MarkersFirst
    <3>1. calls' = <<InChunk, OnStack("return"), Do("switch_wrapper")>>
      BY <2>1, <2>3, BordersAre DEF LeaveCache
    <3>2. After3("cache", "return", "switch_wrapper", MainRep, MainComp, MainOn, MainRep', MainComp', MainOn')
      BY <1>9, <2>3, Words DEF After3, After2, After1, Arrived, BetweenSwitches, MainRep, MainComp, MainOn, RepAfter,
         CompAfter, OnAfter, MayCome, Legal
    <3> QED BY <1>1, <2>0, <2>1, <3>1, <3>2, ThreeCalls
  <2> QED BY <2>2, <2>3
<1>13. CASE mpc = "getting" /\ pc = "idle" /\ mpc' = "encrypt"
  <2>1. calls' = <<Wrapper(Reply)>> /\ Wrapper(Reply) \in CallRecord /\ Wrapper(Reply).what = "wrapper"
    BY <1>1, <1>13, CallsOf, CallsAre DEF Marker
  <2>2. /\ After1("wrapper", MainRep, MainComp, MainOn, MainRep', MainComp', MainOn')
        /\ mpc' \in Starting => mpc \in Starting /\ "wrapper" \in Code
    BY <1>13, Words DEF After1, Arrived, MainRep, MainComp, MainOn, RepAfter, CompAfter, OnAfter, MayCome, Legal, Starting
  <2> QED BY <1>1, <2>1, <2>2, OneCall
<1>10. CASE mpc = "encrypt" /\ mpc' = "encrypt" /\ MoreToEncrypt
  <2>1. calls' = <<Wrapper(Reply + bytes_enc)>> /\ Wrapper(Reply + bytes_enc) \in CallRecord /\ Wrapper(Reply + bytes_enc).what = "wrapper"
    BY <1>1, <1>10, CallsOf, CallsAre DEF Marker
  <2>2. /\ After1("wrapper", MainRep, MainComp, MainOn, MainRep', MainComp', MainOn')
        /\ mpc' \in Starting => mpc \in Starting /\ "wrapper" \in Code
    BY <1>10, Words DEF After1, Arrived, MainRep, MainComp, MainOn, RepAfter, CompAfter, OnAfter, MayCome, Legal, Starting
  <2> QED BY <1>1, <2>1, <2>2, OneCall
<1>11. CASE mpc \in {"getting", "encrypt"} /\ mpc' = "returned" /\ pc = "idle"
  <2>0. /\ Do("off") \in CallRecord /\ Do("off").what = "off"
        /\ OnStack("wrapper") \in CallRecord /\ OnStack("wrapper").what = "wrapper"
    BY <1>11, CallsAre, Words DEF Marker
  <2>1. calls' = LeaveWrapper /\ mpc' \notin Starting
    BY <1>1, <1>11, CallsOf DEF Starting
  <2>2. CASE "off" \in MarkersFirst
    <3>1. calls' = <<Do("off"), OnStack("wrapper")>>
      BY <2>1, <2>2, BordersAre DEF LeaveWrapper
    <3>2. After2("off", "wrapper", MainRep, MainComp, MainOn, MainRep', MainComp', MainOn')
      BY <1>11, <2>2, Words DEF After2, After1, Arrived, BetweenSwitches, MainRep, MainComp, MainOn, RepAfter,
         CompAfter, OnAfter, MayCome, Legal
    <3> QED BY <1>1, <2>0, <2>1, <3>1, <3>2, TwoCalls
  <2>3. CASE "off" \notin MarkersFirst
    <3>1. calls' = <<OnStack("wrapper"), Do("off")>>
      BY <2>1, <2>3, BordersAre DEF LeaveWrapper
    <3>2. After2("wrapper", "off", MainRep, MainComp, MainOn, MainRep', MainComp', MainOn')
      BY <1>11, <2>3, Words DEF After2, After1, Arrived, BetweenSwitches, MainRep, MainComp, MainOn, RepAfter,
         CompAfter, OnAfter, MayCome, Legal
    <3> QED BY <1>1, <2>0, <2>1, <3>1, <3>2, TwoCalls
  <2> QED BY <2>2, <2>3
<1>12. CASE Plain
  <2>1. calls' = <<MainCall>> /\ MainCall \in CallRecord /\ MainCall.what = "main"
    BY <1>1, <1>12, CallsOf, CallsAre DEF Marker
  <2>2. /\ After1("main", MainRep, MainComp, MainOn, MainRep', MainComp', MainOn')
        /\ mpc' \in Starting => mpc \in Starting /\ "main" \in Code
    BY <1>12, Words DEF Plain, After1, Arrived, MainRep, MainComp, MainOn, RepAfter, CompAfter, OnAfter, MayCome, Legal, Starting
  <2> QED BY <1>1, <2>1, <2>2, OneCall
<1> QED BY <1>2, <1>3, <1>4, <1>5, <1>6, <1>7, <1>8, <1>9, <1>10, <1>11, <1>12, <1>13, ProgramMoves
       DEF program_step

LEMMA ProgramKeeps ==
  ASSUME TInv, program_step
  PROVE  TInv'
<1>1. Run /\ UNCHANGED pinVars /\ UNCHANGED readVars /\ ppc = "run" /\ ppc' = ppc
  BY DEF program_step, pinVars
<1>2. WInv'
  BY <1>1, WNextWInv DEF TInv, WNext
<1>3. PinInv'
  BY <1>1, PinNextInv DEF TInv
<1>4. FileComplete' /\ ReadAhead' /\ Simulated'
  BY <1>1, <1>3, StillOpen
<1>5. Recorded' /\ Early'
  BY ProgramCalls DEF TInv
<1> QED BY <1>2, <1>3, <1>4, <1>5 DEF TInv

-----------------------------------------------------------------------------
(* The reader. *)

(* The line that is read may come where the reader is. *)
LEMMA LineFacts ==
  ASSUME TInv, rpc = "read", lines_handled < Len(PinLog)
  PROVE  /\ lines_handled \in Nat /\ Line \in Entry
         /\ Legal(Line.what, InRep(PinLog, lines_handled), InComp(PinLog, lines_handled))
         /\ InRep(PinLog, lines_handled + 1) <=> RepAfter(Line.what, InRep(PinLog, lines_handled))
         /\ InComp(PinLog, lines_handled + 1) <=> CompAfter(Line.what, InComp(PinLog, lines_handled))
         /\ Cardinality(AccessesIn(PinLog, lines_handled)) \in Nat
         /\ Cardinality(AccessesIn(PinLog, lines_handled + 1)) =
              Cardinality(AccessesIn(PinLog, lines_handled)) + (IF Line.what \in Code THEN 1 ELSE 0)
<1>1. lines_handled \in Nat /\ PinLog \in Seq(Entry) /\ WellFormed(PinLog)
  BY DEF TInv, ReadAhead, FileComplete, Recorded, PinInv, PinTypes
<1>2. lines_handled + 1 \in 1 .. Len(PinLog) /\ (lines_handled + 1) - 1 = lines_handled
  BY <1>1
<1>3. Line \in Entry
  BY <1>1, <1>2 DEF Line
<1>4. Legal(Line.what, InRep(PinLog, lines_handled), InComp(PinLog, lines_handled))
  BY <1>1, <1>2 DEF WellFormed, Line
<1> QED BY <1>1, <1>3, <1>4, PlaceNext, AccessesCounted DEF Line

(* The loop of main has handled a line as the line says. *)
LEMMA LineHandled ==
  ASSUME TInv, rpc = "read", lines_handled < Len(PinLog), PinLog' = PinLog, ppc' = ppc,
         lines_handled' = lines_handled + 1, rpc' = "read", stage' = "idle",
         repstarted' \in BOOLEAN, repstarted' <=> RepAfter(Line.what, repstarted),
         cur_comp_id' = IF CompAfter(Line.what, InComp(PinLog, lines_handled))
                          THEN CACHE_COMPARTMENT_ID ELSE WRAPPER_COMPARTMENT_ID,
         reps' \in Int, warmup' \in BOOLEAN, warmup' \/ reps' >= WARMUP_REPS,
         naccess' = Cardinality(AccessesIn(PinLog, lines_handled))
                    + (IF Line.what \in Code THEN 1 ELSE 0)
  PROVE  ReadAhead' /\ Simulated'
<1> DEFINE n == lines_handled + 1
<1>1. n \in Nat /\ n <= Len(PinLog) /\ ppc = "closed"
  <2>1. lines_handled \in Nat /\ PinLog \in Seq(Entry)
    BY DEF TInv, ReadAhead, PinInv, PinTypes
  <2>2. Len(PinLog) \in Nat
    BY <2>1
  <2> QED BY <2>1, <2>2 DEF TInv, ReadAhead
<1>2. repstarted' <=> InRep(PinLog, n)
  <2>1. repstarted <=> InRep(PinLog, lines_handled)
    BY DEF TInv, ReadAhead
  <2> QED BY <2>1, LineFacts DEF RepAfter
<1>3. cur_comp_id' = IF InComp(PinLog, n) THEN CACHE_COMPARTMENT_ID ELSE WRAPPER_COMPARTMENT_ID
  BY LineFacts
<1>4. naccess' = Cardinality(AccessesIn(PinLog, n)) /\ Cardinality(AccessesIn(PinLog, n)) \in Nat
  BY <1>1, LineFacts, AccessesCounted
<1> HIDE DEF n
<1>5. lines_handled' = n
  BY DEF n
<1>6. ReadAhead'
  BY <1>1, <1>2, <1>3, <1>5 DEF ReadAhead
<1>7. Simulated'
  BY <1>4, <1>5 DEF Simulated
<1> QED BY <1>6, <1>7

(* The reader has not reached the file, or has come to its end. *)
LEMMA BesidesKeeps ==
  ASSUME TInv, timer_settime \/ timer_expires \/ sigaction \/ account_final,
         PinLog' = PinLog, ppc' = ppc
  PROVE  ReadAhead' /\ Simulated'
<1>1. /\ lines_handled' = lines_handled /\ reps' = reps /\ repstarted' = repstarted
      /\ cur_comp_id' = cur_comp_id /\ stage' = stage /\ call' = call /\ naccess' = naccess
      /\ warmup' = warmup
  BY Zenon DEF timer_settime, timer_expires, sigaction, account_final, simVars
<1>2. /\ rpc' \in {"armed", "killed", "read", "done"} /\ ppc = "closed"
      /\ rpc' = "done" => lines_handled = Len(PinLog)
      /\ stage = "idle"
  BY DEF timer_settime, timer_expires, sigaction, account_final, TInv, ReadAhead, Simulated
<1>3. ReadAhead'
  BY <1>1, <1>2 DEF TInv, ReadAhead
<1>4. Simulated'
  BY <1>1, <1>2 DEF TInv, Simulated
<1> QED BY <1>3, <1>4

(* The assertions of the markers hold. *)
LEMMA RepKeeps ==
  ASSUME TInv, read_repstart \/ read_repend, PinLog' = PinLog, ppc' = ppc
  PROVE  ReadAhead' /\ Simulated'
<1>1. /\ rpc = "read" /\ stage = "idle" /\ lines_handled < Len(PinLog)
      /\ Line.what \in {"repstart", "repend"} /\ lines_handled' = lines_handled + 1
      /\ cur_comp_id' = cur_comp_id
  BY DEF read_repstart, read_repend, ReadMarker, ReadLine, Consumed
<1>2. Legal(Line.what, InRep(PinLog, lines_handled), InComp(PinLog, lines_handled))
  BY <1>1, LineFacts
<1>3. repstarted \in BOOLEAN /\ (repstarted <=> InRep(PinLog, lines_handled))
  BY DEF TInv, ReadAhead
<1>4. Line.what = "repstart" => ~repstarted
  BY <1>2, <1>3 DEF Legal
<1>5. Line.what = "repend" => repstarted
  BY <1>2, <1>3 DEF Legal
<1>6. read_repstart => Line.what = "repstart"
  BY DEF read_repstart, ReadMarker, ReadLine
<1>7. read_repend => Line.what = "repend"
  BY DEF read_repend, ReadMarker, ReadLine
<1>8. rpc' = "read"
  <2>1. CASE read_repstart
    BY <1>4, <1>6, <2>1, Zenon DEF read_repstart, ReadMarker
  <2>2. CASE read_repend
    BY <1>5, <1>7, <2>2, Zenon DEF read_repend, ReadMarker
  <2> QED BY <2>1, <2>2
<1>9. repstarted' = (~repstarted)
  BY Zenon DEF read_repstart, read_repend
<1>10. repstarted' \in BOOLEAN /\ (repstarted' <=> ~repstarted)
  BY <1>9, Zenon
<1>11. repstarted' <=> RepAfter(Line.what, repstarted)
  <2>1. CASE Line.what = "repstart"
    BY <1>4, <1>10, <2>1 DEF RepAfter
  <2>2. CASE Line.what = "repend"
    BY <1>5, <1>10, <2>2 DEF RepAfter
  <2> QED BY <1>1, <2>1, <2>2
<1>12. cur_comp_id' = IF CompAfter(Line.what, InComp(PinLog, lines_handled))
                        THEN CACHE_COMPARTMENT_ID ELSE WRAPPER_COMPARTMENT_ID
  <2>1. CompAfter(Line.what, InComp(PinLog, lines_handled)) <=> InComp(PinLog, lines_handled)
    BY <1>1 DEF CompAfter
  <2> QED BY <1>1, <2>1 DEF TInv, ReadAhead
<1>13. stage' = "idle" /\ naccess' = naccess
  BY <1>1 DEF read_repstart, read_repend, simVars, Sim!end_warmup
<1>14. warmup \in BOOLEAN /\ reps \in Int /\ (warmup \/ reps >= WARMUP_REPS)
  BY DEF TInv, ReadAhead
<1>15. reps' \in Int /\ warmup' \in BOOLEAN /\ (warmup' \/ reps' >= WARMUP_REPS)
  <2>1. CASE read_repstart
    BY <1>14, <2>1, Zenon DEF read_repstart, simVars
  <2>2. CASE read_repend /\ WarmupOver
    <3>1. warmup' = FALSE /\ reps' = reps + 1
      BY <2>2, Zenon DEF read_repend, WarmupOver, Sim!end_warmup, simVars
    <3>2. reps' \in Int /\ reps' >= WARMUP_REPS
      BY <1>14, <2>2, <3>1 DEF WarmupOver, WARMUP_REPS
    <3> QED BY <3>1, <3>2, Zenon
  <2>3. CASE read_repend /\ ~WarmupOver
    <3>1. warmup' = warmup /\ reps' = reps + 1
      BY <2>3, Zenon DEF read_repend, simVars
    <3>2. reps' \in Int /\ (reps >= WARMUP_REPS => reps' >= WARMUP_REPS)
      BY <1>14, <3>1 DEF WARMUP_REPS
    <3> QED BY <1>14, <3>1, <3>2, Zenon
  <2> QED BY <2>1, <2>2, <2>3
<1>16. naccess' = Cardinality(AccessesIn(PinLog, lines_handled)) + (IF Line.what \in Code THEN 1 ELSE 0)
  BY <1>1, <1>13, LineFacts DEF TInv, Simulated, Code
<1> QED BY <1>1, <1>8, <1>10, <1>11, <1>12, <1>13, <1>15, <1>16, LineHandled

LEMMA SwitchKeeps ==
  ASSUME TInv, read_switch_cache \/ read_switch_wrapper, PinLog' = PinLog, ppc' = ppc
  PROVE  ReadAhead' /\ Simulated'
<1>0. WRAPPER_COMPARTMENT_ID = 1 /\ CACHE_COMPARTMENT_ID = 2
  BY DEF WRAPPER_COMPARTMENT_ID, CACHE_COMPARTMENT_ID
<1>1. /\ rpc = "read" /\ stage = "idle" /\ lines_handled < Len(PinLog)
      /\ lines_handled' = lines_handled + 1
      /\ reps' = reps /\ repstarted' = repstarted /\ stage' = stage /\ naccess' = naccess
      /\ warmup' = warmup
  BY Zenon DEF read_switch_cache, read_switch_wrapper, Switch, ReadMarker, ReadLine, Consumed, simVars
<1>2. Legal(Line.what, InRep(PinLog, lines_handled), InComp(PinLog, lines_handled))
  BY <1>1, LineFacts
<1>3. cur_comp_id = IF InComp(PinLog, lines_handled) THEN CACHE_COMPARTMENT_ID ELSE WRAPPER_COMPARTMENT_ID
  BY DEF TInv, ReadAhead
<1>4. /\ rpc' = "read" /\ Line.what \in {"switch_cache", "switch_wrapper"}
      /\ cur_comp_id' = IF CompAfter(Line.what, InComp(PinLog, lines_handled))
                          THEN CACHE_COMPARTMENT_ID ELSE WRAPPER_COMPARTMENT_ID
  <2>1. CASE read_switch_cache
    <3>1. Line.what = "switch_cache" /\ cur_comp_id' = CACHE_COMPARTMENT_ID
      BY <2>1 DEF read_switch_cache, Switch, ReadMarker, ReadLine
    <3>2. cur_comp_id = WRAPPER_COMPARTMENT_ID
      BY <1>2, <1>3, <3>1 DEF Legal
    <3>3. rpc' = "read"
      BY <2>1, <3>2 DEF read_switch_cache, Switch, ReadMarker
    <3> QED BY <3>1, <3>3 DEF CompAfter
  <2>2. CASE read_switch_wrapper
    <3>1. Line.what = "switch_wrapper" /\ cur_comp_id' = WRAPPER_COMPARTMENT_ID
      BY <2>2 DEF read_switch_wrapper, Switch, ReadMarker, ReadLine
    <3>2. cur_comp_id = CACHE_COMPARTMENT_ID
      BY <1>2, <1>3, <3>1 DEF Legal
    <3>3. rpc' = "read"
      BY <2>2, <3>2 DEF read_switch_wrapper, Switch, ReadMarker
    <3> QED BY <3>1, <3>3 DEF CompAfter
  <2> QED BY <2>1, <2>2
<1>5. repstarted \in BOOLEAN /\ warmup \in BOOLEAN /\ reps \in Int /\ (warmup \/ reps >= WARMUP_REPS)
  BY DEF TInv, ReadAhead
<1>6. repstarted' <=> RepAfter(Line.what, repstarted)
  BY <1>1, <1>4, <1>5 DEF RepAfter
<1>7. naccess' = Cardinality(AccessesIn(PinLog, lines_handled)) + (IF Line.what \in Code THEN 1 ELSE 0)
  BY <1>1, <1>4, LineFacts DEF TInv, Simulated, Code
<1> QED BY <1>1, <1>4, <1>5, <1>6, <1>7, LineHandled

(* An access: every one is part of a repetition, so it is simulated. *)
LEMMA AccessStarts ==
  ASSUME TInv, read_access
  PROVE  /\ rpc = "read" /\ stage = "idle" /\ lines_handled < Len(PinLog) /\ Line.what \in Code
         /\ Line.at \in Access /\ UNCHANGED loopVars
         /\ Sim!cycle_access(Line.at, cur_comp_id, "DATA")
<1>1. rpc = "read" /\ stage = "idle" /\ lines_handled < Len(PinLog) /\ Line.what \in Code
  BY DEF read_access, ReadLine
<1>2. Line \in Entry /\ Legal(Line.what, InRep(PinLog, lines_handled), InComp(PinLog, lines_handled))
  BY <1>1, LineFacts
<1>3. repstarted
  BY <1>1, <1>2 DEF Legal, TInv, ReadAhead
<1>4. Line.at \in Access
  BY <1>1, <1>2 DEF Entry, Marker, Code
<1>5. ToSize(SizeText(Line.at.size)) = Line.at.size
  <2>1. Line.at.size \in Nat
    BY <1>4, SimulatorAssumption
  <2>2. \A n \in Nat : ToSize(SizeText(n)) = n
    <3> TAKE n \in Nat
    <3>1. SizeText(n)[1] = n \div 10 /\ SizeText(n)[2] = n % 10
      BY DEF SizeText
    <3>2. 10 * (n \div 10) + (n % 10) = n
      OBVIOUS
    <3> QED BY <3>1, <3>2 DEF ToSize
  <2> QED BY <2>1, <2>2
<1>6. Line.at = [addr |-> Line.at.addr, size |-> Line.at.size]
  BY <1>4, SimulatorAssumption
<1>7. /\ Sim!cycle_access([addr |-> Line.at.addr, size |-> ToSize(SizeText(Line.at.size))], cur_comp_id, "DATA")
      /\ UNCHANGED loopVars
  BY <1>3, Zenon DEF read_access
<1>8. Sim!cycle_access(Line.at, cur_comp_id, "DATA")
  <2>1. [addr |-> Line.at.addr, size |-> ToSize(SizeText(Line.at.size))] = Line.at
    BY <1>5, <1>6
  <2> QED BY <1>7, <2>1
<1> QED BY <1>1, <1>4, <1>7, <1>8

LEMMA AccessKeeps ==
  ASSUME TInv, read_access, PinLog' = PinLog, ppc' = ppc
  PROVE  ReadAhead' /\ Simulated'
<1>1. /\ rpc = "read" /\ stage = "idle" /\ lines_handled < Len(PinLog) /\ Line.what \in Code
      /\ UNCHANGED loopVars
      /\ Sim!cycle_access(Line.at, cur_comp_id, "DATA")
  BY AccessStarts
<1>2. /\ stage' = "tlb" /\ call'.asid = cur_comp_id /\ naccess' = naccess + 1 /\ warmup' = warmup
  BY <1>1 DEF Sim!cycle_access
<1>3. /\ rpc' = rpc /\ lines_handled' = lines_handled /\ reps' = reps /\ repstarted' = repstarted
      /\ cur_comp_id' = cur_comp_id
  BY <1>1 DEF loopVars
<1>4. Cardinality(AccessesIn(PinLog, lines_handled)) \in Nat
  BY <1>1, LineFacts
<1>5. ReadAhead'
  BY <1>1, <1>2, <1>3 DEF TInv, ReadAhead
<1>6. Simulated'
  BY <1>1, <1>2, <1>3, <1>4 DEF TInv, Simulated, Line
<1> QED BY <1>5, <1>6

LEMMA SimulateKeeps ==
  ASSUME TInv, simulate, PinLog' = PinLog, ppc' = ppc
  PROVE  ReadAhead' /\ Simulated'
<1>1. /\ Sim!hit_first \/ Sim!miss_first \/ Sim!to_caches
      /\ UNCHANGED loopVars
  BY DEF simulate
<1>2. /\ stage # "idle" /\ stage' \in {stage, "line"} /\ stage' # "idle"
      /\ call' = call /\ naccess' = naccess /\ warmup' = warmup
  BY <1>1 DEF Sim!hit_first, Sim!miss_first, Sim!to_caches, Sim!InHelper
<1>3. /\ rpc' = rpc /\ lines_handled' = lines_handled /\ reps' = reps /\ repstarted' = repstarted
      /\ cur_comp_id' = cur_comp_id
  BY <1>1 DEF loopVars
<1>4. ReadAhead'
  BY <1>2, <1>3 DEF TInv, ReadAhead
<1>5. Simulated'
  BY <1>2, <1>3 DEF TInv, Simulated
<1> QED BY <1>4, <1>5

LEMMA AccessDoneKeeps ==
  ASSUME TInv, access_done, PinLog' = PinLog, ppc' = ppc
  PROVE  ReadAhead' /\ Simulated'
<1>1. /\ stage = "line" /\ stage' = "idle" /\ naccess' = naccess /\ warmup' = warmup
      /\ lines_handled' = lines_handled + 1 /\ rpc' = rpc /\ reps' = reps /\ repstarted' = repstarted
      /\ cur_comp_id' = cur_comp_id
  BY Zenon DEF access_done, Sim!return, Consumed
<1>2. rpc = "read" /\ lines_handled < Len(PinLog) /\ Line.what \in Code
  BY <1>1 DEF TInv, Simulated, Line
<1>3. naccess' = Cardinality(AccessesIn(PinLog, lines_handled)) + (IF Line.what \in Code THEN 1 ELSE 0)
  BY <1>1, <1>2 DEF TInv, Simulated
<1>4. /\ repstarted \in BOOLEAN /\ warmup \in BOOLEAN /\ reps \in Int /\ (warmup \/ reps >= WARMUP_REPS)
      /\ cur_comp_id = IF InComp(PinLog, lines_handled) THEN CACHE_COMPARTMENT_ID ELSE WRAPPER_COMPARTMENT_ID
  BY DEF TInv, ReadAhead
<1>5. /\ repstarted' <=> RepAfter(Line.what, repstarted)
      /\ CompAfter(Line.what, InComp(PinLog, lines_handled)) <=> InComp(PinLog, lines_handled)
  BY <1>1, <1>2, <1>4 DEF RepAfter, CompAfter, Code
<1> QED BY <1>1, <1>2, <1>3, <1>4, <1>5, LineHandled

LEMMA ReadKeeps ==
  ASSUME TInv, read
  PROVE  TInv'
<1>1. /\ UNCHANGED allVars /\ UNCHANGED pinVars /\ calls' = calls /\ ReadNext
      /\ PinLog' = PinLog /\ ppc' = ppc /\ seen' = seen /\ dcount' = dcount
      /\ AccessTrackingOn' = AccessTrackingOn
  BY Zenon DEF read, pinVars
<1>2. WInv'
  BY <1>1, StutterKeeps DEF TInv
<1>3. PinInv'
  BY <1>1, PinNextInv DEF TInv
<1>4. Recorded' /\ Early'
  BY <1>1, ProgramFrame DEF TInv
<1>5. FileComplete'
  BY <1>1 DEF TInv, FileComplete
<1>6. ReadAhead' /\ Simulated'
  BY <1>1, BesidesKeeps, RepKeeps, SwitchKeeps, AccessKeeps, SimulateKeeps, AccessDoneKeeps DEF ReadNext
<1> QED BY <1>2, <1>3, <1>4, <1>5, <1>6 DEF TInv

LEMMA StandsStill ==
  ASSUME TInv, UNCHANGED tvars
  PROVE  TInv'
<1>1. /\ UNCHANGED allVars /\ UNCHANGED pinVars /\ UNCHANGED readVars /\ calls' = calls
      /\ PinLog' = PinLog /\ ppc' = ppc /\ seen' = seen /\ dcount' = dcount
      /\ AccessTrackingOn' = AccessTrackingOn
  BY Zenon DEF tvars, pinVars
<1>2. WInv'
  BY <1>1, StutterKeeps DEF TInv
<1>3. PinInv'
  BY <1>1, PinNextInv DEF TInv
<1>4. Recorded' /\ Early'
  BY <1>1, ProgramFrame DEF TInv
<1>5. FileComplete'
  BY <1>1 DEF TInv, FileComplete
<1>6. ReadAhead' /\ Simulated'
  BY <1>1, <1>3, ReaderFrame DEF TInv
<1> QED BY <1>2, <1>3, <1>4, <1>5, <1>6 DEF TInv

LEMMA TNextTInv == TInv /\ [TNext]_tvars => TInv'
BY ProgramKeeps, AnalysisKeeps, FlushKeeps, FiniKeeps, FiniSkippedKeeps, ReadKeeps, StandsStill
   DEF TNext, TRun, TDone

-----------------------------------------------------------------------------
(* What a datapoint can rely on. *)

(* TInv is an invariant of a datapoint, from the start of the program to   *)
(* the reader's last line: the trace is well formed, the calls that are    *)
(* left lead it to where main is, the file holds all of it once closed,    *)
(* and the reader is where the lines it has read say.                      *)
THEOREM TInvariance == TSpec => []TInv
BY TInitTInv, TNextTInv, PTL DEF TSpec

(* No assertion of the reader fails, whatever the program was asked to do  *)
(* and however it ended, wherever the flushes fell.                        *)
THEOREM ReaderNeverAborts == TSpec => []AssertsHold
<1>1. TInv => AssertsHold
  BY DEF TInv, ReadAhead, AssertsHold
<1> QED BY <1>1, TInvariance, PTL

LEMMA CompartmentIs == TInv => RightCompartment
<1> SUFFICES ASSUME TInv, stage # "idle"
             PROVE  call.asid = IF BetweenSwitches(Line.what) THEN CACHE_COMPARTMENT_ID
                                                              ELSE WRAPPER_COMPARTMENT_ID
  BY DEF RightCompartment
<1>1. /\ rpc = "read" /\ lines_handled < Len(PinLog) /\ Line.what \in Code
      /\ call.asid = cur_comp_id
  BY DEF TInv, Simulated, Line
<1>2. BetweenSwitches(Line.what) <=> InComp(PinLog, lines_handled)
  BY <1>1, LineFacts DEF Legal
<1> QED BY <1>1, <1>2 DEF TInv, ReadAhead

(* In whatever order Pin runs the calls of one instruction, an access of   *)
(* the wrapper is simulated in the wrapper's compartment and one of the    *)
(* cache in the cache's, but for the stack accesses of cache_get's first   *)
(* instruction and of its return: these are the cache's if and only if Pin *)
(* runs them between the two switches.                                     *)
THEOREM CompartmentsRight == TSpec => []RightCompartment
BY CompartmentIs, TInvariance, PTL

(* The result is that of the whole trace: every access the tool counted    *)
(* has been simulated, once.                                               *)
THEOREM NothingSkipped == TSpec => []AllSimulated
<1>1. TInv => AllSimulated
  <2> SUFFICES ASSUME TInv, rpc = "done" PROVE naccess = dcount
    BY DEF AllSimulated
  <2>1. lines_handled = Len(PinLog) /\ stage = "idle" /\ PinLog = seen
    BY DEF TInv, ReadAhead, FileComplete
  <2>2. naccess = Cardinality(AccessesIn(seen, Len(seen))) + 0
    BY <2>1 DEF TInv, Simulated
  <2>3. seen \in Seq(Entry)
    BY DEF TInv, PinInv, PinTypes
  <2>4. Cardinality(AccessesIn(seen, Len(seen))) \in Nat
    BY <2>3, AccessesCounted
  <2> QED BY <2>2, <2>4 DEF TInv, Recorded
<1> QED BY <1>1, TInvariance, PTL

(* A step of the datapoint is a step of the simulator, or leaves it alone. *)
LEMMA SimulatorStep ==
  ASSUME TInv, [TNext]_tvars
  PROVE  [Sim!Next]_(Sim!vars)
<1>1. CASE read
  <2>1. ReadNext
    BY <1>1 DEF read
  <2>2. CASE timer_settime \/ timer_expires \/ sigaction \/ account_final \/ read_repstart
             \/ read_switch_cache \/ read_switch_wrapper
    BY <2>2 DEF timer_settime, timer_expires, sigaction, account_final, read_repstart,
                read_switch_cache, read_switch_wrapper, Switch, simVars, Sim!vars
  <2>3. CASE read_repend
    BY <2>3 DEF read_repend, simVars, Sim!vars, Sim!Next
  <2>4. CASE read_access
    <3>1. Line.at \in Access /\ Sim!cycle_access(Line.at, cur_comp_id, "DATA")
      BY <2>4, AccessStarts
    <3>2. cur_comp_id \in Asid /\ "DATA" \in AccessType
      BY DataAssumption DEF TInv, ReadAhead
    <3> QED BY <3>1, <3>2 DEF Sim!Next
  <2>5. CASE simulate
    BY <2>5 DEF simulate, Sim!Next
  <2>6. CASE access_done
    BY <2>6 DEF access_done, Sim!Next
  <2> QED BY <2>1, <2>2, <2>3, <2>4, <2>5, <2>6 DEF ReadNext
<1>2. CASE ~read
  <2>1. UNCHANGED readVars
    BY <1>2 DEF TNext, TRun, TDone, tvars, program_step, analysis_routine, flush, fini, fini_skipped
  <2> QED BY <2>1 DEF readVars, simVars, Sim!vars
<1> QED BY <1>1, <1>2

(* main uses the simulator as module TlbCache has it used, so everything   *)
(* that is proved of the simulator holds of the datapoint.                 *)
THEOREM SimulatorUsed == TSpec => UsesSimulator
<1>1. TInit => Sim!Init
  BY DEF TInit, ReadInit
<1>2. TInv /\ [TNext]_tvars => [Sim!Next]_(Sim!vars)
  BY SimulatorStep
<1> QED BY <1>1, <1>2, TInvariance, PTL DEF TSpec, UsesSimulator, Sim!Spec

-----------------------------------------------------------------------------
(* The passes repeat themselves.  What the program does next in a pass     *)
(* depends on little: where it is, and the items, which no longer change.  *)

View ==
  [mpc |-> mpc, pc |-> pc,
   i   |-> IF MainRep THEN i ELSE 0,
   it  |-> IF pc = "find" THEN it ELSE NULL,
   dec |-> IF mpc = "decrypt" THEN bytes_dec ELSE 0,
   enc |-> IF mpc = "encrypt" THEN bytes_enc ELSE 0]

ViewAt(m, p, a, b, d, e) == [mpc |-> m, pc |-> p, i |-> a, it |-> b, dec |-> d, enc |-> e]

RequestSize == AesBlock * Blocks(NCHARS + sizeof_int)

KeepsWalking(v) == v.it # NULL /\ ikey[v.it] # make_key(v.i)

MoreOfReply(v) == SizeT(v.enc) < nval[TheValue] + sizeof_int

(* Where a step takes the program, and the calls that belong to it.        *)
NextView(v) ==
  CASE v.mpc = "pass" -> ViewAt("get", "idle", 0, NULL, 0, 0)
    [] v.mpc = "get" /\ v.i # nitems -> ViewAt("decrypt", "idle", v.i, NULL, 0, 0)
    [] v.mpc = "get" /\ v.i = nitems -> ViewAt("pass", "idle", 0, NULL, 0, 0)
    [] v.mpc = "decrypt" /\ RequestSize > v.dec ->
         ViewAt("decrypt", "idle", v.i, NULL, SignedChar(v.dec + AesBlock), 0)
    [] v.mpc = "decrypt" /\ ~(RequestSize > v.dec) ->
         ViewAt("getting", "find", v.i, hashtable[hash[make_key(v.i)]], 0, 0)
    [] v.mpc = "getting" /\ v.pc = "find" /\ KeepsWalking(v) ->
         ViewAt("getting", "find", v.i, next[v.it], 0, 0)
    [] v.mpc = "getting" /\ v.pc = "find" /\ ~KeepsWalking(v) ->
         ViewAt("getting", "idle", v.i, NULL, 0, 0)
    [] v.mpc = "getting" /\ v.pc = "idle" -> ViewAt("encrypt", "idle", v.i, NULL, 0, 0)
    [] v.mpc = "encrypt" /\ MoreOfReply(v) ->
         ViewAt("encrypt", "idle", v.i, NULL, 0, SignedChar(v.enc + AesBlock))
    [] v.mpc = "encrypt" /\ ~MoreOfReply(v) -> ViewAt("returned", "idle", v.i, NULL, 0, 0)
    [] OTHER -> ViewAt("get", "idle", v.i + 1, NULL, 0, 0)

CacheCall(a) == [what |-> "cache", at |-> At(a, 8)]

ChunkCall(v) == CacheCall(Page + class_size[clsid[v.it]] * v.it)

ViewCalls(v) ==
  CASE v.mpc = "pass" -> <<Do("repstart")>>
    [] v.mpc = "get" /\ v.i # nitems -> <<MainCall>> \o EnterWrapper
    [] v.mpc = "get" /\ v.i = nitems -> <<Do("repend")>>
    [] v.mpc = "decrypt" /\ RequestSize > v.dec -> <<Wrapper(Message + v.dec)>>
    [] v.mpc = "decrypt" /\ ~(RequestSize > v.dec) ->
         EnterCache \o <<CacheCall(Table + 8 * hash[make_key(v.i)])>>
    [] v.mpc = "getting" /\ v.pc = "find" /\ KeepsWalking(v) -> <<ChunkCall(v)>>
    [] v.mpc = "getting" /\ v.pc = "find" /\ ~KeepsWalking(v) ->
         IF v.it = NULL THEN LeaveCache ELSE <<ChunkCall(v)>> \o LeaveCache
    [] v.mpc = "getting" /\ v.pc = "idle" -> <<Wrapper(Reply)>>
    [] v.mpc = "encrypt" /\ MoreOfReply(v) -> <<Wrapper(Reply + v.enc)>>
    [] v.mpc = "encrypt" /\ ~MoreOfReply(v) -> LeaveWrapper
    [] OTHER -> <<MainCall>>

(* The request is as long as encrypt_key made it. *)
RequestKept == mpc = "decrypt" => enclen = RequestSize

(* main in its passes. *)
InPass == mpc \in {"pass", "get", "decrypt", "getting", "encrypt", "returned"}

Frozen == <<nitems, npasses, hashtable, next, ikey, clsid>>

LEMMA ProgramFollows ==
  ASSUME TInv, RequestKept, program_step, InPass, mpc' # "exit"
  PROVE  /\ View' = NextView(View) /\ calls' = ViewCalls(View)
         /\ UNCHANGED Frozen /\ RequestKept'
         /\ j' = IF mpc = "get" /\ mpc' = "pass" THEN j + 1 ELSE j
<1>0. /\ WInv /\ WType /\ Where /\ Counts /\ Messages /\ Run /\ calls' = Instrumented
  BY DEF TInv, WInv, program_step
<1>1. /\ mpc # "getting" => pc = "idle"
      /\ mpc = "getting" => pc \in {"find", "idle"}
      /\ mpc = "getting" /\ pc = "find" => req = GetReq(i) /\ req.op = "get" /\ req.key = make_key(i)
      /\ (mpc = "getting" /\ pc = "idle") \/ mpc = "encrypt" => ret.rc = nval[TheValue] /\ ret.rc # -1
  <2>1. ret = TheReply => ret.rc = nval[TheValue] /\ ret.rc # -1
    BY ValueFacts DEF TheReply
  <2> QED BY <1>0, <2>1 DEF InPass, Where, Messages, GetReq
<1>2. /\ mpc = "get" => i <= nitems
      /\ mpc \in {"decrypt", "getting", "encrypt", "returned"} => i < nitems
      /\ i \in Nat /\ nitems \in Nat
  BY <1>0 DEF Counts, WType
<1>v. /\ View.mpc = mpc /\ View.pc = pc
      /\ mpc # "pass" => View.i = i
      /\ pc = "find" => View.it = it
      /\ mpc = "decrypt" => View.dec = bytes_dec
      /\ mpc = "encrypt" => View.enc = bytes_enc
  BY DEF View, InPass, MainRep
<1>w. \A v : /\ v.mpc = "pass" =>
                  NextView(v) = ViewAt("get", "idle", 0, NULL, 0, 0) /\ ViewCalls(v) = <<Do("repstart")>>
             /\ v.mpc = "returned" =>
                  NextView(v) = ViewAt("get", "idle", v.i + 1, NULL, 0, 0) /\ ViewCalls(v) = <<MainCall>>
  BY DEF NextView, ViewCalls
<1> DEFINE Goal == /\ View' = NextView(View) /\ calls' = ViewCalls(View)
                   /\ UNCHANGED Frozen /\ RequestKept'
                   /\ j' = IF mpc = "get" /\ mpc' = "pass" THEN j + 1 ELSE j
<1>3. CASE pass_start /\ UNCHANGED <<npasses, nitems>>
  <2>1. mpc = "pass" /\ mpc' = "get" /\ i' = 0 /\ pc = "idle" /\ UNCHANGED vars /\ j' = j
    BY <1>3 DEF pass_start, CacheIdle
  <2>2. View' = ViewAt("get", "idle", 0, NULL, 0, 0)
    BY <2>1 DEF View, ViewAt, MainRep, vars
  <2>3. calls' = <<Do("repstart")>>
    BY <1>0, <2>1, CallsOf
  <2>4. UNCHANGED Frozen /\ RequestKept'
    BY <1>3, <2>1 DEF Frozen, vars, slabVars, cacheVars, RequestKept
  <2> QED BY <1>v, <1>w, <2>1, <2>2, <2>3, <2>4
<1>4. CASE encrypt_key /\ UNCHANGED <<npasses, nitems>>
  <2>1. mpc = "get" /\ mpc' = "decrypt" /\ i # nitems /\ i' = i /\ pc = "idle" /\ UNCHANGED vars /\ j' = j
        /\ enclen' = RequestSize /\ bytes_dec' = 0
    BY <1>2, <1>4 DEF encrypt_key, CacheIdle, RequestSize
  <2>2. View' = ViewAt("decrypt", "idle", i, NULL, 0, 0)
    BY <2>1 DEF View, ViewAt, MainRep, vars
  <2>3. calls' = <<MainCall>> \o EnterWrapper
    BY <1>0, <2>1, CallsOf
  <2>4. UNCHANGED Frozen /\ RequestKept'
    BY <1>4, <2>1 DEF Frozen, vars, slabVars, cacheVars, RequestKept, RequestSize
  <2>5. NextView(View) = ViewAt("decrypt", "idle", i, NULL, 0, 0) /\ ViewCalls(View) = <<MainCall>> \o EnterWrapper
    BY <1>v, <2>1 DEF NextView, ViewCalls
  <2> QED BY <2>1, <2>2, <2>3, <2>4, <2>5
<1>5. CASE decrypt_block /\ UNCHANGED <<npasses, nitems>>
  <2>1. mpc = "decrypt" /\ mpc' = "decrypt" /\ i' = i /\ pc = "idle" /\ UNCHANGED vars /\ j' = j
        /\ enclen' = enclen /\ enclen > bytes_dec /\ bytes_dec' = SignedChar(bytes_dec + AesBlock)
    BY <1>5 DEF decrypt_block, CacheIdle, MoreToDecrypt
  <2>2. View' = ViewAt("decrypt", "idle", i, NULL, SignedChar(bytes_dec + AesBlock), 0)
    BY <2>1 DEF View, ViewAt, MainRep, vars
  <2>3. calls' = <<Wrapper(Message + bytes_dec)>>
    BY <1>0, <2>1, CallsOf
  <2>4. UNCHANGED Frozen /\ RequestKept'
    BY <1>5, <2>1 DEF Frozen, vars, slabVars, cacheVars, RequestKept, RequestSize
  <2>5. RequestSize > View.dec
    BY <1>v, <2>1 DEF RequestKept
  <2>6. NextView(View) = ViewAt("decrypt", "idle", i, NULL, SignedChar(bytes_dec + AesBlock), 0)
        /\ ViewCalls(View) = <<Wrapper(Message + bytes_dec)>>
    BY <1>v, <2>1, <2>5 DEF NextView, ViewCalls
  <2> QED BY <2>1, <2>2, <2>3, <2>4, <2>6
<1>6. CASE call_cache_get /\ UNCHANGED <<npasses, nitems>>
  <2>1. mpc = "decrypt" /\ mpc' = "getting" /\ i' = i /\ pc' = "find" /\ j' = j
        /\ ~(enclen > bytes_dec) /\ it' = hashtable[hash[make_key(i)]]
        /\ UNCHANGED <<slabVars, cacheVars>>
    BY <1>6 DEF call_cache_get, Call, MoreToDecrypt
  <2>2. View' = ViewAt("getting", "find", i, hashtable[hash[make_key(i)]], 0, 0)
    BY <2>1 DEF View, ViewAt, MainRep
  <2>3. calls' = EnterCache \o <<InTable>>
    BY <1>0, <2>1, CallsOf
  <2>4. UNCHANGED Frozen /\ RequestKept'
    BY <1>6, <2>1 DEF Frozen, slabVars, cacheVars, RequestKept
  <2>5. ~(RequestSize > View.dec)
    BY <1>v, <2>1 DEF RequestKept
  <2>6. InTable = CacheCall(Table + 8 * hash[make_key(i)])
    BY DEF InTable, CacheCall
  <2>7. NextView(View) = ViewAt("getting", "find", i, hashtable[hash[make_key(i)]], 0, 0)
        /\ ViewCalls(View) = EnterCache \o <<InTable>>
    BY <1>v, <2>1, <2>5, <2>6 DEF NextView, ViewCalls
  <2> QED BY <2>1, <2>2, <2>3, <2>4, <2>7
<1>7. CASE cache_get_done /\ UNCHANGED <<npasses, nitems>>
  <2>1. mpc = "getting" /\ mpc' = "encrypt" /\ i' = i /\ pc = "idle" /\ UNCHANGED vars /\ j' = j
        /\ bytes_enc' = bytes_enc
    BY <1>1, <1>7 DEF cache_get_done, CacheIdle
  <2>2. bytes_enc = 0
    BY <1>0, <2>1 DEF Messages
  <2>3. View' = ViewAt("encrypt", "idle", i, NULL, 0, 0)
    BY <2>1, <2>2 DEF View, ViewAt, MainRep, vars
  <2>4. calls' = <<Wrapper(Reply)>>
    BY <1>0, <2>1, CallsOf
  <2>5. UNCHANGED Frozen /\ RequestKept'
    BY <1>7, <2>1 DEF Frozen, vars, slabVars, cacheVars, RequestKept
  <2>6. NextView(View) = ViewAt("encrypt", "idle", i, NULL, 0, 0) /\ ViewCalls(View) = <<Wrapper(Reply)>>
    BY <1>v, <2>1 DEF NextView, ViewCalls
  <2> QED BY <2>1, <2>3, <2>4, <2>5, <2>6
<1>8. CASE encrypt_block /\ UNCHANGED <<npasses, nitems>>
  <2>1. mpc = "encrypt" /\ mpc' = "encrypt" /\ i' = i /\ pc = "idle" /\ UNCHANGED vars /\ j' = j
        /\ MoreToEncrypt /\ bytes_enc' = SignedChar(bytes_enc + AesBlock)
    BY <1>8 DEF encrypt_block, CacheIdle
  <2>2. View' = ViewAt("encrypt", "idle", i, NULL, 0, SignedChar(bytes_enc + AesBlock))
    BY <2>1 DEF View, ViewAt, MainRep, vars
  <2>3. calls' = <<Wrapper(Reply + bytes_enc)>>
    BY <1>0, <2>1, CallsOf
  <2>4. UNCHANGED Frozen /\ RequestKept'
    BY <1>8, <2>1 DEF Frozen, vars, slabVars, cacheVars, RequestKept
  <2>5. MoreOfReply(View)
    BY <1>1, <1>v, <2>1 DEF MoreOfReply, MoreToEncrypt
  <2>6. NextView(View) = ViewAt("encrypt", "idle", i, NULL, 0, SignedChar(bytes_enc + AesBlock))
        /\ ViewCalls(View) = <<Wrapper(Reply + bytes_enc)>>
    BY <1>v, <2>1, <2>5 DEF NextView, ViewCalls
  <2> QED BY <2>1, <2>2, <2>3, <2>4, <2>6
<1>9. CASE reply_done /\ UNCHANGED <<npasses, nitems>>
  <2>1. mpc = "encrypt" /\ mpc' = "returned" /\ i' = i /\ pc = "idle" /\ UNCHANGED vars /\ j' = j
        /\ ~MoreToEncrypt
    BY <1>9 DEF reply_done, CacheIdle
  <2>2. View' = ViewAt("returned", "idle", i, NULL, 0, 0)
    BY <2>1 DEF View, ViewAt, MainRep, vars
  <2>3. calls' = LeaveWrapper
    BY <1>0, <2>1, CallsOf
  <2>4. UNCHANGED Frozen /\ RequestKept'
    BY <1>9, <2>1 DEF Frozen, vars, slabVars, cacheVars, RequestKept
  <2>5. ~MoreOfReply(View)
    BY <1>1, <1>v, <2>1 DEF MoreOfReply, MoreToEncrypt
  <2>6. NextView(View) = ViewAt("returned", "idle", i, NULL, 0, 0)
        /\ ViewCalls(View) = LeaveWrapper
    BY <1>v, <2>1, <2>5 DEF NextView, ViewCalls
  <2> QED BY <2>1, <2>2, <2>3, <2>4, <2>6
<1>10. CASE get_done /\ UNCHANGED <<npasses, nitems>>
  <2>1. mpc = "returned" /\ mpc' = "get" /\ i' = i + 1 /\ pc = "idle" /\ UNCHANGED vars /\ j' = j
    BY <1>10 DEF get_done, CacheIdle
  <2>2. View' = ViewAt("get", "idle", i + 1, NULL, 0, 0)
    BY <2>1 DEF View, ViewAt, MainRep, vars
  <2>3. calls' = <<MainCall>>
    BY <1>0, <2>1, CallsOf DEF Plain
  <2>4. UNCHANGED Frozen /\ RequestKept'
    BY <1>10, <2>1 DEF Frozen, vars, slabVars, cacheVars, RequestKept
  <2> QED BY <1>v, <1>w, <2>1, <2>2, <2>3, <2>4
<1>11. CASE pass_done /\ UNCHANGED <<npasses, nitems>>
  <2>1. mpc = "get" /\ mpc' = "pass" /\ i = nitems /\ pc = "idle" /\ UNCHANGED vars /\ j' = j + 1
    BY <1>11 DEF pass_done, CacheIdle, NextPass
  <2>2. View' = ViewAt("pass", "idle", 0, NULL, 0, 0)
    BY <2>1 DEF View, ViewAt, MainRep, vars
  <2>3. calls' = <<Do("repend")>>
    BY <1>0, <2>1, CallsOf
  <2>4. UNCHANGED Frozen /\ RequestKept'
    BY <1>11, <2>1 DEF Frozen, vars, slabVars, cacheVars, RequestKept
  <2>5. NextView(View) = ViewAt("pass", "idle", 0, NULL, 0, 0) /\ ViewCalls(View) = <<Do("repend")>>
    BY <1>v, <2>1 DEF NextView, ViewCalls
  <2> QED BY <2>1, <2>2, <2>3, <2>4, <2>5
<1>12. CASE InCache
  <2>1. UNCHANGED mainVars /\ Step
    BY <1>12 DEF InCache
  <2>2. mpc' = mpc /\ i' = i /\ j' = j /\ UNCHANGED <<npasses, nitems, enclen>>
    BY <2>1 DEF mainVars
  <2>3. mpc = "getting" /\ pc = "find" /\ (WalkOn \/ cache_get)
    <3>1. pc # "idle"
      BY <2>1 DEF Step, cache_init, slab_preallocate, split_slab_page_into_freelist,
         slab_preallocated, WalkOn, cache_get, cache_set, item_unlink, unlink_missed, free_old,
         insert_new, alloc_failed, alloc_oversize
    <3>2. mpc = "getting" /\ pc = "find"
      BY <1>1, <3>1
    <3>3. ~cache_init /\ ~cache_set
      BY <1>1, <3>2 DEF cache_init, slab_preallocate, split_slab_page_into_freelist,
         slab_preallocated, cache_set, item_unlink, unlink_missed, free_old,
         insert_new, alloc_failed, alloc_oversize
    <3> QED BY <2>1, <3>2, <3>3 DEF Step
  <2>4. View.mpc = "getting" /\ View.pc = "find" /\ View.i = i /\ View.it = it
    BY <1>v, <2>3
  <2>5. InChunk = ChunkCall(View)
    BY <2>4 DEF InChunk, ChunkCall, CacheCall
  <2>6. CASE WalkOn
    <3>1. it # NULL /\ ikey[it] # make_key(i) /\ it' = next[it] /\ pc' = "find"
          /\ UNCHANGED <<slabVars, cacheVars>>
      BY <1>1, <2>3, <2>6 DEF WalkOn, Matches
    <3>2. KeepsWalking(View)
      BY <2>4, <3>1 DEF KeepsWalking
    <3>3. NextView(View) = ViewAt("getting", "find", i, next[it], 0, 0) /\ ViewCalls(View) = <<InChunk>>
      BY <2>4, <2>5, <3>2 DEF NextView, ViewCalls
    <3>4. View' = ViewAt("getting", "find", i, next[it], 0, 0)
      BY <2>2, <2>3, <3>1 DEF View, ViewAt, MainRep
    <3>5. calls' = <<InChunk>>
      BY <1>0, <2>2, <2>3, <3>1, CallsOf
    <3>6. UNCHANGED Frozen /\ RequestKept'
      BY <2>2, <2>3, <3>1 DEF Frozen, slabVars, cacheVars, RequestKept
    <3> QED BY <2>2, <2>3, <3>3, <3>4, <3>5, <3>6
  <2>7. CASE cache_get
    <3>1. it = NULL \/ (it # NULL /\ ikey[it] = make_key(i))
      BY <1>1, <2>3, <2>7 DEF cache_get, Matches
    <3>2. pc' = "idle" /\ UNCHANGED <<slabVars, cacheVars>>
      BY <2>7 DEF cache_get, Return
    <3>3. ~KeepsWalking(View)
      BY <2>4, <3>1 DEF KeepsWalking
    <3>4. NextView(View) = ViewAt("getting", "idle", i, NULL, 0, 0)
          /\ ViewCalls(View) = IF it = NULL THEN LeaveCache ELSE <<InChunk>> \o LeaveCache
      BY <2>4, <2>5, <3>3 DEF NextView, ViewCalls
    <3>5. View' = ViewAt("getting", "idle", i, NULL, 0, 0)
      BY <2>2, <2>3, <3>2 DEF View, ViewAt, MainRep
    <3>6. calls' = IF it = NULL THEN LeaveCache ELSE <<InChunk>> \o LeaveCache
      BY <1>0, <2>2, <2>3, <3>2, CallsOf
    <3>7. UNCHANGED Frozen /\ RequestKept'
      BY <2>2, <2>3, <3>2 DEF Frozen, slabVars, cacheVars, RequestKept
    <3> QED BY <2>2, <2>3, <3>4, <3>5, <3>6, <3>7
  <2> QED BY <2>3, <2>6, <2>7
<1>13. ~wrapper_init /\ ~set_value /\ ~set_done /\ ~sets_done /\ ~exit
  BY DEF InPass, wrapper_init, set_value, set_done, sets_done, exit
<1> QED BY <1>0, <1>3, <1>4, <1>5, <1>6, <1>7, <1>8, <1>9, <1>10, <1>11, <1>12, <1>13 DEF Run, Main

(* A pass as the tool sees it: the program's view, the calls that are left *)
(* to make, whether accesses are tracked, and what the pass has recorded.  *)
PassStart == [v |-> ViewAt("pass", "idle", 0, NULL, 0, 0), calls |-> <<>>, on |-> FALSE, rec |-> <<>>]

Noted(e, on) == e.what \in Marker \/ (e.what \in Code /\ on)

PassNext(h) ==
  IF h.calls = <<>>
    THEN [v |-> NextView(h.v), calls |-> ViewCalls(h.v), on |-> h.on, rec |-> h.rec]
    ELSE [v |-> h.v, calls |-> Tail(h.calls), on |-> OnAfter(Head(h.calls).what, h.on),
          rec |-> IF Noted(Head(h.calls), h.on) THEN Append(h.rec, Head(h.calls)) ELSE h.rec]

(* The first K steps of a pass. *)
Orbit(H, K) == H[0] = PassStart /\ \A n \in 0 .. K - 1 : H[n + 1] = PassNext(H[n])

AtPass(h) == h.v.mpc = "pass" /\ h.calls = <<>>

(* The first p * L entries of t are p times the same L entries, of which   *)
(* the last marks the end of a repetition and no other does.               *)
Whole(t, p, L) ==
  /\ \A n \in Nat : 1 <= n /\ n + L <= p * L => t[n + L] = t[n]
  /\ \A n \in Nat : 1 <= n /\ n <= p * L => (t[n].what = "repend" <=> \E k \in 1 .. p : n = k * L)

(* t ends with r, after b other entries. *)
EndsWith(t, b, r) ==
  /\ r \in Seq(Entry) /\ t \in Seq(Entry) /\ Len(t) = b + Len(r)
  /\ \A n \in 1 .. Len(r) : t[b + n] = r[n]

Clean(r) == \A n \in 1 .. Len(r) : r[n].what # "repend"

(* One whole pass, with its mark at the end. *)
Marked(r, L) == L = Len(r) /\ L > 0 /\ \A n \in 1 .. L : r[n].what = "repend" <=> n = L

PassAt(t, b, r, L) == \A n \in 1 .. L : t[b + n] = r[n]

SameUpTo(t, t2, b) == \A n \in Nat : 1 <= n /\ n <= b => t2[n] = t[n]

(* The first pass is the K steps of H, or will be; p passes are over and   *)
(* have been recorded in t, and the current one has come to step q.        *)
Along(H, K, p, q, L, t) ==
  /\ K \in Nat /\ p \in Nat /\ q \in 0 .. K /\ L \in Nat
  /\ \A n \in 1 .. K : AtPass(H[n]) => p > 0 /\ n = K
  /\ p = 0 => q = K /\ Clean(H[q].rec)
  /\ p > 0 => /\ q < K /\ AtPass(H[K]) /\ Marked(H[K].rec, L) /\ L <= p * L
              /\ PassAt(t, p * L - L, H[K].rec, L)
  /\ Whole(t, p, L) /\ H[0].rec = <<>> /\ EndsWith(t, p * L, H[q].rec)

(* What a step records. *)
Grown(r, r2, t, t2) ==
  \/ r2 = r /\ t2 = t
  \/ \E e \in Entry : e.what # "repend" /\ r2 = Append(r, e) /\ t2 = Append(t, e)

Longer(H, K, h) == [n \in 0 .. K + 1 |-> IF n <= K THEN H[n] ELSE h]

LEMMA AppendFacts ==
  ASSUME NEW S, NEW s \in Seq(S), NEW e \in S
  PROVE  /\ Append(s, e) \in Seq(S) /\ Len(Append(s, e)) = Len(s) + 1
         /\ Append(s, e)[Len(s) + 1] = e
         /\ \A n \in 1 .. Len(s) : Append(s, e)[n] = s[n]
         /\ Len(s) \in Nat
BY AppendProperties

LEMMA Products ==
  ASSUME NEW p \in Nat, NEW L \in Nat
  PROVE  /\ p * L \in Nat /\ (p + 1) * L = p * L + L
         /\ \A k \in 1 .. p : k * L \in Nat /\ k * L <= p * L
<1>1. p * L \in Nat /\ (p + 1) * L = p * L + L
  OBVIOUS
<1>2. ASSUME NEW k \in 1 .. p PROVE k * L \in Nat /\ k * L <= p * L
  <2>1. PICK d \in Nat : p = k + d
    <3>1. p - k \in Nat /\ p = k + (p - k)
      OBVIOUS
    <3> QED BY <3>1
  <2>2. p * L = k * L + d * L /\ d * L \in Nat /\ k * L \in Nat
    BY <2>1
  <2> QED BY <2>2
<1> QED BY <1>1, <1>2

(* More entries do not change the ones that are there. *)
LEMMA WholeKept ==
  ASSUME NEW p \in Nat, NEW L \in Nat, NEW t, NEW t2, Whole(t, p, L), SameUpTo(t, t2, p * L)
  PROVE  Whole(t2, p, L)
<1> DEFINE b == p * L
<1>1. b \in Nat
  BY Products
<1>2. /\ \A n \in Nat : 1 <= n /\ n + L <= b => t[n + L] = t[n]
      /\ \A n \in Nat : 1 <= n /\ n <= b => (t[n].what = "repend" <=> \E k \in 1 .. p : n = k * L)
  BY DEF Whole
<1>3. \A n \in Nat : 1 <= n /\ n <= b => t2[n] = t[n]
  BY DEF SameUpTo
<1> HIDE DEF b
<1>4. \A n \in Nat : 1 <= n /\ n + L <= b => t2[n + L] = t2[n]
  <2> SUFFICES ASSUME NEW n \in Nat, 1 <= n, n + L <= b PROVE t2[n + L] = t2[n]
    OBVIOUS
  <2>1. n + L \in Nat /\ 1 <= n + L /\ n <= b
    BY <1>1
  <2> QED BY <1>2, <1>3, <2>1
<1>5. \A n \in Nat : 1 <= n /\ n <= b => (t2[n].what = "repend" <=> \E k \in 1 .. p : n = k * L)
  BY <1>2, <1>3
<1> QED BY <1>4, <1>5 DEF Whole, b

(* Another pass. *)
LEMMA WholeGrows ==
  ASSUME NEW p \in Nat, NEW L \in Nat, NEW t, NEW R, Whole(t, p, L), Marked(R, L),
         PassAt(t, p * L, R, L),
         p > 0 => L <= p * L /\ PassAt(t, p * L - L, R, L)
  PROVE  Whole(t, p + 1, L)
<1> DEFINE b == p * L
           B == (p + 1) * L
<1>1. b \in Nat /\ B = b + L /\ (p > 0 => L <= b)
  BY Products
<1>2. /\ \A n \in Nat : 1 <= n /\ n + L <= b => t[n + L] = t[n]
      /\ \A n \in Nat : 1 <= n /\ n <= b => (t[n].what = "repend" <=> \E k \in 1 .. p : n = k * L)
  BY DEF Whole
<1>3. (\A n \in 1 .. L : t[b + n] = R[n]) /\ L > 0
      /\ \A n \in 1 .. L : R[n].what = "repend" <=> n = L
  BY DEF PassAt, Marked
<1>4. p > 0 => \A n \in 1 .. L : t[b - L + n] = R[n]
  BY DEF PassAt
<1>5. p = 0 => b = 0
  OBVIOUS
<1>6. \A k \in 1 .. p : k * L \in Nat /\ k * L <= b
  BY Products
<1> HIDE DEF b, B
<1>7. ASSUME NEW n \in Nat, 1 <= n, n + L <= B PROVE t[n + L] = t[n]
  <2>1. CASE n + L <= b
    BY <1>2, <1>7, <2>1
  <2>2. CASE ~(n + L <= b)
    <3>1. p > 0
      BY <1>1, <1>5, <1>7
    <3> DEFINE m == n + L - b
    <3>2. m \in 1 .. L /\ n + L = b + m /\ n = b - L + m
      BY <1>1, <1>7, <2>2, <3>1
    <3> HIDE DEF m
    <3> QED BY <1>3, <1>4, <3>1, <3>2
  <2> QED BY <2>1, <2>2
<1>8. ASSUME NEW n \in Nat, 1 <= n, n <= B
      PROVE  t[n].what = "repend" <=> \E k \in 1 .. p + 1 : n = k * L
  <2>1. (p + 1) * L = b + L
    BY <1>1 DEF B
  <2>2. (\E k \in 1 .. p + 1 : n = k * L) <=> (\E k \in 1 .. p : n = k * L) \/ n = b + L
    <3>1. \A k \in 1 .. p + 1 : k \in 1 .. p \/ k = p + 1
      OBVIOUS
    <3>2. p + 1 \in 1 .. p + 1 /\ 1 .. p \subseteq 1 .. p + 1
      OBVIOUS
    <3> QED BY <2>1, <3>1, <3>2, Zenon
  <2>3. CASE n <= b
    <3>1. n # b + L
      BY <1>1, <1>3, <2>3
    <3> QED BY <1>2, <1>8, <2>2, <2>3, <3>1
  <2>4. CASE ~(n <= b)
    <3> DEFINE m == n - b
    <3>1. m \in 1 .. L /\ n = b + m /\ (m = L <=> n = b + L)
      BY <1>1, <1>8, <2>4
    <3> HIDE DEF m
    <3>2. ~ \E k \in 1 .. p : n = k * L
      BY <1>1, <1>6, <2>4
    <3>3. t[n].what = "repend" <=> m = L
      BY <1>3, <3>1
    <3> QED BY <2>2, <3>1, <3>2, <3>3
  <2> QED BY <2>3, <2>4
<1> QED BY <1>7, <1>8 DEF Whole, B

(* What is recorded in the current pass stays at the end of the trace.     *)
LEMMA EndAppend ==
  ASSUME NEW r, NEW t, NEW b \in Nat, EndsWith(t, b, r), NEW e \in Entry
  PROVE  /\ EndsWith(Append(t, e), b, Append(r, e)) /\ SameUpTo(t, Append(t, e), b)
         /\ Len(Append(r, e)) = Len(r) + 1 /\ Append(r, e)[Len(r) + 1] = e /\ Len(r) \in Nat
         /\ \A n \in 1 .. Len(r) : Append(r, e)[n] = r[n]
<1> DEFINE m == Len(r)
           r2 == Append(r, e)
           t2 == Append(t, e)
           k == Len(t)
<1>1. /\ r \in Seq(Entry) /\ t \in Seq(Entry) /\ k = b + m /\ \A n \in 1 .. m : t[b + n] = r[n]
  BY DEF EndsWith
<1>2. /\ r2 \in Seq(Entry) /\ Len(r2) = m + 1 /\ r2[m + 1] = e /\ m \in Nat
      /\ \A n \in 1 .. m : r2[n] = r[n]
  BY <1>1, AppendFacts
<1>3. /\ t2 \in Seq(Entry) /\ Len(t2) = k + 1 /\ t2[k + 1] = e
      /\ \A n \in 1 .. k : t2[n] = t[n]
  BY <1>1, AppendFacts
<1> HIDE DEF m, r2, t2, k
<1>4. Len(t2) = b + Len(r2)
  BY <1>1, <1>2, <1>3
<1>5. \A n \in 1 .. Len(r2) : t2[b + n] = r2[n]
  <2> SUFFICES ASSUME NEW n \in 1 .. m + 1 PROVE t2[b + n] = r2[n]
    BY <1>2
  <2>1. CASE n = m + 1
    <3>1. b + n = k + 1
      BY <1>1, <1>2, <2>1
    <3> QED BY <1>2, <1>3, <2>1, <3>1
  <2>2. CASE n # m + 1
    <3>1. n \in 1 .. m /\ b + n \in 1 .. k
      BY <1>1, <1>2, <2>2
    <3> QED BY <1>1, <1>2, <1>3, <3>1
  <2> QED BY <2>1, <2>2
<1>6. \A n \in Nat : 1 <= n /\ n <= b => t2[n] = t[n]
  <2>1. \A n \in Nat : 1 <= n /\ n <= b => n \in 1 .. k
    BY <1>1, <1>2
  <2> QED BY <1>3, <2>1
<1>7. EndsWith(t2, b, r2) /\ SameUpTo(t, t2, b)
  BY <1>2, <1>3, <1>4, <1>5, <1>6 DEF EndsWith, SameUpTo
<1> QED BY <1>2, <1>7 DEF m, r2, t2

LEMMA EndGrows ==
  ASSUME NEW r, NEW r2, NEW t, NEW t2, NEW b \in Nat, Grown(r, r2, t, t2), EndsWith(t, b, r)
  PROVE  EndsWith(t2, b, r2) /\ SameUpTo(t, t2, b) /\ (Clean(r) => Clean(r2))
<1>1. CASE r2 = r /\ t2 = t
  BY <1>1 DEF SameUpTo
<1>2. CASE \E e \in Entry : e.what # "repend" /\ r2 = Append(r, e) /\ t2 = Append(t, e)
  <2>1. PICK e \in Entry : e.what # "repend" /\ r2 = Append(r, e) /\ t2 = Append(t, e)
    BY <1>2, Zenon
  <2>2. /\ EndsWith(t2, b, r2) /\ SameUpTo(t, t2, b)
        /\ Len(r2) = Len(r) + 1 /\ r2[Len(r) + 1] = e /\ Len(r) \in Nat
        /\ \A n \in 1 .. Len(r) : r2[n] = r[n]
    BY <2>1, EndAppend, Zenon
  <2>3. Clean(r) => Clean(r2)
    <3>1. \A n \in 1 .. Len(r) + 1 : n \in 1 .. Len(r) \/ n = Len(r) + 1
      BY <2>2
    <3> QED BY <2>1, <2>2, <3>1 DEF Clean
  <2> QED BY <2>2, <2>3
<1> QED BY <1>1, <1>2, Zenon DEF Grown

(* Another pass of the same L entries lies behind. *)
LEMMA HoldsKept ==
  ASSUME NEW t, NEW t2, NEW b \in Nat, NEW L \in Nat, NEW R, L <= b,
         SameUpTo(t, t2, b), PassAt(t, b - L, R, L)
  PROVE  PassAt(t2, b - L, R, L)
<1>1. \A n \in 1 .. L : b - L + n \in Nat /\ 1 <= b - L + n /\ b - L + n <= b
  OBVIOUS
<1> QED BY <1>1 DEF SameUpTo, PassAt

(* A step of the first pass, and one of a later pass. *)
LEMMA FirstPass ==
  ASSUME NEW H, NEW K, NEW q, NEW L, NEW t, NEW t2, Along(H, K, 0, q, L, t),
         NEW h, ~AtPass(h), Grown(H[K].rec, h.rec, t, t2)
  PROVE  Along(Longer(H, K, h), K + 1, 0, K + 1, L, t2)
<1> DEFINE G == Longer(H, K, h)
           b == 0 * L
<1>1. /\ K \in Nat /\ L \in Nat /\ q = K /\ \A n \in 1 .. K : ~AtPass(H[n])
      /\ Clean(H[K].rec) /\ Whole(t, 0, L) /\ H[0].rec = <<>> /\ EndsWith(t, b, H[K].rec)
  <2>1. ~(0 > 0)
    OBVIOUS
  <2> QED BY <2>1, Zenon DEF Along
<1>2. b = 0 /\ b \in Nat /\ 0 \in Nat
  BY <1>1
<1>3. G[K + 1] = h /\ \A n \in 0 .. K : G[n] = H[n]
  BY <1>1 DEF Longer
<1> HIDE DEF G, b
<1>4. EndsWith(t2, b, h.rec) /\ SameUpTo(t, t2, b) /\ Clean(h.rec)
  BY <1>1, <1>2, EndGrows, Zenon
<1>5. Whole(t2, 0, L)
  BY <1>1, <1>2, <1>4, WholeKept, Zenon DEF b
<1>6. \A n \in 1 .. K + 1 : ~AtPass(G[n])
  <2>1. \A n \in 1 .. K + 1 : (n \in 1 .. K /\ n \in 0 .. K) \/ n = K + 1
    BY <1>1
  <2> QED BY <1>1, <1>3, <2>1, Zenon
<1>7. 0 \in 0 .. K /\ K + 1 \in Nat /\ K + 1 \in 0 .. K + 1 /\ ~(0 > 0)
  BY <1>1
<1>8. G[0].rec = <<>> /\ G[K + 1].rec = h.rec
  BY <1>1, <1>3, <1>7, Zenon
<1> QED BY <1>1, <1>2, <1>3, <1>4, <1>5, <1>6, <1>7, <1>8, Zenon DEF Along, G, b

LEMMA LaterPass ==
  ASSUME NEW H, NEW K, NEW p, NEW q, NEW L, NEW t, NEW t2, Along(H, K, p, q, L, t), p > 0,
         ~AtPass(H[q + 1]), Grown(H[q].rec, H[q + 1].rec, t, t2)
  PROVE  Along(H, K, p, q + 1, L, t2) /\ q + 1 \in 1 .. K
<1> DEFINE b == p * L
<1>1. /\ K \in Nat /\ p \in Nat /\ L \in Nat /\ q \in 0 .. K
      /\ \A n \in 1 .. K : AtPass(H[n]) => p > 0 /\ n = K
      /\ q < K /\ AtPass(H[K]) /\ Marked(H[K].rec, L) /\ L <= b
      /\ PassAt(t, b - L, H[K].rec, L)
      /\ Whole(t, p, L) /\ H[0].rec = <<>> /\ EndsWith(t, b, H[q].rec)
  BY Zenon DEF Along
<1>2. b \in Nat
  BY <1>1, Products
<1>3. q + 1 # K
  BY <1>1, Zenon
<1>4. q + 1 \in 0 .. K /\ q + 1 < K /\ q + 1 \in 1 .. K /\ p # 0
  BY <1>1, <1>3
<1> HIDE DEF b
<1>5. EndsWith(t2, b, H[q + 1].rec) /\ SameUpTo(t, t2, b)
  BY <1>1, <1>2, EndGrows, Zenon
<1>6. Whole(t2, p, L)
  BY <1>1, <1>5, WholeKept, Zenon DEF b
<1>7. PassAt(t2, b - L, H[K].rec, L)
  BY <1>1, <1>2, <1>5, HoldsKept, Zenon
<1>8. Along(H, K, p, q + 1, L, t2)
  BY <1>1, <1>4, <1>5, <1>6, <1>7, Zenon DEF Along, b
<1> QED BY <1>4, <1>8, Zenon

LEMMA CleanThenMark ==
  ASSUME NEW r \in Seq(Entry), Clean(r), NEW e \in Entry, e.what = "repend"
  PROVE  Append(r, e) \in Seq(Entry) /\ Marked(Append(r, e), Len(Append(r, e)))
<1> DEFINE m == Len(r)
           r2 == Append(r, e)
<1>1. r2 \in Seq(Entry) /\ Len(r2) = m + 1 /\ r2[m + 1] = e /\ m \in Nat /\ \A n \in 1 .. m : r2[n] = r[n]
  BY AppendFacts
<1>2. \A n \in 1 .. m : r[n].what # "repend"
  BY DEF Clean
<1> HIDE DEF m, r2
<1>3. \A n \in 1 .. m + 1 : (n \in 1 .. m /\ n # m + 1) \/ n = m + 1
  BY <1>1
<1>4. \A n \in 1 .. m + 1 : r2[n].what = "repend" <=> n = m + 1
  BY <1>1, <1>2, <1>3
<1>5. Marked(r2, Len(r2))
  BY <1>1, <1>4 DEF Marked
<1> QED BY <1>1, <1>5 DEF r2

(* Nothing after it yet. *)
LEMMA EndsEmpty ==
  ASSUME NEW t \in Seq(Entry), NEW b \in Nat, Len(t) = b
  PROVE  EndsWith(t, b, <<>>)
<1>1. <<>> \in Seq(Entry) /\ Len(<<>>) = 0 /\ Len(t) = b + 0 /\ \A n \in 1 .. 0 : FALSE
  OBVIOUS
<1> QED BY <1>1 DEF EndsWith

(* The last step of the first pass, and of a later one. *)
LEMMA FirstPassEnds ==
  ASSUME NEW H, NEW K, NEW q, NEW L, NEW t, Along(H, K, 0, q, L, t),
         NEW h, AtPass(h), NEW e \in Entry, e.what = "repend", h.rec = Append(H[K].rec, e)
  PROVE  Along(Longer(H, K, h), K + 1, 1, 0, Len(h.rec), Append(t, e))
<1> DEFINE G == Longer(H, K, h)
           r == H[K].rec
           R == h.rec
           M == Len(R)
           u == Append(t, e)
<1>1. /\ K \in Nat /\ L \in Nat /\ q = K /\ \A n \in 1 .. K : ~AtPass(H[n])
      /\ Clean(r) /\ H[0].rec = <<>> /\ EndsWith(t, 0 * L, r)
  <2>1. ~(0 > 0)
    OBVIOUS
  <2> QED BY <2>1, Zenon DEF Along
<1>2. 0 * L = 0 /\ 0 \in Nat
  BY <1>1
<1>3. EndsWith(t, 0, r)
  BY <1>1, <1>2, Zenon
<1>4. G[K + 1] = h /\ \A n \in 0 .. K : G[n] = H[n]
  BY <1>1 DEF Longer
<1>r. R = Append(r, e)
  OBVIOUS
<1> HIDE DEF G, r, R, M, u
<1>5. r \in Seq(Entry)
  BY <1>3 DEF EndsWith
<1>6. R \in Seq(Entry) /\ Marked(R, M)
  BY <1>1, <1>5, <1>r, CleanThenMark, Zenon DEF M
<1>7. EndsWith(u, 0, R)
  BY <1>2, <1>3, <1>r, EndAppend, Zenon DEF u
<1>8. /\ M \in Nat /\ M > 0 /\ u \in Seq(Entry) /\ Len(u) = 0 + M /\ \A n \in 1 .. M : u[0 + n] = R[n]
  BY <1>6, <1>7 DEF EndsWith, Marked, M
<1>9. /\ 1 * M = M /\ 0 * M = 0 /\ M <= 1 * M /\ Len(u) = M /\ M - M = 0 /\ 1 * M - M = 0 /\ 0 + 1 = 1
      /\ 1 \in Nat /\ 1 # 0 /\ 1 > 0 /\ ~(0 > 0)
  BY <1>8
<1>10. PassAt(u, 0, R, M)
  BY <1>8 DEF PassAt
<1>11. Whole(u, 0, M)
  <2>1. \A n \in Nat : ~(1 <= n /\ n <= 0)
    OBVIOUS
  <2>2. \A n \in Nat : ~(1 <= n /\ n + M <= 0)
    BY <1>8
  <2> QED BY <1>9, <2>1, <2>2 DEF Whole
<1>12. Whole(u, 1, M)
  <2>1. Whole(u, 0 + 1, M)
    BY <1>2, <1>6, <1>8, <1>9, <1>10, <1>11, WholeGrows, Zenon
  <2> QED BY <1>9, <2>1
<1>13. \A n \in 1 .. K + 1 : AtPass(G[n]) => n = K + 1
  <2>1. \A n \in 1 .. K + 1 : (n \in 1 .. K /\ n \in 0 .. K) \/ n = K + 1
    BY <1>1
  <2> QED BY <1>1, <1>4, <2>1, Zenon
<1>14. 0 \in 0 .. K /\ K + 1 \in Nat /\ 0 \in 0 .. K + 1 /\ 0 < K + 1
  BY <1>1
<1>15. G[0].rec = <<>> /\ G[K + 1].rec = R /\ AtPass(G[K + 1])
  BY <1>1, <1>4, <1>14, Zenon DEF R
<1>16. EndsWith(u, 1 * M, <<>>)
  BY <1>8, <1>9, EndsEmpty
<1>17. PassAt(u, 1 * M - M, R, M)
  BY <1>9, <1>10
<1>18. Along(G, K + 1, 1, 0, M, u)
  BY <1>6, <1>8, <1>9, <1>12, <1>13, <1>14, <1>15, <1>16, <1>17, Zenon DEF Along
<1> QED BY <1>18 DEF G, M, u, R

LEMMA LaterPassEnds ==
  ASSUME NEW H, NEW K, NEW p, NEW q, NEW L, NEW t, Along(H, K, p, q, L, t), p > 0,
         AtPass(H[q + 1]), NEW e \in Entry, H[q + 1].rec = Append(H[q].rec, e)
  PROVE  Along(H, K, p + 1, 0, L, Append(t, e))
<1> DEFINE b == p * L
           B == (p + 1) * L
           r == H[q].rec
           R == H[K].rec
           u == Append(t, e)
<1>1. /\ K \in Nat /\ p \in Nat /\ L \in Nat /\ q \in 0 .. K
      /\ \A n \in 1 .. K : AtPass(H[n]) => p > 0 /\ n = K
      /\ q < K /\ AtPass(H[K]) /\ Marked(R, L) /\ L <= b
      /\ PassAt(t, b - L, R, L)
      /\ Whole(t, p, L) /\ H[0].rec = <<>> /\ EndsWith(t, b, r)
  BY Zenon DEF Along
<1>2. b \in Nat /\ B = b + L
  BY <1>1, Products
<1>3. q + 1 = K
  <2>1. q + 1 \in 1 .. K
    BY <1>1
  <2> QED BY <1>1, <2>1, Zenon
<1>r. R = Append(r, e)
  BY <1>3
<1> HIDE DEF b, B, r, R, u
<1>4. EndsWith(u, b, R) /\ SameUpTo(t, u, b)
  BY <1>1, <1>2, <1>r, EndAppend, Zenon DEF u
<1>5. u \in Seq(Entry) /\ Len(u) = b + L /\ PassAt(u, b, R, L)
  BY <1>1, <1>4 DEF EndsWith, Marked, PassAt
<1>6. Whole(u, p, L)
  BY <1>1, <1>4, WholeKept, Zenon DEF b
<1>7. PassAt(u, b - L, R, L)
  BY <1>1, <1>2, <1>4, HoldsKept, Zenon
<1>8. Whole(u, p + 1, L)
  BY <1>1, <1>5, <1>6, <1>7, WholeGrows, Zenon DEF b
<1>9. L <= B /\ B - L = b /\ B \in Nat /\ Len(u) = B
  BY <1>1, <1>2, <1>5
<1>10. PassAt(u, B - L, R, L)
  BY <1>5, <1>9
<1>11. EndsWith(u, B, <<>>)
  BY <1>5, <1>9, EndsEmpty
<1>12. 0 \in 0 .. K /\ 0 < K /\ p + 1 > 0 /\ p + 1 # 0 /\ p + 1 \in Nat
  BY <1>1
<1>13. Along(H, K, p + 1, 0, L, u)
  BY <1>1, <1>8, <1>9, <1>10, <1>11, <1>12, Zenon DEF Along, B, R
<1> QED BY <1>13 DEF u

-----------------------------------------------------------------------------
(* The program goes through its passes. *)

LEMMA AlongFacts ==
  ASSUME NEW H, NEW K, NEW p, NEW q, NEW L, NEW t, Along(H, K, p, q, L, t)
  PROVE  /\ K \in Nat /\ p \in Nat /\ q \in Nat /\ L \in Nat /\ q <= K
         /\ p = 0 => q = K
         /\ p > 0 => q < K /\ L > 0
         /\ p = 0 \/ p > 0
<1>1. K \in Nat /\ p \in Nat /\ q \in 0 .. K /\ L \in Nat
  BY Zenon DEF Along
<1>2. p = 0 => q = K
  BY Zenon DEF Along
<1>3. p > 0 => q < K /\ Marked(H[K].rec, L)
  BY Zenon DEF Along
<1>4. Marked(H[K].rec, L) => L > 0
  BY Zenon DEF Marked
<1> QED BY <1>1, <1>2, <1>3, <1>4

LEMMA LongerOrbit ==
  ASSUME NEW H, NEW K \in Nat, Orbit(H, K), NEW h, h = PassNext(H[K])
  PROVE  Orbit(Longer(H, K, h), K + 1) /\ Longer(H, K, h)[K + 1] = h /\ Longer(H, K, h)[0] = H[0]
<1> DEFINE G == Longer(H, K, h)
<1>1. G[K + 1] = h /\ \A n \in 0 .. K : G[n] = H[n]
  BY DEF Longer
<1> HIDE DEF G
<1>2. \A n \in 0 .. (K + 1) - 1 : G[n + 1] = PassNext(G[n])
  <2> SUFFICES ASSUME NEW n \in 0 .. (K + 1) - 1 PROVE G[n + 1] = PassNext(G[n])
    BY Zenon
  <2>1. CASE n = K
    <3>1. K \in 0 .. K
      OBVIOUS
    <3>2. G[K] = H[K]
      BY <1>1, <3>1, Zenon
    <3> QED BY <1>1, <2>1, <3>2, Zenon
  <2>2. CASE n # K
    <3>1. n \in 0 .. K - 1 /\ n \in 0 .. K /\ n + 1 \in 0 .. K
      BY <2>2
    <3>2. H[n + 1] = PassNext(H[n])
      BY <3>1, Zenon DEF Orbit
    <3>3. G[n] = H[n] /\ G[n + 1] = H[n + 1]
      BY <1>1, <3>1, Zenon
    <3> QED BY <3>2, <3>3, Zenon
  <2> QED BY <2>1, <2>2, Zenon
<1>3. 0 \in 0 .. K
  OBVIOUS
<1>4. G[0] = H[0]
  BY <1>1, <1>3, Zenon
<1>5. G[0] = PassStart
  BY <1>4, Zenon DEF Orbit
<1>6. Orbit(G, K + 1)
  BY <1>2, <1>5, Zenon DEF Orbit
<1> QED BY <1>1, <1>4, <1>6, Zenon DEF G

(* A pass that has come to h. *)
ComeTo(h, p, L, t) == \E G, M, m : Orbit(G, M) /\ Along(G, M, p, m, L, t) /\ G[m] = h

(* One step further within a pass. *)
LEMMA Further ==
  ASSUME NEW H, NEW K, NEW p, NEW q, NEW L, NEW t, NEW t2, Orbit(H, K), Along(H, K, p, q, L, t),
         NEW h, h = PassNext(H[q]), ~AtPass(h), Grown(H[q].rec, h.rec, t, t2)
  PROVE  ComeTo(h, p, L, t2)
<1>1. /\ K \in Nat /\ p \in Nat /\ q \in Nat /\ (p = 0 => q = K) /\ (p > 0 => q < K) /\ (p = 0 \/ p > 0)
  BY AlongFacts, Zenon
<1>2. CASE p = 0
  <2>1. q = K
    BY <1>1, <1>2, Zenon
  <2>2. Orbit(Longer(H, K, h), K + 1) /\ Longer(H, K, h)[K + 1] = h
    <3>1. h = PassNext(H[K]) /\ K \in Nat
      BY <1>1, <2>1, Zenon
    <3>2. Orbit(Longer(H, K, h), K + 1)
      BY <3>1, LongerOrbit, Zenon
    <3>3. Longer(H, K, h)[K + 1] = h
      BY <1>1 DEF Longer
    <3> QED BY <3>2, <3>3, Zenon
  <2>3. Along(Longer(H, K, h), K + 1, 0, K + 1, L, t2)
    BY <1>2, <2>1, FirstPass, Zenon
  <2> QED BY <1>2, <2>2, <2>3, Zenon DEF ComeTo
<1>3. CASE p > 0
  <2>1. q \in 0 .. K - 1
    BY <1>1, <1>3
  <2>2. H[q + 1] = h
    BY <2>1, Zenon DEF Orbit
  <2>3. Along(H, K, p, q + 1, L, t2)
    BY <1>3, <2>2, LaterPass, Zenon
  <2> QED BY <2>2, <2>3, Zenon DEF ComeTo
<1> QED BY <1>1, <1>2, <1>3, Zenon

(* From the end of a pass to the start of the next. *)
LEMMA Around ==
  ASSUME NEW H, NEW K, NEW p, NEW q, NEW L, NEW t, Orbit(H, K), Along(H, K, p, q, L, t),
         NEW h, h = PassNext(H[q]), AtPass(h),
         NEW e \in Entry, e.what = "repend", h.rec = Append(H[q].rec, e)
  PROVE  \E l : ComeTo(PassStart, p + 1, l, Append(t, e))
<1>1. /\ K \in Nat /\ p \in Nat /\ q \in Nat /\ (p = 0 => q = K) /\ (p > 0 => q < K) /\ (p = 0 \/ p > 0)
  BY AlongFacts, Zenon
<1>2. CASE p = 0
  <2>1. q = K
    BY <1>1, <1>2, Zenon
  <2>2. Orbit(Longer(H, K, h), K + 1)
    BY <1>1, <2>1, LongerOrbit, Zenon
  <2>3. Along(Longer(H, K, h), K + 1, 1, 0, Len(h.rec), Append(t, e))
    BY <1>2, <2>1, FirstPassEnds, Zenon
  <2>4. 0 + 1 = 1
    OBVIOUS
  <2>5. Longer(H, K, h)[0] = PassStart
    BY <2>2, Zenon DEF Orbit
  <2>6. Along(Longer(H, K, h), K + 1, p + 1, 0, Len(h.rec), Append(t, e))
    BY <1>2, <2>3, <2>4, Zenon
  <2>7. ComeTo(PassStart, p + 1, Len(h.rec), Append(t, e))
    BY <2>2, <2>5, <2>6, Zenon DEF ComeTo
  <2> QED BY <2>7, Zenon
<1>3. CASE p > 0
  <2>1. q \in 0 .. K - 1
    BY <1>1, <1>3
  <2>2. H[q + 1] = h
    BY <2>1, Zenon DEF Orbit
  <2>3. Along(H, K, p + 1, 0, L, Append(t, e))
    BY <1>3, <2>2, LaterPassEnds, Zenon
  <2> QED BY <2>3, Zenon DEF Orbit, ComeTo
<1> QED BY <1>1, <1>2, <1>3, Zenon

(* A pass is only left where it began. *)
LEMMA BackAtStart ==
  ASSUME NEW H, NEW K, NEW p, NEW q, NEW L, NEW t, Along(H, K, p, q, L, t), AtPass(H[q])
  PROVE  q = 0 /\ EndsWith(t, p * L, <<>>) /\ Whole(t, p, L)
<1>1. /\ K \in Nat /\ p \in Nat /\ q \in Nat /\ q <= K /\ (p = 0 => q = K) /\ (p > 0 => q < K)
  BY AlongFacts, Zenon
<1>2. \A n \in 1 .. K : AtPass(H[n]) => p > 0 /\ n = K
  BY Zenon DEF Along
<1>3. q = 0
  <2> SUFFICES ASSUME q # 0 PROVE FALSE
    BY Zenon
  <2>1. q \in 1 .. K
    BY <1>1
  <2>2. p > 0 /\ q = K
    BY <1>2, <2>1, Zenon
  <2> QED BY <1>1, <2>2
<1>4. H[0].rec = <<>> /\ EndsWith(t, p * L, H[q].rec) /\ Whole(t, p, L)
  BY Zenon DEF Along
<1> QED BY <1>3, <1>4, Zenon

(* The steps of a pass depend on nothing that changes during the passes. *)
LEMMA SameOrbit ==
  ASSUME UNCHANGED Frozen, NEW H, NEW K, Orbit(H, K)
  PROVE  Orbit(H, K)'
<1>1. ASSUME NEW v PROVE NextView(v)' = NextView(v) /\ ViewCalls(v)' = ViewCalls(v)
  <2>1. nitems' = nitems /\ hashtable' = hashtable /\ next' = next /\ ikey' = ikey /\ clsid' = clsid
    BY DEF Frozen
  <2>2. KeepsWalking(v)' = KeepsWalking(v) /\ MoreOfReply(v)' = MoreOfReply(v) /\ ChunkCall(v)' = ChunkCall(v)
    BY <2>1 DEF KeepsWalking, MoreOfReply, ChunkCall, CacheCall
  <2>3. NextView(v)' = NextView(v)
    BY <2>1, <2>2 DEF NextView, ViewAt
  <2>4. ViewCalls(v)' = ViewCalls(v)
    BY <2>1, <2>2 DEF ViewCalls, CacheCall
  <2> QED BY <2>3, <2>4
<1>2. ASSUME NEW h PROVE PassNext(h)' = PassNext(h)
  BY <1>1, Zenon DEF PassNext
<1>3. PassStart' = PassStart
  BY DEF PassStart, ViewAt
<1>4. H[0] = PassStart /\ \A n \in 0 .. K - 1 : H[n + 1] = PassNext(H[n])
  BY Zenon DEF Orbit
<1>5. \A n \in 0 .. K - 1 : H[n + 1] = PassNext(H[n])'
  BY <1>2, <1>4, Zenon
<1> QED BY <1>3, <1>4, <1>5, Zenon DEF Orbit

-----------------------------------------------------------------------------
(* The passes of a run. *)

(* main before its first pass, the call of its last step before it         *)
(* included.                                                               *)
Unstarted == mpc \in Starting \/ (mpc = "pass" /\ calls = <<MainCall>>)

Follows(H, K, p, q, L) ==
  /\ Orbit(H, K) /\ Along(H, K, p, q, L, seen)
  /\ View = H[q].v /\ calls = H[q].calls /\ AccessTrackingOn = H[q].on
  /\ j = IF mpc = "pass" /\ calls # <<>> THEN p + 1 ELSE p

InStep == \E H, K, p, q, L : Follows(H, K, p, q, L)

CallsFit ==
  /\ mpc = "pass" => calls \in {<<>>, <<Do("repend")>>, <<MainCall>>}
  /\ mpc = "exit" => calls \in {<<>>, <<MainCall>>}
  /\ mpc # "pass" => \A n \in 1 .. Len(calls) : calls[n].what # "repend"

(* p times the same entries. *)
Copies(t, p) ==
  \E L \in Nat : Len(t) = p * L /\ Whole(t, p, L) /\ (p > 0 => L > 0)

Repeating ==
  /\ RequestKept /\ CallsFit
  /\ Unstarted => j = 0 /\ seen = <<>>
  /\ InPass /\ ~Unstarted => InStep
  /\ mpc = "exit" => Copies(seen, npasses)
  /\ ppc \in {"fini", "closed"} => mpc \in {"exit", "aborted"} \/ pc = "crashed"

LEMMA RepeatingInit == TInit => Repeating
<1> SUFFICES ASSUME TInit PROVE Repeating
  OBVIOUS
<1>1. mpc = "wrapper_init" /\ j = 0 /\ calls = <<>> /\ Len(calls) = 0 /\ seen = <<>>
  BY DEF TInit, WInit, PinInit
<1>2. ppc = "run"
  BY DEF TInit, PinInit
<1> QED BY <1>1, <1>2 DEF Repeating, RequestKept, CallsFit, Unstarted, InPass

(* Steps that are not the program's. *)
LEMMA RepeatingFrame ==
  ASSUME Repeating, UNCHANGED <<allVars, calls, seen, AccessTrackingOn>>,
         ppc' \in {"fini", "closed"} => ppc \in {"fini", "closed"} \/ mpc \in {"exit", "aborted"} \/ pc = "crashed"
  PROVE  Repeating'
<1>1. /\ mpc' = mpc /\ pc' = pc /\ i' = i /\ it' = it /\ j' = j /\ bytes_dec' = bytes_dec
      /\ bytes_enc' = bytes_enc /\ enclen' = enclen /\ npasses' = npasses
      /\ calls' = calls /\ seen' = seen /\ AccessTrackingOn' = AccessTrackingOn
      /\ UNCHANGED Frozen
  BY DEF allVars, vars, slabVars, cacheVars, mainVars, Frozen
<1>2. View' = View
  BY <1>1 DEF View, MainRep
<1>3. InStep => InStep'
  <2> SUFFICES ASSUME NEW H, NEW K, NEW p, NEW q, NEW L, Follows(H, K, p, q, L)
               PROVE  Follows(H, K, p, q, L)'
    BY Zenon DEF InStep
  <2>1. Orbit(H, K)'
    BY <1>1, SameOrbit, Zenon DEF Follows
  <2>2. Along(H, K, p, q, L, seen)'
    BY <1>1, Zenon DEF Follows
  <2> QED BY <1>1, <1>2, <2>1, <2>2, Zenon DEF Follows
<1>4. (Unstarted' <=> Unstarted) /\ (InPass' <=> InPass)
  BY <1>1 DEF Unstarted, InPass, Starting, MainCall
<1>5. RequestKept' /\ CallsFit'
  BY <1>1 DEF Repeating, RequestKept, CallsFit, RequestSize, Do, MainCall
<1>6. mpc' = "exit" => Copies(seen, npasses)'
  BY <1>1 DEF Repeating, Copies
<1> QED BY <1>1, <1>3, <1>4, <1>5, <1>6, Zenon DEF Repeating

(* Before the first pass. *)
LEMMA StartingRepeats ==
  ASSUME TInv, Repeating, program_step, mpc \in Starting
  PROVE  Repeating'
<1>1. /\ WInv /\ Run /\ calls' = Instrumented /\ seen' = seen /\ ppc = "run" /\ ppc' = ppc
  BY DEF TInv, program_step, pinVars
<1>2. Plain /\ (mpc' \in Starting \/ mpc' = "pass")
  BY <1>1, ProgramMoves DEF Starting, Plain
<1>3. calls' = <<MainCall>>
  BY <1>1, <1>2, CallsOf
<1>4. j' = j
  BY <1>1 DEF Run, Main, InCache, mainVars, Starting, wrapper_init, set_value, set_done, sets_done,
     pass_start, encrypt_key, decrypt_block, call_cache_get, cache_get_done, encrypt_block,
     reply_done, get_done, pass_done, exit
<1>5. j = 0 /\ seen = <<>>
  BY DEF Repeating, Unstarted
<1>6. Unstarted'
  BY <1>2, <1>3 DEF Unstarted, MainCall, Starting
<1>7. mpc' # "decrypt" /\ mpc' # "exit"
  BY <1>2 DEF Starting
<1>8. Len(calls') = 1 /\ calls'[1].what # "repend" /\ 1 .. 1 = {1}
  BY <1>3 DEF MainCall
<1>9. CallsFit'
  BY <1>3, <1>7, <1>8 DEF CallsFit, MainCall
<1> QED BY <1>1, <1>4, <1>5, <1>6, <1>7, <1>9 DEF Repeating, RequestKept

(* The calls of a step within the passes. *)
LEMMA CallsOfPass ==
  ASSUME TInv, program_step, InPass
  PROVE  /\ mpc' \notin Starting
         /\ mpc' = "pass" => mpc = "get" /\ calls' = <<Do("repend")>>
         /\ mpc' = "exit" => mpc = "pass" /\ calls' = <<MainCall>>
         /\ CallsFit'
<1>1. /\ WInv /\ Run /\ calls' = Instrumented
  BY DEF TInv, program_step
<1>2. \A a : Wrapper(a).what # "repend"
  BY DEF Wrapper
<1>3. InTable.what # "repend" /\ InChunk.what # "repend" /\ MainCall.what # "repend"
  BY DEF InTable, InChunk, MainCall
<1>4. \A w : w # "repend" => Do(w).what # "repend"
  BY DEF Do
<1> DEFINE Goal == /\ mpc' \notin Starting
                   /\ mpc' = "pass" => mpc = "get" /\ calls' = <<Do("repend")>>
                   /\ mpc' = "exit" => mpc = "pass" /\ calls' = <<MainCall>>
                   /\ CallsFit'
<1>one. ASSUME NEW c, c.what # "repend", calls' = <<c>>, mpc' \notin {"pass", "exit"}
        PROVE  CallsFit'
  <2>1. Len(calls') = 1 /\ calls'[1] = c /\ 1 .. 1 = {1}
    BY <1>one
  <2> QED BY <1>one, <2>1 DEF CallsFit
<1>two. ASSUME NEW c, NEW d, c.what # "repend", d.what # "repend", calls' = <<c, d>>, mpc' \notin {"pass", "exit"}
        PROVE  CallsFit'
  <2>1. Len(calls') = 2 /\ calls'[1] = c /\ calls'[2] = d /\ 1 .. 2 = {1, 2}
    BY <1>two
  <2> QED BY <1>two, <2>1 DEF CallsFit
<1>three. ASSUME NEW c, NEW d, NEW e, c.what # "repend", d.what # "repend", e.what # "repend",
                 calls' = <<c, d, e>>, mpc' \notin {"pass", "exit"}
          PROVE  CallsFit'
  <2>1. Len(calls') = 3 /\ calls'[1] = c /\ calls'[2] = d /\ calls'[3] = e
    BY <1>three
  <2>2. 1 .. 3 = {1, 2, 3}
    OBVIOUS
  <2>3. \A n \in 1 .. Len(calls') : calls'[n].what # "repend"
    BY <1>three, <2>1, <2>2, Zenon
  <2> QED BY <1>three, <2>3 DEF CallsFit
<1>border. ASSUME NEW marker, NEW w, marker # "repend", w # "repend", mpc' \notin {"pass", "exit"},
                  NEW c, c.what # "repend",
                  \/ calls' = Boundary(marker, w)
                  \/ calls' = <<c>> \o Boundary(marker, w)
                  \/ calls' = Boundary(marker, w) \o <<c>>
           PROVE  CallsFit'
  <2>1. PICK d, e : /\ d = Do(marker) /\ e = OnStack(w)
                    /\ d.what # "repend" /\ e.what # "repend"
    <3>1. Do(marker).what = marker /\ OnStack(w).what = w
      BY DEF Do, OnStack
    <3> QED BY <1>border, <3>1, Zenon
  <2>2. /\ Boundary(marker, w) \in {<<d, e>>, <<e, d>>}
        /\ <<c>> \o Boundary(marker, w) \in {<<c, d, e>>, <<c, e, d>>}
        /\ Boundary(marker, w) \o <<c>> \in {<<d, e, c>>, <<e, d, c>>}
    BY <2>1, BordersAre
  <2>3. \/ calls' = <<d, e>> \/ calls' = <<e, d>>
        \/ calls' = <<c, d, e>> \/ calls' = <<c, e, d>> \/ calls' = <<d, e, c>> \/ calls' = <<e, d, c>>
    BY <1>border, <2>2
  <2>4. ASSUME NEW x, NEW y, x.what # "repend", y.what # "repend", calls' = <<x, y>> PROVE CallsFit'
    BY <1>border, <1>two, <2>4
  <2>5. ASSUME NEW x, NEW y, NEW z, x.what # "repend", y.what # "repend", z.what # "repend",
               calls' = <<x, y, z>>
        PROVE  CallsFit'
    BY <1>border, <1>three, <2>5
  <2> QED BY <1>border, <2>1, <2>3, <2>4, <2>5
<1>5. CASE mpc = "pass" /\ mpc' = "get"
  <2>1. calls' = <<Do("repstart")>> /\ Do("repstart").what # "repend"
    BY <1>1, <1>4, <1>5, CallsOf
  <2> QED BY <1>5, <1>one, <2>1 DEF Starting
<1>6. CASE mpc = "get" /\ mpc' = "pass"
  <2>1. calls' = <<Do("repend")>>
    BY <1>1, <1>6, CallsOf
  <2> QED BY <1>6, <2>1 DEF Starting, CallsFit, Do
<1>7. CASE mpc = "get" /\ mpc' = "decrypt"
  <2>1. calls' = <<MainCall>> \o Boundary("on", "wrapper")
    BY <1>1, <1>7, CallsOf DEF EnterWrapper
  <2> QED BY <1>3, <1>7, <1>border, <2>1 DEF Starting
<1>8. CASE mpc = "decrypt" /\ mpc' = "decrypt"
  <2>1. calls' = <<Wrapper(Message + bytes_dec)>>
    BY <1>1, <1>8, CallsOf
  <2> QED BY <1>2, <1>8, <1>one, <2>1 DEF Starting
<1>9. CASE mpc = "decrypt" /\ mpc' = "getting"
  <2>1. calls' = Boundary("switch_cache", "entry") \o <<InTable>>
    BY <1>1, <1>9, CallsOf DEF EnterCache
  <2> QED BY <1>3, <1>9, <1>border, <2>1 DEF Starting
<1>10. CASE mpc = "getting" /\ mpc' = "getting" /\ pc = "find" /\ pc' = "find"
  <2>1. calls' = <<InChunk>>
    BY <1>1, <1>10, CallsOf
  <2> QED BY <1>3, <1>10, <1>one, <2>1 DEF Starting
<1>11. CASE mpc = "getting" /\ mpc' = "getting" /\ pc = "find" /\ pc' = "idle"
  <2>1. \/ calls' = Boundary("switch_wrapper", "return")
        \/ calls' = <<InChunk>> \o Boundary("switch_wrapper", "return")
    BY <1>1, <1>11, CallsOf DEF LeaveCache
  <2>2. CallsFit'
    BY <1>3, <1>11, <1>border, <2>1
  <2> QED BY <1>11, <2>2 DEF Starting
<1>12. CASE mpc = "encrypt" /\ mpc' = "encrypt"
  <2>1. calls' = <<Wrapper(Reply + bytes_enc)>>
    BY <1>1, <1>12, CallsOf
  <2> QED BY <1>2, <1>12, <1>one, <2>1 DEF Starting
<1>13. CASE mpc \in {"getting", "encrypt"} /\ mpc' = "returned" /\ pc = "idle"
  <2>1. calls' = Boundary("off", "wrapper")
    BY <1>1, <1>13, CallsOf DEF LeaveWrapper
  <2>2. CallsFit'
    BY <1>3, <1>13, <1>border, <2>1
  <2> QED BY <1>13, <2>2 DEF Starting
<1>15. CASE mpc = "getting" /\ pc = "idle" /\ mpc' = "encrypt"
  <2>1. calls' = <<Wrapper(Reply)>>
    BY <1>1, <1>15, CallsOf
  <2> QED BY <1>2, <1>15, <1>one, <2>1 DEF Starting
<1>14. CASE Plain
  <2>1. calls' = <<MainCall>>
    BY <1>1, <1>14, CallsOf
  <2>2. mpc' \in {"exit", "get"} /\ (mpc' = "exit" => mpc = "pass")
    BY <1>14 DEF Plain, InPass, Starting
  <2>3. mpc' \notin Starting /\ mpc' # "pass"
    BY <2>2 DEF Starting
  <2>4. CallsFit'
    <3>1. CASE mpc' = "exit"
      <4>1. Len(calls') = 1 /\ calls'[1] = MainCall /\ 1 .. 1 = {1}
        BY <2>1
      <4> QED BY <1>3, <2>1, <3>1, <4>1 DEF CallsFit, MainCall
    <3>2. CASE mpc' # "exit"
      BY <1>3, <1>one, <2>1, <2>3, <3>2
    <3> QED BY <3>1, <3>2
  <2> QED BY <2>1, <2>2, <2>3, <2>4
<1> QED BY <1>1, <1>5, <1>6, <1>7, <1>8, <1>9, <1>10, <1>11, <1>12, <1>13, <1>14, <1>15, ProgramMoves

(* Within the passes. *)
LEMMA PassRepeats ==
  ASSUME TInv, Repeating, program_step, InPass, mpc' # "exit"
  PROVE  Repeating'
<1>1. /\ calls = <<>> /\ seen' = seen /\ AccessTrackingOn' = AccessTrackingOn /\ ppc = "run" /\ ppc' = ppc
      /\ RequestKept /\ InStep
  <2>1. /\ calls = <<>> /\ seen' = seen /\ AccessTrackingOn' = AccessTrackingOn /\ ppc = "run" /\ ppc' = ppc
    BY DEF program_step, pinVars
  <2>2. ~Unstarted
    BY <2>1 DEF Unstarted, InPass, Starting
  <2> QED BY <2>1, <2>2 DEF Repeating
<1>2. /\ View' = NextView(View) /\ calls' = ViewCalls(View)
      /\ UNCHANGED Frozen /\ RequestKept'
      /\ j' = IF mpc = "get" /\ mpc' = "pass" THEN j + 1 ELSE j
  BY <1>1, ProgramFollows, Zenon
<1>3. /\ mpc' \notin Starting
      /\ mpc' = "pass" => mpc = "get" /\ calls' = <<Do("repend")>>
      /\ CallsFit'
  BY CallsOfPass, Zenon
<1>4. PICK H, K, p, q, L : Follows(H, K, p, q, L)
  BY <1>1, Zenon DEF InStep
<1>5. /\ Orbit(H, K) /\ Along(H, K, p, q, L, seen)
      /\ View = H[q].v /\ calls = H[q].calls /\ AccessTrackingOn = H[q].on
      /\ j = IF mpc = "pass" /\ calls # <<>> THEN p + 1 ELSE p
  BY <1>4, Zenon DEF Follows
<1>6. PICK h : h = PassNext(H[q])
  OBVIOUS
<1>7. /\ h.v = NextView(H[q].v) /\ h.calls = ViewCalls(H[q].v) /\ h.on = H[q].on /\ h.rec = H[q].rec
  BY <1>1, <1>5, <1>6 DEF PassNext
<1>8. View' = h.v /\ calls' = h.calls /\ AccessTrackingOn' = h.on
  BY <1>1, <1>2, <1>5, <1>7, Zenon
<1>9. mpc' = "pass" => calls' # <<>>
  BY <1>3
<1>10. ~AtPass(h)
  <2>1. View'.mpc = mpc'
    BY DEF View
  <2> QED BY <1>8, <1>9, <2>1, Zenon DEF AtPass
<1>11. Grown(H[q].rec, h.rec, seen, seen)
  BY <1>7, Zenon DEF Grown
<1>12. PICK G, M, m : Orbit(G, M) /\ Along(G, M, p, m, L, seen) /\ G[m] = h
  <2>1. ComeTo(h, p, L, seen)
    BY <1>5, <1>6, <1>10, <1>11, Further, Zenon
  <2> QED BY <2>1, Zenon DEF ComeTo
<1>13. Orbit(G, M)'
  BY <1>2, <1>12, SameOrbit, Zenon
<1>14. j = p
  BY <1>1, <1>5, Zenon
<1>15. j' = IF mpc' = "pass" /\ calls' # <<>> THEN p + 1 ELSE p
  BY <1>2, <1>3, <1>9, <1>14, Zenon
<1>16. Follows(G, M, p, m, L)'
  BY <1>1, <1>8, <1>12, <1>13, <1>15, Zenon DEF Follows
<1>17. InStep'
  BY <1>16, Zenon DEF InStep
<1>18. ~Unstarted'
  BY <1>3 DEF Unstarted, Do, MainCall
<1> QED BY <1>1, <1>2, <1>3, <1>17, <1>18, Zenon DEF Repeating

LEMMA ExitRepeats ==
  ASSUME TInv, Repeating, program_step, InPass, mpc' = "exit"
  PROVE  Repeating'
<1>1. /\ calls = <<>> /\ seen' = seen /\ ppc = "run" /\ ppc' = ppc /\ InStep
  <2>1. /\ calls = <<>> /\ seen' = seen /\ ppc = "run" /\ ppc' = ppc
    BY DEF program_step, pinVars
  <2>2. ~Unstarted
    BY <2>1 DEF Unstarted, InPass, Starting
  <2> QED BY <2>1, <2>2 DEF Repeating
<1>2. mpc = "pass" /\ CallsFit'
  BY CallsOfPass, Zenon
<1>3. j = npasses /\ npasses' = npasses
  BY <1>2 DEF program_step, Run, Main, InCache, mainVars, wrapper_init, set_value, set_done, sets_done,
     pass_start, encrypt_key, decrypt_block, call_cache_get, cache_get_done, encrypt_block,
     reply_done, get_done, pass_done, exit
<1>4. PICK H, K, p, q, L : Follows(H, K, p, q, L)
  BY <1>1, Zenon DEF InStep
<1>5. /\ Along(H, K, p, q, L, seen) /\ View = H[q].v /\ calls = H[q].calls
      /\ j = IF mpc = "pass" /\ calls # <<>> THEN p + 1 ELSE p
  BY <1>4, Zenon DEF Follows
<1>6. p = npasses
  BY <1>1, <1>3, <1>5, Zenon
<1>7. AtPass(H[q])
  <2>1. View.mpc = mpc
    BY DEF View
  <2> QED BY <1>1, <1>2, <1>5, <2>1, Zenon DEF AtPass
<1>8. EndsWith(seen, p * L, <<>>) /\ Whole(seen, p, L)
  BY <1>5, <1>7, BackAtStart, Zenon
<1>9. p \in Nat /\ L \in Nat /\ (p > 0 => L > 0)
  BY <1>5, AlongFacts, Zenon
<1>10. Len(seen) = p * L
  <2>1. p * L \in Nat
    BY <1>9, Products
  <2>2. Len(seen) = p * L + Len(<<>>) /\ Len(<<>>) = 0
    BY <1>8 DEF EndsWith
  <2> QED BY <2>1, <2>2
<1>11. Copies(seen, p)
  BY <1>8, <1>9, <1>10, Zenon DEF Copies
<1>12. Copies(seen, npasses)'
  BY <1>1, <1>3, <1>6, <1>11, Zenon
<1>13. ~Unstarted' /\ ~InPass' /\ mpc' # "decrypt"
  BY DEF Unstarted, InPass, Starting
<1> QED BY <1>1, <1>2, <1>12, <1>13 DEF Repeating, RequestKept

(* The tool's part. *)
LEMMA FirstPassBegins ==
  ASSUME TInv, TInv', Repeating, analysis_routine, mpc = "pass", calls = <<MainCall>>
  PROVE  Repeating'
<1>1. /\ UNCHANGED allVars /\ calls' = <<>>
      /\ mpc' = "pass" /\ pc' = "idle" /\ j' = 0
  <2>1. /\ UNCHANGED allVars /\ calls' = Tail(calls)
    BY DEF analysis_routine
  <2>2. pc = "idle" /\ j = 0
    BY DEF TInv, WInv, Where, Repeating, Unstarted
  <2> QED BY <2>1, <2>2 DEF allVars, vars, mainVars
<1>2. AccessTrackingOn \in BOOLEAN /\ ~AccessTrackingOn
  <2>1. ~MainOn
    BY DEF MainOn
  <2>2. Len(calls) = 1 /\ calls[1].what = "main" /\ calls # <<>>
    BY DEF MainCall
  <2> QED BY <2>1, <2>2 DEF TInv, Recorded, Leads, LeadsTo, After1, Arrived, OnAfter
<1>3. AccessTrackingOn' \in BOOLEAN /\ ~AccessTrackingOn'
  <2>1. calls[1].what = "main"
    BY DEF MainCall
  <2> QED BY <1>2, <2>1, AnalysisStep DEF OnAfter
<1>4. seen' = <<>> /\ ppc' \notin {"fini", "closed"}
  <2>1. calls[1].what = "main" /\ "main" \in Code
    BY DEF MainCall, Code
  <2>2. seen' = seen /\ ppc' \in {"run", "flush"}
    BY <1>2, <2>1, AnalysisStep
  <2> QED BY <2>2 DEF Repeating, Unstarted
<1> DEFINE H == [n \in {0} |-> PassStart]
<1>5. H[0] = PassStart
  OBVIOUS
<1>6. PassStart.v = ViewAt("pass", "idle", 0, NULL, 0, 0) /\ PassStart.calls = <<>> /\ PassStart.rec = <<>>
      /\ PassStart.v.mpc = "pass"
  BY DEF PassStart, ViewAt
<1>7. PassStart.on = FALSE
  BY Zenon DEF PassStart
<1> HIDE DEF H
<1>8. Orbit(H, 0)'
  <2>1. \A n \in 0 .. 0 - 1 : FALSE
    OBVIOUS
  <2>2. PassStart' = PassStart
    BY DEF PassStart, ViewAt
  <2>3. H' = H
    BY <2>2 DEF H
  <2> QED BY <1>5, <2>1, <2>2, <2>3 DEF Orbit
<1>9. Along(H, 0, 0, 0, 0, <<>>)
  <2>1. 0 \in Nat /\ 0 \in 0 .. 0 /\ (\A n \in 1 .. 0 : FALSE) /\ ~(0 > 0) /\ 0 * 0 = 0
    OBVIOUS
  <2>2. Len(<<>>) = 0 /\ <<>> \in Seq(Entry)
    OBVIOUS
  <2>3. Clean(<<>>)
    BY <2>1, <2>2 DEF Clean
  <2>4. EndsWith(<<>>, 0 * 0, <<>>)
    BY <2>1, <2>2, EndsEmpty
  <2>5. Whole(<<>>, 0, 0)
    <3>1. \A n \in Nat : ~(1 <= n /\ n <= 0) /\ ~(1 <= n /\ n + 0 <= 0)
      OBVIOUS
    <3> QED BY <2>1, <3>1 DEF Whole
  <2> QED BY <1>5, <1>6, <2>1, <2>3, <2>4, <2>5, Zenon DEF Along
<1>10. View' = PassStart.v
  BY <1>1, <1>6 DEF View, ViewAt, MainRep
<1>11. Follows(H, 0, 0, 0, 0)'
  <2>1. H' = H
    <3>1. PassStart' = PassStart
      BY DEF PassStart, ViewAt
    <3> QED BY <3>1 DEF H
  <2>2. AccessTrackingOn' = FALSE
    BY <1>3, Zenon
  <2> QED BY <1>1, <1>4, <1>5, <1>6, <1>7, <1>8, <1>9, <1>10, <2>1, <2>2, Zenon DEF Follows
<1>12. InStep'
  <2>1. PICK G : G = H
    OBVIOUS
  <2>2. H' = H
    <3>1. PassStart' = PassStart
      BY DEF PassStart, ViewAt
    <3> QED BY <3>1 DEF H
  <2>3. Follows(G, 0, 0, 0, 0)'
    BY <1>11, <2>1, <2>2, Zenon
  <2> QED BY <2>3, Zenon DEF InStep
<1>13. ~Unstarted'
  BY <1>1 DEF Unstarted, Starting
<1>14. CallsFit' /\ RequestKept'
  BY <1>1 DEF CallsFit, RequestKept
<1> QED BY <1>1, <1>4, <1>12, <1>13, <1>14 DEF Repeating

(* A call within a pass. *)
LEMMA CallRepeats ==
  ASSUME TInv, Repeating, analysis_routine, InPass, mpc # "pass"
  PROVE  Repeating'
<1>1. /\ UNCHANGED allVars /\ calls # <<>> /\ calls' = Tail(calls) /\ Recorded /\ InStep
      /\ AccessTrackingOn \in BOOLEAN /\ mpc \notin Starting
  <2>1. mpc \notin Starting
    BY DEF InPass, Starting
  <2>2. ~Unstarted
    BY <2>1 DEF Unstarted
  <2> QED BY <2>1, <2>2 DEF analysis_routine, Repeating, TInv, Recorded
<1>2. /\ mpc' = mpc /\ pc' = pc /\ i' = i /\ it' = it /\ j' = j /\ bytes_dec' = bytes_dec
      /\ bytes_enc' = bytes_enc /\ enclen' = enclen /\ npasses' = npasses /\ UNCHANGED Frozen
  BY <1>1 DEF allVars, vars, slabVars, cacheVars, mainVars, Frozen
<1>3. View' = View
  BY <1>2 DEF View, MainRep
<1>4. /\ Head(calls) = calls[1] /\ Len(calls) \in {1, 2, 3}
      /\ Len(calls) = 1 => calls' = <<>> /\ Len(calls') = 0
      /\ Len(calls) = 2 => Len(calls') = 1 /\ calls'[1] = calls[2]
      /\ Len(calls) = 3 => Len(calls') = 2 /\ calls'[1] = calls[2] /\ calls'[2] = calls[3]
  BY <1>1, NextCall, CallsLeft, Zenon
<1> DEFINE c == calls[1]
<1>5. c.what # "repend" /\ CallsFit'
  <2>1. \A n \in 1 .. Len(calls) : calls[n].what # "repend"
    BY DEF Repeating, CallsFit
  <2>2. CASE Len(calls) = 1
    <3>1. 1 \in 1 .. 1 /\ Len(calls') = 0 /\ \A n \in 1 .. 0 : FALSE
      BY <1>4, <2>2
    <3> QED BY <1>1, <1>2, <1>4, <2>1, <2>2, <3>1 DEF CallsFit
  <2>3. CASE Len(calls) = 2
    <3>1. 1 \in 1 .. 2 /\ 2 \in 1 .. 2 /\ Len(calls') = 1 /\ 1 .. 1 = {1}
      BY <1>4, <2>3
    <3>2. calls'[1] = calls[2] /\ mpc' # "exit"
      BY <1>2, <1>4, <2>3 DEF InPass
    <3> QED BY <1>2, <2>1, <2>3, <3>1, <3>2 DEF CallsFit
  <2>4. CASE Len(calls) = 3
    <3>1. 1 \in 1 .. 3 /\ 2 \in 1 .. 3 /\ 3 \in 1 .. 3 /\ Len(calls') = 2 /\ 1 .. 2 = {1, 2}
      BY <1>4, <2>4
    <3>2. calls'[1] = calls[2] /\ calls'[2] = calls[3] /\ mpc' # "exit"
      BY <1>2, <1>4, <2>4 DEF InPass
    <3> QED BY <1>2, <2>1, <2>4, <3>1, <3>2 DEF CallsFit
  <2> QED BY <1>4, <2>2, <2>3, <2>4
<1>6. /\ AccessTrackingOn' \in BOOLEAN /\ ppc' \in {"run", "flush"}
      /\ AccessTrackingOn' <=> OnAfter(c.what, AccessTrackingOn)
      /\ \/ /\ seen' = seen
            /\ c.what \in Code => ~AccessTrackingOn
            /\ c.what \in Code \cup {"on", "off"}
         \/ /\ c \in Entry /\ seen' = Append(seen, c)
            /\ c.what \in Code => AccessTrackingOn
  BY AnalysisStep, Zenon
<1>7. PICK H, K, p, q, L : Follows(H, K, p, q, L)
  BY <1>1, Zenon DEF InStep
<1>8. /\ Orbit(H, K) /\ Along(H, K, p, q, L, seen)
      /\ View = H[q].v /\ calls = H[q].calls /\ AccessTrackingOn = H[q].on /\ j = p
  BY <1>7, Zenon DEF Follows
<1>9. PICK g : g = PassNext(H[q])
  OBVIOUS
<1>10. /\ g.v = H[q].v /\ g.calls = Tail(H[q].calls) /\ g.on = OnAfter(Head(H[q].calls).what, H[q].on)
       /\ g.rec = IF Noted(Head(H[q].calls), H[q].on) THEN Append(H[q].rec, Head(H[q].calls)) ELSE H[q].rec
  <2>1. H[q].calls # <<>>
    BY <1>1, <1>8, Zenon
  <2> QED BY <1>9, <2>1, Zenon DEF PassNext
<1>11. View' = g.v /\ calls' = g.calls
  BY <1>1, <1>3, <1>8, <1>10, Zenon
<1>12. AccessTrackingOn' = g.on
  <2>1. g.on = OnAfter(c.what, AccessTrackingOn)
    BY <1>4, <1>8, <1>10, Zenon
  <2>2. OnAfter(c.what, AccessTrackingOn) \in BOOLEAN
    BY Zenon DEF OnAfter
  <2> QED BY <1>6, <2>1, <2>2, Zenon
<1>13. g.rec = IF Noted(c, AccessTrackingOn) THEN Append(H[q].rec, c) ELSE H[q].rec
  BY <1>4, <1>8, <1>10, Zenon
<1>14. Grown(H[q].rec, g.rec, seen, seen')
  <2>1. CASE /\ seen' = seen
             /\ c.what \in Code => ~AccessTrackingOn
             /\ c.what \in Code \cup {"on", "off"}
    <3>1. ~Noted(c, AccessTrackingOn)
      BY <2>1 DEF Noted, Code, Marker
    <3> QED BY <1>13, <2>1, <3>1, Zenon DEF Grown
  <2>2. CASE /\ c \in Entry /\ seen' = Append(seen, c)
             /\ c.what \in Code => AccessTrackingOn
    <3>1. c.what \in Marker \cup Code
      BY <2>2 DEF Entry
    <3>2. Noted(c, AccessTrackingOn)
      BY <2>2, <3>1, Zenon DEF Noted
    <3> QED BY <1>5, <1>13, <2>2, <3>2, Zenon DEF Grown
  <2> QED BY <1>6, <2>1, <2>2, Zenon
<1>15. ~AtPass(g)
  <2>1. View.mpc = mpc
    BY DEF View
  <2> QED BY <1>8, <1>10, <2>1, Zenon DEF AtPass
<1>16. PICK G, M, m : Orbit(G, M) /\ Along(G, M, p, m, L, seen') /\ G[m] = g
  <2>1. ComeTo(g, p, L, seen')
    BY <1>8, <1>9, <1>14, <1>15, Further, Zenon
  <2> QED BY <2>1, Zenon DEF ComeTo
<1>17. Orbit(G, M)'
  BY <1>2, <1>16, SameOrbit, Zenon
<1>18. Follows(G, M, p, m, L)'
  BY <1>2, <1>8, <1>11, <1>12, <1>16, <1>17, Zenon DEF Follows
<1>19. InStep'
  BY <1>18, Zenon DEF InStep
<1>20. ~Unstarted' /\ mpc' # "exit"
  BY <1>1, <1>2 DEF Unstarted, InPass, Starting
<1>21. RequestKept' /\ ppc' \notin {"fini", "closed"}
  BY <1>2, <1>6 DEF Repeating, RequestKept, RequestSize
<1> QED BY <1>5, <1>19, <1>20, <1>21, Zenon DEF Repeating

(* The call that ends a pass. *)
LEMMA EndRepeats ==
  ASSUME TInv, TInv', Repeating, analysis_routine, mpc = "pass", calls = <<Do("repend")>>
  PROVE  Repeating'
<1>1. /\ UNCHANGED allVars /\ calls' = <<>> /\ calls # <<>>
      /\ Head(calls) = Do("repend") /\ calls[1] = Do("repend") /\ Do("repend").what = "repend"
      /\ Tail(calls) = <<>>
  BY DEF analysis_routine, Do
<1>2. /\ mpc' = "pass" /\ pc' = pc /\ i' = i /\ it' = it /\ j' = j /\ npasses' = npasses /\ UNCHANGED Frozen
  BY <1>1 DEF allVars, vars, slabVars, cacheVars, mainVars, Frozen
<1>3. InStep /\ pc = "idle"
  <2>1. ~Unstarted /\ InPass
    BY DEF Unstarted, InPass, Starting, Do, MainCall
  <2> QED BY <2>1 DEF Repeating, TInv, WInv, Where
<1> DEFINE e == Do("repend")
<1>4. e \in Entry /\ seen' = Append(seen, e) /\ ppc' \in {"run", "flush"}
  <2>1. calls[1].what \notin Code \cup {"on", "off"}
    BY <1>1 DEF Code
  <2>2. calls[1] \in Entry /\ seen' = Append(seen, calls[1]) /\ ppc' \in {"run", "flush"}
    BY <2>1, AnalysisStep, Zenon
  <2> QED BY <1>1, <2>2, Zenon
<1>5. AccessTrackingOn' = FALSE
  <2>1. AccessTrackingOn' \in BOOLEAN /\ ~MainOn'
    BY <1>2 DEF TInv, Recorded, MainOn
  <2>2. Leads(calls, InRep(seen, Len(seen)), InComp(seen, Len(seen)), AccessTrackingOn)'
    BY DEF TInv, Recorded
  <2>3. ~AccessTrackingOn'
    <3>1. Len(<<>>) = 0
      OBVIOUS
    <3> QED BY <1>1, <2>1, <2>2, <3>1, Zenon DEF Leads, LeadsTo, Arrived
  <2> QED BY <2>1, <2>3, Zenon
<1>6. PICK H, K, p, q, L : Follows(H, K, p, q, L)
  BY <1>3, Zenon DEF InStep
<1>7. /\ Orbit(H, K) /\ Along(H, K, p, q, L, seen)
      /\ View = H[q].v /\ calls = H[q].calls /\ AccessTrackingOn = H[q].on /\ j = p + 1
  BY <1>1, <1>6, Zenon DEF Follows
<1> HIDE DEF e
<1>8. PICK g : g = PassNext(H[q])
  OBVIOUS
<1>9. /\ g.v = H[q].v /\ g.calls = <<>> /\ g.rec = Append(H[q].rec, e)
  <2>1. H[q].calls # <<>> /\ Head(H[q].calls) = e /\ Tail(H[q].calls) = <<>>
    BY <1>1, <1>7, Zenon DEF e
  <2>2. Noted(e, H[q].on)
    <3>1. e.what \in Marker
      BY <1>1 DEF Marker, e
    <3> QED BY <3>1, Zenon DEF Noted
  <2>3. PassNext(H[q]) = [v |-> H[q].v, calls |-> <<>>, on |-> OnAfter(e.what, H[q].on),
                          rec |-> Append(H[q].rec, e)]
    BY <2>1, <2>2, Zenon DEF PassNext
  <2> QED BY <1>8, <2>3
<1>10. AtPass(g)
  <2>1. View.mpc = mpc
    BY DEF View
  <2> QED BY <1>7, <1>9, <2>1, Zenon DEF AtPass
<1>11. e.what = "repend"
  BY <1>1 DEF e
<1>12. PICK l : ComeTo(PassStart, p + 1, l, seen')
  <2>1. \E l : ComeTo(PassStart, p + 1, l, Append(seen, e))
    BY <1>4, <1>7, <1>8, <1>9, <1>10, <1>11, Around, Zenon DEF e
  <2> QED BY <1>4, <2>1, Zenon DEF e
<1>13. PICK G, M, m : Orbit(G, M) /\ Along(G, M, p + 1, m, l, seen') /\ G[m] = PassStart
  BY <1>12, Zenon DEF ComeTo
<1>14. Orbit(G, M)'
  BY <1>2, <1>13, SameOrbit, Zenon
<1>15. PassStart.v = ViewAt("pass", "idle", 0, NULL, 0, 0) /\ PassStart.calls = <<>>
  BY DEF PassStart, ViewAt
<1>16. PassStart.on = FALSE
  BY Zenon DEF PassStart
<1>17. View' = PassStart.v
  BY <1>2, <1>3, <1>15 DEF View, ViewAt, MainRep
<1>18. Follows(G, M, p + 1, m, l)'
  BY <1>1, <1>2, <1>5, <1>7, <1>13, <1>14, <1>15, <1>16, <1>17, Zenon DEF Follows
<1>19. InStep'
  BY <1>18, Zenon DEF InStep
<1>20. ~Unstarted'
  BY <1>1, <1>2 DEF Unstarted, Starting
<1>21. CallsFit' /\ RequestKept'
  BY <1>1, <1>2 DEF CallsFit, RequestKept
<1> QED BY <1>2, <1>4, <1>19, <1>20, <1>21 DEF Repeating

LEMMA AnalysisRepeats ==
  ASSUME TInv, TInv', Repeating, analysis_routine
  PROVE  Repeating'
<1>1. CASE mpc = "pass"
  <2>1. calls \in {<<>>, <<Do("repend")>>, <<MainCall>>} /\ calls # <<>>
    BY <1>1 DEF Repeating, CallsFit, analysis_routine
  <2> QED BY <1>1, <2>1, FirstPassBegins, EndRepeats, Zenon
<1>2. CASE InPass /\ mpc # "pass"
  BY <1>2, CallRepeats
<1>3. CASE mpc \in Starting \cup {"exit"}
  <2>1. /\ UNCHANGED allVars /\ calls # <<>> /\ calls' = Tail(calls) /\ Recorded
    BY DEF analysis_routine, TInv
  <2>2. /\ mpc' = mpc /\ pc' = pc /\ j' = j /\ npasses' = npasses
    BY <2>1 DEF allVars, vars, mainVars
  <2>4. /\ mpc \in Starting => seen' = <<>> /\ \A n \in 1 .. Len(calls') : calls'[n].what \in Code
        /\ ppc' \in {"run", "flush"}
    BY <2>2, AnalysisStep DEF TInv, Early, Starting
  <2>5. CASE mpc \in Starting
    <3>1. \A w \in Code : w # "repend"
      BY DEF Code
    <3>2. CallsFit' /\ Unstarted' /\ ~InPass' /\ RequestKept' /\ mpc' # "exit"
      BY <2>2, <2>4, <2>5, <3>1 DEF CallsFit, Unstarted, InPass, Starting, RequestKept
    <3>3. j = 0
      BY <2>5 DEF Repeating, Unstarted
    <3> QED BY <2>2, <2>4, <2>5, <3>2, <3>3 DEF Repeating
  <2>6. CASE mpc = "exit"
    <3>1. calls = <<MainCall>>
      BY <2>1, <2>6 DEF Repeating, CallsFit
    <3>2. Len(calls) = 1 /\ calls[1].what = "main" /\ calls' = <<>> /\ Len(calls') = 0
      BY <2>1, <3>1 DEF MainCall
    <3>3. AccessTrackingOn \in BOOLEAN /\ ~AccessTrackingOn
      <4>1. ~MainOn
        BY <2>6 DEF MainOn
      <4> QED BY <3>2, <4>1 DEF TInv, Recorded, Leads, LeadsTo, After1, Arrived, OnAfter
    <3>4. seen' = seen
      <4>1. "main" \in Code
        BY DEF Code
      <4> QED BY <3>2, <3>3, <4>1, AnalysisStep
    <3>5. CallsFit' /\ ~Unstarted' /\ ~InPass' /\ RequestKept'
      BY <2>2, <2>6, <3>2 DEF CallsFit, Unstarted, InPass, Starting, RequestKept
    <3>6. Copies(seen, npasses)'
      BY <2>2, <2>6, <3>4 DEF Repeating, Copies
    <3> QED BY <2>2, <2>4, <2>6, <3>5, <3>6 DEF Repeating
  <2> QED BY <1>3, <2>5, <2>6
<1>4. mpc \in Starting \cup {"exit"} \/ InPass
  BY DEF TInv, WInv, WType, Starting, InPass
<1> QED BY <1>1, <1>2, <1>3, <1>4

LEMMA RepeatingNext ==
  ASSUME TInv, TInv', Repeating, [TNext]_tvars
  PROVE  Repeating'
<1>1. CASE program_step
  <2>1. mpc \in Starting \cup {"exit"} \/ InPass
    BY DEF TInv, WInv, WType, Starting, InPass
  <2>2. mpc # "exit"
    <3>1. WInv /\ Run
      BY <1>1 DEF TInv, program_step
    <3> QED BY <3>1, ProgramMoves DEF Plain, Starting
  <2> QED BY <1>1, <2>1, <2>2, StartingRepeats, PassRepeats, ExitRepeats
<1>2. CASE analysis_routine
  BY <1>2, AnalysisRepeats
<1>3. CASE flush
  <2>1. UNCHANGED allVars /\ calls' = calls /\ seen' = seen /\ AccessTrackingOn' = AccessTrackingOn
        /\ (ppc' = ppc \/ ppc' = "run")
    BY <1>3, Zenon DEF flush, flush_line, flush_done
  <2> QED BY <2>1, RepeatingFrame
<1>4. CASE fini \/ fini_skipped
  <2>1. UNCHANGED allVars /\ calls' = calls /\ seen' = seen /\ AccessTrackingOn' = AccessTrackingOn
        /\ (mpc \in {"exit", "aborted"} \/ pc = "crashed")
    BY <1>4, Zenon DEF fini, fini_skipped, Fini, fini_done
  <2> QED BY <2>1, RepeatingFrame
<1>5. CASE read \/ TDone \/ UNCHANGED tvars
  <2>1. UNCHANGED allVars /\ calls' = calls /\ UNCHANGED pinVars
    BY <1>5 DEF read, TDone, tvars
  <2>2. seen' = seen /\ AccessTrackingOn' = AccessTrackingOn /\ ppc' = ppc
    BY <2>1, Zenon DEF pinVars
  <2> QED BY <2>1, <2>2, RepeatingFrame
<1> QED BY <1>1, <1>2, <1>3, <1>4, <1>5 DEF TNext, TRun

(* What the tool leaves in its file repeats itself: a program that was not *)
(* stopped before its first pass has made npasses passes, and the file     *)
(* holds as many copies of one list of lines, each with its repetition's   *)
(* end marker as the last line and nowhere else.  main reads the same      *)
(* items in every pass and the cache does not move one of them.            *)
TraceRepeating == ppc = "closed" => PinLog = <<>> \/ Copies(PinLog, npasses)

(* What main.c and the Pin tool make together is a trace of npasses equal  *)
(* repetitions, wherever the buffers were flushed: what the warm-up of the *)
(* reader relies on.                                                       *)
THEOREM TraceRepeats == TSpec => [](TInv /\ Repeating /\ TraceRepeating)
<1>1. TInit => TInv /\ Repeating
  BY TInitTInv, RepeatingInit
<1>2. TInv /\ Repeating /\ [TNext]_tvars => (TInv /\ Repeating)'
  BY TNextTInv, RepeatingNext
<1>3. TInv /\ Repeating => TraceRepeating
  <2> SUFFICES ASSUME TInv, Repeating, ppc = "closed" PROVE PinLog = <<>> \/ Copies(PinLog, npasses)
    BY DEF TraceRepeating
  <2>1. PinLog = seen
    BY DEF TInv, FileComplete
  <2>2. mpc = "exit" \/ mpc \in Starting
    BY DEF Repeating, TInv, WInv, WType, Where, Starting
  <2>3. mpc \in Starting => seen = <<>>
    BY DEF Repeating, Unstarted
  <2> QED BY <2>1, <2>2, <2>3 DEF Repeating
<1> QED BY <1>1, <1>2, <1>3, PTL DEF TSpec

-----------------------------------------------------------------------------
(* The simulator reads the repeated trace.  A line takes Slots units of    *)
(* time: one for each page that the access on it spans, from 0 on, and one *)
(* for each line of the cache, from Half on.  What the simulator looks up  *)
(* at a time is thereby a function of the trace.                           *)

Lru == INSTANCE TlbCacheProofs WITH clock <- 0, used <- 0

Half == 100
Slots == 200

Slot(n, o) == n * Slots + o
LineAt(s) == s \div Slots
OffAt(s) == s % Slots

EntryAt(g, s) == g[LineAt(s) + 1]

(* An access is recorded on the line of the time s. *)
AccessAt(g, s) == LineAt(s) < Len(g) /\ EntryAt(g, s).what \in Code

PageTimes(g) == {s \in Nat : AccessAt(g, s) /\ OffAt(s) < Lru!Spanned(EntryAt(g, s).at, PageSize)}

LineTimes(g) ==
  {s \in Nat : AccessAt(g, s) /\ Half <= OffAt(s)
                              /\ OffAt(s) < Half + Lru!Spanned(EntryAt(g, s).at, LineSize)}

CompOf(e) == IF BetweenSwitches(e.what) THEN CACHE_COMPARTMENT_ID ELSE WRAPPER_COMPARTMENT_ID

BlockAt(e, o) ==
  IF o < Half THEN <<CompOf(e), e.at.addr \div PageSize + o>>
              ELSE <<0, e.at.addr \div LineSize + (o - Half)>>

BlockTimes(g) == [s \in Nat |-> BlockAt(EntryAt(g, s), OffAt(s))]

(* The lines with accesses, counted from 0. *)
DataLines(g) == {n \in Nat : n < Len(g) /\ g[n + 1].what \in Code}

(* The instance's assumptions are the reader's. *)
LEMMA LruAssumptions == Lru!GeometryAssumption /\ Lru!AccessAssumption
BY SimulatorAssumption DEF Lru!GeometryAssumption, Lru!AccessAssumption, Sim!CacheName, Lru!CacheName

LEMMA SameFinite ==
  ASSUME NEW S
  PROVE  Lru!IsFiniteSet(S) <=> IsFiniteSet(S)
BY DEF Lru!IsFiniteSet, IsFiniteSet

(* What is counted, in terms of bijections. *)
LEMMA CountIs ==
  ASSUME NEW M, NEW a, NEW b, NEW n \in Nat, ExistsBijection(1 .. n, Lru!Between(M, a, b))
  PROVE  Lru!Count(M, a, b) = n
<1> DEFINE S == Lru!Between(M, a, b)
<1>1. Lru!ExistsBijection(1 .. n, S)
  BY DEF ExistsBijection, Lru!ExistsBijection, Bijection, Lru!Bijection, Injection, Lru!Injection,
              IsInjective, Lru!IsInjective, Surjection, Lru!Surjection
<1> QED BY <1>1, LruAssumptions, Lru!FS_CountingElements DEF Lru!Count

LEMMA SameLookups ==
  /\ Sim!CacheName = Lru!CacheName
  /\ Sim!InHelper <=> Lru!InHelper
  /\ \A c, a : Sim!Misses(c, a) <=> Lru!Misses(c, a)
  /\ \A c, a : Sim!Touched(c, a) = Lru!Touched(c, a)
  /\ Sim!FirstLevel = Lru!FirstLevel /\ Sim!SecondLevel = Lru!SecondLevel /\ Sim!Here = Lru!Here
  /\ \A a, n : Sim!Spanned(a, n) = Lru!Spanned(a, n)
  /\ \A a, n : Sim!mixpageasid(a, n) = Lru!mixpageasid(a, n)
  /\ \A c, a : Sim!access_cache(c, a) = Lru!access_cache(c, a)
<1>1. Sim!CacheName = Lru!CacheName /\ (Sim!InHelper <=> Lru!InHelper) /\ Sim!Here = Lru!Here
  BY DEF Sim!CacheName, Lru!CacheName, Sim!InHelper, Lru!InHelper, Sim!Here, Lru!Here
<1>2. Sim!FirstLevel = Lru!FirstLevel /\ Sim!SecondLevel = Lru!SecondLevel
  BY DEF Sim!FirstLevel, Lru!FirstLevel, Sim!SecondLevel, Lru!SecondLevel, Sim!L1, Lru!L1, Sim!L1Tlb, Lru!L1Tlb
<1>3. \A a, n : Sim!Spanned(a, n) = Lru!Spanned(a, n) /\ Sim!mixpageasid(a, n) = Lru!mixpageasid(a, n)
  BY DEF Sim!Spanned, Lru!Spanned, Sim!mixpageasid, Lru!mixpageasid
<1>4. \A c : Sim!Ways(c) = Lru!Ways(c)
  BY DEF Sim!Ways, Lru!Ways
<1>5. \A c, a : Sim!SetOf(c, a) = Lru!SetOf(c, a) /\ Sim!TagOf(c, a) = Lru!TagOf(c, a)
  BY DEF Sim!SetOf, Lru!SetOf, Sim!TagOf, Lru!TagOf
<1>6. \A c, a : Sim!Misses(c, a) <=> Lru!Misses(c, a)
  BY <1>4, <1>5 DEF Sim!Misses, Lru!Misses, Sim!Hit, Lru!Hit
<1>7. \A c, w, t : Sim!Boosted(c, w, t) = Lru!Boosted(c, w, t)
  BY DEF Sim!Boosted, Lru!Boosted, Sim!IsIdx, Lru!IsIdx, Sim!Ways, Lru!Ways
<1>8. \A c, a : Sim!Touched(c, a) = Lru!Touched(c, a)
  BY <1>5, <1>7 DEF Sim!Touched, Lru!Touched
<1>9. \A c, a : Sim!access_cache(c, a) = Lru!access_cache(c, a)
  BY <1>5, <1>6 DEF Sim!access_cache, Lru!access_cache
<1> QED BY <1>1, <1>2, <1>3, <1>6, <1>8, <1>9

(* Both names mean the same simulator. *)
LEMMA SameSimulator ==
  /\ Sim!Init => Lru!Init
  /\ [Sim!Next]_(Sim!vars) => [Lru!Next]_(Lru!vars)
  /\ Sim!hit_first => Lru!hit_first
  /\ Sim!miss_first => Lru!miss_first
  /\ Sim!to_caches => Lru!to_caches
<1>1. Sim!hit_first => Lru!hit_first
  BY SameLookups DEF Sim!hit_first, Lru!hit_first
<1>2. Sim!miss_first => Lru!miss_first
  BY SameLookups DEF Sim!miss_first, Lru!miss_first, Sim!Counted, Lru!Counted
<1>3. Sim!to_caches => Lru!to_caches
  BY SameLookups DEF Sim!to_caches, Lru!to_caches
<1>4. \A a, x, y : Sim!cycle_access(a, x, y) => Lru!cycle_access(a, x, y)
  BY SameLookups DEF Sim!cycle_access, Lru!cycle_access
<1>5. (Sim!return => Lru!return) /\ (Sim!end_warmup => Lru!end_warmup)
  BY DEF Sim!return, Lru!return, Sim!end_warmup, Lru!end_warmup
<1>6. Sim!Next => Lru!Next
  BY <1>1, <1>2, <1>3, <1>4, <1>5 DEF Sim!Next, Lru!Next
<1>7. UNCHANGED Sim!vars => UNCHANGED Lru!vars
  BY DEF Sim!vars, Lru!vars
<1>8. Sim!Init => Lru!Init
  BY DEF Sim!Init, Lru!Init, Sim!CacheName, Lru!CacheName, Sim!Sets, Lru!Sets, Sim!Ways, Lru!Ways
<1> QED BY <1>1, <1>2, <1>3, <1>6, <1>7, <1>8

-----------------------------------------------------------------------------
(* Times and lines. *)

LEMMA SlotFacts ==
  ASSUME NEW n \in Nat, NEW o \in Nat
  PROVE  /\ Slot(n, o) \in Nat
         /\ Slot(n, o + 1) = Slot(n, o) + 1
         /\ o < Slots => LineAt(Slot(n, o)) = n /\ OffAt(Slot(n, o)) = o
BY DEF Slot, LineAt, OffAt, Slots

LEMMA SlotBetween ==
  ASSUME NEW n \in Nat, NEW o \in Nat, NEW q \in Nat, q <= Slots,
         NEW s \in Nat, Slot(n, o) <= s, s < Slot(n, q)
  PROVE  LineAt(s) = n /\ o <= OffAt(s) /\ OffAt(s) < q
BY DEF Slot, LineAt, OffAt, Slots

LEMMA DivStep ==
  ASSUME NEW n \in Nat \ {0}, NEW x \in Nat, NEW k \in Nat
  PROVE  /\ x \div n \in Nat /\ (x + k) \div n \in Nat
         /\ x \div n <= (x + k) \div n /\ (x + k) \div n <= x \div n + k
<1> DEFINE q == x \div n
           p == (x + k) \div n
<1>1. q \in Nat /\ p \in Nat /\ q <= p
  BY DivMonotone
<1>2. x < n * q + n /\ n * p <= x + k
  OBVIOUS
<1> HIDE DEF q, p
<1>3. p <= q + k
  <2> SUFFICES ASSUME ~(p <= q + k) PROVE FALSE
    OBVIOUS
  <2>1. PICK d \in Nat : p = (q + k + 1) + d
    <3>1. p - (q + k + 1) \in Nat /\ p = (q + k + 1) + (p - (q + k + 1))
      BY <1>1
    <3> QED BY <3>1
  <2>2. n * p = n * q + n * k + n + n * d
    BY <1>1, <2>1
  <2>3. n * d \in Nat /\ n * k \in Nat /\ n * q \in Nat /\ k <= n * k
    <3>1. PICK m \in Nat : n = m + 1
      <4>1. n - 1 \in Nat /\ n = (n - 1) + 1
        OBVIOUS
      <4> QED BY <4>1
    <3>2. n * k = m * k + k /\ m * k \in Nat
      BY <3>1
    <3>3. n * d \in Nat /\ n * k \in Nat /\ n * q \in Nat
      BY <1>1
    <3> QED BY <3>2, <3>3
  <2> DEFINE x1 == n * p
             x2 == n * q
             x3 == n * k
             x4 == n * d
  <2>4. /\ x1 = x2 + x3 + n + x4 /\ x4 \in Nat /\ x3 \in Nat /\ x2 \in Nat /\ k <= x3
        /\ x < x2 + n /\ x1 <= x + k
    BY <1>2, <2>2, <2>3
  <2> HIDE DEF x1, x2, x3, x4
  <2> QED BY <2>4
<1> QED BY <1>1, <1>3 DEF q, p

(* An access spans fewer blocks than Half. *)
LEMMA SpannedSmall ==
  ASSUME NEW a \in Access, NEW n \in Nat \ {0}
  PROVE  Lru!Spanned(a, n) \in Nat /\ 0 < Lru!Spanned(a, n) /\ Lru!Spanned(a, n) < Half
<1>1. a.addr \in Nat /\ a.size \in Nat /\ 0 < a.size /\ a.size < Half
  BY SimulatorAssumption DEF Half
<1>2. PICK k \in Nat : a.size = k + 1
  <2>1. a.size - 1 \in Nat /\ a.size = (a.size - 1) + 1
    BY <1>1
  <2> QED BY <2>1
<1> DEFINE x == a.addr
<1>3. Lru!Spanned(a, n) = (x + k) \div n - x \div n + 1
  <2>1. a.addr + a.size - 1 = x + k
    BY <1>1, <1>2
  <2> QED BY <2>1 DEF Lru!Spanned
<1>4. /\ x \div n \in Nat /\ (x + k) \div n \in Nat
      /\ x \div n <= (x + k) \div n /\ (x + k) \div n <= x \div n + k
  BY <1>1, DivStep
<1> DEFINE q == x \div n
           p == (x + k) \div n
<1>5. q \in Nat /\ p \in Nat /\ q <= p /\ p <= q + k /\ Lru!Spanned(a, n) = p - q + 1
  BY <1>3, <1>4
<1>6. Half \in Nat
  BY DEF Half
<1> HIDE DEF q, p, x
<1> QED BY <1>1, <1>2, <1>5, <1>6

LEMMA LineSpans ==
  ASSUME NEW g \in Seq(Entry), NEW n \in Nat, n < Len(g), g[n + 1].what \in Code
  PROVE  /\ g[n + 1].at \in Access
         /\ Lru!Spanned(g[n + 1].at, PageSize) \in Nat /\ Lru!Spanned(g[n + 1].at, PageSize) < Half
         /\ Lru!Spanned(g[n + 1].at, LineSize) \in Nat /\ Lru!Spanned(g[n + 1].at, LineSize) < Half
<1>1. n + 1 \in 1 .. Len(g)
  OBVIOUS
<1>2. g[n + 1] \in Entry
  BY <1>1
<1>3. g[n + 1].at \in Access
  BY <1>2 DEF Entry, Marker, Code
<1>4. PageSize \in Nat \ {0} /\ LineSize \in Nat \ {0}
  BY SimulatorAssumption
<1> QED BY <1>3, <1>4, SpannedSmall

(* Nothing is looked up on a line without an access, after the pages and   *)
(* before Half, and after the lines.                                       *)
LEMMA Quiet ==
  ASSUME NEW g \in Seq(Entry), NEW n \in Nat, n < Len(g), NEW o \in Nat, NEW q \in Nat, q <= Slots,
         g[n + 1].what \in Code =>
           /\ Lru!Spanned(g[n + 1].at, PageSize) <= o
           /\ q <= Half \/ Half + Lru!Spanned(g[n + 1].at, LineSize) <= o
  PROVE  \A s \in PageTimes(g) \cup LineTimes(g) : ~(Slot(n, o) <= s /\ s < Slot(n, q))
<1> SUFFICES ASSUME NEW s \in PageTimes(g) \cup LineTimes(g), Slot(n, o) <= s, s < Slot(n, q)
             PROVE  FALSE
  OBVIOUS
<1>1. s \in Nat /\ AccessAt(g, s)
  BY DEF PageTimes, LineTimes
<1>2. LineAt(s) = n /\ o <= OffAt(s) /\ OffAt(s) < q
  BY <1>1, SlotBetween
<1>3. EntryAt(g, s) = g[n + 1] /\ g[n + 1].what \in Code
  BY <1>1, <1>2 DEF EntryAt, AccessAt
<1>4. OffAt(s) \in Nat /\ Half \in Nat
  BY <1>1 DEF OffAt, Slots, Half
<1> DEFINE x == Lru!Spanned(g[n + 1].at, PageSize)
           y == Lru!Spanned(g[n + 1].at, LineSize)
           z == OffAt(s)
<1>5. x \in Nat /\ y \in Nat
  BY <1>3, LineSpans
<1>6. z < x \/ (Half <= z /\ z < Half + y)
  BY <1>3 DEF PageTimes, LineTimes
<1>7. x <= o /\ (q <= Half \/ Half + y <= o) /\ o <= z /\ z < q /\ z \in Nat
  BY <1>2, <1>3, <1>4
<1> HIDE DEF x, y, z
<1> QED BY <1>4, <1>5, <1>6, <1>7

(* What is looked up. *)
LEMMA LookupPage ==
  ASSUME NEW g \in Seq(Entry), NEW n \in Nat, n < Len(g), g[n + 1].what \in Code,
         NEW o \in Nat, o < Lru!Spanned(g[n + 1].at, PageSize), NEW s, s = Slot(n, o)
  PROVE  /\ s \in PageTimes(g) /\ s \notin LineTimes(g)
         /\ BlockTimes(g)[s] = <<CompOf(g[n + 1]), g[n + 1].at.addr \div PageSize + o>>
<1>1. o < Half /\ Half < Slots /\ Half \in Nat /\ Slots \in Nat
  BY LineSpans DEF Half, Slots
<1>2. s \in Nat /\ LineAt(s) = n /\ OffAt(s) = o
  BY <1>1, SlotFacts
<1>3. EntryAt(g, s) = g[n + 1] /\ AccessAt(g, s)
  BY <1>2 DEF EntryAt, AccessAt
<1>4. s \in PageTimes(g)
  BY <1>2, <1>3 DEF PageTimes
<1>5. s \notin LineTimes(g)
  BY <1>1, <1>2 DEF LineTimes
<1>6. BlockTimes(g)[s] = BlockAt(g[n + 1], o)
  BY <1>2, <1>3 DEF BlockTimes
<1> QED BY <1>1, <1>4, <1>5, <1>6 DEF BlockAt

LEMMA LookupLine ==
  ASSUME NEW g \in Seq(Entry), NEW n \in Nat, n < Len(g), g[n + 1].what \in Code,
         NEW o \in Nat, o < Lru!Spanned(g[n + 1].at, LineSize), NEW s, s = Slot(n, Half + o)
  PROVE  /\ s \in LineTimes(g) /\ s \notin PageTimes(g)
         /\ BlockTimes(g)[s] = <<0, g[n + 1].at.addr \div LineSize + o>>
<1> DEFINE h == Half + o
           x == Lru!Spanned(g[n + 1].at, PageSize)
           y == Lru!Spanned(g[n + 1].at, LineSize)
<1>0. x \in Nat /\ x < Half /\ y \in Nat /\ y < Half /\ Half \in Nat /\ Slots \in Nat /\ Slots = Half + Half
  BY LineSpans DEF Half, Slots
<1>1. h \in Nat /\ h < Slots /\ Half <= h /\ ~(h < Half) /\ h - Half = o /\ ~(h < x) /\ h < Half + y
  BY <1>0
<1>2. s = Slot(n, h)
  OBVIOUS
<1> HIDE DEF h
<1>3. s \in Nat /\ LineAt(s) = n /\ OffAt(s) = h
  BY <1>1, <1>2, SlotFacts
<1>4. EntryAt(g, s) = g[n + 1] /\ AccessAt(g, s)
  BY <1>3 DEF EntryAt, AccessAt
<1>5. s \in LineTimes(g)
  BY <1>1, <1>3, <1>4 DEF LineTimes
<1>6. s \notin PageTimes(g)
  BY <1>1, <1>3, <1>4 DEF PageTimes
<1>7. BlockTimes(g)[s] = BlockAt(g[n + 1], h)
  BY <1>3, <1>4 DEF BlockTimes
<1> QED BY <1>1, <1>5, <1>6, <1>7 DEF BlockAt

(* p copies of L lines. *)
Fits(g, p, L) == g \in Seq(Entry) /\ p \in Nat /\ L \in Nat /\ Len(g) = p * L /\ Whole(g, p, L)

(* The lookups in a repeated trace repeat themselves. *)
LEMMA LookupsRepeat ==
  ASSUME NEW g, NEW p, NEW L, Fits(g, p, L), NEW P, P = Slot(L, 0), NEW N, N = Slot(p * L, 0)
  PROVE  /\ P \in Nat /\ N \in Nat
         /\ Lru!Repeats(PageTimes(g), 0, P, N)
         /\ Lru!Repeats(LineTimes(g), 0, P, N)
         /\ Lru!Again(BlockTimes(g), P, N)
         /\ Lru!Repeats(DataLines(g), 0, L, p * L)
<1>0. g \in Seq(Entry) /\ p \in Nat /\ L \in Nat /\ p * L \in Nat /\ Len(g) = p * L
  BY DEF Fits
<1>1. P \in Nat /\ N \in Nat
  BY <1>0, SlotFacts
<1>2. ASSUME NEW n \in Nat, n + L < p * L
      PROVE  n < Len(g) /\ n + L < Len(g) /\ g[(n + L) + 1] = g[n + 1]
  <2> DEFINE m == n + 1
             N1 == p * L
  <2>1. N1 \in Nat /\ m \in Nat /\ 1 <= m /\ m + L <= N1 /\ n < N1
    BY <1>0, <1>2
  <2>2. g[m + L] = g[m]
    BY <2>1 DEF Fits, Whole
  <2>3. m + L = (n + L) + 1
    BY <1>0
  <2> QED BY <1>0, <1>2, <2>1, <2>2, <2>3
<1>3. ASSUME NEW s \in Nat, s + P < N
      PROVE  /\ s + P \in Nat /\ OffAt(s + P) = OffAt(s) /\ EntryAt(g, s + P) = EntryAt(g, s)
             /\ AccessAt(g, s + P) <=> AccessAt(g, s)
  <2> DEFINE N1 == p * L
             n == LineAt(s)
  <2>1. N1 \in Nat /\ P = L * 200 /\ N = N1 * 200
    BY <1>0 DEF Slot, Slots
  <2> HIDE DEF N1
  <2>2. /\ n \in Nat /\ LineAt(s + P) = n + L /\ OffAt(s + P) = OffAt(s) /\ n + L < N1
        /\ s + P \in Nat
    <3>1. n \in Nat /\ OffAt(s) \in Nat /\ OffAt(s) < Slots /\ s = Slot(n, OffAt(s))
      BY DEF LineAt, OffAt, Slot, Slots
    <3> DEFINE r == OffAt(s)
    <3> HIDE DEF n, r
    <3>2. s + P = Slot(n + L, r) /\ n + L \in Nat /\ r \in Nat
      BY <1>0, <2>1, <3>1 DEF Slot, Slots, r
    <3>3. LineAt(s + P) = n + L /\ OffAt(s + P) = r /\ s + P \in Nat
      BY <3>1, <3>2, SlotFacts DEF r
    <3>4. n + L < N1
      <4>1. s + P = (n + L) * 200 + r
        BY <3>2 DEF Slot, Slots
      <4> QED BY <1>3, <2>1, <3>2, <4>1
    <3> QED BY <3>1, <3>3, <3>4 DEF r
  <2> HIDE DEF n
  <2>3. n < Len(g) /\ n + L < Len(g) /\ g[(n + L) + 1] = g[n + 1]
    BY <1>2, <2>2 DEF N1
  <2> QED BY <2>2, <2>3 DEF EntryAt, AccessAt, n
<1>4. Lru!Repeats(PageTimes(g), 0, P, N) /\ Lru!Repeats(LineTimes(g), 0, P, N)
  <2>1. ASSUME NEW s \in Nat, s + P < N
        PROVE  (s \in PageTimes(g) <=> s + P \in PageTimes(g)) /\ (s \in LineTimes(g) <=> s + P \in LineTimes(g))
    BY <1>3, <2>1 DEF PageTimes, LineTimes
  <2> QED BY <2>1 DEF Lru!Repeats
<1>5. Lru!Again(BlockTimes(g), P, N)
  <2>1. ASSUME NEW s \in Nat, s + P < N
        PROVE  BlockTimes(g)[s + P] = BlockTimes(g)[s]
    BY <1>3, <2>1 DEF BlockTimes
  <2> QED BY <2>1 DEF Lru!Again
<1>6. Lru!Repeats(DataLines(g), 0, L, p * L)
  <2>1. ASSUME NEW n \in Nat, n + L < p * L
        PROVE  n \in DataLines(g) <=> n + L \in DataLines(g)
    <3>1. n + L \in Nat
      BY <1>0
    <3> QED BY <1>2, <2>1, <3>1 DEF DataLines
  <2> QED BY <2>1 DEF Lru!Repeats
<1> QED BY <1>1, <1>4, <1>5, <1>6

-----------------------------------------------------------------------------
(* Where the reader is in a repeated trace, and what it has counted. *)

Offset == CASE stage = "tlb"  -> acc.i
            [] stage = "line" -> Half + acc.i
            [] OTHER          -> 0

Now == Slot(lines_handled, Offset)

Tracked(g, k) == Lru!Tracks(PageTimes(g), LineTimes(g), BlockTimes(g), k)

HeldBy(g, k) == Lru!HeldAt(PageTimes(g), LineTimes(g), BlockTimes(g), k)

MissesOf(g, c) == Lru!MissTimes(PageTimes(g), LineTimes(g), BlockTimes(g), c)

(* The statistics at the time k, and after n lines. *)
MissedBy(g, L, k) == [c \in Lru!CacheName |-> Lru!Count(MissesOf(g, c), Slot(WARMUP_REPS * L, 0), k)]

DataBy(g, L, n) == Lru!Count(DataLines(g), WARMUP_REPS * L, n)

EndAt(g, L, n) ==
  [array |-> HeldBy(g, Slot(n, 0)), misses |-> MissedBy(g, L, Slot(n, 0)), data |-> DataBy(g, L, n)]

(* e repetitions, and n lines, have been read. *)
PlaceIs(e, n, p, L) ==
  /\ e \in Nat /\ n \in Nat /\ e <= p /\ e * L <= n /\ n <= e * L + L
  /\ L > 0 => n < e * L + L

Reached(g, p, L) ==
  /\ Tracked(g, Now)
  /\ misses = MissedBy(g, L, Now)
  /\ data_counter = DataBy(g, L, lines_handled)
  /\ PlaceIs(Len(ends), lines_handled, p, L)
  /\ warmup <=> Len(ends) < WARMUP_REPS
  /\ \A k \in 1 .. Len(ends) : ends[k] = EndAt(g, L, k * L)

LEMMA LookupTimes ==
  ASSUME NEW g
  PROVE  /\ PageTimes(g) \in SUBSET Nat /\ LineTimes(g) \in SUBSET Nat /\ DataLines(g) \in SUBSET Nat
         /\ \A c \in Lru!CacheName : /\ MissesOf(g, c) \in SUBSET Nat
                                     /\ MissesOf(g, c) \subseteq PageTimes(g) \cup LineTimes(g)
<1>1. PageTimes(g) \in SUBSET Nat /\ LineTimes(g) \in SUBSET Nat /\ DataLines(g) \in SUBSET Nat
  BY DEF PageTimes, LineTimes, DataLines
<1>2. ASSUME NEW c \in Lru!CacheName
      PROVE  /\ MissesOf(g, c) \in SUBSET Nat
             /\ MissesOf(g, c) \subseteq PageTimes(g) \cup LineTimes(g)
  <2>1. PICK T, S, B : T = PageTimes(g) /\ S = LineTimes(g) /\ B = BlockTimes(g)
    OBVIOUS
  <2>2. T \in SUBSET Nat /\ S \in SUBSET Nat
    BY <1>1, <2>1
  <2>3. Lru!MissTimes(T, S, B, c) \in SUBSET Nat /\ Lru!MissTimes(T, S, B, c) \subseteq T \cup S
    BY <2>2, LruAssumptions, Lru!AsksFacts, Zenon
  <2> QED BY <2>1, <2>3 DEF MissesOf
<1> QED BY <1>1, <1>2

(* Nothing is looked up. *)
LEMMA RestKeeps ==
  ASSUME NEW g, NEW L \in Nat, NEW k \in Nat, NEW l \in Nat, k <= l, Tracked(g, k),
         misses = MissedBy(g, L, k), array' = array, misses' = misses,
         \A s \in PageTimes(g) \cup LineTimes(g) : ~(k <= s /\ s < l)
  PROVE  Tracked(g, l)' /\ misses' = MissedBy(g, L, l)
<1>1. Tracked(g, l)'
  BY LookupTimes, LruAssumptions, Lru!WaitTracks DEF Tracked
<1> DEFINE a == Slot(WARMUP_REPS * L, 0)
<1>2. a \in Nat
  <2>1. WARMUP_REPS * L \in Nat
    BY DEF WARMUP_REPS
  <2> QED BY <2>1, SlotFacts
<1> HIDE DEF a
<1>3. ASSUME NEW c \in Lru!CacheName
      PROVE  Lru!Count(MissesOf(g, c), a, l) = Lru!Count(MissesOf(g, c), a, k)
  <2>1. MissesOf(g, c) \in SUBSET Nat /\ \A s \in MissesOf(g, c) : ~(k <= s /\ s < l)
    BY LookupTimes
  <2> QED BY <1>2, <2>1, LruAssumptions, Lru!CountGap
<1>4. MissedBy(g, L, l) = MissedBy(g, L, k)
  BY <1>3 DEF MissedBy, a
<1> QED BY <1>1, <1>4

(* One block is looked up. *)
LEMMA LookKeeps ==
  ASSUME NEW g, NEW L \in Nat, NEW k \in Nat, Tracked(g, k), misses = MissedBy(g, L, k),
         Lru!TypeOK, Lru!TypeOK', Lru!CallShape, Lru!hit_first \/ Lru!miss_first, call.type = "DATA",
         BlockTimes(g)[k] = Lru!Block,
         k \in PageTimes(g) <=> stage = "tlb", k \in LineTimes(g) <=> stage = "line",
         warmup => k + 1 <= Slot(WARMUP_REPS * L, 0), ~warmup => Slot(WARMUP_REPS * L, 0) <= k
  PROVE  Tracked(g, k + 1)' /\ misses' = MissedBy(g, L, k + 1)
<1>1. Tracked(g, k + 1)'
  BY LookupTimes, LruAssumptions, Lru!VisitTracks DEF Tracked
<1> DEFINE a == Slot(WARMUP_REPS * L, 0)
<1>2. a \in Nat
  <2>1. WARMUP_REPS * L \in Nat
    BY DEF WARMUP_REPS
  <2> QED BY <2>1, SlotFacts
<1>3. warmup \in BOOLEAN /\ (warmup => k + 1 <= a) /\ (~warmup => a <= k)
  BY DEF Lru!TypeOK
<1>4. Lru!InHelper
  BY DEF Lru!hit_first, Lru!miss_first
<1> HIDE DEF a
<1>5. ASSUME NEW c \in Lru!CacheName
      PROVE  misses'[c] = Lru!Count(MissesOf(g, c), a, k + 1)
  <2> DEFINE M == MissesOf(g, c)
  <2>1. M \in SUBSET Nat
    BY LookupTimes
  <2>2. k \in M <=> Lru!Asked(c) /\ Lru!Misses(c, Lru!Here)
    BY <1>4, LookupTimes, LruAssumptions, Lru!AskedAsKnown DEF MissesOf, Tracked
  <2>3. misses[c] = Lru!Count(M, a, k)
    BY DEF MissedBy, a
  <2>4. misses'[c] = misses[c] + (IF Lru!Asked(c) /\ Lru!Misses(c, Lru!Here) /\ ~warmup THEN 1 ELSE 0)
    BY LruAssumptions, Lru!StepCounts
  <2>5. misses[c] \in Nat
    BY DEF Lru!TypeOK
  <2> SUFFICES misses'[c] = Lru!Count(M, a, k + 1)
    OBVIOUS
  <2> HIDE DEF M
  <2>6. CASE warmup
    <3>1. k <= a /\ k + 1 <= a
      BY <1>2, <1>3, <2>6
    <3>2. Lru!Count(M, a, k) = 0 /\ Lru!Count(M, a, k + 1) = 0
      BY <1>2, <2>1, <3>1, LruAssumptions, Lru!CountNone
    <3> QED BY <2>3, <2>4, <2>6, <3>2
  <2>7. CASE ~warmup /\ k \in M
    <3>1. a <= k /\ k < k + 1 /\ \A s \in M : ~(k < s /\ s < k + 1)
      BY <1>3, <2>1, <2>7
    <3>2. Lru!Count(M, a, k + 1) = Lru!Count(M, a, k) + 1
      BY <1>2, <2>1, <2>7, <3>1, LruAssumptions, Lru!CountOne
    <3> QED BY <2>2, <2>3, <2>4, <2>7, <3>2
  <2>8. CASE ~warmup /\ k \notin M
    <3>1. k <= k + 1 /\ \A s \in M : ~(k <= s /\ s < k + 1)
      BY <2>1, <2>8
    <3>2. Lru!Count(M, a, k + 1) = Lru!Count(M, a, k)
      BY <1>2, <2>1, <3>1, LruAssumptions, Lru!CountGap
    <3> QED BY <2>2, <2>3, <2>4, <2>5, <2>8, <3>2
  <2> QED BY <1>3, <2>6, <2>7, <2>8
<1>6. misses' = [c \in Lru!CacheName |-> misses'[c]]
  BY DEF Lru!TypeOK
<1>7. misses' = MissedBy(g, L, k + 1)
  BY <1>5, <1>6 DEF MissedBy, a
<1> QED BY <1>1, <1>7

(* The number of accesses, line by line. *)
LEMMA DataNext ==
  ASSUME NEW g, NEW L \in Nat, NEW n \in Nat, NEW m, m = n + 1, NEW a, a = WARMUP_REPS * L
  PROVE  /\ n \notin DataLines(g) => DataBy(g, L, m) = DataBy(g, L, n)
         /\ n \in DataLines(g) /\ a <= n => DataBy(g, L, m) = DataBy(g, L, n) + 1
<1> DEFINE D == DataLines(g)
<1>1. D \in SUBSET Nat /\ a \in Nat /\ m \in Nat /\ n <= m /\ n < m
  BY LookupTimes DEF WARMUP_REPS
<1> HIDE DEF D
<1>2. \A s \in D : ~(n < s /\ s < m)
  BY <1>1
<1>3. ASSUME n \notin D PROVE Lru!Count(D, a, m) = Lru!Count(D, a, n)
  <2>1. \A s \in D : ~(n <= s /\ s < m)
    BY <1>1, <1>3
  <2> QED BY <1>1, <2>1, LruAssumptions, Lru!CountGap
<1>4. ASSUME n \in D, a <= n PROVE Lru!Count(D, a, m) = Lru!Count(D, a, n) + 1
  BY <1>1, <1>2, <1>4, LruAssumptions, Lru!CountOne
<1> QED BY <1>3, <1>4 DEF DataBy, D

LEMMA DataNone ==
  ASSUME NEW g, NEW L \in Nat, NEW n \in Nat, n <= WARMUP_REPS * L
  PROVE  DataBy(g, L, n) = 0
<1>1. WARMUP_REPS * L \in Nat
  BY DEF WARMUP_REPS
<1> QED BY <1>1, LookupTimes, LruAssumptions, Lru!CountNone DEF DataBy

-----------------------------------------------------------------------------
(* The place after the next line. *)

LEMMA Monotone ==
  ASSUME NEW a \in Nat, NEW b \in Nat, NEW L \in Nat, a <= b
  PROVE  a * L \in Nat /\ b * L \in Nat /\ a * L <= b * L
<1>1. PICK d \in Nat : b = a + d
  <2>1. b - a \in Nat /\ b = a + (b - a)
    OBVIOUS
  <2> QED BY <2>1
<1>2. b * L = a * L + d * L /\ d * L \in Nat /\ a * L \in Nat
  BY <1>1
<1> QED BY <1>2

LEMMA WarmPlace ==
  ASSUME NEW p \in Nat, NEW L \in Nat, NEW e, NEW n, PlaceIs(e, n, p, L), n < p * L
  PROVE  /\ L > 0 /\ e < p /\ n < e * L + L
         /\ e < WARMUP_REPS => n + 1 <= WARMUP_REPS * L
         /\ ~(e < WARMUP_REPS) => WARMUP_REPS * L <= n
<1>1. e \in Nat /\ n \in Nat /\ e <= p /\ e * L <= n /\ (L > 0 => n < e * L + L)
  BY DEF PlaceIs
<1>2. L > 0
  BY <1>1
<1>3. e < p
  <2>1. e # p
    BY <1>1
  <2> QED BY <1>1, <2>1
<1>4. WARMUP_REPS = 2
  BY DEF WARMUP_REPS
<1>5. (e + 1) * L = e * L + L /\ e * L \in Nat
  BY <1>1
<1>6. ASSUME e < 2 PROVE n + 1 <= 2 * L
  <2>1. (e + 1) * L <= 2 * L
    BY <1>1, <1>6, Monotone
  <2> QED BY <1>1, <1>2, <1>5, <2>1
<1>7. ASSUME ~(e < 2) PROVE 2 * L <= n
  <2>1. 2 * L <= e * L
    BY <1>1, <1>7, Monotone
  <2> QED BY <1>1, <1>5, <2>1
<1> QED BY <1>1, <1>2, <1>3, <1>4, <1>6, <1>7

LEMMA PlaceNextLine ==
  ASSUME NEW g, NEW p, NEW L, Fits(g, p, L), NEW e, NEW n, PlaceIs(e, n, p, L), n < Len(g)
  PROVE  /\ g[n + 1].what # "repend" => PlaceIs(e, n + 1, p, L)
         /\ g[n + 1].what = "repend" => n + 1 = (e + 1) * L /\ PlaceIs(e + 1, n + 1, p, L)
<1>0. p \in Nat /\ L \in Nat /\ Len(g) = p * L /\ p * L \in Nat /\ e \in Nat /\ n \in Nat
  BY DEF Fits, PlaceIs
<1>1. L > 0 /\ e < p /\ n < e * L + L /\ e * L <= n /\ e * L \in Nat /\ n + 1 <= p * L
  BY <1>0, WarmPlace DEF PlaceIs
<1>2. g[n + 1].what = "repend" <=> \E k \in 1 .. p : n + 1 = k * L
  <2>1. n + 1 \in Nat /\ 1 <= n + 1
    BY <1>0
  <2> QED BY <1>1, <2>1 DEF Fits, Whole
<1>3. (e + 1) * L = e * L + L /\ e + 1 \in 1 .. p /\ (e + 1) * L + L \in Nat
  BY <1>0, <1>1
<1>4. ASSUME g[n + 1].what # "repend" PROVE PlaceIs(e, n + 1, p, L)
  <2>1. n + 1 # (e + 1) * L
    BY <1>2, <1>3, <1>4
  <2> DEFINE x == e * L
  <2>2. x \in Nat /\ x <= n /\ n < x + L /\ n + 1 # x + L /\ e <= p
    BY <1>0, <1>1, <1>3, <2>1
  <2> HIDE DEF x
  <2>3. n + 1 \in Nat /\ x <= n + 1 /\ n + 1 <= x + L /\ n + 1 < x + L
    BY <1>0, <2>2
  <2> QED BY <1>0, <2>2, <2>3 DEF PlaceIs, x
<1>5. ASSUME g[n + 1].what = "repend" PROVE n + 1 = (e + 1) * L
  <2>1. PICK k \in 1 .. p : n + 1 = k * L
    BY <1>2, <1>5
  <2>2. k \in Nat
    OBVIOUS
  <2> DEFINE x == e * L
             y == k * L
  <2>3. x \in Nat /\ y \in Nat /\ x <= n /\ n < x + L /\ n + 1 = y
    BY <1>0, <1>1, <2>1, <2>2
  <2>4. k <= e => y <= x
    BY <1>0, <2>2, Monotone
  <2>5. e + 2 <= k => x + L + L <= y
    <3>1. e + 2 <= k => (e + 2) * L <= y
      BY <1>0, <2>2, Monotone
    <3>2. (e + 2) * L = x + L + L
      BY <1>0
    <3> QED BY <3>1, <3>2
  <2> HIDE DEF x, y
  <2>6. k = e + 1
    BY <1>0, <1>1, <2>2, <2>3, <2>4, <2>5
  <2> QED BY <2>1, <2>6
<1>6. ASSUME g[n + 1].what = "repend" PROVE PlaceIs(e + 1, n + 1, p, L)
  <2> DEFINE y == (e + 1) * L
  <2>1. n + 1 = y
    BY <1>5, <1>6
  <2>2. e + 1 \in Nat /\ e + 1 <= p /\ n + 1 \in Nat
    BY <1>0, <1>1
  <2> HIDE DEF y
  <2>3. y <= n + 1 /\ n + 1 <= y + L /\ n + 1 < y + L
    BY <1>0, <1>1, <2>1, <2>2
  <2> QED BY <2>2, <2>3 DEF PlaceIs, y
<1> QED BY <1>4, <1>5, <1>6

-----------------------------------------------------------------------------
(* The reader's steps. *)

(* cycle_access works on the line that is being handled. *)
CallOfLine ==
  /\ stage # "idle" => call.addr = Line.at.addr /\ call.size = Line.at.size /\ call.type = "DATA"
  /\ stage = "line" => acc.size = Lru!Spanned(call, LineSize)

InTrace(g, p, L) ==
  /\ PinLog = g /\ npasses = p /\ Fits(g, p, L) /\ Reached(g, p, L)
  /\ Lru!TypeOK /\ Lru!CallShape /\ CallOfLine
  /\ \E S : ends \in Seq(S)

LEMMA SlotOrder ==
  ASSUME NEW n \in Nat, NEW o \in Nat, o <= Slots, NEW m \in Nat
  PROVE  /\ n + 1 <= m => Slot(n, o) <= Slot(m, 0)
         /\ m <= n => Slot(m, 0) <= Slot(n, o)
         /\ Slot(n, Slots) = Slot(n + 1, 0) /\ Slot(n, o) <= Slot(n, Slots)
BY DEF Slot, Slots

LEMMA NowFacts ==
  ASSUME Lru!TypeOK, lines_handled \in Nat
  PROVE  /\ Offset \in Nat /\ Now \in Nat
         /\ stage = "idle" => Offset = 0
         /\ stage = "tlb" => Offset = acc.i
         /\ stage = "line" => Offset = Half + acc.i
<1>1. acc.i \in Nat /\ Half \in Nat /\ Half + acc.i \in Nat /\ stage \in {"idle", "tlb", "line"}
  BY DEF Lru!TypeOK, Half
<1>2. /\ stage = "idle" => Offset = 0
      /\ stage = "tlb" => Offset = acc.i
      /\ stage = "line" => Offset = Half + acc.i
  BY DEF Offset
<1>3. Offset \in Nat
  BY <1>1, <1>2
<1> QED BY <1>2, <1>3, SlotFacts DEF Now

LEMMA ReachedIs ==
  ASSUME NEW g, NEW p, NEW L, NEW k, k = Now', Tracked(g, k)', misses' = MissedBy(g, L, k),
         data_counter' = DataBy(g, L, lines_handled'), PlaceIs(Len(ends'), lines_handled', p, L),
         warmup' <=> Len(ends') < WARMUP_REPS,
         \A m \in 1 .. Len(ends') : ends'[m] = EndAt(g, L, m * L)
  PROVE  Reached(g, p, L)'
<1>1. Tracked(g, Now)'
  BY DEF Tracked, Lru!Tracks, Lru!InOrder, Lru!Times, Lru!Shape, Lru!UsesOf
<1>2. misses' = MissedBy(g, L, Now')
  OBVIOUS
<1> QED BY <1>1, <1>2 DEF Reached, MissedBy, DataBy, PlaceIs, EndAt

(* The simulator is left alone, or is given an access. *)
LEMMA StillReached ==
  ASSUME NEW g, NEW p, NEW L, InTrace(g, p, L),
         UNCHANGED <<array, misses, data_counter, lines_handled, warmup, ends>>, Offset' = Offset
  PROVE  Reached(g, p, L)'
<1>1. /\ L \in Nat /\ Reached(g, p, L) /\ Lru!TypeOK /\ lines_handled \in Nat
  BY DEF InTrace, Fits, Reached, PlaceIs
<1>2. PICK k \in Nat : k = Now
  BY <1>1, NowFacts
<1>3. Tracked(g, k) /\ misses = MissedBy(g, L, k)
  BY <1>1, <1>2 DEF Reached
<1>4. \A s \in PageTimes(g) \cup LineTimes(g) : ~(k <= s /\ s < k)
  BY LookupTimes
<1>5. Tracked(g, k)' /\ misses' = MissedBy(g, L, k)
  BY <1>1, <1>3, <1>4, RestKeeps
<1>6. k = Now'
  BY <1>2 DEF Now
<1> QED BY <1>1, <1>5, <1>6, ReachedIs DEF Reached

(* A block is looked up. *)
LEMMA LookReached ==
  ASSUME NEW g, NEW p, NEW L, InTrace(g, p, L), TInv, Lru!TypeOK', Lru!hit_first \/ Lru!miss_first,
         UNCHANGED <<data_counter, lines_handled, ends>>
  PROVE  Reached(g, p, L)'
<1> DEFINE n == lines_handled
           o == Offset
           e == g[n + 1]
<1>0. /\ p \in Nat /\ L \in Nat /\ Reached(g, p, L) /\ Lru!TypeOK /\ Lru!CallShape /\ CallOfLine
      /\ lines_handled \in Nat /\ PinLog = g /\ g \in Seq(Entry) /\ Len(g) = p * L
      /\ PlaceIs(Len(ends), lines_handled, p, L)
  BY DEF InTrace, Fits, Reached, PlaceIs
<1>1. /\ stage \in {"tlb", "line"} /\ acc.i \in Nat /\ acc.i < acc.size /\ stage' = stage
      /\ acc'.i = acc.i + 1 /\ warmup' = warmup
  BY <1>0 DEF Lru!hit_first, Lru!miss_first, Lru!InHelper, Lru!TypeOK
<1>2. n < Len(g) /\ e.what \in Code /\ Line = e
  BY <1>0, <1>1 DEF TInv, Simulated, Line
<1>3. /\ call.addr = e.at.addr /\ call.size = e.at.size /\ call.type = "DATA" /\ call.asid = CompOf(e)
  BY <1>0, <1>1, <1>2, CompartmentIs DEF CallOfLine, RightCompartment, CompOf
<1>4. \A m : Lru!Spanned(call, m) = Lru!Spanned(e.at, m)
  BY <1>3 DEF Lru!Spanned
<1>5. /\ Lru!Spanned(e.at, PageSize) \in Nat /\ Lru!Spanned(e.at, PageSize) < Half
      /\ Lru!Spanned(e.at, LineSize) \in Nat /\ Lru!Spanned(e.at, LineSize) < Half
  BY <1>0, <1>2, LineSpans
<1>6. PICK k \in Nat : k = Now
  BY <1>0, NowFacts
<1>7. o \in Nat /\ k = Slot(n, o)
  BY <1>0, <1>6, NowFacts DEF Now
<1>8. /\ o + 1 <= Slots /\ Offset' = o + 1
      /\ BlockTimes(g)[k] = Lru!Block
      /\ k \in PageTimes(g) <=> stage = "tlb"
      /\ k \in LineTimes(g) <=> stage = "line"
  <2>1. CASE stage = "tlb"
    <3>1. o = acc.i /\ Offset' = acc.i + 1
      BY <1>1, <2>1 DEF Offset
    <3>2. o < Lru!Spanned(e.at, PageSize)
      BY <1>0, <1>1, <1>4, <2>1, <3>1 DEF Lru!CallShape
    <3>3. /\ k \in PageTimes(g) /\ k \notin LineTimes(g)
          /\ BlockTimes(g)[k] = <<CompOf(e), e.at.addr \div PageSize + o>>
      BY <1>0, <1>2, <1>7, <3>2, LookupPage
    <3>4. Lru!Block = <<CompOf(e), e.at.addr \div PageSize + o>>
      BY <1>3, <2>1, <3>1 DEF Lru!Block
    <3>5. o + 1 <= Slots
      <4>1. Half = 100 /\ Slots = 200
        BY DEF Half, Slots
      <4> HIDE DEF o
      <4> QED BY <1>5, <1>7, <3>2, <4>1
    <3> QED BY <2>1, <3>1, <3>3, <3>4, <3>5
  <2>2. CASE stage = "line"
    <3>1. o = Half + acc.i /\ Offset' = Half + (acc.i + 1)
      BY <1>1, <2>2 DEF Offset
    <3>2. acc.i < Lru!Spanned(e.at, LineSize)
      BY <1>0, <1>1, <1>4, <2>2 DEF CallOfLine
    <3>3. /\ k \in LineTimes(g) /\ k \notin PageTimes(g)
          /\ BlockTimes(g)[k] = <<0, e.at.addr \div LineSize + acc.i>>
      <4> DEFINE i1 == acc.i
      <4>1. i1 \in Nat /\ i1 < Lru!Spanned(e.at, LineSize) /\ k = Slot(n, Half + i1)
        BY <1>1, <1>7, <3>1, <3>2
      <4> SUFFICES /\ k \in LineTimes(g) /\ k \notin PageTimes(g)
                   /\ BlockTimes(g)[k] = <<0, e.at.addr \div LineSize + i1>>
        OBVIOUS
      <4> HIDE DEF i1
      <4> QED BY <1>0, <1>2, <4>1, LookupLine
    <3>4. Lru!Block = <<0, e.at.addr \div LineSize + acc.i>>
      BY <1>0, <1>3, <2>2 DEF Lru!Block, Lru!CallShape
    <3>5. o + 1 <= Slots /\ Offset' = o + 1
      <4>1. Half = 100 /\ Slots = 200
        BY DEF Half, Slots
      <4> HIDE DEF o
      <4> QED BY <1>1, <1>5, <1>7, <3>1, <3>2, <4>1
    <3> QED BY <2>2, <3>3, <3>4, <3>5
  <2> QED BY <1>1, <2>1, <2>2
<1> HIDE DEF o, n, e
<1>9. n \in Nat
  BY <1>0 DEF n
<1>10. k + 1 = Slot(n, o + 1) /\ k + 1 = Now'
  <2>1. k + 1 = Slot(n, o + 1)
    BY <1>7, <1>9, SlotFacts
  <2>2. Now' = Slot(n, o + 1)
    BY <1>8 DEF Now, n
  <2> QED BY <2>1, <2>2
<1>11. /\ warmup => k + 1 <= Slot(WARMUP_REPS * L, 0)
       /\ ~warmup => Slot(WARMUP_REPS * L, 0) <= k
  <2>1. /\ warmup <=> Len(ends) < WARMUP_REPS
        /\ Len(ends) < WARMUP_REPS => n + 1 <= WARMUP_REPS * L
        /\ ~(Len(ends) < WARMUP_REPS) => WARMUP_REPS * L <= n
    BY <1>0, <1>2, WarmPlace DEF Reached, n
  <2>2. PICK m \in Nat : m = WARMUP_REPS * L
    BY <1>0 DEF WARMUP_REPS
  <2>3. o + 1 \in Nat /\ o <= Slots
    BY <1>7, <1>8 DEF Slots
  <2>4. (n + 1 <= m => Slot(n, o + 1) <= Slot(m, 0)) /\ (m <= n => Slot(m, 0) <= Slot(n, o))
    BY <1>7, <1>8, <1>9, <2>3, SlotOrder
  <2> QED BY <1>7, <1>10, <2>1, <2>2, <2>4
<1>12. Tracked(g, k) /\ misses = MissedBy(g, L, k)
  BY <1>0, <1>6 DEF Reached
<1>13. Tracked(g, k + 1)' /\ misses' = MissedBy(g, L, k + 1)
  BY <1>0, <1>3, <1>8, <1>11, <1>12, LookKeeps
<1> QED BY <1>0, <1>1, <1>10, <1>13, ReachedIs DEF Reached

(* A line has been handled. *)
LEMMA LinePasses ==
  ASSUME NEW g, NEW p, NEW L, InTrace(g, p, L), NEW n, n = lines_handled, n < Len(g),
         NEW m, m = n + 1, lines_handled' = m, stage' = "idle", array' = array, misses' = misses,
         NEW o, o = Offset, o <= Slots,
         g[n + 1].what \in Code => /\ Lru!Spanned(g[n + 1].at, PageSize) <= o
                                   /\ Half + Lru!Spanned(g[n + 1].at, LineSize) <= o,
         data_counter' = IF g[n + 1].what \in Code /\ ~warmup THEN data_counter + 1 ELSE data_counter,
         NEW l, l = Slot(m, 0)
  PROVE  /\ Now' = l /\ Tracked(g, l)' /\ misses' = MissedBy(g, L, l)
         /\ data_counter' = DataBy(g, L, m)
<1>0. /\ p \in Nat /\ L \in Nat /\ Reached(g, p, L) /\ Lru!TypeOK /\ n \in Nat
      /\ g \in Seq(Entry) /\ Len(g) = p * L /\ PlaceIs(Len(ends), n, p, L) /\ m \in Nat
  BY DEF InTrace, Fits, Reached, PlaceIs
<1>1. PICK k \in Nat : k = Now
  BY <1>0, NowFacts
<1>2. o \in Nat /\ k = Slot(n, o)
  BY <1>0, <1>1, NowFacts DEF Now
<1>3. l \in Nat
  BY <1>0, SlotFacts
<1>4. Slots \in Nat /\ l = Slot(n, Slots) /\ k <= l
  <2>1. Slots \in Nat /\ Slots <= Slots
    BY DEF Slots
  <2>2. Slot(n, Slots) = Slot(n + 1, 0) /\ Slot(n, o) <= Slot(n, Slots)
    BY <1>0, <1>2, SlotOrder
  <2> QED BY <1>2, <1>3, <2>1, <2>2
<1>5. \A s \in PageTimes(g) \cup LineTimes(g) : ~(k <= s /\ s < l)
  <2>1. Slots <= Slots
    BY <1>4
  <2>2. \A s \in PageTimes(g) \cup LineTimes(g) : ~(Slot(n, o) <= s /\ s < Slot(n, Slots))
    BY <1>0, <1>2, <1>4, <2>1, Quiet
  <2> QED BY <1>2, <1>4, <2>2
<1>6. Tracked(g, k) /\ misses = MissedBy(g, L, k)
  BY <1>0, <1>1 DEF Reached
<1>7. Tracked(g, l)' /\ misses' = MissedBy(g, L, l)
  BY <1>0, <1>3, <1>4, <1>5, <1>6, RestKeeps
<1>8. Now' = l
  <2>1. Offset' = 0
    BY DEF Offset
  <2> QED BY <2>1 DEF Now
<1>9. data_counter' = DataBy(g, L, m)
  <2>1. data_counter = DataBy(g, L, n) /\ (warmup <=> Len(ends) < WARMUP_REPS)
    BY <1>0 DEF Reached
  <2>2. PICK a : a = WARMUP_REPS * L
    OBVIOUS
  <2>3. (warmup => m <= a) /\ (~warmup => a <= n)
    BY <1>0, <2>1, <2>2, WarmPlace
  <2>4. n \in DataLines(g) <=> g[n + 1].what \in Code
    BY <1>0 DEF DataLines
  <2>5. CASE g[n + 1].what \notin Code
    BY <1>0, <2>1, <2>2, <2>4, <2>5, DataNext
  <2>6. CASE warmup
    <3>1. m <= a /\ n <= a
      BY <1>0, <2>2, <2>3, <2>6 DEF WARMUP_REPS
    <3>2. DataBy(g, L, m) = 0 /\ DataBy(g, L, n) = 0
      BY <1>0, <2>2, <3>1, DataNone
    <3>3. data_counter' = data_counter
      BY <2>6, Zenon
    <3> QED BY <2>1, <3>2, <3>3
  <2>7. CASE g[n + 1].what \in Code /\ ~warmup
    BY <1>0, <2>1, <2>2, <2>3, <2>4, <2>7, DataNext
  <2> QED BY <2>5, <2>6, <2>7
<1> QED BY <1>7, <1>8, <1>9

(* A line that does not end a repetition. *)
LEMMA OtherLine ==
  ASSUME NEW g, NEW p, NEW L, InTrace(g, p, L), NEW n, n = lines_handled, n < Len(g),
         NEW m, m = n + 1, lines_handled' = m, NEW k, k = Slot(m, 0), Now' = k, Tracked(g, k)',
         misses' = MissedBy(g, L, k), data_counter' = DataBy(g, L, m),
         g[n + 1].what # "repend", ends' = ends, warmup' = warmup
  PROVE  Reached(g, p, L)'
<1>0. Fits(g, p, L) /\ Reached(g, p, L) /\ PlaceIs(Len(ends), n, p, L)
  BY DEF InTrace, Reached
<1>1. PICK e : e = Len(ends)
  OBVIOUS
<1>2. PlaceIs(e, m, p, L)
  BY <1>0, <1>1, PlaceNextLine
<1>3. PlaceIs(Len(ends'), lines_handled', p, L)
  BY <1>1, <1>2
<1>4. /\ warmup' <=> Len(ends') < WARMUP_REPS
      /\ \A q \in 1 .. Len(ends') : ends'[q] = EndAt(g, L, q * L)
  BY <1>0 DEF Reached
<1> QED BY <1>3, <1>4, ReachedIs

(* A line that does. *)
LEMMA RepetitionRead ==
  ASSUME NEW g, NEW p, NEW L, InTrace(g, p, L), NEW n, n = lines_handled, n < Len(g),
         NEW m, m = n + 1, lines_handled' = m, NEW k, k = Slot(m, 0), Now' = k, Tracked(g, k)',
         misses' = MissedBy(g, L, k), data_counter' = DataBy(g, L, m),
         g[n + 1].what = "repend", array' = array, misses' = misses, data_counter' = data_counter,
         ends' = Append(ends, [array |-> array, misses |-> misses, data |-> data_counter]),
         warmup' <=> warmup /\ Len(ends) + 1 # WARMUP_REPS
  PROVE  Reached(g, p, L)'
<1>0. Fits(g, p, L) /\ Reached(g, p, L) /\ PlaceIs(Len(ends), n, p, L) /\ Lru!TypeOK
  BY DEF InTrace, Reached
<1>1. PICK e \in Nat : e = Len(ends)
  BY <1>0 DEF PlaceIs
<1>2. m = (e + 1) * L /\ PlaceIs(e + 1, m, p, L)
  <2>1. n + 1 = (e + 1) * L /\ PlaceIs(e + 1, n + 1, p, L)
    BY <1>0, <1>1, PlaceNextLine
  <2> QED BY <2>1
<1>3. PICK f \in Nat : f = e + 1
  OBVIOUS
<1>4. /\ Len(ends') = f
      /\ \A q \in 1 .. e : ends'[q] = ends[q]
      /\ ends'[f] = [array |-> array, misses |-> misses, data |-> data_counter]
  <2>1. PICK S : ends \in Seq(S)
    BY DEF InTrace
  <2> QED BY <1>1, <1>3, <2>1
<1>5. array = HeldBy(g, k)
  <2>1. Tracked(g, k)
    BY DEF Tracked, Lru!Tracks, Lru!InOrder, Lru!Times, Lru!Shape, Lru!UsesOf
  <2> QED BY <1>0, <2>1, LruAssumptions, Lru!HeldNow DEF Tracked, HeldBy
<1>6. ends'[f] = EndAt(g, L, m)
  BY <1>4, <1>5 DEF EndAt
<1>7. \A h \in 1 .. Len(ends') : ends'[h] = EndAt(g, L, h * L)
  <2> TAKE h \in 1 .. Len(ends')
  <2>1. CASE h = f
    BY <1>2, <1>3, <1>6, <2>1
  <2>2. CASE h # f
    <3>1. h \in 1 .. e
      BY <1>3, <1>4, <2>2
    <3>2. ends[h] = EndAt(g, L, h * L)
      BY <1>0, <1>1, <3>1 DEF Reached
    <3> QED BY <1>4, <3>1, <3>2
  <2> QED BY <2>1, <2>2
<1>8. warmup' <=> Len(ends') < WARMUP_REPS
  <2>1. warmup <=> e < WARMUP_REPS
    BY <1>0, <1>1 DEF Reached
  <2>2. e + 1 < WARMUP_REPS <=> e < WARMUP_REPS /\ e + 1 # WARMUP_REPS
    BY DEF WARMUP_REPS
  <2> QED BY <1>1, <1>3, <1>4, <2>1, <2>2
<1>9. PlaceIs(Len(ends'), lines_handled', p, L)
  BY <1>2, <1>3, <1>4
<1> QED BY <1>7, <1>8, <1>9, ReachedIs

(* The access of the line that is being handled. *)
LEMMA CallSpans ==
  ASSUME NEW g, NEW p, NEW L, InTrace(g, p, L), TInv, stage # "idle", NEW n, n = lines_handled
  PROVE  /\ n < Len(g) /\ g[n + 1].what \in Code
         /\ \A m : Lru!Spanned(call, m) = Lru!Spanned(g[n + 1].at, m)
         /\ Lru!Spanned(g[n + 1].at, PageSize) \in Nat /\ Lru!Spanned(g[n + 1].at, PageSize) < Half
         /\ Lru!Spanned(g[n + 1].at, LineSize) \in Nat /\ Lru!Spanned(g[n + 1].at, LineSize) < Half
<1>1. PinLog = g /\ g \in Seq(Entry) /\ CallOfLine /\ n \in Nat
  BY DEF InTrace, Fits, Reached, PlaceIs
<1>2. n < Len(g) /\ g[n + 1].what \in Code /\ Line = g[n + 1]
  BY <1>1 DEF TInv, Simulated, Line
<1>3. \A m : Lru!Spanned(call, m) = Lru!Spanned(g[n + 1].at, m)
  BY <1>1, <1>2 DEF CallOfLine, Lru!Spanned
<1> QED BY <1>1, <1>2, <1>3, LineSpans

(* From the pages of an access to its lines. *)
LEMMA CachesReached ==
  ASSUME NEW g, NEW p, NEW L, InTrace(g, p, L), TInv, Lru!to_caches,
         UNCHANGED <<data_counter, lines_handled, ends>>
  PROVE  Reached(g, p, L)'
<1>1. PICK n \in Nat : n = lines_handled
  BY DEF InTrace, Reached, PlaceIs
<1>2. /\ stage = "tlb" /\ stage' = "line" /\ acc.i = acc.size /\ acc'.i = 0 /\ array' = array
      /\ misses' = misses /\ warmup' = warmup
  BY DEF Lru!to_caches
<1>3. /\ L \in Nat /\ Reached(g, p, L) /\ Lru!TypeOK /\ Lru!CallShape /\ g \in Seq(Entry)
  BY DEF InTrace, Fits
<1>4. PICK o \in Nat : o = Offset
  BY <1>1, <1>3, NowFacts
<1>5. n < Len(g) /\ g[n + 1].what \in Code /\ o = Lru!Spanned(g[n + 1].at, PageSize) /\ o < Half
  <2>1. o = Lru!Spanned(call, PageSize)
    BY <1>2, <1>3, <1>4 DEF Offset, Lru!CallShape
  <2> QED BY <1>1, <1>2, <2>1, CallSpans
<1>6. Half \in Nat /\ Half <= Slots /\ Half <= Half /\ o <= o
  BY DEF Half, Slots
<1>7. PICK k \in Nat : k = Slot(n, o)
  BY <1>1, <1>4, SlotFacts
<1>8. PICK l \in Nat : l = Slot(n, Half)
  BY <1>1, <1>6, SlotFacts
<1>9. k <= l
  BY <1>1, <1>4, <1>5, <1>7, <1>8 DEF Slot, Slots, Half
<1>10. \A s \in PageTimes(g) \cup LineTimes(g) : ~(k <= s /\ s < l)
  <2>1. \A s \in PageTimes(g) \cup LineTimes(g) : ~(Slot(n, o) <= s /\ s < Slot(n, Half))
    BY <1>1, <1>3, <1>4, <1>5, <1>6, Quiet
  <2> QED BY <1>7, <1>8, <2>1
<1>11. Tracked(g, k) /\ misses = MissedBy(g, L, k)
  <2>1. k = Now
    BY <1>1, <1>4, <1>7 DEF Now
  <2> QED BY <1>3, <2>1 DEF Reached
<1>12. Tracked(g, l)' /\ misses' = MissedBy(g, L, l)
  BY <1>2, <1>3, <1>9, <1>10, <1>11, RestKeeps
<1>13. l = Now'
  <2>1. Offset' = Half
    BY <1>2, <1>6 DEF Offset
  <2> QED BY <1>1, <1>8, <2>1 DEF Now
<1> QED BY <1>2, <1>3, <1>12, <1>13, ReachedIs DEF Reached

(* An access is over. *)
LEMMA DoneReached ==
  ASSUME NEW g, NEW p, NEW L, InTrace(g, p, L), TInv, access_done, ends' = ends
  PROVE  Reached(g, p, L)'
<1>1. PICK n \in Nat : n = lines_handled
  BY DEF InTrace, Reached, PlaceIs
<1>2. /\ stage = "line" /\ stage' = "idle" /\ acc.i = acc.size /\ array' = array
      /\ misses' = misses /\ warmup' = warmup /\ lines_handled' = n + 1
  BY <1>1, Zenon DEF access_done, Sim!return, Consumed
<1>3. Lru!TypeOK /\ CallOfLine
  BY DEF InTrace
<1>4. PICK o \in Nat : o = Offset
  BY <1>1, <1>3, NowFacts
<1>5. /\ n < Len(g) /\ g[n + 1].what \in Code /\ o <= Slots
      /\ Lru!Spanned(g[n + 1].at, PageSize) <= o /\ Half + Lru!Spanned(g[n + 1].at, LineSize) <= o
  <2>1. o = Half + Lru!Spanned(call, LineSize)
    BY <1>2, <1>3, <1>4, <1>1, NowFacts DEF CallOfLine
  <2> DEFINE x == Lru!Spanned(g[n + 1].at, PageSize)
             y == Lru!Spanned(g[n + 1].at, LineSize)
  <2>2. /\ n < Len(g) /\ g[n + 1].what \in Code /\ o = Half + y
        /\ x \in Nat /\ x < Half /\ y \in Nat /\ y < Half
    BY <1>1, <1>2, <2>1, CallSpans
  <2>3. Half = 100 /\ Slots = 200
    BY DEF Half, Slots
  <2> HIDE DEF x, y
  <2>4. o <= Slots /\ x <= o /\ Half + y <= o
    BY <2>2, <2>3
  <2> QED BY <2>2, <2>4 DEF x, y
<1>6. data_counter' = IF g[n + 1].what \in Code /\ ~warmup THEN data_counter + 1 ELSE data_counter
  <2>1. data_counter' = IF warmup THEN data_counter ELSE data_counter + 1
    BY Zenon DEF access_done
  <2> QED BY <1>5, <2>1, Zenon
<1>7. PICK m : m = n + 1
  OBVIOUS
<1>8. PICK k : k = Slot(m, 0)
  OBVIOUS
<1>9. Now' = k /\ Tracked(g, k)' /\ misses' = MissedBy(g, L, k) /\ data_counter' = DataBy(g, L, m)
  BY <1>1, <1>2, <1>4, <1>5, <1>6, <1>7, <1>8, LinePasses
<1>10. g[n + 1].what # "repend"
  BY <1>5 DEF Code
<1> QED BY <1>1, <1>2, <1>5, <1>7, <1>8, <1>9, <1>10, OtherLine

(* A marker has been read. *)
LEMMA MarkerReached ==
  ASSUME NEW g, NEW p, NEW L, InTrace(g, p, L), reps = Len(ends), read,
         read_repstart \/ read_repend \/ read_switch_cache \/ read_switch_wrapper
  PROVE  Reached(g, p, L)'
<1>1. PICK n \in Nat : n = lines_handled
  BY DEF InTrace, Reached, PlaceIs
<1>2. /\ stage = "idle" /\ stage' = "idle" /\ array' = array /\ misses' = misses
      /\ lines_handled' = n + 1 /\ data_counter' = data_counter /\ n < Len(g)
      /\ g[n + 1].what \in Marker
  <2>1. PinLog = g
    BY DEF InTrace
  <2>2. CASE read_repend
    BY <1>1, <2>1, <2>2, Zenon DEF read_repend, ReadMarker, ReadLine, Consumed, simVars, Sim!end_warmup, Line, Marker
  <2>3. CASE ~read_repend
    BY <1>1, <2>1, <2>3, Zenon DEF read_repstart, read_switch_cache, read_switch_wrapper, Switch, ReadMarker, ReadLine,
            Consumed, simVars, Line, Marker
  <2> QED BY <2>2, <2>3
<1>3. g[n + 1].what \notin Code
  BY <1>2 DEF Marker, Code
<1>4. PICK o : o = Offset
  OBVIOUS
<1>5. o <= Slots
  BY <1>2, <1>4 DEF Offset, Slots
<1>6. PICK m : m = n + 1
  OBVIOUS
<1>7. PICK k : k = Slot(m, 0)
  OBVIOUS
<1>8. Now' = k /\ Tracked(g, k)' /\ misses' = MissedBy(g, L, k) /\ data_counter' = DataBy(g, L, m)
  <2>1. data_counter' = IF g[n + 1].what \in Code /\ ~warmup THEN data_counter + 1 ELSE data_counter
    BY <1>2, <1>3, Zenon
  <2> QED BY <1>1, <1>2, <1>3, <1>4, <1>5, <1>6, <1>7, <2>1, LinePasses
<1>9. reps \in Nat
  BY DEF InTrace, Reached, PlaceIs
<1>10. CASE read_repend
  <2>1. /\ reps' = reps + 1 /\ g[n + 1].what = "repend"
        /\ \/ reps + 1 = WARMUP_REPS /\ warmup /\ warmup' = FALSE
           \/ reps + 1 # WARMUP_REPS /\ warmup' = warmup
    <3>1. PinLog = g
      BY DEF InTrace
    <3> QED BY <1>1, <1>10, <3>1, Zenon DEF read_repend, ReadMarker, ReadLine, Line, WarmupOver, Sim!end_warmup, simVars
  <2>2. ends' = Append(ends, [array |-> array, misses |-> misses, data |-> data_counter])
    <3>1. reps' # reps
      BY <1>9, <2>1
    <3> QED BY <3>1, Zenon DEF read
  <2>3. warmup' <=> warmup /\ Len(ends) + 1 # WARMUP_REPS
    <3>1. reps + 1 = WARMUP_REPS <=> Len(ends) + 1 = WARMUP_REPS
      OBVIOUS
    <3>2. CASE reps + 1 = WARMUP_REPS
      <4>1. warmup' = FALSE
        BY <2>1, <3>2
      <4> QED BY <3>1, <3>2, <4>1, Zenon
    <3>3. CASE reps + 1 # WARMUP_REPS
      <4>1. warmup' = warmup
        BY <2>1, <3>3
      <4> QED BY <3>1, <3>3, <4>1, Zenon
    <3> QED BY <3>2, <3>3
  <2> QED BY <1>1, <1>2, <1>6, <1>7, <1>8, <2>1, <2>2, <2>3, RepetitionRead
<1>11. CASE ~read_repend
  <2>1. reps' = reps /\ warmup' = warmup /\ g[n + 1].what # "repend"
    <3>1. PinLog = g
      BY DEF InTrace
    <3> QED BY <1>1, <1>11, <3>1, Zenon DEF read_repstart, read_switch_cache, read_switch_wrapper, Switch,
            ReadMarker, ReadLine, Line, simVars
  <2>2. ends' = ends
    BY <2>1, Zenon DEF read
  <2> QED BY <1>1, <1>2, <1>6, <1>7, <1>8, <2>1, <2>2, OtherLine
<1> QED BY <1>10, <1>11

LEMMA ReadReached ==
  ASSUME NEW g, NEW p, NEW L, InTrace(g, p, L), TInv, Lru!TypeOK', read, rpc # "wait", reps = Len(ends)
  PROVE  Reached(g, p, L)'
<1>1. ReadNext /\ (reps' = reps => ends' = ends)
  BY Zenon DEF read
<1>2. CASE timer_settime
  BY <1>2 DEF timer_settime
<1>3. CASE timer_expires \/ sigaction \/ account_final
  <2>1. UNCHANGED <<reps, array, misses, data_counter, lines_handled, warmup, stage, acc>>
    BY <1>3 DEF timer_expires, sigaction, account_final, simVars
  <2>2. Offset' = Offset
    BY <2>1 DEF Offset
  <2> QED BY <1>1, <2>1, <2>2, StillReached
<1>4. CASE read_repstart \/ read_repend \/ read_switch_cache \/ read_switch_wrapper
  BY <1>4, MarkerReached
<1>5. CASE read_access
  <2>1. stage = "idle" /\ UNCHANGED loopVars /\ Sim!cycle_access(Line.at, cur_comp_id, "DATA")
    BY <1>5, AccessStarts
  <2>2. stage' = "tlb" /\ acc'.i = 0 /\ UNCHANGED <<array, misses, warmup>>
    BY <2>1 DEF Sim!cycle_access
  <2>3. UNCHANGED <<reps, data_counter, lines_handled>>
    BY <2>1 DEF loopVars
  <2>4. Offset' = Offset
    BY <2>1, <2>2 DEF Offset
  <2> QED BY <1>1, <2>2, <2>3, <2>4, StillReached
<1>6. CASE simulate
  <2>1. UNCHANGED <<reps, data_counter, lines_handled>>
    BY <1>6 DEF simulate, loopVars
  <2>2. Lru!hit_first \/ Lru!miss_first \/ Lru!to_caches
    BY <1>6, SameSimulator DEF simulate
  <2> QED BY <1>1, <2>1, <2>2, LookReached, CachesReached
<1>7. CASE access_done
  <2>1. reps' = reps
    BY <1>7 DEF access_done
  <2> QED BY <1>1, <1>7, <2>1, DoneReached
<1> QED BY <1>1, <1>2, <1>3, <1>4, <1>5, <1>6, <1>7 DEF ReadNext

-----------------------------------------------------------------------------
(* What the reader knows, whatever the trace. *)

Reading ==
  /\ Lru!IInv /\ Lru!CallShape /\ CallOfLine
  /\ \E S : ends \in Seq(S)
  /\ rpc = "wait" => Lru!Init /\ ends = <<>> /\ data_counter = 0
  /\ rpc # "wait" /\ reps = Len(ends) =>
       \A g, p, L : PinLog = g /\ npasses = p /\ Fits(g, p, L) => Reached(g, p, L)

(* Once the reader runs, nothing else does. *)
LEMMA ReaderAlone ==
  ASSUME TInv, [TNext]_tvars
  PROVE  /\ read \/ (UNCHANGED readVars /\ ends' = ends)
         /\ rpc # "wait" => PinLog' = PinLog /\ npasses' = npasses
         /\ rpc = "wait" /\ read => timer_settime
         /\ rpc' = "wait" => rpc = "wait" /\ UNCHANGED readVars /\ ends' = ends
<1>1. read \/ (UNCHANGED readVars /\ ends' = ends)
  <2>1. CASE program_step \/ analysis_routine \/ flush \/ fini \/ fini_skipped
    BY <2>1 DEF program_step, analysis_routine, flush, fini, fini_skipped
  <2>2. CASE TDone \/ UNCHANGED tvars
    BY <2>2 DEF TDone, tvars
  <2> QED BY <2>1, <2>2 DEF TNext, TRun
<1>2. ASSUME rpc # "wait" PROVE PinLog' = PinLog /\ npasses' = npasses
  <2>1. ppc = "closed"
    BY <1>2 DEF TInv, ReadAhead
  <2>2. ~program_step /\ ~analysis_routine /\ ~flush /\ ~fini /\ ~fini_skipped
    BY <2>1 DEF program_step, analysis_routine, flush, fini, fini_skipped, SetTrigger, PrintMarker,
                DoAccessAccounting, flush_line, flush_done, Fini, fini_done
  <2>3. UNCHANGED allVars /\ UNCHANGED pinVars
    BY <2>2, Zenon DEF TNext, TRun, TDone, tvars, read
  <2> QED BY <2>3 DEF allVars, mainVars, pinVars
<1>3. ASSUME rpc = "wait", read PROVE timer_settime
  <2>1. stage = "idle"
    BY <1>3 DEF TInv, Simulated
  <2>2. ReadNext
    BY <1>3 DEF read
  <2> QED BY <1>3, <2>1, <2>2
          DEF ReadNext, timer_expires, sigaction, account_final, read_repstart, read_repend, read_switch_cache,
              read_switch_wrapper, Switch, ReadMarker, ReadLine, read_access, simulate, access_done,
              Sim!hit_first, Sim!miss_first, Sim!to_caches, Sim!return, Sim!InHelper
<1>4. ASSUME rpc' = "wait" PROVE ~read
  <2> SUFFICES ASSUME read PROVE FALSE
    OBVIOUS
  <2>1. CASE rpc = "wait"
    BY <1>3, <1>4, <2>1 DEF timer_settime
  <2>2. CASE rpc # "wait"
    <3>1. ReadNext
      BY DEF read
    <3> QED BY <1>4, <2>2, <3>1
            DEF ReadNext, timer_settime, timer_expires, sigaction, account_final, read_repstart, read_repend,
                read_switch_cache, read_switch_wrapper, Switch, ReadMarker, ReadLine, read_access, simulate,
                access_done, loopVars
  <2> QED BY <2>1, <2>2
<1>5. ASSUME rpc' = "wait" PROVE rpc = "wait" /\ UNCHANGED readVars /\ ends' = ends
  <2>1. UNCHANGED readVars /\ ends' = ends
    BY <1>1, <1>4, <1>5
  <2> QED BY <1>5, <2>1 DEF readVars, loopVars
<1> QED BY <1>1, <1>2, <1>3, <1>5

LEMMA CallKept ==
  ASSUME TInv, Lru!TypeOK, CallOfLine, [TNext]_tvars
  PROVE  CallOfLine'
<1>1. CASE rpc = "wait"
  <2>1. stage = "idle"
    BY <1>1 DEF TInv, Simulated
  <2>2. stage' = stage
    BY <1>1, ReaderAlone DEF timer_settime, simVars, readVars
  <2> QED BY <2>1, <2>2 DEF CallOfLine
<1>2. CASE rpc # "wait" /\ ~read
  <2>1. PinLog' = PinLog /\ UNCHANGED readVars
    BY <1>2, ReaderAlone
  <2>2. UNCHANGED <<stage, call, acc, lines_handled>>
    BY <2>1 DEF readVars, simVars, loopVars
  <2>3. Line' = Line
    BY <2>1, <2>2 DEF Line
  <2> QED BY <2>2, <2>3 DEF CallOfLine, Lru!Spanned
<1>3. CASE rpc # "wait" /\ read
  <2>0. ReadNext /\ PinLog' = PinLog
    BY <1>3, ReaderAlone DEF read
  <2>1. CASE timer_settime \/ timer_expires \/ sigaction \/ account_final
    <3>1. stage = "idle" /\ stage' = stage
      BY <2>1 DEF TInv, Simulated, timer_settime, timer_expires, sigaction, account_final, simVars
    <3> QED BY <3>1 DEF CallOfLine
  <2>2. CASE read_repstart \/ read_repend \/ read_switch_cache \/ read_switch_wrapper
    <3>1. stage' = "idle"
      BY <2>2, Zenon DEF read_repstart, read_repend, read_switch_cache, read_switch_wrapper, Switch, ReadMarker,
                  ReadLine, simVars, Sim!end_warmup
    <3> QED BY <3>1 DEF CallOfLine
  <2>3. CASE access_done
    <3>1. stage' = "idle"
      BY <2>3 DEF access_done, Sim!return
    <3> QED BY <3>1 DEF CallOfLine
  <2>4. CASE read_access
    <3>1. UNCHANGED loopVars /\ Sim!cycle_access(Line.at, cur_comp_id, "DATA")
      BY <2>4, AccessStarts
    <3>2. Line' = Line
      BY <2>0, <3>1 DEF Line, loopVars
    <3>3. stage' = "tlb" /\ call'.addr = Line.at.addr /\ call'.size = Line.at.size /\ call'.type = "DATA"
      BY <3>1 DEF Sim!cycle_access
    <3> QED BY <3>2, <3>3 DEF CallOfLine
  <2>5. CASE simulate
    <3>1. Line' = Line
      BY <2>0, <2>5 DEF simulate, Line, loopVars
    <3>2. Lru!hit_first \/ Lru!miss_first \/ Lru!to_caches
      BY <2>5, SameSimulator DEF simulate
    <3>3. stage # "idle" /\ call' = call
      BY <3>2 DEF Lru!hit_first, Lru!miss_first, Lru!to_caches, Lru!InHelper
    <3>4. stage' = "line" => acc'.size = Lru!Spanned(call, LineSize)
      <4>1. CASE Lru!to_caches
        BY <4>1 DEF Lru!to_caches
      <4>2. CASE Lru!hit_first \/ Lru!miss_first
        <5>1. stage' = stage /\ acc' = [acc EXCEPT !.i = @ + 1] /\ acc \in [addr : Nat, size : Nat, i : Nat]
          BY <4>2 DEF Lru!hit_first, Lru!miss_first, Lru!TypeOK
        <5>2. acc'.size = acc.size
          BY <5>1
        <5> QED BY <5>1, <5>2 DEF CallOfLine
      <4> QED BY <3>2, <4>1, <4>2
    <3> QED BY <3>1, <3>3, <3>4 DEF CallOfLine, Lru!Spanned
  <2> QED BY <2>0, <2>1, <2>2, <2>3, <2>4, <2>5 DEF ReadNext
<1> QED BY <1>1, <1>2, <1>3

LEMMA ReadingInit == TInit => Reading
<1> SUFFICES ASSUME TInit PROVE Reading
  OBVIOUS
<1>1. rpc = "wait" /\ data_counter = 0 /\ ends = <<>> /\ Lru!Init
  BY SameSimulator DEF TInit, ReadInit
<1>2. Lru!IInv
  BY <1>1, LruAssumptions, Lru!InitIInv
<1>3. Lru!CallShape /\ CallOfLine
  BY <1>1 DEF Lru!Init, Lru!CallShape, CallOfLine
<1>4. ends \in Seq({})
  BY <1>1
<1> QED BY <1>1, <1>2, <1>3, <1>4 DEF Reading

(* The reader starts. *)
LEMMA StartReached ==
  ASSUME NEW g, NEW p \in Nat, NEW L \in Nat, Lru!Init, ends = <<>>, data_counter = 0, lines_handled = 0,
         UNCHANGED <<array, misses, data_counter, lines_handled, warmup, stage, acc, ends>>
  PROVE  Reached(g, p, L)'
<1>1. Tracked(g, 0)
  BY LookupTimes, LruAssumptions, Lru!InitTracks DEF Tracked
<1>2. misses = MissedBy(g, L, 0)
  <2> DEFINE a == Slot(WARMUP_REPS * L, 0)
  <2>1. a \in Nat /\ 0 <= a
    <3>1. WARMUP_REPS * L \in Nat
      BY DEF WARMUP_REPS
    <3>2. a \in Nat
      BY <3>1, SlotFacts
    <3> HIDE DEF a
    <3> QED BY <3>2
  <2> HIDE DEF a
  <2>2. \A c \in Lru!CacheName : Lru!Count(MissesOf(g, c), a, 0) = 0
    BY <2>1, LookupTimes, LruAssumptions, Lru!CountNone
  <2> QED BY <2>2 DEF MissedBy, Lru!Init, a
<1>3. Tracked(g, 0)' /\ misses' = MissedBy(g, L, 0)
  <2>1. \A s \in PageTimes(g) \cup LineTimes(g) : ~(0 <= s /\ s < 0)
    BY LookupTimes
  <2> QED BY <1>1, <1>2, <2>1, RestKeeps
<1>4. 0 = Now'
  <2>1. Offset' = 0
    BY DEF Offset, Lru!Init
  <2>2. Slot(0, 0) = 0
    BY DEF Slot, Slots
  <2> QED BY <2>1, <2>2 DEF Now
<1>5. DataBy(g, L, 0) = 0
  <2>1. 0 <= WARMUP_REPS * L
    BY DEF WARMUP_REPS
  <2> QED BY <2>1, DataNone
<1>6. Len(ends') = 0
  OBVIOUS
<1>7. PlaceIs(0, 0, p, L)
  <2>1. 0 * L = 0
    OBVIOUS
  <2> QED BY <2>1 DEF PlaceIs
<1>8. warmup' <=> Len(ends') < WARMUP_REPS
  BY <1>6 DEF Lru!Init, WARMUP_REPS
<1>9. \A m \in 1 .. Len(ends') : ends'[m] = EndAt(g, L, m * L)
  BY <1>6
<1>10. data_counter' = DataBy(g, L, lines_handled')
  BY <1>5
<1>11. PlaceIs(Len(ends'), lines_handled', p, L)
  BY <1>6, <1>7
<1> QED BY <1>3, <1>4, <1>8, <1>9, <1>10, <1>11, ReachedIs

(* reps and the number of ends go together. *)
LEMMA RepsCounted ==
  ASSUME TInv, read, \E S : ends \in Seq(S), reps' = Len(ends')
  PROVE  reps = Len(ends)
<1>1. ReadNext /\ reps \in Int /\ Len(ends) \in Nat
  BY DEF read, TInv, ReadAhead
<1>2. reps' = reps \/ reps' = reps + 1
  BY <1>1 DEF ReadNext, timer_settime, timer_expires, sigaction, account_final, read_repstart, read_repend,
                read_switch_cache, read_switch_wrapper, Switch, read_access, simulate, access_done, loopVars
<1>3. CASE reps' = reps
  BY <1>3 DEF read
<1>4. CASE reps' # reps
  <2>1. ends' = Append(ends, [array |-> array, misses |-> misses, data |-> data_counter])
    BY <1>4, Zenon DEF read
  <2>2. Len(ends') = Len(ends) + 1
    BY <2>1
  <2> QED BY <1>1, <1>2, <1>4, <2>2
<1> QED BY <1>3, <1>4

LEMMA ReadingNext ==
  ASSUME TInv, Reading, [TNext]_tvars
  PROVE  Reading'
<1>1. [Lru!Next]_(Lru!vars)
  BY SimulatorStep, SameSimulator
<1>2. Lru!IInv' /\ Lru!CallShape' /\ Lru!TypeOK /\ Lru!TypeOK'
  <2>1. Lru!IInv'
    BY <1>1, LruAssumptions, Lru!NextIInv DEF Reading
  <2>2. Lru!TypeOK /\ Lru!TypeOK'
    BY <2>1 DEF Reading, Lru!IInv
  <2>3. Lru!CallShape'
    BY <1>1, <2>2, LruAssumptions, Lru!CallKeeps DEF Reading
  <2> QED BY <2>1, <2>2, <2>3
<1>3. CallOfLine'
  BY <1>2, CallKept DEF Reading
<1>4. \E S : ends' \in Seq(S)
  <2>1. PICK S : ends \in Seq(S)
    BY DEF Reading
  <2> DEFINE r == [array |-> array, misses |-> misses, data |-> data_counter]
  <2>2. ends' = ends \/ ends' = Append(ends, r)
    BY ReaderAlone DEF read
  <2>3. PICK x : x = r
    OBVIOUS
  <2>4. ends' \in Seq(S \cup {x})
    BY <2>1, <2>2, <2>3
  <2> QED BY <2>4
<1>5. ASSUME rpc' = "wait" PROVE Lru!Init' /\ ends' = <<>> /\ data_counter' = 0
  <2>1. rpc = "wait" /\ UNCHANGED readVars /\ ends' = ends
    BY <1>5, ReaderAlone
  <2>2. Lru!Init /\ ends = <<>> /\ data_counter = 0
    BY <2>1 DEF Reading
  <2> QED BY <2>1, <2>2 DEF readVars, simVars, loopVars, Lru!Init
<1>6. ASSUME rpc' # "wait", reps' = Len(ends'), NEW g, NEW p, NEW L,
             PinLog' = g, npasses' = p, Fits(g, p, L)
      PROVE  Reached(g, p, L)'
  <2>1. CASE rpc = "wait"
    <3>1. read
      BY <1>6, <2>1, ReaderAlone DEF readVars, loopVars
    <3>2. timer_settime
      BY <2>1, <3>1, ReaderAlone
    <3>3. Lru!Init /\ ends = <<>> /\ data_counter = 0 /\ lines_handled = 0
      BY <2>1 DEF Reading, TInv, ReadAhead
    <3>4. UNCHANGED <<array, misses, data_counter, lines_handled, warmup, stage, acc, reps>>
      BY <3>2 DEF timer_settime, simVars
    <3>5. ends' = ends
      BY <3>1, <3>4, Zenon DEF read
    <3>6. p \in Nat /\ L \in Nat
      BY <1>6 DEF Fits
    <3> QED BY <3>3, <3>4, <3>5, <3>6, StartReached
  <2>2. CASE rpc # "wait"
    <3>1. PinLog = g /\ npasses = p
      BY <1>6, <2>2, ReaderAlone
    <3>2. reps = Len(ends)
      <4>1. CASE read
        BY <1>6, <4>1, RepsCounted DEF Reading
      <4>2. CASE ~read
        BY <1>6, <4>2, ReaderAlone DEF readVars, loopVars
      <4> QED BY <4>1, <4>2
    <3>3. InTrace(g, p, L)
      BY <1>2, <1>6, <2>2, <3>1, <3>2 DEF InTrace, Reading
    <3>4. CASE read
      BY <1>2, <2>2, <3>2, <3>3, <3>4, ReadReached
    <3>5. CASE ~read
      <4>1. UNCHANGED <<array, misses, data_counter, lines_handled, warmup, stage, acc, ends>>
        BY <3>5, ReaderAlone DEF readVars, loopVars, simVars
      <4>2. Offset' = Offset
        BY <4>1 DEF Offset
      <4> QED BY <3>3, <4>1, <4>2, StillReached
    <3> QED BY <3>4, <3>5
  <2> QED BY <2>1, <2>2
<1> QED BY <1>2, <1>3, <1>4, <1>5, <1>6 DEF Reading

-----------------------------------------------------------------------------
(* The steady state. *)

(* What the repetitions after the warm-up add. *)
Rate(g, L) ==
  [data |-> Lru!Count(DataLines(g), 2 * L, 3 * L),
   misses |-> [c \in Sim!CacheName |-> Lru!Count(MissesOf(g, c), 2 * Slot(L, 0), 3 * Slot(L, 0))]]

LEMMA SlotTimes ==
  ASSUME NEW k \in Nat, NEW L \in Nat
  PROVE  Slot(k * L, 0) = k * Slot(L, 0) /\ Slot(L, 0) \in Nat /\ k * L \in Nat
BY DEF Slot, Slots

LEMMA CountNat ==
  ASSUME NEW M \in SUBSET Nat, NEW a \in Nat, NEW b \in Nat
  PROVE  Lru!Count(M, a, b) \in Nat
BY LruAssumptions, Lru!CountFacts

(* A period after the warm-up, the k-th of n that end at T. *)
Measured(M, n, P, T, k, h) ==
  /\ n \in Nat /\ P \in Nat /\ T = n * P /\ Lru!Repeats(M, P + P, P, T)
  /\ k \in Nat /\ 3 <= k /\ k <= n /\ h \in Nat /\ h = k - 1

(* It counts as many as the third. *)
AsThird(M, P, k, h) ==
  Lru!Count(M, 2 * P, k * P) - Lru!Count(M, 2 * P, h * P) = Lru!Count(M, 2 * P, 3 * P)

LEMMA CountGain ==
  ASSUME NEW M \in SUBSET Nat, NEW n, NEW P, NEW T, NEW k, NEW h, Measured(M, n, P, T, k, h)
  PROVE  AsThird(M, P, k, h)
<1> USE DEF Measured
<1>1. PICK m \in Nat : m = 2
  OBVIOUS
<1>2. PICK x \in Nat : x = m * P
  OBVIOUS
<1>3. PICK y \in Nat : y = (m + 1) * P
  OBVIOUS
<1>4. x = P + P /\ x = 2 * P /\ y = 3 * P
  BY <1>1, <1>2, <1>3
<1>5. Lru!Cycle(M, P, m, n, x, y, T)
  BY <1>2, <1>3, <1>4 DEF Lru!Cycle
<1>6. PICK z, v : Lru!Turn(P, k, z, v) /\ z = k * P
  BY DEF Lru!Turn
<1>7. PICK w, u : Lru!Turn(P, h, w, u) /\ w = h * P
  BY DEF Lru!Turn
<1>8. m <= k /\ m <= h /\ h <= n
  BY <1>1
<1>9. PICK a \in Nat : a = Lru!Count(M, x, y)
  BY CountNat
<1>10. Lru!Count(M, x, z) = (k - m) * a
  <2>1. Lru!Evenly(M, m, n, x, y, k, z, v)
    BY <1>5, <1>6, <1>8, LruAssumptions, Lru!CountPeriods
  <2> QED BY <1>9, <2>1 DEF Lru!Evenly
<1>11. Lru!Count(M, x, w) = (h - m) * a
  <2>1. Lru!Evenly(M, m, n, x, y, h, w, u)
    BY <1>5, <1>7, <1>8, LruAssumptions, Lru!CountPeriods
  <2> QED BY <1>8, <1>9, <2>1 DEF Lru!Evenly
<1>12. PICK d \in Nat : d = k - 3
  OBVIOUS
<1>13. (d + 1) * a = d * a + a /\ d * a \in Nat
  OBVIOUS
<1>14. k - m = d + 1 /\ h - m = d
  BY <1>1, <1>12
<1>15. Lru!Count(M, x, z) - Lru!Count(M, x, w) = a
  BY <1>10, <1>11, <1>13, <1>14
<1> QED BY <1>4, <1>6, <1>7, <1>9, <1>15 DEF AsThird

LEMMA Gains ==
  ASSUME NEW g, NEW p, NEW L, Fits(g, p, L), Reached(g, p, L), NEW k \in Nat, 3 <= k, k <= Len(ends)
  PROVE  ends[k].array = ends[k - 1].array /\ Gain(k) = Rate(g, L)
<1>0. p \in Nat /\ L \in Nat /\ k <= p /\ Len(ends) \in Nat
  BY DEF Fits, Reached, PlaceIs
<1>1. PICK P \in Nat : P = Slot(L, 0)
  BY <1>0, SlotFacts
<1>2. PICK h \in Nat : h = k - 1
  OBVIOUS
<1>3. h + 1 = k /\ 2 <= h /\ h \in 1 .. Len(ends) /\ k \in 1 .. Len(ends) /\ h <= p
  BY <1>0, <1>2
<1>4. ends[k] = EndAt(g, L, k * L) /\ ends[h] = EndAt(g, L, h * L)
  BY <1>3 DEF Reached
<1>5. Slot(k * L, 0) = k * P /\ Slot(h * L, 0) = h * P /\ Slot(WARMUP_REPS * L, 0) = 2 * P
  BY <1>0, <1>1, SlotTimes DEF WARMUP_REPS
<1>6. PICK N \in Nat : N = Slot(p * L, 0)
  BY <1>0, SlotTimes
<1>7. N = p * P
  BY <1>0, <1>1, <1>6, SlotTimes
<1>8. /\ Lru!Repeats(PageTimes(g), 0, P, N) /\ Lru!Repeats(LineTimes(g), 0, P, N)
      /\ Lru!Again(BlockTimes(g), P, N) /\ Lru!Repeats(DataLines(g), 0, L, p * L)
  BY <1>1, <1>6, LookupsRepeat
<1>9. /\ \A s \in Nat : P + P <= s /\ s + P <= N => HeldBy(g, s + P) = HeldBy(g, s)
      /\ \A c \in Lru!CacheName : Lru!Repeats(MissesOf(g, c), P + P, P, N)
  BY <1>8, LookupTimes, LruAssumptions, Lru!AllSettle DEF HeldBy, MissesOf
<1>10. HeldBy(g, k * P) = HeldBy(g, h * P)
  <2> DEFINE s == h * P
  <2>1. s \in Nat /\ k * P = s + P /\ P + P <= s /\ s + P <= N
    <3>1. k * P = h * P + P /\ h * P \in Nat /\ 2 * P = P + P
      BY <1>3
    <3>2. 2 * P <= h * P /\ k * P <= p * P
      BY <1>0, <1>3, Monotone
    <3> QED BY <1>7, <3>1, <3>2
  <2>2. HeldBy(g, s + P) = HeldBy(g, s)
    BY <1>9, <2>1
  <2> QED BY <2>1, <2>2
<1>11. ends[k].array = ends[k - 1].array
  BY <1>2, <1>4, <1>5, <1>10 DEF EndAt
<1>12. ends[k].data - ends[k - 1].data = Lru!Count(DataLines(g), 2 * L, 3 * L)
  <2>1. ends[k].data = Lru!Count(DataLines(g), 2 * L, k * L) /\ ends[k - 1].data = Lru!Count(DataLines(g), 2 * L, h * L)
    BY <1>2, <1>4 DEF EndAt, DataBy, WARMUP_REPS
  <2>2. PICK T : T = p * L
    OBVIOUS
  <2>3. Lru!Repeats(DataLines(g), L + L, L, T)
    BY <1>0, <1>8, <2>2 DEF Lru!Repeats
  <2>4. DataLines(g) \in SUBSET Nat
    BY LookupTimes
  <2>5. Measured(DataLines(g), p, L, T, k, h)
    BY <1>0, <1>2, <2>2, <2>3 DEF Measured
  <2>6. AsThird(DataLines(g), L, k, h)
    BY <2>4, <2>5, CountGain
  <2> QED BY <2>1, <2>6 DEF AsThird
<1>13. ASSUME NEW c \in Sim!CacheName
       PROVE  ends[k].misses[c] - ends[k - 1].misses[c] = Lru!Count(MissesOf(g, c), 2 * P, 3 * P)
  <2>1. c \in Lru!CacheName
    BY SameLookups
  <2>2. /\ ends[k].misses[c] = Lru!Count(MissesOf(g, c), 2 * P, k * P)
        /\ ends[k - 1].misses[c] = Lru!Count(MissesOf(g, c), 2 * P, h * P)
    BY <1>2, <1>4, <1>5, <2>1 DEF EndAt, MissedBy
  <2>3. Lru!Repeats(MissesOf(g, c), P + P, P, N) /\ MissesOf(g, c) \in SUBSET Nat
    BY <1>9, <2>1, LookupTimes
  <2>4. Measured(MissesOf(g, c), p, P, N, k, h)
    BY <1>0, <1>2, <1>7, <2>3 DEF Measured
  <2>5. AsThird(MissesOf(g, c), P, k, h)
    BY <2>3, <2>4, CountGain
  <2> QED BY <2>2, <2>5 DEF AsThird
<1>14. Gain(k) = Rate(g, L)
  BY <1>1, <1>12, <1>13 DEF Gain, Rate
<1> QED BY <1>11, <1>14

(* The lines with accesses are the tool's accesses. *)
LEMMA SameAccesses ==
  ASSUME NEW g, NEW n \in Nat, n = Len(g)
  PROVE  Lru!Count(DataLines(g), 0, n) = Cardinality(AccessesIn(g, n))
<1> DEFINE X == Lru!Between(DataLines(g), 0, n)
           Y == AccessesIn(g, n)
           f == [t \in X |-> t + 1]
<1>1. IsFiniteSet(X)
  <2>1. DataLines(g) \in SUBSET Nat /\ 0 \in Nat
    BY LookupTimes
  <2>2. Lru!IsFiniteSet(X)
    BY <2>1, LruAssumptions, Lru!CountFacts
  <2> QED BY <2>2, SameFinite
<1>2. ASSUME NEW t \in X PROVE t \in Nat /\ t + 1 \in Y
  <2>1. t \in Nat /\ t < n /\ g[t + 1].what \in Code
    BY <1>2 DEF Lru!Between, DataLines
  <2> QED BY <2>1 DEF AccessesIn
<1>3. ASSUME NEW s \in Y PROVE \E t \in X : f[t] = s
  <2>1. s \in 1 .. n /\ g[s].what \in Code
    BY <1>3 DEF AccessesIn
  <2>2. PICK t \in Nat : s = t + 1
    <3>1. s - 1 \in Nat /\ s = (s - 1) + 1
      BY <2>1
    <3> QED BY <3>1
  <2>3. t \in X
    BY <2>1, <2>2 DEF Lru!Between, DataLines
  <2> QED BY <2>2, <2>3
<1>4. \A s, t \in X : f[s] = f[t] => s = t
  <2>1. \A t \in X : t \in Nat
    BY <1>2
  <2> HIDE DEF X
  <2> QED BY <2>1
<1>5. f \in [X -> Y]
  BY <1>2
<1> HIDE DEF X, Y, f
<1>6. f \in Bijection(X, Y)
  BY <1>3, <1>4, <1>5 DEF Bijection, Injection, IsInjective, Surjection
<1>7. ExistsBijection(X, Y)
  BY <1>6 DEF ExistsBijection
<1>8. PICK k \in Nat : k = Cardinality(X) /\ ExistsBijection(1 .. k, X)
  BY <1>1, FS_CardinalityType
<1>9. Lru!Count(DataLines(g), 0, n) = k
  BY <1>8, CountIs DEF X
<1>10. Cardinality(X) = Cardinality(Y)
  BY <1>1, <1>7, FS_Bijection
<1> QED BY <1>8, <1>9, <1>10 DEF Y

(* The accesses of the repetitions that were measured. *)
LEMMA MeasuredShare ==
  ASSUME NEW g, NEW p, NEW L, Fits(g, p, L), 2 <= p
  PROVE  DataBy(g, L, p * L) * p = Cardinality(AccessesIn(g, p * L)) * (p - 2)
<1> DEFINE D == DataLines(g)
<1>0. p \in Nat /\ L \in Nat /\ p * L \in Nat /\ Len(g) = p * L /\ D \in SUBSET Nat
  BY LookupTimes DEF Fits
<1>1. PICK m \in Nat : m = 2
  OBVIOUS
<1>2. PICK o \in Nat : o = 0
  OBVIOUS
<1>3. PICK T \in Nat : T = p * L
  BY <1>0
<1>4. PICK x \in Nat : x = m * L
  BY <1>0
<1>5. PICK y \in Nat : y = (m + 1) * L
  BY <1>0
<1>6. PICK u \in Nat : u = (o + 1) * L
  BY <1>0
<1>7. o = o * L /\ x = WARMUP_REPS * L
  BY <1>0, <1>1, <1>2, <1>4 DEF WARMUP_REPS
<1>8. Lru!Cycle(D, L, m, p, x, y, T) /\ Lru!Cycle(D, L, o, p, o, u, T)
  <2>1. Lru!Repeats(D, 0, L, p * L)
    BY LookupsRepeat
  <2>2. Lru!Repeats(D, o, L, T) /\ Lru!Repeats(D, x, L, T)
    BY <1>2, <1>3, <1>4, <2>1 DEF Lru!Repeats
  <2> HIDE DEF D
  <2> QED BY <1>0, <1>3, <1>4, <1>5, <1>6, <1>7, <2>2 DEF Lru!Cycle
<1> HIDE DEF D
<1>9. PICK a \in Nat, b \in Nat : a = Lru!Count(D, x, y) /\ b = Lru!Count(D, o, u)
  <2>1. Lru!Count(D, x, y) \in Nat /\ Lru!Count(D, o, u) \in Nat
    BY <1>0, CountNat
  <2> QED BY <2>1
<1>10. Lru!Count(D, x, T) = (p - m) * a /\ Lru!Count(D, o, T) = (p - o) * b
  <2>1. m <= p /\ o <= p /\ p <= p
    BY <1>0, <1>1, <1>2
  <2>2. PICK v : Lru!Turn(L, p, T, v)
    BY <1>0, <1>3 DEF Lru!Turn
  <2>3. Lru!Evenly(D, m, p, x, y, p, T, v)
    BY <1>0, <1>8, <2>1, <2>2, LruAssumptions, Lru!CountPeriods
  <2>4. Lru!Evenly(D, o, p, o, u, p, T, v)
    BY <1>0, <1>8, <2>1, <2>2, LruAssumptions, Lru!CountPeriods
  <2> QED BY <1>9, <2>1, <2>3, <2>4 DEF Lru!Evenly
<1>11. m + 1 <= p => a = b
  <2>1. o <= m
    BY <1>1, <1>2
  <2>2. Lru!Turn(L, m, x, y)
    BY <1>4, <1>5 DEF Lru!Turn
  <2>3. Lru!Evenly(D, o, p, o, u, m, x, y)
    BY <1>0, <1>8, <2>1, <2>2, LruAssumptions, Lru!CountPeriods
  <2> QED BY <1>9, <2>3 DEF Lru!Evenly
<1>13. DataBy(g, L, p * L) = (p - m) * a
  BY <1>3, <1>7, <1>10 DEF DataBy, D
<1>14. Cardinality(AccessesIn(g, p * L)) = (p - o) * b
  <2>1. Lru!Count(D, 0, T) = Cardinality(AccessesIn(g, T))
    BY <1>0, <1>3, SameAccesses DEF D
  <2> QED BY <1>2, <1>3, <1>10, <2>1
<1>15. p - o = p
  BY <1>0, <1>2
<1>16. CASE p = 2
  <2>1. p - m = 0 /\ p - 2 = 0
    BY <1>1, <1>16
  <2>2. 0 * a = 0 /\ 0 * p = 0 /\ (p * b) * 0 = 0
    BY <1>0
  <2> QED BY <1>13, <1>14, <1>15, <2>1, <2>2
<1>17. CASE p # 2
  <2>1. a = b /\ p - 2 \in Nat
    BY <1>0, <1>1, <1>11, <1>17
  <2>2. PICK q \in Nat : q = p - 2
    BY <2>1
  <2>3. (q * b) * p = (p * b) * q
    BY <1>0
  <2> QED BY <1>1, <1>13, <1>14, <1>15, <2>1, <2>2, <2>3
<1> QED BY <1>16, <1>17

LEMMA ReadingSteady ==
  ASSUME TInv, TraceRepeating, Reading
  PROVE  SteadyState
<1> SUFFICES ASSUME reps = Len(ends)
             PROVE  /\ \A k \in WARMUP_REPS + 1 .. Len(ends) :
                         ends[k].array = ends[k - 1].array /\ Gain(k) = Gain(WARMUP_REPS + 1)
                    /\ rpc = "done" /\ npasses >= WARMUP_REPS =>
                         data_counter * npasses = dcount * (npasses - WARMUP_REPS)
  BY DEF SteadyState
<1>1. CASE rpc = "wait"
  BY <1>1 DEF Reading, WARMUP_REPS
<1>2. CASE rpc # "wait"
  <2>1. PICK g : g = PinLog
    OBVIOUS
  <2>2. PICK p \in Nat : p = npasses
    BY DEF TInv, WInv, WType
  <2>3. g \in Seq(Entry) /\ ppc = "closed" /\ g = seen
    BY <1>2, <2>1 DEF TInv, PinInv, PinTypes, ReadAhead, FileComplete
  <2>4. PICK L : Fits(g, p, L)
    <3>1. CASE g = <<>>
      <4>1. p * 0 = 0 /\ Len(g) = 0
        BY <3>1
      <4>2. Whole(g, p, 0)
        BY <4>1 DEF Whole
      <4> QED BY <2>3, <4>1, <4>2 DEF Fits
    <3>2. CASE g # <<>>
      BY <2>1, <2>2, <2>3, <3>2 DEF TraceRepeating, Copies, Fits
    <3> QED BY <3>1, <3>2
  <2>5. Reached(g, p, L)
    BY <1>2, <2>1, <2>2, <2>4 DEF Reading
  <2>6. Len(ends) \in Nat
    BY <2>5 DEF Reached, PlaceIs
  <2>7. ASSUME NEW k \in WARMUP_REPS + 1 .. Len(ends)
        PROVE  ends[k].array = ends[k - 1].array /\ Gain(k) = Gain(WARMUP_REPS + 1)
    <3>1. k \in Nat /\ 3 <= k /\ k <= Len(ends) /\ 3 <= Len(ends) /\ WARMUP_REPS + 1 = 3
      BY <2>6 DEF WARMUP_REPS
    <3>2. ends[k].array = ends[k - 1].array /\ Gain(k) = Rate(g, L)
      BY <2>4, <2>5, <3>1, Gains
    <3>3. Gain(3) = Rate(g, L)
      BY <2>4, <2>5, <3>1, Gains
    <3> QED BY <3>1, <3>2, <3>3
  <2>8. ASSUME rpc = "done", npasses >= WARMUP_REPS
        PROVE  data_counter * npasses = dcount * (npasses - WARMUP_REPS)
    <3>1. lines_handled = p * L /\ Len(g) = p * L
      BY <2>1, <2>4, <2>8 DEF TInv, ReadAhead, Fits
    <3>2. data_counter = DataBy(g, L, p * L)
      BY <2>5, <3>1 DEF Reached
    <3>3. dcount = Cardinality(AccessesIn(g, p * L))
      BY <2>3, <3>1 DEF TInv, Recorded
    <3>4. 2 <= p /\ WARMUP_REPS = 2
      BY <2>2, <2>8 DEF WARMUP_REPS
    <3>5. DataBy(g, L, p * L) * p = Cardinality(AccessesIn(g, p * L)) * (p - 2)
      BY <2>4, <3>4, MeasuredShare
    <3> QED BY <2>2, <3>2, <3>3, <3>4, <3>5
  <2> QED BY <2>7, <2>8
<1> QED BY <1>1, <1>2

(* What is measured is a steady state, for every geometry, every program   *)
(* of the workload and every placement of the flushes: after two           *)
(* repetitions, each further one finds and leaves all TLBs and caches the  *)
(* same and adds the same counts, and the printed number of accesses is    *)
(* the measured share of what the tool counted.                            *)
THEOREM MeasurementSteady == TSpec => []SteadyState
<1>1. TInit => TInv /\ Reading
  BY TInitTInv, ReadingInit
<1>2. TInv /\ Reading /\ [TNext]_tvars => (TInv /\ Reading)'
  BY TNextTInv, ReadingNext
<1>3. TInv /\ TraceRepeating /\ Reading => SteadyState
  BY ReadingSteady
<1> QED BY <1>1, <1>2, <1>3, TraceRepeats, PTL DEF TSpec
=============================================================================
