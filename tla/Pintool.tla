------------------------------ MODULE Pintool ------------------------------
(***************************************************************************)
(* The Pin tool of src/memtrace/pintool/memtrace.cpp, which records the    *)
(* memory accesses of the traced program.                                  *)
(*                                                                         *)
(* An entry passes through two buffers: the array accesses, flushed when   *)
(* it is full, and the text buffer PinLogBuf, written to the file whenever *)
(* it is more than 5/6 full.  The traced program stands still while an     *)
(* analysis routine runs, so nothing is recorded during a flush.           *)
(*                                                                         *)
(* An entry is a marker, or an access: the program part whose routine made *)
(* it, and its address and size.  "entry" and "return" are the accesses of *)
(* cache_get's first instruction and of its return, on which the markers   *)
(* of the switches are.                                                    *)
(***************************************************************************)
EXTENDS Integers, Sequences

CONSTANTS
  N_ACCESSES,       \* entries of accesses                 (30000000)
  LOGBUFSIZE,       \* bytes of PinLogBuf                  (8192)
  LineMax,          \* bytes given to snprintf, NUL included    (100)
  linelen,          \* length of the line of an entry, by what it is
  Access            \* what the program accesses: address and size

Marker == {"repstart", "repend", "switch_cache", "switch_wrapper"}
Code   == {"main", "wrapper", "cache", "entry", "return"}
NoData == [addr |-> 0, size |-> 0]
Entry  == [what : Marker, at : {NoData}] \cup [what : Code, at : Access]

ASSUME PintoolAssumption ==
  /\ N_ACCESSES \in Nat \ {0}
  /\ LOGBUFSIZE \in Nat /\ LineMax \in Nat
  /\ LineMax <= LOGBUFSIZE \div 6
  /\ linelen \in [Marker \cup Code -> Nat \ {0}]

(* snprintf cuts a line to LineMax - 1 bytes and still returns the length  *)
(* the line would have had: the cut line ends in a NUL, and the next one   *)
(* is put behind it.                                                       *)
Cut(e) == linelen[e.what] >= LineMax

VARIABLES
  accesses,         \* the entries accesses[0 .. count_accesses - 1]
  flushed,          \* i of flush_accesses, 0 outside of it
  ppc,              \* "run", "flush", "fini" or "closed"
  PinLogBuf,        \* the lines in the text buffer, up to its first NUL
  nul,              \* whether that NUL is before PinLogBufSize
  PinLogBufSize,
  PinLog,           \* the lines in the file
  AccessTrackingOn,
  dcount,
  seen              \* history: every entry recorded so far

pinVars == <<accesses, flushed, ppc, PinLogBuf, nul, PinLogBufSize, PinLog,
             AccessTrackingOn, dcount, seen>>

PinInit ==
  /\ accesses = <<>> /\ flushed = 0
  /\ ppc = "run"
  /\ PinLogBuf = <<>> /\ nul = FALSE /\ PinLogBufSize = 0 /\ PinLog = <<>>
  /\ AccessTrackingOn = FALSE
  /\ dcount = 0
  /\ seen = <<>>

-----------------------------------------------------------------------------
(* accesses[count_accesses++] = e, and the flush that may follow. *)
Record(e) ==
  /\ accesses' = Append(accesses, e)
  /\ seen' = Append(seen, e)
  /\ ppc' = IF Len(accesses) + 1 = N_ACCESSES THEN "flush" ELSE "run"
  /\ UNCHANGED <<flushed, PinLogBuf, nul, PinLogBufSize, PinLog, AccessTrackingOn>>

SetTrigger(activate) ==
  /\ ppc = "run"
  /\ AccessTrackingOn' = activate
  /\ UNCHANGED <<accesses, flushed, ppc, PinLogBuf, nul, PinLogBufSize, PinLog, dcount, seen>>

DoAccessAccounting(rtn, a) ==
  /\ ppc = "run"
  /\ \/ ~AccessTrackingOn /\ UNCHANGED pinVars
     \/ AccessTrackingOn /\ Record([what |-> rtn, at |-> a]) /\ dcount' = dcount + 1

(* Mutant: markers are recorded like accesses, while tracking is on. *)
PrintMarker_Tracked(where) ==
  /\ ppc = "run"
  /\ \/ ~AccessTrackingOn /\ UNCHANGED pinVars
     \/ AccessTrackingOn /\ Record([what |-> where, at |-> NoData]) /\ UNCHANGED dcount

PrintMarker(where) ==
  /\ ppc = "run"
  /\ Record([what |-> where, at |-> NoData])
  /\ UNCHANGED dcount

(* Mutant: written to the file only when nothing more fits. *)
BufferFull_Late(size) == size > LOGBUFSIZE

(* "PinLogBufSize > 5 * LOGBUFSIZE / 6" *)
BufferFull(size) == size > (5 * LOGBUFSIZE) \div 6

(* One iteration of the loop of flush_accesses. *)
flush_line ==
  LET e    == accesses[flushed + 1]
      size == PinLogBufSize + linelen[e.what]
      text == IF nul THEN PinLogBuf ELSE Append(PinLogBuf, e)
  IN
  /\ ppc \in {"flush", "fini"}
  /\ flushed < Len(accesses)
  /\ flushed' = flushed + 1
  /\ PinLogBuf'     = IF BufferFull(size) THEN <<>> ELSE text
  /\ nul'           = (~BufferFull(size) /\ (nul \/ Cut(e)))
  /\ PinLogBufSize' = IF BufferFull(size) THEN 0 ELSE size
  /\ PinLog'        = IF BufferFull(size) THEN PinLog \o text ELSE PinLog
  /\ UNCHANGED <<accesses, ppc, AccessTrackingOn, dcount, seen>>

(* Mutant: count_accesses is not reset. *)
Emptied_Not == accesses

(* "count_accesses = 0" *)
Emptied == <<>>

flush_done ==
  /\ ppc = "flush"
  /\ flushed = Len(accesses)
  /\ accesses' = Emptied /\ flushed' = 0
  /\ ppc' = "run"
  /\ UNCHANGED <<PinLogBuf, nul, PinLogBufSize, PinLog, AccessTrackingOn, dcount, seen>>

(* Fini flushes, then writes what is left in the text buffer. *)
Fini ==
  /\ ppc = "run"
  /\ ppc' = "fini"
  /\ UNCHANGED <<accesses, flushed, PinLogBuf, nul, PinLogBufSize, PinLog,
                 AccessTrackingOn, dcount, seen>>

fini_done ==
  /\ ppc = "fini"
  /\ flushed = Len(accesses)
  /\ accesses' = Emptied /\ flushed' = 0
  /\ PinLog' = PinLog \o PinLogBuf
  /\ PinLogBuf' = <<>> /\ nul' = FALSE /\ PinLogBufSize' = 0
  /\ ppc' = "closed"
  /\ UNCHANGED <<AccessTrackingOn, dcount, seen>>

PinNext ==
  \/ \E where \in Marker : PrintMarker(where)
  \/ \E rtn \in Code, a \in Access : DoAccessAccounting(rtn, a)
  \/ \E activate \in BOOLEAN : SetTrigger(activate)
  \/ flush_line \/ flush_done \/ Fini \/ fini_done

PinSpec == PinInit /\ [][PinNext]_pinVars

-----------------------------------------------------------------------------
(* Properties *)

(* Neither buffer is written past its end: there is an element left in     *)
(* accesses for the next entry, and room in PinLogBuf for the longest line *)
(* snprintf may write.                                                     *)
BuffersFit ==
  /\ Len(accesses) <= N_ACCESSES
  /\ ppc = "run" => Len(accesses) < N_ACCESSES
  /\ PinLogBufSize + LineMax <= LOGBUFSIZE

(* What has been recorded, on its way from accesses to the file. *)
Trace == PinLog \o PinLogBuf \o SubSeq(accesses, flushed + 1, Len(accesses))

CutBefore(n) == \E m \in 1 .. n - 1 : Cut(seen[m])

(* No entry is lost, doubled or overtaken on its way through the two       *)
(* buffers, wherever a flush falls: the file, the text buffer and the rest *)
(* of accesses together are everything that was recorded, in order.  A     *)
(* line that is too long does no harm to what came before it.              *)
TraceIntact ==
  /\ ~CutBefore(Len(seen) + 1) => Trace = seen
  /\ \A n \in 1 .. Len(seen) :
       ~CutBefore(n) => n <= Len(Trace) /\ Trace[n] = seen[n]
=============================================================================
