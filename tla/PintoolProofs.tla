--------------------------- MODULE PintoolProofs ---------------------------
(***************************************************************************)
(* The buffers of the Pin tool neither overflow nor lose an entry, for     *)
(* every size of the two buffers and every length of the lines that        *)
(* PintoolAssumption admits.                                               *)
(***************************************************************************)
EXTENDS Pintool, TLAPS

(* The types of the tool's variables, and where the loop of flush_accesses *)
(* can be.                                                                 *)
PinTypes ==
  /\ accesses \in Seq(Entry)
  /\ flushed \in Nat /\ flushed <= Len(accesses)
  /\ ppc \in {"run", "flush", "fini", "closed"}
  /\ ppc \in {"run", "closed"} => flushed = 0
  /\ PinLogBuf \in Seq(Entry)
  /\ nul \in BOOLEAN
  /\ PinLogBufSize \in Nat
  /\ PinLog \in Seq(Entry)
  /\ seen \in Seq(Entry)

(* What ends before the end of the text buffer ends with a line that was   *)
(* cut.                                                                    *)
NulAfterCut == nul => PinLogBuf # <<>> /\ Cut(PinLogBuf[Len(PinLogBuf)])

PinInv == PinTypes /\ BuffersFit /\ NulAfterCut /\ TraceIntact

(* TraceIntact, of any two traces: t is s up to the first cut line of s. *)
CutIn(s, n) == \E m \in 1 .. n - 1 : Cut(s[m])

Intact(t, s) ==
  /\ ~CutIn(s, Len(s) + 1) => t = s
  /\ \A n \in 1 .. Len(s) : ~CutIn(s, n) => n <= Len(t) /\ t[n] = s[n]

-----------------------------------------------------------------------------
(* The rest of a sequence from element k + 1 on is that element and the    *)
(* rest from k + 2 on.                                                     *)
LEMMA RestUnfolds ==
  ASSUME NEW S, NEW s \in Seq(S), NEW k \in Nat, k < Len(s)
  PROVE  /\ s[k + 1] \in S
         /\ SubSeq(s, k + 1, Len(s)) = <<s[k + 1]>> \o SubSeq(s, k + 2, Len(s))
         /\ SubSeq(s, k + 2, Len(s)) \in Seq(S)
  OBVIOUS

(* The rest of a sequence from its end on is empty. *)
LEMMA RestOfAll ==
  ASSUME NEW S, NEW s \in Seq(S)
  PROVE  SubSeq(s, Len(s) + 1, Len(s)) = << >>
  OBVIOUS

(* All of a sequence is its rest from the first element on. *)
LEMMA RestOfNone ==
  ASSUME NEW S, NEW s \in Seq(S)
  PROVE  SubSeq(s, 1, Len(s)) = s
  OBVIOUS

(* Concatenation is associative. *)
LEMMA Assoc ==
  ASSUME NEW S, NEW a \in Seq(S), NEW b \in Seq(S), NEW c \in Seq(S)
  PROVE  /\ (a \o b) \o c = a \o (b \o c)
         /\ a \o b \in Seq(S)
         /\ a \o << >> = a
         /\ << >> \o a = a
  OBVIOUS

(* Appending is concatenation with one element. *)
LEMMA AppendOne ==
  ASSUME NEW S, NEW a \in Seq(S), NEW e \in S
  PROVE  Append(a, e) = a \o <<e>> /\ Append(a, e) \in Seq(S) /\ Len(Append(a, e)) = Len(a) + 1
  OBVIOUS

(* Recording one more entry keeps two traces equal up to the cut. *)
LEMMA IntactAppend ==
  ASSUME NEW t \in Seq(Entry), NEW s \in Seq(Entry), NEW e \in Entry, Intact(t, s)
  PROVE  Intact(t \o <<e>>, s \o <<e>>)
<1> DEFINE t1 == t \o <<e>>
           s1 == s \o <<e>>
<1>1. /\ Len(t1) = Len(t) + 1 /\ Len(s1) = Len(s) + 1
      /\ \A n \in 1 .. Len(s) : s1[n] = s[n]
      /\ \A n \in 1 .. Len(t) : t1[n] = t[n]
      /\ s1[Len(s) + 1] = e /\ t1[Len(t) + 1] = e
      /\ Len(t) \in Nat /\ Len(s) \in Nat
  OBVIOUS
<1> HIDE DEF t1, s1
<1>2. \A n \in 1 .. Len(s) + 1 : CutIn(s1, n) <=> CutIn(s, n)
  BY <1>1 DEF CutIn
<1>3. CutIn(s, Len(s) + 1) => CutIn(s1, Len(s1) + 1)
  BY <1>1 DEF CutIn
<1>4. ~CutIn(s1, Len(s1) + 1) => t1 = s1
  BY <1>3 DEF Intact, t1, s1
<1>5. ASSUME NEW n \in 1 .. Len(s1), ~CutIn(s1, n)
      PROVE  n <= Len(t1) /\ t1[n] = s1[n]
  <2>1. CASE n \in 1 .. Len(s)
    BY <1>1, <1>2, <1>5, <2>1 DEF Intact
  <2>2. CASE n = Len(s) + 1
    <3>1. ~CutIn(s, Len(s) + 1)
      BY <1>1, <1>2, <1>5, <2>2
    <3>2. t = s
      BY <3>1 DEF Intact
    <3> QED
      BY <1>1, <2>2, <3>2
  <2> QED
    BY <1>1, <2>1, <2>2
<1>6. Intact(t1, s1)
  BY <1>4, <1>5 DEF Intact
<1> QED
  BY <1>6 DEF t1, s1

(* What comes behind a cut line may lose an entry. *)
LEMMA IntactDrop ==
  ASSUME NEW a \in Seq(Entry), NEW e \in Entry, NEW b \in Seq(Entry),
         NEW s \in Seq(Entry), a # <<>>, Cut(a[Len(a)]),
         Intact(a \o (<<e>> \o b), s)
  PROVE  Intact(a \o b, s)
<1> DEFINE t  == a \o (<<e>> \o b)
           t1 == a \o b
           k  == Len(a)
<1>1. /\ k \in Nat /\ k > 0 /\ Len(b) \in Nat /\ Len(s) \in Nat
      /\ Len(t) = k + 1 + Len(b) /\ Len(t1) = k + Len(b)
      /\ \A n \in 1 .. k : t[n] = a[n] /\ t1[n] = a[n]
  OBVIOUS
<1> HIDE DEF t, t1
<1>2. ASSUME NEW n \in 1 .. Len(s) + 1, ~CutIn(s, n), n <= Len(s) \/ t = s
      PROVE  n <= k \/ (n = Len(s) + 1 /\ Len(s) < k)
  <2>1. SUFFICES ASSUME k < n PROVE Len(s) < k
    BY <1>1
  <2>2. SUFFICES ASSUME k <= Len(s) PROVE FALSE
    BY <1>1
  <2>3. ~CutIn(s, k) /\ ~Cut(s[k])
    BY <1>1, <1>2, <2>1, <2>2 DEF CutIn
  <2>4. t[k] = s[k]
    BY <1>1, <2>2, <2>3 DEF Intact, t
  <2> QED
    BY <1>1, <2>3, <2>4
<1>3. CutIn(s, Len(s) + 1)
  <2>1. SUFFICES ASSUME ~CutIn(s, Len(s) + 1) PROVE FALSE
    OBVIOUS
  <2>2. t = s
    BY <2>1 DEF Intact, t
  <2> QED
    BY <1>1, <1>2, <2>1, <2>2
<1>4. ASSUME NEW n \in 1 .. Len(s), ~CutIn(s, n)
      PROVE  n <= Len(t1) /\ t1[n] = s[n]
  <2>1. n <= k
    BY <1>1, <1>2, <1>4
  <2>2. t[n] = s[n]
    BY <1>4 DEF Intact, t
  <2> QED
    BY <1>1, <2>1, <2>2
<1>5. Intact(t1, s)
  BY <1>3, <1>4 DEF Intact
<1> QED
  BY <1>5 DEF t1

(* TraceIntact is Intact, before a step and after it. *)
LEMMA TraceIntactIs ==
  /\ TraceIntact <=> Intact(Trace, seen)
  /\ TraceIntact' <=> Intact(Trace', seen')
  BY DEF TraceIntact, Intact, CutBefore, CutIn

-----------------------------------------------------------------------------
(* Initially nothing is recorded. *)
LEMMA PinInitInv == PinInit => PinInv
<1> SUFFICES ASSUME PinInit PROVE PinInv
  OBVIOUS
<1>1. PinTypes /\ BuffersFit /\ NulAfterCut
  <2>1. nul \in BOOLEAN /\ NulAfterCut
    BY Zenon DEF PinInit, NulAfterCut
  <2>2. PinTypes
    BY <2>1 DEF PinInit, PinTypes
  <2>3. BuffersFit
    BY PintoolAssumption DEF PinInit, BuffersFit
  <2> QED
    BY <2>1, <2>2, <2>3
<1>2. Trace = <<>> /\ seen = <<>>
  BY DEF PinInit, Trace
<1>3. Intact(Trace, seen)
  BY <1>2 DEF Intact
<1> QED
  BY <1>1, <1>3, TraceIntactIs DEF PinInv

(* PrintMarker and DoAccessAccounting: an entry is recorded while there is *)
(* room for it.                                                            *)
LEMMA RecordInv ==
  ASSUME PinInv, NEW e \in Entry, ppc = "run", Record(e)
  PROVE  PinInv'
<1>1. /\ accesses' = accesses \o <<e>> /\ accesses' \in Seq(Entry)
      /\ Len(accesses') = Len(accesses) + 1
      /\ seen' = seen \o <<e>> /\ seen' \in Seq(Entry)
  BY AppendOne DEF PinInv, PinTypes, Record
<1>2. PinTypes'
  BY <1>1 DEF PinInv, PinTypes, Record
<1>3. BuffersFit' /\ NulAfterCut'
  BY <1>1, PintoolAssumption DEF PinInv, PinTypes, BuffersFit, NulAfterCut, Record
<1>4. TraceIntact'
  <2>1. flushed = 0 /\ SubSeq(accesses, flushed + 1, Len(accesses)) = accesses
    BY RestOfNone DEF PinInv, PinTypes
  <2>2. SubSeq(accesses', flushed' + 1, Len(accesses')) = accesses'
    BY <1>1, <2>1, RestOfNone DEF Record
  <2>3. PinLog \o PinLogBuf \in Seq(Entry) /\ <<e>> \in Seq(Entry)
    BY Assoc DEF PinInv, PinTypes
  <2>4. (PinLog \o PinLogBuf) \o (accesses \o <<e>>) = ((PinLog \o PinLogBuf) \o accesses) \o <<e>>
    BY <2>3, Assoc DEF PinInv, PinTypes
  <2>5. Trace' = Trace \o <<e>>
    BY <1>1, <2>1, <2>2, <2>4 DEF Record, Trace
  <2>6. Trace \in Seq(Entry) /\ seen \in Seq(Entry)
    BY <2>1, <2>3, Assoc DEF PinInv, PinTypes, Trace
  <2>7. Intact(Trace, seen)
    BY TraceIntactIs DEF PinInv
  <2>8. Intact(Trace \o <<e>>, seen \o <<e>>)
    BY <2>6, <2>7, IntactAppend
  <2> QED
    BY <1>1, <2>5, <2>8, TraceIntactIs
<1> QED
  BY <1>2, <1>3, <1>4 DEF PinInv

(* One line of flush_accesses: the entry moves on to the text buffer,      *)
(* unless that ends in a cut line, and from there to the file when the     *)
(* buffer is 5/6 full.                                                     *)
LEMMA FlushLineInv ==
  ASSUME PinInv, flush_line
  PROVE  PinInv'
<1> DEFINE e    == accesses[flushed + 1]
           rest == SubSeq(accesses, flushed + 2, Len(accesses))
           size == PinLogBufSize + linelen[e.what]
           text == IF nul THEN PinLogBuf ELSE Append(PinLogBuf, e)
<1>1. /\ e \in Entry
      /\ SubSeq(accesses, flushed + 1, Len(accesses)) = <<e>> \o rest
      /\ rest \in Seq(Entry)
  BY RestUnfolds DEF PinInv, PinTypes, flush_line
<1>2. /\ Append(PinLogBuf, e) = PinLogBuf \o <<e>>
      /\ Append(PinLogBuf, e) \in Seq(Entry)
      /\ <<e>> \in Seq(Entry)
      /\ text \in Seq(Entry)
  BY <1>1, AppendOne DEF PinInv, PinTypes
<1>3. PinLog \o text \in Seq(Entry)
  BY <1>2, Assoc DEF PinInv, PinTypes
<1>4. size \in Nat
  <2>1. e.what \in Marker \cup Code
    BY <1>1 DEF Entry
  <2>2. linelen[e.what] \in Nat
    BY <2>1, PintoolAssumption
  <2>3. PinLogBufSize \in Nat
    BY DEF PinInv, PinTypes
  <2> QED
    BY <2>2, <2>3
<1>5. /\ flushed' = flushed + 1 /\ flushed < Len(accesses) /\ accesses' = accesses
      /\ ppc' = ppc /\ ppc \in {"flush", "fini"} /\ seen' = seen
      /\ PinLogBuf' = (IF BufferFull(size) THEN <<>> ELSE text)
      /\ nul' = (~BufferFull(size) /\ (nul \/ Cut(e)))
      /\ PinLogBufSize' = (IF BufferFull(size) THEN 0 ELSE size)
      /\ PinLog' = (IF BufferFull(size) THEN PinLog \o text ELSE PinLog)
  BY DEF flush_line
<1>6. PinTypes'
  <2> HIDE DEF text, size
  <2>1. PinLogBuf' \in Seq(Entry) /\ PinLogBufSize' \in Nat /\ PinLog' \in Seq(Entry)
    BY <1>2, <1>3, <1>4, <1>5 DEF PinInv, PinTypes
  <2>2. nul' \in BOOLEAN
    BY <1>5, Zenon
  <2> QED
    BY <1>5, <2>1, <2>2 DEF PinInv, PinTypes
<1>7. BuffersFit'
  <2>1. ~BufferFull(size) => size + LineMax <= LOGBUFSIZE
    BY <1>4, PintoolAssumption DEF BufferFull
  <2>2. PinLogBufSize' + LineMax <= LOGBUFSIZE
    BY <1>5, <2>1, PintoolAssumption
  <2> QED
    BY <1>5, <2>2 DEF PinInv, BuffersFit
<1>8. NulAfterCut'
  <2> SUFFICES ASSUME nul' PROVE PinLogBuf' # <<>> /\ Cut(PinLogBuf'[Len(PinLogBuf')])
    BY DEF NulAfterCut
  <2>1. PinLogBuf' = text /\ (nul \/ Cut(e))
    BY <1>5, Zenon
  <2>2. CASE nul
    BY <2>1, <2>2 DEF PinInv, NulAfterCut
  <2>3. CASE ~nul
    <3>1. PinLogBuf' = Append(PinLogBuf, e) /\ Cut(e)
      BY <2>1, <2>3
    <3>2. PinLogBuf' # <<>> /\ PinLogBuf'[Len(PinLogBuf')] = e
      BY <1>1, <3>1 DEF PinInv, PinTypes
    <3> QED
      BY <3>1, <3>2
  <2> QED
    BY <2>2, <2>3
<1>9. TraceIntact'
  <2>1. /\ PinLog \in Seq(Entry) /\ PinLogBuf \in Seq(Entry)
        /\ PinLog \o PinLogBuf \in Seq(Entry) /\ seen \in Seq(Entry)
    BY Assoc DEF PinInv, PinTypes
  <2>2. SubSeq(accesses', flushed' + 1, Len(accesses')) = rest
    <3>1. flushed' + 1 = flushed + 2 /\ accesses' = accesses
      BY <1>5 DEF PinInv, PinTypes
    <3> QED
      BY <3>1
  <2>3. PinLog' \o PinLogBuf' = PinLog \o text
    <3>1. CASE BufferFull(size)
      BY <3>1, <1>3, <1>5, Assoc
    <3>2. CASE ~BufferFull(size)
      BY <3>2, <1>5
    <3> QED
      BY <3>1, <3>2
  <2>4. Trace' = (PinLog \o text) \o rest
    <3> HIDE DEF text, rest
    <3> QED
      BY <2>2, <2>3 DEF Trace
  <2>5. Intact((PinLog \o PinLogBuf) \o (<<e>> \o rest), seen)
    <3>1. Intact(Trace, seen)
      BY TraceIntactIs DEF PinInv
    <3> QED
      BY <1>1, <3>1 DEF Trace
  <2>6. CASE nul
    <3> DEFINE a == PinLog \o PinLogBuf
    <3>1. text = PinLogBuf
      BY <2>6
    <3>2. a # <<>> /\ Cut(a[Len(a)])
      <4>1. PinLogBuf # <<>> /\ Cut(PinLogBuf[Len(PinLogBuf)])
        BY <2>6 DEF PinInv, NulAfterCut
      <4>2. a[Len(a)] = PinLogBuf[Len(PinLogBuf)] /\ a # <<>>
        BY <2>1, <4>1
      <4> QED
        BY <4>1, <4>2
    <3>3. Intact(a \o rest, seen)
      <4> HIDE DEF a, e, rest
      <4>1. a \in Seq(Entry) /\ Intact(a \o (<<e>> \o rest), seen)
        BY <2>1, <2>5 DEF a
      <4> QED
        BY <1>1, <2>1, <3>2, <4>1, IntactDrop
    <3>4. Trace' = a \o rest
      BY <2>4, <3>1
    <3> QED
      BY <1>5, <3>3, <3>4, TraceIntactIs
  <2>7. CASE ~nul
    <3> DEFINE one == <<e>>
    <3>1. one \in Seq(Entry) /\ rest \in Seq(Entry)
      BY <1>1, <1>2
    <3>2. text = PinLogBuf \o one
      BY <1>2, <2>7
    <3> HIDE DEF one, rest, text
    <3>3. \A x \in Seq(Entry) : x \o (one \o rest) = (x \o one) \o rest
      BY <3>1
    <3>4. (PinLog \o PinLogBuf) \o (one \o rest) = ((PinLog \o PinLogBuf) \o one) \o rest
      BY <2>1, <3>3, Zenon
    <3>5. (PinLog \o PinLogBuf) \o one = PinLog \o (PinLogBuf \o one)
      BY <2>1, <3>1
    <3>6. Trace' = (PinLog \o PinLogBuf) \o (one \o rest)
      BY <2>4, <3>2, <3>4, <3>5, Zenon
    <3>7. Intact(Trace', seen)
      BY <2>5, <3>6, Zenon DEF one
    <3> QED
      BY <1>5, <3>7, TraceIntactIs, Zenon
  <2> QED
    BY <2>6, <2>7
<1> QED
  BY <1>6, <1>7, <1>8, <1>9 DEF PinInv

(* The end of flush_accesses, in DoAccessAccounting or in Fini: accesses   *)
(* is emptied when all of it is in the text buffer or the file.            *)
LEMMA FlushDoneInv ==
  ASSUME PinInv, flush_done \/ fini_done
  PROVE  PinInv'
<1>1. Trace = PinLog \o PinLogBuf
  <2>1. SubSeq(accesses, flushed + 1, Len(accesses)) = << >>
    BY RestOfAll DEF PinInv, PinTypes, flush_done, fini_done
  <2>2. PinLog \o PinLogBuf \in Seq(Entry)
    BY Assoc DEF PinInv, PinTypes
  <2> QED
    BY <2>1, <2>2, Assoc DEF Trace
<1>2. PinLog \o PinLogBuf \in Seq(Entry) /\ << >> \in Seq(Entry) /\ Len(<< >>) = 0
  BY Assoc DEF PinInv, PinTypes
<1>3. SubSeq(<< >>, 1, 0) = << >>
  OBVIOUS
<1>4. (PinLog \o PinLogBuf) \o << >> = PinLog \o PinLogBuf
  BY <1>2, Assoc
<1>5. PinTypes' /\ BuffersFit' /\ NulAfterCut'
  <2>1. CASE flush_done
    <3>1. nul' = nul /\ PinLogBuf' = PinLogBuf
      BY <2>1 DEF flush_done
    <3>2. nul' \in BOOLEAN /\ NulAfterCut'
      BY <3>1 DEF PinInv, PinTypes, NulAfterCut
    <3>3. PinTypes'
      BY <1>2, <2>1, <3>2 DEF PinInv, PinTypes, flush_done, Emptied
    <3>4. BuffersFit'
      BY <1>2, <2>1, PintoolAssumption DEF PinInv, BuffersFit, flush_done, Emptied
    <3> QED
      BY <3>2, <3>3, <3>4
  <2>2. CASE fini_done
    <3>1. nul' \in BOOLEAN /\ NulAfterCut'
      BY <2>2, Zenon DEF fini_done, NulAfterCut
    <3>2. PinTypes'
      BY <1>2, <2>2, <3>1 DEF PinInv, PinTypes, fini_done, Emptied
    <3>3. BuffersFit'
      BY <1>2, <2>2, PintoolAssumption DEF PinInv, BuffersFit, fini_done, Emptied
    <3> QED
      BY <3>1, <3>2, <3>3
  <2> QED
    BY <2>1, <2>2
<1>6. Trace' = Trace /\ seen' = seen
  <2>1. CASE flush_done
    BY <1>1, <1>2, <1>3, <1>4, <2>1 DEF Trace, flush_done, Emptied
  <2>2. CASE fini_done
    BY <1>1, <1>2, <1>3, <1>4, <2>2 DEF Trace, fini_done, Emptied
  <2> QED
    BY <2>1, <2>2
<1>7. TraceIntact'
  <2>1. Intact(Trace, seen)
    BY TraceIntactIs DEF PinInv
  <2> QED
    BY <1>6, <2>1, TraceIntactIs
<1> QED
  BY <1>5, <1>7 DEF PinInv

(* Steps that touch none of the buffers. *)
LEMMA OtherInv ==
  ASSUME PinInv,
         UNCHANGED <<accesses, flushed, PinLogBuf, nul, PinLogBufSize, PinLog, seen>>,
         ppc' = ppc \/ (ppc = "run" /\ ppc' \in {"fini", "closed"})
  PROVE  PinInv'
<1>1. PinTypes' /\ BuffersFit' /\ NulAfterCut'
  BY DEF PinInv, PinTypes, BuffersFit, NulAfterCut
<1>2. TraceIntact'
  <2>1. Trace' = Trace /\ seen' = seen
    BY DEF Trace
  <2>2. Intact(Trace, seen)
    BY TraceIntactIs DEF PinInv
  <2> QED
    BY <2>1, <2>2, TraceIntactIs
<1> QED
  BY <1>1, <1>2 DEF PinInv

(* Whatever the traced program makes the tool do, and wherever the flushes *)
(* fall, the invariant is kept.                                            *)
LEMMA PinNextInv == PinInv /\ [PinNext]_pinVars => PinInv'
<1> SUFFICES ASSUME PinInv, [PinNext]_pinVars PROVE PinInv'
  OBVIOUS
<1>1. ASSUME NEW where \in Marker, PrintMarker(where) PROVE PinInv'
  <2>1. [what |-> where, at |-> NoData] \in Entry
    BY DEF Entry
  <2> QED
    BY <1>1, <2>1, RecordInv DEF PrintMarker
<1>2. ASSUME NEW rtn \in Code, NEW a \in Access, DoAccessAccounting(rtn, a)
      PROVE  PinInv'
  <2>1. CASE ~AccessTrackingOn /\ UNCHANGED pinVars
    BY <2>1, OtherInv DEF pinVars
  <2>2. CASE AccessTrackingOn /\ Record([what |-> rtn, at |-> a])
    <3>1. [what |-> rtn, at |-> a] \in Entry
      BY DEF Entry
    <3> QED
      BY <1>2, <2>2, <3>1, RecordInv DEF DoAccessAccounting
  <2> QED
    BY <1>2, <2>1, <2>2 DEF DoAccessAccounting
<1>3. ASSUME NEW activate \in BOOLEAN, SetTrigger(activate) PROVE PinInv'
  BY <1>3, OtherInv DEF SetTrigger
<1>4. CASE flush_line
  BY <1>4, FlushLineInv
<1>5. CASE flush_done \/ fini_done
  BY <1>5, FlushDoneInv
<1>6. CASE Fini
  BY <1>6, OtherInv DEF Fini
<1>7. CASE UNCHANGED pinVars
  BY <1>7, OtherInv DEF pinVars
<1> QED
  BY <1>1, <1>2, <1>3, <1>4, <1>5, <1>6, <1>7 DEF PinNext

(* The invariant holds in every state of the Pin tool, whatever the traced *)
(* program makes it record and wherever the flushes fall.                  *)
THEOREM PinInvariance == PinSpec => []PinInv
BY PinInitInv, PinNextInv, PTL DEF PinSpec

(* Neither accesses nor PinLogBuf is ever written past its end. *)
THEOREM PinBuffersFit == PinSpec => []BuffersFit
<1>1. PinInv => BuffersFit
  BY DEF PinInv
<1> QED
  BY <1>1, PinInvariance, PTL

(* The file and the two buffers together always hold what was recorded, in *)
(* the order in which it was recorded, at least up to the first line that  *)
(* snprintf cuts.                                                          *)
THEOREM PinTraceIntact == PinSpec => []TraceIntact
<1>1. PinInv => TraceIntact
  BY DEF PinInv
<1> QED
  BY <1>1, PinInvariance, PTL
=============================================================================
