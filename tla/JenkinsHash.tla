---------------------------- MODULE JenkinsHash ----------------------------
(***************************************************************************)
(* jenkins_hash of src/src/jenkins_hash.c, in the little-endian build.     *)
(*                                                                         *)
(* The function reads the key through one of three paths, by the alignment *)
(* of the pointer: 32-bit words, of which the last is read whole and       *)
(* masked, 16-bit halves, or bytes.  cache_set hashes the key in main's    *)
(* buffer and cache_get the copy in the wrapper's message, at another      *)
(* alignment and with other bytes behind it: unless the paths agree, what  *)
(* was stored is never found again.                                        *)
(*                                                                         *)
(* A 32-bit word is a record of its two 16-bit halves.                     *)
(***************************************************************************)
EXTENDS Integers, Sequences

CONSTANTS
  Top,              \* the number of bytes of memory
  Memory,           \* what they may hold
  Pointers,         \* where a key may start
  Lengths           \* how long it may be

(* Memory is whole words, of which the bytes of the key are some. *)
ASSUME MemoryAssumption ==
  /\ Top \in Nat /\ Top % 4 = 0
  /\ Memory \subseteq [0 .. Top - 1 -> 0 .. 255]
  /\ Pointers \subseteq Nat /\ Lengths \subseteq Nat
  /\ \A p \in Pointers, n \in Lengths : p + n <= Top

VARIABLES
  mem,              \* the bytes around and of the key
  key, len,         \* the arguments
  k, length,        \* what is left to read
  abc,              \* the internal state a, b, c
  pc,               \* "block" or "done"
  read              \* history: the addresses read so far

vars == <<mem, key, len, k, length, abc, pc, read>>

-----------------------------------------------------------------------------
(* Arithmetic on uint32_t. *)
Half == 65536
Word(hi, lo) == [h |-> hi, l |-> lo]

Add32(x, y) == Word((x.h + y.h + (x.l + y.l) \div Half) % Half, (x.l + y.l) % Half)
Sub32(x, y) == Word((x.h - y.h + (x.l - y.l) \div Half) % Half, (x.l - y.l) % Half)

(* Exclusive or, of bits and then by halves. *)
XorBit(x, y) == (x + y) % 2
Xor2(x, y)  == 2 * XorBit(x \div 2, y \div 2) + XorBit(x % 2, y % 2)
Xor4(x, y)  == 4 * Xor2(x \div 4, y \div 4) + Xor2(x % 4, y % 4)
Xor8(x, y)  == 16 * Xor4(x \div 16, y \div 16) + Xor4(x % 16, y % 16)
Xor16(x, y) == 256 * Xor8(x \div 256, y \div 256) + Xor8(x % 256, y % 256)
Xor32(x, y) == Word(Xor16(x.h, y.h), Xor16(x.l, y.l))

(* rot(x, n) for n < 16, and for n >= 16 after an exchange of the halves. *)
rotShort(x, n) ==
  LET up(a, b) == ((a * 2^n) % Half) + (b \div 2^(16 - n)) IN Word(up(x.h, x.l), up(x.l, x.h))
rot(x, n) == IF n < 16 THEN rotShort(x, n) ELSE rotShort(Word(x.l, x.h), n - 16)

(* x -= z;  x ^= rot(z, r);  z += y *)
mixLine(s, x, z, y, r) ==
  [s EXCEPT ![x] = Xor32(Sub32(s[x], s[z]), rot(s[z], r)), ![z] = Add32(s[z], s[y])]

(* The state is a, b, c in this order. *)
mix(s) ==
  LET s1 == mixLine(s,  1, 3, 2, 4)
      s2 == mixLine(s1, 2, 1, 3, 6)
      s3 == mixLine(s2, 3, 2, 1, 8)
      s4 == mixLine(s3, 1, 3, 2, 16)
      s5 == mixLine(s4, 2, 1, 3, 19)
  IN mixLine(s5, 3, 2, 1, 4)

(* x ^= z; x -= rot(z, r) *)
finalLine(s, x, z, r) == [s EXCEPT ![x] = Sub32(Xor32(s[x], s[z]), rot(s[z], r))]

final(s) ==
  LET s1 == finalLine(s,  3, 2, 14)
      s2 == finalLine(s1, 1, 3, 11)
      s3 == finalLine(s2, 2, 1, 25)
      s4 == finalLine(s3, 3, 2, 16)
      s5 == finalLine(s4, 1, 3, 4)
      s6 == finalLine(s5, 2, 1, 14)
  IN finalLine(s6, 3, 2, 24)

-----------------------------------------------------------------------------
(* Reading n <= 4 bytes of a word at p. *)
byte(p)  == Word(0, mem[p])
byte2(p) == Word(mem[p], 0)                           \* << 16
half(p)  == Word(0, mem[p] + 256 * mem[p + 1])
half2(p) == Word(mem[p] + 256 * mem[p + 1], 0)        \* << 16
word(p)  == Add32(half(p), half2(p + 2))

(* Mutant: the last word is not masked. *)
masked_Not(w, n) == w

(* & 0xff, & 0xffff, & 0xffffff, or the whole word. *)
masked(w, n) == CASE n = 1 -> Word(0, w.l % 256) [] n = 2 -> Word(0, w.l)
                  [] n = 3 -> Word(w.h % 256, w.l) [] n = 4 -> w

(* The loads of the switch of each path, and the addresses they touch.     *)
halves(p, n) == CASE n = 1 -> byte(p) [] n = 2 -> half(p)
                  [] n = 3 -> Add32(byte2(p + 2), half(p)) [] n = 4 -> Add32(half(p), half2(p + 2))
bytes(p, n) ==
  LET at(j) == IF j < n THEN mem[p + j] ELSE 0
  IN Add32(Add32(Add32(Word(256 * at(3), 0), Word(at(2), 0)), Word(0, 256 * at(1))), Word(0, at(0)))

(* Mutant: 32-bit loads wherever 16-bit loads are aligned. *)
path_Half(p) == IF p % 2 = 0 THEN "words" ELSE "bytes"

path(p) == CASE p % 4 = 0 -> "words" [] p % 4 = 2 -> "halves" [] OTHER -> "bytes"

load(p, n) ==
  CASE n = 0 -> Word(0, 0)
    [] n > 0 /\ path(key) = "words"  -> masked(word(p), n)
    [] n > 0 /\ path(key) = "halves" -> halves(p, n)
    [] n > 0 /\ path(key) = "bytes"  -> bytes(p, n)

touched(p, n) == IF n > 0 /\ path(key) = "words" THEN p .. p + 3 ELSE p .. p + n - 1

(* How many of the n bytes left belong to word w of the block. *)
part(w, n) == IF n < 4 * w THEN 0 ELSE IF n >= 4 * w + 4 THEN 4 ELSE n - 4 * w

consume(n) ==
  /\ read' = read \cup UNION {touched(k + 4 * w, part(w, n)) : w \in 0 .. 2}
  /\ UNCHANGED <<mem, key, len>>

added(n) ==
  LET plus(w) == Add32(abc[w + 1], load(k + 4 * w, part(w, n))) IN <<plus(0), plus(1), plus(2)>>

-----------------------------------------------------------------------------
(* 0xdeadbeef + (uint32_t)length *)
seed(n) == Add32(Word(57005, 48879), Word((n \div Half) % Half, n % Half))

Init ==
  /\ mem \in Memory /\ key \in Pointers /\ len \in Lengths
  /\ k = key /\ length = len
  /\ abc = <<seed(len), seed(len), seed(len)>>
  /\ pc = "block"
  /\ read = {}

(* Mutant: the last step's mixing in the loop. *)
stir_Final(s) == final(s)

(* What happens in the loop to a state that a block was added to. *)
stir(s) == mix(s)

(* An iteration of "while (length > 12)". *)
whole_block ==
  /\ pc = "block"
  /\ length > 12
  /\ abc' = stir(added(12))
  /\ k' = k + 12 /\ length' = length - 12
  /\ consume(12)
  /\ UNCHANGED pc

(* The switch on what is left, and the final mixing unless nothing is. *)
last_block ==
  /\ pc = "block"
  /\ length <= 12
  /\ abc' = IF length = 0 THEN abc ELSE final(added(length))
  /\ pc' = "done"
  /\ consume(length)
  /\ UNCHANGED <<k, length>>

returned == pc = "done" /\ UNCHANGED vars

Next == whole_block \/ last_block \/ returned

Spec == Init /\ [][Next]_vars

-----------------------------------------------------------------------------
(* Properties *)

(* The hash of a string, without memory and without alignment: the string  *)
(* padded with zeros, in little-endian words, three of them at a time.     *)
WordOf(str, w) ==
  LET at(j) == IF j < Len(str) THEN str[j + 1] ELSE 0
  IN Word(at(4 * w + 2) + 256 * at(4 * w + 3), at(4 * w) + 256 * at(4 * w + 1))

Plus(s, str, b) ==
  <<Add32(s[1], WordOf(str, 3 * b)), Add32(s[2], WordOf(str, 3 * b + 1)),
    Add32(s[3], WordOf(str, 3 * b + 2))>>

(* The state after b blocks. *)
Absorbed(str) ==
  LET n == Len(str)
      state[b \in 0 .. n \div 12] ==
        IF b = 0 THEN <<seed(n), seed(n), seed(n)>> ELSE mix(Plus(state[b - 1], str, b - 1))
  IN state

Hash(str) ==
  LET b == (Len(str) - 1) \div 12
  IN IF Len(str) = 0 THEN Absorbed(str)[0][3] ELSE final(Plus(Absorbed(str)[b], str, b))[3]

TheKey == [j \in 1 .. len |-> mem[key + j - 1]]

(* The value returned depends on the bytes of the key alone: not on where  *)
(* it lies and not on what lies around it, although the word path reads    *)
(* beyond its end.                                                         *)
HashOfKey == pc = "done" => abc[3] = Hash(TheKey)

(* "Because the string is aligned, the masked-off tail is in the same word *)
(* as the rest of the string": nothing is read outside of the aligned      *)
(* words in which the key lies, and all of the key is read.                *)
ReadsInWords ==
  /\ \A p \in read : \E q \in key .. key + len - 1 : q \div 4 = p \div 4
  /\ pc = "done" => key .. key + len - 1 \subseteq read

(* The lines of mix undone, last line first. *)
unmixLine(s, x, z, y, r) ==
  LET zOld == Sub32(s[z], s[y])
  IN [s EXCEPT ![z] = zOld, ![x] = Add32(Xor32(s[x], rot(zOld, r)), zOld)]

unmix(s) ==
  LET s1 == unmixLine(s,  3, 2, 1, 4)
      s2 == unmixLine(s1, 2, 1, 3, 19)
      s3 == unmixLine(s2, 1, 3, 2, 16)
      s4 == unmixLine(s3, 3, 2, 1, 8)
      s5 == unmixLine(s4, 2, 1, 3, 6)
  IN unmixLine(s5, 1, 3, 2, 4)

(* "mix 3 32-bit values reversibly": what the state was before a block is  *)
(* still in the state after it, so two keys of one length that differ in   *)
(* an earlier block never meet in the loop.                                *)
MixReversible == [][pc' = "block" => unmix(abc') = added(12)]_vars
=============================================================================
