---------------------------- MODULE JenkinsProofs ----------------------------
(***************************************************************************)
(* What jenkins_hash returns depends on the bytes of the key alone, for    *)
(* every memory, every pointer and every length; it reads the words in     *)
(* which the key lies and no other; and its mixing can be undone.          *)
(***************************************************************************)
EXTENDS JenkinsHash, NumberProofs

-----------------------------------------------------------------------------
(* Arithmetic on words. *)

HalfWord == {n \in Nat : n < Half}
Word32 == [h : HalfWord, l : HalfWord]

(* Applying the exclusive or twice gives the first argument back. *)
LEMMA XorBitTwice ==
  ASSUME NEW x \in Nat, NEW y \in Nat
  PROVE  XorBit(x, y) \in 0 .. 1 /\ (x \in 0 .. 1 => XorBit(XorBit(x, y), y) = x)
BY DEF XorBit

LEMMA Xor2Twice ==
  ASSUME NEW x \in Nat, NEW y \in Nat
  PROVE  Xor2(x, y) \in 0 .. 3 /\ (x \in 0 .. 3 => Xor2(Xor2(x, y), y) = x)
<1> DEFINE a == XorBit(x \div 2, y \div 2)
           b == XorBit(x % 2, y % 2)
           r == Xor2(x, y)
<1>1. x \div 2 \in Nat /\ y \div 2 \in Nat /\ x % 2 \in 0 .. 1 /\ y % 2 \in Nat
  OBVIOUS
<1>2. a \in 0 .. 1 /\ b \in 0 .. 1 /\ XorBit(b, y % 2) = x % 2
  <2>1. x % 2 \in Nat
    BY <1>1
  <2> QED BY <1>1, <2>1, XorBitTwice, Zenon
<1>3. x \in 0 .. 3 => XorBit(a, y \div 2) = x \div 2
  <2>1. x \in 0 .. 3 => x \div 2 \in 0 .. 1
    OBVIOUS
  <2>2. x \div 2 \in 0 .. 1 => XorBit(XorBit(x \div 2, y \div 2), y \div 2) = x \div 2
    BY <1>1, XorBitTwice
  <2> QED BY <2>1, <2>2
<1>4. r = 2 * a + b
  BY DEF Xor2
<1>5. Xor2(r, y) = 2 * XorBit(r \div 2, y \div 2) + XorBit(r % 2, y % 2)
  BY DEF Xor2
<1>6. x = 2 * (x \div 2) + (x % 2)
  OBVIOUS
<1> HIDE DEF a, b, r
<1>7. r \in 0 .. 3 /\ r \div 2 = a /\ r % 2 = b
  <2>1. r \in 0 .. 3
    BY <1>2, <1>4
  <2>2. r \div 2 = a
    BY <1>2, <1>4
  <2>3. r % 2 = b
    BY <1>2, <1>4
  <2> QED BY <2>1, <2>2, <2>3
<1>8. x \in 0 .. 3 => Xor2(r, y) = x
  <2>1. Xor2(r, y) = 2 * XorBit(a, y \div 2) + XorBit(b, y % 2)
    BY <1>5, <1>7
  <2>2. x \in 0 .. 3 => Xor2(r, y) = 2 * (x \div 2) + (x % 2)
    BY <1>2, <1>3, <2>1
  <2> QED BY <1>6, <2>2
<1>9. Xor2(x, y) = r
  BY DEF r
<1> QED BY <1>7, <1>8, <1>9

LEMMA Xor4Twice ==
  ASSUME NEW x \in Nat, NEW y \in Nat
  PROVE  Xor4(x, y) \in 0 .. 15 /\ (x \in 0 .. 15 => Xor4(Xor4(x, y), y) = x)
<1> DEFINE a == Xor2(x \div 4, y \div 4)
           b == Xor2(x % 4, y % 4)
           r == Xor4(x, y)
<1>1. x \div 4 \in Nat /\ y \div 4 \in Nat /\ x % 4 \in 0 .. 3 /\ y % 4 \in Nat
  OBVIOUS
<1>2. a \in 0 .. 3 /\ b \in 0 .. 3 /\ Xor2(b, y % 4) = x % 4
  <2>1. x % 4 \in Nat
    BY <1>1
  <2> QED BY <1>1, <2>1, Xor2Twice, Zenon
<1>3. x \in 0 .. 15 => Xor2(a, y \div 4) = x \div 4
  <2>1. x \in 0 .. 15 => x \div 4 \in 0 .. 3
    OBVIOUS
  <2>2. x \div 4 \in 0 .. 3 => Xor2(Xor2(x \div 4, y \div 4), y \div 4) = x \div 4
    BY <1>1, Xor2Twice
  <2> QED BY <2>1, <2>2
<1>4. r = 4 * a + b
  BY DEF Xor4
<1>5. Xor4(r, y) = 4 * Xor2(r \div 4, y \div 4) + Xor2(r % 4, y % 4)
  BY DEF Xor4
<1>6. x = 4 * (x \div 4) + (x % 4)
  OBVIOUS
<1> HIDE DEF a, b, r
<1>7. r \in 0 .. 15 /\ r \div 4 = a /\ r % 4 = b
  <2>1. r \in 0 .. 15
    BY <1>2, <1>4
  <2>2. r \div 4 = a
    BY <1>2, <1>4
  <2>3. r % 4 = b
    BY <1>2, <1>4
  <2> QED BY <2>1, <2>2, <2>3
<1>8. x \in 0 .. 15 => Xor4(r, y) = x
  <2>1. Xor4(r, y) = 4 * Xor2(a, y \div 4) + Xor2(b, y % 4)
    BY <1>5, <1>7
  <2>2. x \in 0 .. 15 => Xor4(r, y) = 4 * (x \div 4) + (x % 4)
    BY <1>2, <1>3, <2>1
  <2> QED BY <1>6, <2>2
<1>9. Xor4(x, y) = r
  BY DEF r
<1> QED BY <1>7, <1>8, <1>9

LEMMA Xor8Twice ==
  ASSUME NEW x \in Nat, NEW y \in Nat
  PROVE  Xor8(x, y) \in 0 .. 255 /\ (x \in 0 .. 255 => Xor8(Xor8(x, y), y) = x)
<1> DEFINE a == Xor4(x \div 16, y \div 16)
           b == Xor4(x % 16, y % 16)
           r == Xor8(x, y)
<1>1. x \div 16 \in Nat /\ y \div 16 \in Nat /\ x % 16 \in 0 .. 15 /\ y % 16 \in Nat
  OBVIOUS
<1>2. a \in 0 .. 15 /\ b \in 0 .. 15 /\ Xor4(b, y % 16) = x % 16
  <2>1. x % 16 \in Nat
    BY <1>1
  <2> QED BY <1>1, <2>1, Xor4Twice, Zenon
<1>3. x \in 0 .. 255 => Xor4(a, y \div 16) = x \div 16
  <2>1. x \in 0 .. 255 => x \div 16 \in 0 .. 15
    OBVIOUS
  <2>2. x \div 16 \in 0 .. 15 => Xor4(Xor4(x \div 16, y \div 16), y \div 16) = x \div 16
    BY <1>1, Xor4Twice
  <2> QED BY <2>1, <2>2
<1>4. r = 16 * a + b
  BY DEF Xor8
<1>5. Xor8(r, y) = 16 * Xor4(r \div 16, y \div 16) + Xor4(r % 16, y % 16)
  BY DEF Xor8
<1>6. x = 16 * (x \div 16) + (x % 16)
  OBVIOUS
<1> HIDE DEF a, b, r
<1>7. r \in 0 .. 255 /\ r \div 16 = a /\ r % 16 = b
  <2>1. r \in 0 .. 255
    BY <1>2, <1>4
  <2>2. r \div 16 = a
    BY <1>2, <1>4
  <2>3. r % 16 = b
    BY <1>2, <1>4
  <2> QED BY <2>1, <2>2, <2>3
<1>8. x \in 0 .. 255 => Xor8(r, y) = x
  <2>1. Xor8(r, y) = 16 * Xor4(a, y \div 16) + Xor4(b, y % 16)
    BY <1>5, <1>7
  <2>2. x \in 0 .. 255 => Xor8(r, y) = 16 * (x \div 16) + (x % 16)
    BY <1>2, <1>3, <2>1
  <2> QED BY <1>6, <2>2
<1>9. Xor8(x, y) = r
  BY DEF r
<1> QED BY <1>7, <1>8, <1>9

(* Two bytes joined to a half word, and a half word taken apart.           *)
LEMMA JoinBytes ==
  \A a \in 0 .. 255 : \A b \in 0 .. 255 : \A r :
    r = 256 * a + b => r \in HalfWord /\ r \div 256 = a /\ r % 256 = b
<1> SUFFICES ASSUME NEW a \in 0 .. 255, NEW b \in 0 .. 255, NEW r, r = 256 * a + b
             PROVE  r \in HalfWord /\ r \div 256 = a /\ r % 256 = b
  BY Zenon
<1>1. a \in Int /\ b \in Int /\ 0 <= a /\ a <= 255 /\ 0 <= b /\ b <= 255 /\ r = 256 * a + b
  OBVIOUS
<1>2. r \in Int /\ 0 <= r /\ r < 65536
  BY ONLY <1>1
<1>3. r \in HalfWord
  BY ONLY <1>2 DEF HalfWord, Half
<1>4. r \div 256 = a
  BY ONLY <1>1
<1>5. r % 256 = b
  BY ONLY <1>1
<1> QED BY ONLY <1>3, <1>4, <1>5, Zenon

LEMMA SplitBytes ==
  ASSUME NEW x \in HalfWord
  PROVE  x \div 256 \in 0 .. 255
<1>1. x \in Int /\ 0 <= x /\ x < 65536
  BY DEF HalfWord, Half
<1>2. x \div 256 \in Int /\ 0 <= x \div 256 /\ x \div 256 <= 255
  BY ONLY <1>1
<1> QED BY ONLY <1>2

LEMMA BytesOf ==
  ASSUME NEW x \in Nat
  PROVE  /\ x \div 256 \in Nat
         /\ x % 256 \in 0 .. 255
         /\ x % 256 \in Nat
         /\ x = 256 * (x \div 256) + (x % 256)
<1>1. x \div 256 \in Nat
  OBVIOUS
<1>2. x % 256 \in 0 .. 255 /\ x % 256 \in Nat
  OBVIOUS
<1>3. x = 256 * (x \div 256) + (x % 256)
  OBVIOUS
<1> QED BY ONLY <1>1, <1>2, <1>3

LEMMA Xor16Twice ==
  ASSUME NEW x \in Nat, NEW y \in Nat
  PROVE  Xor16(x, y) \in HalfWord /\ (x \in HalfWord => Xor16(Xor16(x, y), y) = x)
<1> DEFINE p == x \div 256
           q == x % 256
           u == y \div 256
           v == y % 256
           a == Xor8(p, u)
           b == Xor8(q, v)
           r == Xor16(x, y)
<1>1. p \in Nat /\ q \in Nat /\ q \in 0 .. 255 /\ u \in Nat /\ v \in Nat /\ x = 256 * p + q
  BY BytesOf
<1>2. x \in HalfWord => p \in 0 .. 255
  BY SplitBytes
<1>3. r = 256 * a + b
  BY DEF Xor16
<1>4. Xor16(r, y) = 256 * Xor8(r \div 256, u) + Xor8(r % 256, v)
  BY DEF Xor16
<1> HIDE DEF p, q, u, v
<1>5. a \in 0 .. 255 /\ (p \in 0 .. 255 => Xor8(a, u) = p)
  BY <1>1, Xor8Twice, Zenon
<1>6. b \in 0 .. 255 /\ Xor8(b, v) = q
  BY <1>1, Xor8Twice, Zenon
<1>7. Xor16(x, y) = r
  BY DEF r
<1> HIDE DEF a, b, r
<1>8. r \in HalfWord /\ r \div 256 = a /\ r % 256 = b
  <2>1. a \in 0 .. 255 /\ b \in 0 .. 255
    BY <1>5, <1>6, Zenon
  <2>2. \A z : z = 256 * a + b => z \in HalfWord /\ z \div 256 = a /\ z % 256 = b
    BY <2>1, JoinBytes, Zenon
  <2> QED BY <1>3, <2>2, Zenon
<1>9. x \in HalfWord => Xor16(r, y) = x
  <2>1. Xor16(r, y) = 256 * Xor8(a, u) + Xor8(b, v)
    BY <1>4, <1>8, Zenon
  <2>2. x \in HalfWord => Xor16(r, y) = 256 * p + q
    BY <1>2, <1>5, <1>6, <2>1, Zenon
  <2> QED BY <1>1, <2>2, Zenon
<1> QED BY <1>7, <1>8, <1>9, Zenon

LEMMA WordFacts ==
  ASSUME NEW x \in Word32
  PROVE  x.h \in HalfWord /\ x.l \in HalfWord /\ x.h \in Nat /\ x.l \in Nat /\ x = Word(x.h, x.l)
BY DEF Word32, HalfWord, Half, Word

LEMMA WordIsWord ==
  ASSUME NEW a \in HalfWord, NEW b \in HalfWord
  PROVE  Word(a, b) \in Word32
BY DEF Word32, Word

(* A number wrapped to 16 bits. *)
LEMMA Wraps ==
  ASSUME NEW n \in Int
  PROVE  n % Half \in HalfWord
BY DEF HalfWord, Half

(* Adding, subtracting and the exclusive or give words, and each can be    *)
(* undone.                                                                 *)
LEMMA AddIsWord ==
  ASSUME NEW x \in Word32, NEW y \in Word32
  PROVE  Add32(x, y) \in Word32
<1>1. x.h + y.h + (x.l + y.l) \div Half \in Int /\ x.l + y.l \in Int
  BY WordFacts DEF Half
<1> QED BY <1>1, Wraps, WordIsWord DEF Add32

LEMMA SubIsWord ==
  ASSUME NEW x \in Word32, NEW y \in Word32
  PROVE  Sub32(x, y) \in Word32
<1>1. x.h - y.h + (x.l - y.l) \div Half \in Int /\ x.l - y.l \in Int
  BY WordFacts DEF Half
<1> QED BY <1>1, Wraps, WordIsWord DEF Sub32

LEMMA XorTwice ==
  ASSUME NEW x \in Word32, NEW y, y.h \in Nat, y.l \in Nat
  PROVE  Xor32(x, y) \in Word32 /\ Xor32(Xor32(x, y), y) = x
<1> DEFINE h == Xor16(x.h, y.h)
           l == Xor16(x.l, y.l)
<1>1. h \in HalfWord /\ Xor16(h, y.h) = x.h
  BY WordFacts, Xor16Twice
<1>2. l \in HalfWord /\ Xor16(l, y.l) = x.l
  BY WordFacts, Xor16Twice
<1>3. Xor32(x, y) = Word(h, l)
  BY DEF Xor32
<1> HIDE DEF h, l
<1>4. Word(h, l).h = h /\ Word(h, l).l = l
  BY DEF Word
<1>5. Xor32(Word(h, l), y) = Word(x.h, x.l)
  BY <1>1, <1>2, <1>4 DEF Xor32
<1> QED BY <1>1, <1>2, <1>3, <1>5, WordFacts, WordIsWord

(* On 16 bits, with the carry and the borrow. *)
LEMMA Carry ==
  ASSUME NEW a \in HalfWord, NEW b \in HalfWord, NEW c \in HalfWord, NEW d \in HalfWord
  PROVE  /\ (((b + d) % Half) - d) % Half = b
         /\ (((a + c + (b + d) \div Half) % Half) - c + (((b + d) % Half) - d) \div Half) % Half = a
<1> USE DEF HalfWord, Half
<1>1. CASE b + d < Half
  <2>1. (b + d) % Half = b + d /\ (b + d) \div Half = 0
    BY <1>1
  <2>2. (b + d - d) \div Half = 0 /\ (b + d - d) % Half = b
    OBVIOUS
  <2>3. (((a + c + 0) % Half) - c + 0) % Half = a
    OBVIOUS
  <2> QED BY <2>1, <2>2, <2>3
<1>2. CASE b + d >= Half
  <2>1. (b + d) % Half = b + d - Half /\ (b + d) \div Half = 1
    BY <1>2
  <2>2. (b + d - Half - d) \div Half = -1 /\ (b + d - Half - d) % Half = b
    OBVIOUS
  <2>3. (((a + c + 1) % Half) - c + (-1)) % Half = a
    OBVIOUS
  <2> QED BY <2>1, <2>2, <2>3
<1> QED BY <1>1, <1>2

LEMMA Borrow ==
  ASSUME NEW a \in HalfWord, NEW b \in HalfWord, NEW c \in HalfWord, NEW d \in HalfWord
  PROVE  /\ (((b - d) % Half) + d) % Half = b
         /\ (((a - c + (b - d) \div Half) % Half) + c + (((b - d) % Half) + d) \div Half) % Half = a
<1> USE DEF HalfWord, Half
<1>1. CASE b >= d
  <2>1. (b - d) % Half = b - d /\ (b - d) \div Half = 0
    BY <1>1
  <2>2. (b - d + d) \div Half = 0 /\ (b - d + d) % Half = b
    OBVIOUS
  <2>3. (((a - c + 0) % Half) + c + 0) % Half = a
    OBVIOUS
  <2> QED BY <2>1, <2>2, <2>3
<1>2. CASE b < d
  <2>1. (b - d) % Half = b - d + Half /\ (b - d) \div Half = -1
    BY <1>2
  <2>2. (b - d + Half + d) \div Half = 1 /\ (b - d + Half + d) % Half = b
    OBVIOUS
  <2>3. (((a - c + (-1)) % Half) + c + 1) % Half = a
    OBVIOUS
  <2> QED BY <2>1, <2>2, <2>3
<1> QED BY <1>1, <1>2

LEMMA SubOfAdd ==
  ASSUME NEW x \in Word32, NEW y \in Word32
  PROVE  Sub32(Add32(x, y), y) = x
<1> DEFINE s == Add32(x, y)
<1>1. s.h = (x.h + y.h + (x.l + y.l) \div Half) % Half /\ s.l = (x.l + y.l) % Half
  BY DEF Add32, Word
<1>2. Sub32(s, y) = Word((s.h - y.h + (s.l - y.l) \div Half) % Half, (s.l - y.l) % Half)
  BY DEF Sub32
<1> HIDE DEF s
<1>3. (s.l - y.l) % Half = x.l /\ (s.h - y.h + (s.l - y.l) \div Half) % Half = x.h
  BY <1>1, WordFacts, Carry
<1>4. Sub32(s, y) = x
  BY <1>2, <1>3, WordFacts
<1> QED BY <1>4 DEF s

LEMMA AddOfSub ==
  ASSUME NEW x \in Word32, NEW y \in Word32
  PROVE  Add32(Sub32(x, y), y) = x
<1> DEFINE s == Sub32(x, y)
<1>1. s.h = (x.h - y.h + (x.l - y.l) \div Half) % Half /\ s.l = (x.l - y.l) % Half
  BY DEF Sub32, Word
<1>2. Add32(s, y) = Word((s.h + y.h + (s.l + y.l) \div Half) % Half, (s.l + y.l) % Half)
  BY DEF Add32
<1> HIDE DEF s
<1>3. (s.l + y.l) % Half = x.l /\ (s.h + y.h + (s.l + y.l) \div Half) % Half = x.h
  BY <1>1, WordFacts, Borrow
<1>4. Add32(s, y) = x
  BY <1>2, <1>3, WordFacts
<1> QED BY <1>4 DEF s

(* The rotations of mix. *)
Rots == {4, 6, 8, 16, 19}

LEMMA RotNat ==
  ASSUME NEW x \in Word32, NEW r \in Rots
  PROVE  rot(x, r).h \in Nat /\ rot(x, r).l \in Nat
<1> USE DEF rot, rotShort, Word, Half
<1>0. x.h \in Nat /\ x.l \in Nat
  BY WordFacts
<1>1. CASE r = 4
  BY <1>0, <1>1
<1>2. CASE r = 6
  BY <1>0, <1>2
<1>3. CASE r = 8
  BY <1>0, <1>3
<1>4. CASE r = 16
  BY <1>0, <1>4
<1>5. CASE r = 19
  BY <1>0, <1>5
<1> QED BY <1>1, <1>2, <1>3, <1>4, <1>5 DEF Rots

(* A state of three words, a line of mix, and the line undone. *)
State == [1 .. 3 -> Word32]

LEMMA MixLineUndone ==
  ASSUME NEW s \in State, NEW x \in 1 .. 3, NEW y \in 1 .. 3, NEW z \in 1 .. 3,
         x # y, y # z, z # x, NEW r \in Rots
  PROVE  mixLine(s, x, z, y, r) \in State /\ unmixLine(mixLine(s, x, z, y, r), x, z, y, r) = s
<1> DEFINE m == mixLine(s, x, z, y, r)
           d == Sub32(s[x], s[z])
           t == rot(s[z], r)
           u == unmixLine(m, x, z, y, r)
<1>1. s[x] \in Word32 /\ s[y] \in Word32 /\ s[z] \in Word32
  BY DEF State
<1>2. d \in Word32 /\ Add32(d, s[z]) = s[x]
  BY <1>1, SubIsWord, AddOfSub
<1>3. t.h \in Nat /\ t.l \in Nat
  BY <1>1, RotNat
<1>4. Xor32(d, t) \in Word32 /\ Xor32(Xor32(d, t), t) = d
  <2> HIDE DEF d, t
  <2> QED BY <1>2, <1>3, XorTwice
<1>5. Add32(s[z], s[y]) \in Word32 /\ Sub32(Add32(s[z], s[y]), s[y]) = s[z]
  BY <1>1, AddIsWord, SubOfAdd
<1>6. m = [s EXCEPT ![x] = Xor32(d, t), ![z] = Add32(s[z], s[y])]
  BY DEF mixLine
<1>7. u = [m EXCEPT ![z] = Sub32(m[z], m[y]),
                    ![x] = Add32(Xor32(m[x], rot(Sub32(m[z], m[y]), r)), Sub32(m[z], m[y]))]
  BY DEF unmixLine
<1>8. m \in State /\ m[x] = Xor32(d, t) /\ m[z] = Add32(s[z], s[y]) /\ m[y] = s[y]
  <2> HIDE DEF d, t, m
  <2> QED BY <1>4, <1>5, <1>6 DEF State
<1>9. Sub32(m[z], m[y]) = s[z] /\ Xor32(m[x], rot(s[z], r)) = d
  <2> HIDE DEF d, m
  <2> QED BY <1>4, <1>5, <1>8
<1>10. u = [m EXCEPT ![z] = s[z], ![x] = s[x]]
  <2> HIDE DEF u, m, d
  <2> QED BY <1>2, <1>7, <1>9
<1>11. u = s
  <2> HIDE DEF u, m
  <2>1. DOMAIN u = 1 .. 3 /\ DOMAIN s = 1 .. 3 /\ u = [n \in 1 .. 3 |-> u[n]] /\ s = [n \in 1 .. 3 |-> s[n]]
    BY <1>8, <1>10 DEF State
  <2>2. u[x] = s[x] /\ u[z] = s[z] /\ u[y] = s[y]
    BY <1>8, <1>10 DEF State
  <2>3. \A n \in 1 .. 3 : n = x \/ n = y \/ n = z
    OBVIOUS
  <2> QED BY <2>1, <2>2, <2>3
<1> QED BY <1>8, <1>11

(* mix gives a state again, and unmix the one that it started from. *)
LEMMA MixUndone ==
  ASSUME NEW s \in State
  PROVE  mix(s) \in State /\ unmix(mix(s)) = s
<1> DEFINE s1 == mixLine(s,  1, 3, 2, 4)
           s2 == mixLine(s1, 2, 1, 3, 6)
           s3 == mixLine(s2, 3, 2, 1, 8)
           s4 == mixLine(s3, 1, 3, 2, 16)
           s5 == mixLine(s4, 2, 1, 3, 19)
           s6 == mixLine(s5, 3, 2, 1, 4)
<1>0. mix(s) = s6
  BY DEF mix
<1> USE DEF Rots
<1>1. s1 \in State /\ unmixLine(s1, 1, 3, 2, 4) = s
  BY MixLineUndone
<1> HIDE DEF s1
<1>2. s2 \in State /\ unmixLine(s2, 2, 1, 3, 6) = s1
  BY <1>1, MixLineUndone
<1> HIDE DEF s2
<1>3. s3 \in State /\ unmixLine(s3, 3, 2, 1, 8) = s2
  BY <1>2, MixLineUndone
<1> HIDE DEF s3
<1>4. s4 \in State /\ unmixLine(s4, 1, 3, 2, 16) = s3
  BY <1>3, MixLineUndone
<1> HIDE DEF s4
<1>5. s5 \in State /\ unmixLine(s5, 2, 1, 3, 19) = s4
  BY <1>4, MixLineUndone
<1> HIDE DEF s5
<1>6. s6 \in State /\ unmixLine(s6, 3, 2, 1, 4) = s5
  BY <1>5, MixLineUndone
<1> HIDE DEF s6
<1>7. unmix(s6) = s
  BY <1>1, <1>2, <1>3, <1>4, <1>5, <1>6, Zenon DEF unmix
<1> QED BY <1>0, <1>6, <1>7

-----------------------------------------------------------------------------
(* What the three paths load. *)

(* Nothing is carried out of halves that do not overlap. *)
LEMMA AddApart ==
  ASSUME NEW a \in Nat, NEW b \in Nat, NEW c \in Nat, NEW d \in Nat, a + c < Half, b + d < Half
  PROVE  Add32(Word(a, b), Word(c, d)) = Word(a + c, b + d)
<1>1. (a + c + (b + d) \div Half) % Half = a + c /\ (b + d) % Half = b + d
  BY DEF Half
<1> QED BY <1>1 DEF Add32, Word

Byte == {n \in Nat : n < 256}

(* The arguments of the function. *)
Arguments == mem \in Memory /\ key \in Pointers /\ len \in Lengths

LEMMA ArgumentFacts ==
  ASSUME Arguments
  PROVE  /\ key \in Nat /\ len \in Nat /\ key + len <= Top /\ Top \in Nat /\ Top % 4 = 0
         /\ \A p \in Nat : p < Top => mem[p] \in Byte
<1>1. key \in Nat /\ len \in Nat /\ key + len <= Top /\ Top \in Nat /\ Top % 4 = 0
  BY MemoryAssumption DEF Arguments
<1>2. ASSUME NEW p \in Nat, p < Top PROVE mem[p] \in Byte
  <2>1. mem \in [0 .. Top - 1 -> 0 .. 255] /\ p \in 0 .. Top - 1
    BY <1>1, <1>2, MemoryAssumption DEF Arguments
  <2>2. mem[p] \in 0 .. 255
    BY <2>1
  <2> QED BY <2>2 DEF Byte
<1> QED BY <1>1, <1>2

LEMMA KeyFacts ==
  ASSUME Arguments
  PROVE  Len(TheKey) = len /\ \A n \in Nat : n < len => TheKey[n + 1] = mem[key + n]
<1>0. key \in Nat /\ len \in Nat
  BY ArgumentFacts
<1>1. Len(TheKey) = len
  BY <1>0 DEF TheKey
<1>2. ASSUME NEW n \in Nat, n < len PROVE TheKey[n + 1] = mem[key + n]
  <2>1. n + 1 \in 1 .. len /\ key + (n + 1) - 1 = key + n
    BY <1>0, <1>2
  <2> QED BY <2>1 DEF TheKey
<1> QED BY <1>1, <1>2

(* How many bytes of the key are in its word v. *)
InWord(v) == IF len <= 4 * v THEN 0 ELSE IF len >= 4 * v + 4 THEN 4 ELSE len - 4 * v

(* The byte of the key at place n, or nothing. *)
ByteAt(n) == IF n < len THEN mem[key + n] ELSE 0

LEMMA WordOfKey ==
  ASSUME Arguments, NEW v \in Nat
  PROVE  /\ WordOf(TheKey, v) = Word(ByteAt(4 * v + 2) + 256 * ByteAt(4 * v + 3),
                                     ByteAt(4 * v) + 256 * ByteAt(4 * v + 1))
         /\ \A n \in Nat : ByteAt(n) \in Byte
<1> DEFINE at(n) == IF n < Len(TheKey) THEN TheKey[n + 1] ELSE 0
<1>0. WordOf(TheKey, v) = Word(at(4 * v + 2) + 256 * at(4 * v + 3), at(4 * v) + 256 * at(4 * v + 1))
  BY DEF WordOf
<1>1. \A n \in Nat : at(n) = ByteAt(n)
  BY KeyFacts DEF ByteAt
<1>2. 4 * v \in Nat /\ 4 * v + 1 \in Nat /\ 4 * v + 2 \in Nat /\ 4 * v + 3 \in Nat
  OBVIOUS
<1>3. \A n \in Nat : ByteAt(n) \in Byte
  <2> SUFFICES ASSUME NEW n \in Nat PROVE ByteAt(n) \in Byte
    OBVIOUS
  <2>1. n < len => key + n \in Nat /\ key + n < Top
    BY ArgumentFacts
  <2>2. 0 \in Byte
    BY DEF Byte
  <2> QED BY <2>1, <2>2, ArgumentFacts DEF ByteAt
<1> HIDE DEF at
<1>4. at(4 * v) = ByteAt(4 * v) /\ at(4 * v + 1) = ByteAt(4 * v + 1)
  BY <1>1, <1>2
<1>5. at(4 * v + 2) = ByteAt(4 * v + 2) /\ at(4 * v + 3) = ByteAt(4 * v + 3)
  BY <1>1, <1>2
<1> QED BY <1>0, <1>3, <1>4, <1>5

(* A word of which no byte is in the key is not loaded. *)
LEMMA LoadedNothing ==
  ASSUME Arguments, NEW v \in Nat, len <= 4 * v
  PROVE  InWord(v) = 0 /\ load(key + 4 * v, InWord(v)) = WordOf(TheKey, v)
<1>0. len \in Nat
  BY ArgumentFacts
<1>1. /\ InWord(v) = 0
      /\ ByteAt(4 * v) = 0 /\ ByteAt(4 * v + 1) = 0 /\ ByteAt(4 * v + 2) = 0 /\ ByteAt(4 * v + 3) = 0
  BY <1>0 DEF InWord, ByteAt
<1>2. load(key + 4 * v, 0) = Word(0, 0)
  BY DEF load
<1>3. WordOf(TheKey, v) = Word(0 + 256 * 0, 0 + 256 * 0)
  BY <1>1, WordOfKey
<1> QED BY <1>1, <1>2, <1>3

(* The bytes of a word of which some are in the key. *)
LEMMA BytesOfWord ==
  ASSUME Arguments, NEW v \in Nat, len > 4 * v, NEW p, p = key + 4 * v, NEW r, r = InWord(v)
  PROVE  /\ p \in Nat /\ r \in 1 .. 4 /\ p + r <= Top
         /\ WordOf(TheKey, v) = Word((IF r >= 3 THEN mem[p + 2] ELSE 0) + 256 * (IF r >= 4 THEN mem[p + 3] ELSE 0),
                                     mem[p] + 256 * (IF r >= 2 THEN mem[p + 1] ELSE 0))
         /\ mem[p] \in Byte /\ (r >= 2 => mem[p + 1] \in Byte)
         /\ (r >= 3 => mem[p + 2] \in Byte) /\ (r >= 4 => mem[p + 3] \in Byte)
<1>1. key \in Nat /\ len \in Nat /\ key + len <= Top /\ Top \in Nat
  BY ArgumentFacts
<1>2. p \in Nat /\ r \in 1 .. 4 /\ p + r <= Top
  BY <1>1 DEF InWord
<1>3. /\ key + (4 * v) = p /\ key + (4 * v + 1) = p + 1
      /\ key + (4 * v + 2) = p + 2 /\ key + (4 * v + 3) = p + 3
  BY <1>1
<1>4. /\ 4 * v < len
      /\ 4 * v + 1 < len <=> r >= 2
      /\ 4 * v + 2 < len <=> r >= 3
      /\ 4 * v + 3 < len <=> r >= 4
  BY <1>1 DEF InWord
<1>5. /\ ByteAt(4 * v) = mem[p]
      /\ ByteAt(4 * v + 1) = IF r >= 2 THEN mem[p + 1] ELSE 0
      /\ ByteAt(4 * v + 2) = IF r >= 3 THEN mem[p + 2] ELSE 0
      /\ ByteAt(4 * v + 3) = IF r >= 4 THEN mem[p + 3] ELSE 0
  BY <1>3, <1>4 DEF ByteAt
<1>6. /\ ByteAt(4 * v) \in Byte /\ ByteAt(4 * v + 1) \in Byte
      /\ ByteAt(4 * v + 2) \in Byte /\ ByteAt(4 * v + 3) \in Byte
  <2>1. 4 * v \in Nat /\ 4 * v + 1 \in Nat /\ 4 * v + 2 \in Nat /\ 4 * v + 3 \in Nat
    OBVIOUS
  <2> QED BY <2>1, WordOfKey
<1>7. WordOf(TheKey, v) = Word(ByteAt(4 * v + 2) + 256 * ByteAt(4 * v + 3),
                               ByteAt(4 * v) + 256 * ByteAt(4 * v + 1))
  BY WordOfKey
<1> QED BY <1>2, <1>5, <1>6, <1>7

(* Two bytes are a half. *)
LEMMA HalfOfBytes ==
  ASSUME NEW a \in Byte, NEW b \in Byte
  PROVE  a + 256 * b \in Nat /\ a + 256 * b < Half /\ (a + 256 * b) % 256 = a /\ a \in Nat /\ a < Half
BY DEF Byte, Half

LEMMA AddHalves ==
  ASSUME NEW lo \in Nat, NEW hi \in Nat, lo < Half, hi < Half
  PROVE  Add32(Word(0, lo), Word(hi, 0)) = Word(hi, lo) /\ Add32(Word(hi, 0), Word(0, lo)) = Word(hi, lo)
<1>1. 0 + hi = hi /\ hi + 0 = hi /\ 0 + lo = lo /\ lo + 0 = lo
  OBVIOUS
<1> QED BY <1>1, AddApart

(* Along the path of words nothing beyond the key is left after the mask,  *)
(* although the last word is read whole.                                   *)
LEMMA LoadedWords ==
  ASSUME Arguments, NEW v \in Nat, path(key) = "words", len > 4 * v
  PROVE  load(key + 4 * v, InWord(v)) = WordOf(TheKey, v)
<1> DEFINE p == key + 4 * v
           r == InWord(v)
           m0 == mem[p]
           m1 == mem[p + 1]
           m2 == mem[p + 2]
           m3 == mem[p + 3]
<1>1. key \in Nat /\ len \in Nat /\ key + len <= Top /\ Top \in Nat /\ Top % 4 = 0 /\ key % 4 = 0
  BY ArgumentFacts DEF path
<1>2. /\ r \in 1 .. 4
      /\ WordOf(TheKey, v) = Word((IF r >= 3 THEN m2 ELSE 0) + 256 * (IF r >= 4 THEN m3 ELSE 0),
                                  m0 + 256 * (IF r >= 2 THEN m1 ELSE 0))
  BY BytesOfWord
<1>3. p \in Nat /\ p + 3 < Top
  <2>1. p % 4 = 0 /\ p < Top
    BY <1>1
  <2> QED BY <1>1, <2>1
<1>4. m0 \in Byte /\ m1 \in Byte /\ m2 \in Byte /\ m3 \in Byte
  BY <1>3, ArgumentFacts
<1>5. word(p) = Word(m2 + 256 * m3, m0 + 256 * m1)
  <2>1. word(p) = Add32(Word(0, m0 + 256 * m1), Word(mem[p + 2] + 256 * mem[p + 2 + 1], 0))
    BY DEF word, half, half2
  <2>2. p + 2 + 1 = p + 3
    BY <1>3
  <2> HIDE DEF m0, m1
  <2>3. word(p) = Add32(Word(0, m0 + 256 * m1), Word(m2 + 256 * m3, 0))
    BY <2>1, <2>2
  <2> HIDE DEF m2, m3
  <2> QED BY <1>4, <2>3, HalfOfBytes, AddHalves
<1>6. load(p, r) = masked(word(p), r)
  BY <1>2 DEF load
<1> HIDE DEF m0, m1, m2, m3, r
<1>7. word(p).h = m2 + 256 * m3 /\ word(p).l = m0 + 256 * m1
  BY <1>5 DEF Word
<1>8. masked(word(p), r) = WordOf(TheKey, v)
  <2>1. CASE r = 1
    BY <1>2, <1>4, <1>7, <2>1, HalfOfBytes DEF masked, Byte
  <2>2. CASE r = 2
    BY <1>2, <1>4, <1>7, <2>2 DEF masked, Byte
  <2>3. CASE r = 3
    BY <1>2, <1>4, <1>7, <2>3, HalfOfBytes DEF masked, Byte
  <2>4. CASE r = 4
    BY <1>2, <1>5, <2>4 DEF masked
  <2> QED BY <1>2, <2>1, <2>2, <2>3, <2>4
<1> QED BY <1>6, <1>8 DEF r

(* Along the path of halves. *)
LEMMA LoadedHalves ==
  ASSUME Arguments, NEW v \in Nat, path(key) = "halves", len > 4 * v
  PROVE  load(key + 4 * v, InWord(v)) = WordOf(TheKey, v)
<1> DEFINE p == key + 4 * v
           r == InWord(v)
           m0 == mem[p]
           m1 == mem[p + 1]
           m2 == mem[p + 2]
           m3 == mem[p + 3]
<1>1. /\ p \in Nat /\ r \in 1 .. 4
      /\ WordOf(TheKey, v) = Word((IF r >= 3 THEN m2 ELSE 0) + 256 * (IF r >= 4 THEN m3 ELSE 0),
                                  m0 + 256 * (IF r >= 2 THEN m1 ELSE 0))
      /\ m0 \in Byte /\ (r >= 2 => m1 \in Byte) /\ (r >= 3 => m2 \in Byte) /\ (r >= 4 => m3 \in Byte)
  BY BytesOfWord
<1>2. load(p, r) = halves(p, r)
  BY <1>1 DEF load
<1>3. /\ byte(p) = Word(0, m0) /\ half(p) = Word(0, m0 + 256 * m1) /\ byte2(p + 2) = Word(m2, 0)
      /\ half2(p + 2) = Word(m2 + 256 * m3, 0)
  <2>1. p + 2 + 1 = p + 3
    BY <1>1
  <2> QED BY <2>1 DEF byte, half, byte2, half2
<1> HIDE DEF m0, m1, m2, m3, r
<1>4. halves(p, r) = WordOf(TheKey, v)
  <2>1. CASE r = 1
    BY <1>1, <1>3, <2>1 DEF halves, Byte
  <2>2. CASE r = 2
    BY <1>1, <1>3, <2>2 DEF halves, Byte
  <2>3. CASE r = 3
    <3>1. halves(p, r) = Add32(Word(m2, 0), Word(0, m0 + 256 * m1))
      BY <1>3, <2>3 DEF halves
    <3>2. WordOf(TheKey, v) = Word(m2, m0 + 256 * m1)
      BY <1>1, <2>3 DEF Byte
    <3> QED BY <1>1, <2>3, <3>1, <3>2, HalfOfBytes, AddHalves
  <2>4. CASE r = 4
    <3>1. halves(p, r) = Add32(Word(0, m0 + 256 * m1), Word(m2 + 256 * m3, 0))
      BY <1>3, <2>4 DEF halves
    <3>2. WordOf(TheKey, v) = Word(m2 + 256 * m3, m0 + 256 * m1)
      BY <1>1, <2>4
    <3> QED BY <1>1, <2>4, <3>1, <3>2, HalfOfBytes, AddHalves
  <2> QED BY <1>1, <2>1, <2>2, <2>3, <2>4
<1> QED BY <1>2, <1>4 DEF r

(* Along the path of bytes. *)
LEMMA LoadedBytes ==
  ASSUME Arguments, NEW v \in Nat, path(key) = "bytes", len > 4 * v
  PROVE  load(key + 4 * v, InWord(v)) = WordOf(TheKey, v)
<1> DEFINE p == key + 4 * v
           r == InWord(v)
           m0 == mem[p]
           m1 == IF r >= 2 THEN mem[p + 1] ELSE 0
           m2 == IF r >= 3 THEN mem[p + 2] ELSE 0
           m3 == IF r >= 4 THEN mem[p + 3] ELSE 0
<1>1. /\ p \in Nat /\ r \in 1 .. 4
      /\ WordOf(TheKey, v) = Word(m2 + 256 * m3, m0 + 256 * m1)
  BY BytesOfWord
<1>2. m0 \in Byte /\ m1 \in Byte /\ m2 \in Byte /\ m3 \in Byte
  <2>1. 0 \in Byte
    BY DEF Byte
  <2> QED BY <2>1, BytesOfWord
<1>3. load(p, r) = bytes(p, r)
  BY <1>1 DEF load
<1>4. bytes(p, r) = Add32(Add32(Add32(Word(256 * m3, 0), Word(m2, 0)), Word(0, 256 * m1)), Word(0, m0))
  <2>1. p + 0 = p /\ 0 < r /\ (1 < r <=> r >= 2) /\ (2 < r <=> r >= 3) /\ (3 < r <=> r >= 4)
    BY <1>1
  <2> HIDE DEF p, r
  <2> QED BY <2>1 DEF bytes
<1> HIDE DEF m0, m1, m2, m3, r
<1>5. Add32(Word(256 * m3, 0), Word(m2, 0)) = Word(m2 + 256 * m3, 0)
  <2>1. 256 * m3 \in Nat /\ m2 \in Nat /\ 256 * m3 + m2 < Half /\ 0 + 0 < Half
    BY <1>2 DEF Byte, Half
  <2>2. Add32(Word(256 * m3, 0), Word(m2, 0)) = Word(256 * m3 + m2, 0 + 0)
    BY <2>1, AddApart
  <2>3. 256 * m3 + m2 = m2 + 256 * m3 /\ 0 + 0 = 0
    BY <1>2 DEF Byte
  <2> QED BY <2>2, <2>3
<1>6. Add32(Word(m2 + 256 * m3, 0), Word(0, 256 * m1)) = Word(m2 + 256 * m3, 256 * m1)
  <2>1. 256 * m1 \in Nat /\ 256 * m1 < Half
    BY <1>2 DEF Byte, Half
  <2> QED BY <1>2, <2>1, HalfOfBytes, AddHalves
<1>7. Add32(Word(m2 + 256 * m3, 256 * m1), Word(0, m0)) = Word(m2 + 256 * m3, m0 + 256 * m1)
  <2> DEFINE hi == m2 + 256 * m3
  <2>1. hi \in Nat /\ hi < Half
    BY <1>2, HalfOfBytes
  <2> HIDE DEF hi
  <2>2. 256 * m1 \in Nat /\ m0 \in Nat /\ 256 * m1 + m0 < Half /\ hi + 0 < Half
    BY <1>2, <2>1 DEF Byte, Half
  <2>3. Add32(Word(hi, 256 * m1), Word(0, m0)) = Word(hi + 0, 256 * m1 + m0)
    BY <2>1, <2>2, AddApart
  <2>4. hi + 0 = hi /\ 256 * m1 + m0 = m0 + 256 * m1
    BY <2>1, <2>2
  <2> QED BY <2>3, <2>4 DEF hi
<1> QED BY <1>1, <1>3, <1>4, <1>5, <1>6, <1>7 DEF r

(* Whatever the path, a word of the key is what is loaded. *)
LEMMA LoadedWord ==
  ASSUME Arguments, NEW v \in Nat
  PROVE  load(key + 4 * v, InWord(v)) = WordOf(TheKey, v)
<1>1. len \in Nat
  BY ArgumentFacts
<1>2. path(key) \in {"words", "halves", "bytes"}
  BY DEF path
<1>3. CASE len <= 4 * v
  BY <1>3, LoadedNothing
<1>4. CASE len > 4 * v
  BY <1>2, <1>4, LoadedWords, LoadedHalves, LoadedBytes
<1> QED BY <1>1, <1>3, <1>4

(* The addresses that a load touches are in words of the key, and the      *)
(* bytes of the word that are in the key are among them.                   *)
LEMMA TouchedFacts ==
  ASSUME Arguments, NEW v \in Nat
  PROVE  /\ \A p \in touched(key + 4 * v, InWord(v)) : \E q \in key .. key + len - 1 : q \div 4 = p \div 4
         /\ \A n \in Nat : 4 * v <= n /\ n < 4 * v + 4 /\ n < len => key + n \in touched(key + 4 * v, InWord(v))
<1> DEFINE f == key + 4 * v
           r == InWord(v)
<1>0. key \in Nat /\ len \in Nat /\ f \in Nat /\ r \in 0 .. 4
  <2>1. key \in Nat /\ len \in Nat
    BY ArgumentFacts
  <2> QED BY <2>1 DEF InWord
<1>1. r > 0 => 4 * v < len /\ 4 * v + r <= len
  BY <1>0 DEF InWord
<1>2. ASSUME NEW p \in touched(f, r) PROVE \E q \in key .. key + len - 1 : q \div 4 = p \div 4
  <2>1. CASE r > 0 /\ path(key) = "words"
    <3>1. key % 4 = 0
      BY <2>1 DEF path
    <3>2. p \in f .. f + 3
      BY <2>1 DEF touched
    <3>3. f \in key .. key + len - 1
      BY <1>0, <1>1, <2>1
    <3>4. f \div 4 = p \div 4
      <4>1. f % 4 = 0
        BY <1>0, <3>1
      <4> HIDE DEF f
      <4> QED BY <1>0, <3>2, <4>1
    <3> QED BY <3>3, <3>4
  <2>2. CASE ~(r > 0 /\ path(key) = "words")
    <3>1. p \in f .. f + r - 1
      BY <2>2 DEF touched
    <3>2. p \in key .. key + len - 1
      BY <1>0, <1>1, <3>1
    <3> QED BY <3>2
  <2> QED BY <2>1, <2>2
<1>3. ASSUME NEW n \in Nat, 4 * v <= n, n < 4 * v + 4, n < len PROVE key + n \in touched(f, r)
  <2>1. key + n \in f .. f + 3 /\ key + n \in f .. f + r - 1
    BY <1>0, <1>3 DEF InWord
  <2> QED BY <2>1 DEF touched
<1> QED BY <1>2, <1>3

-----------------------------------------------------------------------------
(* The reference. *)

(* The states after the blocks of a string: there is a function that       *)
(* satisfies the recursion, so Absorbed is one.                            *)
Absorbs(a, str, m) ==
  a = [b \in 0 .. m |-> IF b = 0 THEN <<seed(Len(str)), seed(Len(str)), seed(Len(str))>>
                        ELSE mix(Plus(a[b - 1], str, b - 1))]

LEMMA AbsorbsExists ==
  ASSUME NEW str, NEW m \in Nat
  PROVE  \E a : Absorbs(a, str, m)
<1> DEFINE T == {x \in Nat : ~ \E a : Absorbs(a, str, x)}
           start == <<seed(Len(str)), seed(Len(str)), seed(Len(str))>>
           then(s, b) == mix(Plus(s, str, b))
<1>0. \A a, x : Absorbs(a, str, x) <=> a = [b \in 0 .. x |-> IF b = 0 THEN start ELSE then(a[b - 1], b - 1)]
  BY DEF Absorbs
<1> HIDE DEF start, then
<1> SUFFICES ASSUME T # {} PROVE FALSE
  OBVIOUS
<1>1. PICK x \in T : \A y \in T : x <= y
  BY LeastNat
<1>2. x # 0
  <2> DEFINE e == [b \in 0 .. 0 |-> start]
  <2>1. e = [b \in 0 .. 0 |-> IF b = 0 THEN start ELSE then(e[b - 1], b - 1)]
    OBVIOUS
  <2>2. Absorbs(e, str, 0)
    <3> HIDE DEF e
    <3> QED BY <1>0, <2>1
  <2> QED BY <2>2
<1>3. x - 1 \in Nat /\ x - 1 \notin T
  BY <1>1, <1>2
<1>4. PICK d : Absorbs(d, str, x - 1)
  BY <1>3
<1> DEFINE e == [b \in 0 .. x |-> IF b = x THEN then(d[x - 1], x - 1) ELSE d[b]]
<1>5. d = [b \in 0 .. x - 1 |-> IF b = 0 THEN start ELSE then(d[b - 1], b - 1)]
  BY <1>0, <1>4
<1>6. ASSUME NEW b \in 0 .. x PROVE e[b] = IF b = 0 THEN start ELSE then(e[b - 1], b - 1)
  <2>1. CASE b = x
    <3>1. x - 1 \in 0 .. x /\ e[x - 1] = d[x - 1]
      BY <1>2, <1>3
    <3> QED BY <1>2, <2>1, <3>1
  <2>2. CASE b # x /\ b = 0
    <3>1. 0 \in 0 .. x - 1
      BY <1>3
    <3>2. d[0] = start
      BY <1>5, <3>1
    <3> QED BY <2>2, <3>2
  <2>3. CASE b # x /\ b # 0
    <3>1. b \in 0 .. x - 1 /\ b - 1 \in 0 .. x /\ b - 1 # x
      BY <2>3
    <3>2. e[b] = d[b] /\ e[b - 1] = d[b - 1]
      BY <2>3, <3>1
    <3>3. d[b] = then(d[b - 1], b - 1)
      BY <1>5, <2>3, <3>1
    <3> QED BY <2>3, <3>2, <3>3
  <2> QED BY <2>1, <2>2, <2>3
<1>7. e = [b \in 0 .. x |-> IF b = 0 THEN start ELSE then(e[b - 1], b - 1)]
  <2>1. e = [b \in 0 .. x |-> e[b]]
    OBVIOUS
  <2> HIDE DEF e
  <2> QED BY <1>6, <2>1
<1>8. Absorbs(e, str, x)
  <2> HIDE DEF e
  <2> QED BY <1>0, <1>7
<1> QED BY <1>8

LEMMA AbsorbedFacts ==
  ASSUME NEW str, Len(str) \in Nat
  PROVE  /\ Absorbed(str)[0] = <<seed(Len(str)), seed(Len(str)), seed(Len(str))>>
         /\ \A b \in Nat : 12 * (b + 1) <= Len(str) => Absorbed(str)[b + 1] = mix(Plus(Absorbed(str)[b], str, b))
<1> DEFINE m == Len(str) \div 12
           a == Absorbed(str)
<1>1. m \in Nat
  OBVIOUS
<1>2. a = CHOOSE f : Absorbs(f, str, m)
  BY DEF Absorbed, Absorbs
<1>3. Absorbs(a, str, m)
  <2> HIDE DEF a, m
  <2> QED BY <1>1, <1>2, AbsorbsExists
<1>4. 0 \in 0 .. m
  BY <1>1
<1>5. a[0] = <<seed(Len(str)), seed(Len(str)), seed(Len(str))>>
  <2> HIDE DEF a, m
  <2> QED BY <1>3, <1>4 DEF Absorbs
<1>6. ASSUME NEW b \in Nat, 12 * (b + 1) <= Len(str) PROVE a[b + 1] = mix(Plus(a[b], str, b))
  <2>1. b + 1 \in 0 .. m /\ b + 1 # 0 /\ b + 1 - 1 = b
    BY <1>6
  <2> DEFINE then(x) == IF x = 0 THEN <<seed(Len(str)), seed(Len(str)), seed(Len(str))>>
                        ELSE mix(Plus(a[x - 1], str, x - 1))
  <2>2. a = [x \in 0 .. m |-> then(x)]
    BY <1>3 DEF Absorbs
  <2>3. then(b + 1) = mix(Plus(a[b], str, b))
    BY <2>1
  <2> HIDE DEF a, m, then
  <2> QED BY <2>1, <2>2, <2>3
<1> QED BY <1>5, <1>6

-----------------------------------------------------------------------------
(* The function, block by block. *)

(* b blocks have been read: the state is the reference's, and the bytes    *)
(* of the blocks were touched.                                             *)
AfterBlocks(b) ==
  /\ k = key + 12 * b /\ length = len - 12 * b /\ length \in Nat
  /\ b > 0 => length > 0
  /\ abc \in State /\ abc = Absorbed(TheKey)[b]
  /\ \A n \in Nat : n < 12 * b => key + n \in read

(* Before the last block some blocks were read; after it the hash is the   *)
(* reference's and all of the key was touched.                             *)
JInv ==
  /\ Arguments
  /\ pc \in {"block", "done"}
  /\ pc = "block" => \E b \in Nat : AfterBlocks(b)
  /\ HashOfKey
  /\ \A p \in read : \E q \in key .. key + len - 1 : q \div 4 = p \div 4
  /\ pc = "done" => key .. key + len - 1 \subseteq read

(* The bytes of a block are as many as its words have. *)
LEMMA PartOfBlock ==
  ASSUME Arguments, NEW b \in Nat, length = len - 12 * b, length \in Nat, NEW n \in Nat,
         \/ n = 12 /\ length > 12
         \/ n = length /\ length <= 12,
         NEW w \in 0 .. 2
  PROVE  part(w, n) = InWord(3 * b + w)
<1>1. len \in Nat
  BY ArgumentFacts
<1>2. 4 * (3 * b + w) = 12 * b + 4 * w
  OBVIOUS
<1> QED BY <1>1, <1>2 DEF part, InWord

(* What is added to the state is three words of the key. *)
LEMMA AddedIsPlus ==
  ASSUME Arguments, NEW b \in Nat, k = key + 12 * b, length = len - 12 * b, length \in Nat, NEW n \in Nat,
         \/ n = 12 /\ length > 12
         \/ n = length /\ length <= 12
  PROVE  added(n) = Plus(abc, TheKey, b)
<1>1. ASSUME NEW w \in 0 .. 2 PROVE load(k + 4 * w, part(w, n)) = WordOf(TheKey, 3 * b + w)
  <2>1. part(w, n) = InWord(3 * b + w)
    BY PartOfBlock
  <2>2. k + 4 * w = key + 4 * (3 * b + w) /\ 3 * b + w \in Nat
    BY ArgumentFacts
  <2> QED BY <2>1, <2>2, LoadedWord
<1>2. load(k + 4 * 0, part(0, n)) = WordOf(TheKey, 3 * b)
  <2>1. 3 * b + 0 = 3 * b
    OBVIOUS
  <2> QED BY <1>1, <2>1
<1>3. load(k + 4 * 1, part(1, n)) = WordOf(TheKey, 3 * b + 1)
  BY <1>1
<1>4. load(k + 4 * 2, part(2, n)) = WordOf(TheKey, 3 * b + 2)
  BY <1>1
<1>5. 0 + 1 = 1 /\ 1 + 1 = 2 /\ 2 + 1 = 3
  OBVIOUS
<1>6. added(n) = <<Add32(abc[0 + 1], load(k + 4 * 0, part(0, n))),
                   Add32(abc[1 + 1], load(k + 4 * 1, part(1, n))),
                   Add32(abc[2 + 1], load(k + 4 * 2, part(2, n)))>>
  BY DEF added
<1> QED BY <1>2, <1>3, <1>4, <1>5, <1>6 DEF Plus

LEMMA WordOfIsWord ==
  ASSUME Arguments, NEW v \in Nat
  PROVE  WordOf(TheKey, v) \in Word32
<1>1. 4 * v \in Nat /\ 4 * v + 1 \in Nat /\ 4 * v + 2 \in Nat /\ 4 * v + 3 \in Nat
  OBVIOUS
<1>2. /\ ByteAt(4 * v) + 256 * ByteAt(4 * v + 1) \in HalfWord
      /\ ByteAt(4 * v + 2) + 256 * ByteAt(4 * v + 3) \in HalfWord
  <2>1. /\ ByteAt(4 * v) \in Byte /\ ByteAt(4 * v + 1) \in Byte
        /\ ByteAt(4 * v + 2) \in Byte /\ ByteAt(4 * v + 3) \in Byte
    BY <1>1, WordOfKey
  <2> QED BY <2>1, HalfOfBytes DEF HalfWord
<1> QED BY <1>2, WordOfKey, WordIsWord

LEMMA PlusIsState ==
  ASSUME Arguments, NEW b \in Nat, NEW s \in State
  PROVE  Plus(s, TheKey, b) \in State
<1>1. 3 * b \in Nat /\ 3 * b + 1 \in Nat /\ 3 * b + 2 \in Nat
  OBVIOUS
<1>2. s[1] \in Word32 /\ s[2] \in Word32 /\ s[3] \in Word32
  BY DEF State
<1>3. /\ Add32(s[1], WordOf(TheKey, 3 * b)) \in Word32
      /\ Add32(s[2], WordOf(TheKey, 3 * b + 1)) \in Word32
      /\ Add32(s[3], WordOf(TheKey, 3 * b + 2)) \in Word32
  BY <1>1, <1>2, WordOfIsWord, AddIsWord
<1> QED BY <1>3 DEF Plus, State

LEMMA SeedIsState ==
  ASSUME NEW n \in Nat
  PROVE  <<seed(n), seed(n), seed(n)>> \in State
<1>1. (n \div Half) % Half \in HalfWord /\ n % Half \in HalfWord /\ 57005 \in HalfWord /\ 48879 \in HalfWord
  BY DEF HalfWord, Half
<1>2. seed(n) \in Word32
  BY <1>1, WordIsWord, AddIsWord DEF seed
<1> QED BY <1>2 DEF State

(* What a step reads. *)
LEMMA ReadFacts ==
  ASSUME Arguments, NEW b \in Nat, k = key + 12 * b, length = len - 12 * b, length \in Nat, NEW n \in Nat,
         \/ n = 12 /\ length > 12
         \/ n = length /\ length <= 12,
         consume(n)
  PROVE  /\ \A p \in read' \ read : \E q \in key .. key + len - 1 : q \div 4 = p \div 4
         /\ read \subseteq read'
         /\ \A x \in Nat : 12 * b <= x /\ x < 12 * b + 12 /\ x < len => key + x \in read'
<1> DEFINE t(w) == touched(k + 4 * w, part(w, n))
<1>1. read' = read \cup UNION {t(w) : w \in 0 .. 2}
  BY DEF consume
<1>2. ASSUME NEW w \in 0 .. 2
      PROVE  t(w) = touched(key + 4 * (3 * b + w), InWord(3 * b + w)) /\ 3 * b + w \in Nat
  <2>1. part(w, n) = InWord(3 * b + w)
    BY PartOfBlock
  <2>2. k + 4 * w = key + 4 * (3 * b + w) /\ 3 * b + w \in Nat
    BY ArgumentFacts
  <2> QED BY <2>1, <2>2
<1> HIDE DEF t
<1>3. ASSUME NEW p \in read', p \notin read PROVE \E q \in key .. key + len - 1 : q \div 4 = p \div 4
  <2>1. PICK w \in 0 .. 2 : p \in t(w)
    BY <1>1, <1>3
  <2> QED BY <1>2, <2>1, TouchedFacts
<1>4. ASSUME NEW x \in Nat, 12 * b <= x, x < 12 * b + 12, x < len PROVE key + x \in read'
  <2>1. PICK w \in 0 .. 2 : 12 * b + 4 * w <= x /\ x < 12 * b + 4 * w + 4
    <3>1. CASE x < 12 * b + 4
      <4>1. 12 * b + 4 * 0 <= x /\ x < 12 * b + 4 * 0 + 4
        BY <1>4, <3>1
      <4> QED BY <4>1
    <3>2. CASE 12 * b + 4 <= x /\ x < 12 * b + 8
      <4>1. 12 * b + 4 * 1 <= x /\ x < 12 * b + 4 * 1 + 4
        BY <3>2
      <4> QED BY <4>1
    <3>3. CASE 12 * b + 8 <= x
      <4>1. 12 * b + 4 * 2 <= x /\ x < 12 * b + 4 * 2 + 4
        BY <1>4, <3>3
      <4> QED BY <4>1
    <3> QED BY <3>1, <3>2, <3>3
  <2>2. 4 * (3 * b + w) <= x /\ x < 4 * (3 * b + w) + 4
    BY <2>1
  <2>3. key + x \in t(w)
    BY <1>2, <1>4, <2>2, TouchedFacts
  <2> QED BY <1>1, <2>3
<1> QED BY <1>1, <1>3, <1>4

LEMMA InitJInv == Init => JInv
<1> SUFFICES ASSUME Init PROVE JInv
  OBVIOUS
<1>1. Arguments /\ pc = "block" /\ read = {} /\ k = key /\ length = len
      /\ abc = <<seed(len), seed(len), seed(len)>>
  BY DEF Init, Arguments
<1>2. key \in Nat /\ len \in Nat
  BY <1>1, ArgumentFacts
<1>3. Len(TheKey) = len
  BY <1>1, KeyFacts
<1>4. abc = Absorbed(TheKey)[0]
  BY <1>1, <1>2, <1>3, AbsorbedFacts
<1>5. abc \in State
  BY <1>1, <1>2, SeedIsState
<1>6. AfterBlocks(0)
  BY <1>1, <1>2, <1>4, <1>5 DEF AfterBlocks
<1> QED BY <1>1, <1>6 DEF JInv, HashOfKey

(* A whole block. *)
LEMMA WholeBlockJInv ==
  ASSUME JInv, whole_block
  PROVE  JInv' /\ unmix(abc') = added(12)
<1>1. pc = "block" /\ length > 12 /\ abc' = mix(added(12)) /\ k' = k + 12 /\ length' = length - 12
      /\ consume(12) /\ pc' = "block" /\ mem' = mem /\ key' = key /\ len' = len
  BY DEF whole_block, stir, consume
<1>2. Arguments
  BY DEF JInv
<1>3. PICK b \in Nat : AfterBlocks(b)
  BY <1>1 DEF JInv
<1>4. /\ k = key + 12 * b /\ length = len - 12 * b /\ length \in Nat
      /\ abc \in State /\ abc = Absorbed(TheKey)[b]
      /\ \A n \in Nat : n < 12 * b => key + n \in read
  BY <1>3 DEF AfterBlocks
<1>5. key \in Nat /\ len \in Nat /\ Len(TheKey) = len
  BY <1>2, ArgumentFacts, KeyFacts
<1>6. added(12) = Plus(abc, TheKey, b)
  BY <1>1, <1>2, <1>4, AddedIsPlus
<1>7. added(12) \in State
  BY <1>2, <1>4, <1>6, PlusIsState
<1>8. abc' \in State /\ unmix(abc') = added(12)
  BY <1>1, <1>7, MixUndone
<1>9. TheKey' = TheKey
  BY <1>1 DEF TheKey
<1>10. abc' = Absorbed(TheKey)[b + 1]
  <2>1. 12 * (b + 1) <= len
    BY <1>1, <1>4, <1>5
  <2> QED BY <1>1, <1>4, <1>5, <1>6, <2>1, AbsorbedFacts
<1>11. /\ \A p \in read' \ read : \E q \in key .. key + len - 1 : q \div 4 = p \div 4
       /\ read \subseteq read'
       /\ \A x \in Nat : 12 * b <= x /\ x < 12 * b + 12 /\ x < len => key + x \in read'
  BY <1>1, <1>2, <1>4, ReadFacts
<1>12. ASSUME NEW n \in Nat, n < 12 * (b + 1) PROVE key + n \in read'
  <2>1. n < len
    BY <1>1, <1>4, <1>5, <1>12
  <2>2. CASE n < 12 * b
    BY <1>4, <1>11, <2>2
  <2>3. CASE 12 * b <= n
    BY <1>11, <1>12, <2>1, <2>3
  <2> QED BY <2>2, <2>3
<1>13. AfterBlocks(b + 1)'
  <2>1. k' = key' + 12 * (b + 1) /\ length' = len' - 12 * (b + 1) /\ length' \in Nat /\ length' > 0
    BY <1>1, <1>4, <1>5
  <2> QED BY <1>1, <1>8, <1>9, <1>10, <1>12, <2>1 DEF AfterBlocks
<1>14. \A p \in read' : \E q \in key .. key + len - 1 : q \div 4 = p \div 4
  BY <1>11 DEF JInv
<1>15. Arguments' /\ b + 1 \in Nat /\ HashOfKey'
  BY <1>1, <1>2 DEF Arguments, HashOfKey
<1> QED BY <1>1, <1>8, <1>13, <1>14, <1>15 DEF JInv

(* The last block. *)
LEMMA LastBlockJInv ==
  ASSUME JInv, last_block
  PROVE  JInv' /\ pc' = "done"
<1>1. pc = "block" /\ length <= 12 /\ abc' = (IF length = 0 THEN abc ELSE final(added(length)))
      /\ consume(length) /\ pc' = "done" /\ mem' = mem /\ key' = key /\ len' = len
  BY DEF last_block, consume
<1>2. Arguments
  BY DEF JInv
<1>3. PICK b \in Nat : AfterBlocks(b)
  BY <1>1 DEF JInv
<1>4. /\ k = key + 12 * b /\ length = len - 12 * b /\ length \in Nat /\ (b > 0 => length > 0)
      /\ abc = Absorbed(TheKey)[b]
      /\ \A n \in Nat : n < 12 * b => key + n \in read
  BY <1>3 DEF AfterBlocks
<1>5. key \in Nat /\ len \in Nat /\ Len(TheKey) = len
  BY <1>2, ArgumentFacts, KeyFacts
<1>6. TheKey' = TheKey
  BY <1>1 DEF TheKey
<1>7. abc'[3] = Hash(TheKey)
  <2>1. CASE length = 0
    <3>1. b = 0 /\ len = 0
      BY <1>4, <1>5, <2>1
    <3> QED BY <1>1, <1>4, <1>5, <2>1, <3>1 DEF Hash
  <2>2. CASE length > 0
    <3>1. added(length) = Plus(Absorbed(TheKey)[b], TheKey, b)
      BY <1>1, <1>2, <1>4, AddedIsPlus
    <3>2. (len - 1) \div 12 = b /\ len # 0
      BY <1>1, <1>4, <1>5, <2>2
    <3>3. abc' = final(Plus(Absorbed(TheKey)[b], TheKey, b))
      BY <1>1, <2>2, <3>1
    <3>4. Hash(TheKey) = final(Plus(Absorbed(TheKey)[b], TheKey, b))[3]
      BY <1>5, <3>2 DEF Hash
    <3> QED BY <3>3, <3>4
  <2> QED BY <1>4, <2>1, <2>2
<1>8. /\ \A p \in read' \ read : \E q \in key .. key + len - 1 : q \div 4 = p \div 4
      /\ read \subseteq read'
      /\ \A x \in Nat : 12 * b <= x /\ x < 12 * b + 12 /\ x < len => key + x \in read'
  BY <1>1, <1>2, <1>4, ReadFacts
<1>9. key .. key + len - 1 \subseteq read'
  <2> SUFFICES ASSUME NEW q \in key .. key + len - 1 PROVE q \in read'
    OBVIOUS
  <2>1. PICK n \in Nat : q = key + n /\ n < len
    <3>1. q - key \in Nat /\ q = key + (q - key) /\ q - key < len
      BY <1>5
    <3> QED BY <3>1
  <2>2. n < 12 * b + 12
    BY <1>1, <1>4, <1>5, <2>1
  <2>3. CASE n < 12 * b
    BY <1>4, <1>8, <2>1, <2>3
  <2>4. CASE 12 * b <= n
    BY <1>8, <2>1, <2>2, <2>4
  <2> QED BY <2>3, <2>4
<1>10. \A p \in read' : \E q \in key .. key + len - 1 : q \div 4 = p \div 4
  BY <1>8 DEF JInv
<1>11. Arguments' /\ HashOfKey'
  BY <1>1, <1>2, <1>6, <1>7 DEF Arguments, HashOfKey
<1> QED BY <1>1, <1>9, <1>10, <1>11 DEF JInv

LEMMA NextJInv == JInv /\ [Next]_vars => JInv'
<1> SUFFICES ASSUME JInv, [Next]_vars PROVE JInv'
  OBVIOUS
<1>1. CASE whole_block
  BY <1>1, WholeBlockJInv
<1>2. CASE last_block
  BY <1>2, LastBlockJInv
<1>3. CASE returned \/ UNCHANGED vars
  <2>1. UNCHANGED vars
    BY <1>3 DEF returned
  <2> QED BY <2>1 DEF vars, JInv, Arguments, AfterBlocks, HashOfKey, TheKey
<1> QED BY <1>1, <1>2, <1>3 DEF Next

THEOREM JInvAlways == Spec => []JInv
<1>1. Init => JInv
  BY InitJInv
<1>2. JInv /\ [Next]_vars => JInv'
  BY NextJInv
<1> QED BY <1>1, <1>2, PTL DEF Spec

(* The value returned is a function of the bytes of the key: it is the     *)
(* same along the three paths of jenkins_hash and whatever lies behind the *)
(* key, for every memory, pointer and length.                              *)
THEOREM HashDependsOnKey == Spec => []HashOfKey
<1>1. JInv => HashOfKey
  BY DEF JInv
<1> QED BY <1>1, JInvAlways, PTL

(* jenkins_hash reads every byte of the key, and nothing outside of the    *)
(* aligned words in which the key lies.                                    *)
THEOREM ReadsStayInWords == Spec => []ReadsInWords
<1>1. JInv => ReadsInWords
  BY DEF JInv, ReadsInWords
<1> QED BY <1>1, JInvAlways, PTL

(* An iteration of the loop of jenkins_hash can be undone, for every state *)
(* and every block: mix loses nothing.                                     *)
THEOREM MixLosesNothing == Spec => MixReversible
<1>1. JInv /\ [Next]_vars => [pc' = "block" => unmix(abc') = added(12)]_vars
  <2> SUFFICES ASSUME JInv, Next, pc' = "block" PROVE unmix(abc') = added(12)
    OBVIOUS
  <2>1. CASE whole_block
    BY <2>1, WholeBlockJInv
  <2>2. CASE last_block
    BY <2>2, LastBlockJInv
  <2>3. CASE returned
    BY <2>3 DEF returned, vars
  <2> QED BY <2>1, <2>2, <2>3 DEF Next
<1> QED BY <1>1, JInvAlways, PTL DEF Spec, MixReversible
=============================================================================
