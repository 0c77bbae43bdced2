----------------------------- MODULE MCTracing -----------------------------
(* The instance of MCWorkload, with buffers so small that both fill up in  *)
(* the middle of a pass, at different entries, and TLBs and caches that    *)
(* are too small for the working set.                                      *)
EXTENDS Tracing

CONSTANT v27

MCClassSize == [c \in 0 .. 9 |-> 32 * 2^c]
MCKey  == [0 .. NCHARS - 1 -> {whichchar(d) : d \in 0 .. ALPHABETSIZE - 1}]
MCnkey == [k \in Key |-> NCHARS]
MCnval == [v \in Value |-> 27]
MChash == [k \in Key |-> IF k[0] = 65 \/ k[1] = 65 THEN 0 ELSE 1]
MClinelen == [w \in Marker \cup Code |-> IF w \in Marker THEN 5 ELSE 7]

(* Two sets of two ways in the first levels, one of four in the second:    *)
(* the one repetition that warms the first levels up does not do for the   *)
(* second ones.                                                            *)
FirstLevels  == {"l1itlb", "l1dtlb", "l1i", "l1d"}
SecondLevels == {"l2stlb", "llc"}
MCSets   == [c \in FirstLevels \cup SecondLevels |-> IF c \in SecondLevels THEN 1 ELSE 2]
MCAssoc  == [c \in FirstLevels \cup SecondLevels |-> IF c \in SecondLevels THEN 4 ELSE 2]
MCAccess == {At(a, 16) : a \in {Message + 16 * n : n \in 0 .. 15} \cup
                               {Reply + 16 * n : n \in 0 .. 15}} \cup
            {At(Table + 8 * n, 8) : n \in Bucket} \cup
            {At(Page + 64 * n, 8) : n \in 0 .. 3} \cup {At(Stack, 8)}
=============================================================================
