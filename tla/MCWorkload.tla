----------------------------- MODULE MCWorkload -----------------------------
(* Keys of three letters out of two: names for eight items, chunks for four. *)
EXTENDS Workload

CONSTANT v123

(* 32 + 3 + 1 + 123 + 1: a chunk of 160 bytes is just enough, as one of 64 *)
(* is for the five and 25 bytes of main.c.  The reply of 127 bytes is the  *)
(* longest but one for which the 8-bit counters do: bytes_enc wraps around *)
(* when its last block is done.                                            *)
MCClassSize == [c \in 0 .. 8 |-> min_size * 2^c]
MCKey  == [0 .. NCHARS - 1 -> {whichchar(d) : d \in 0 .. ALPHABETSIZE - 1}]
MCnkey == [k \in Key |-> NCHARS]
MCnval == [v \in Value |-> 123]
(* Two buckets, and a chain of several items in one of them. *)
MChash == [k \in Key |-> IF k[0] = 65 \/ k[1] = 65 THEN 0 ELSE 1]
=============================================================================
