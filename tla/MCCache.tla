------------------------------- MODULE MCCache -------------------------------
(* Constants of the model-checked instances of Cache. *)
EXTENDS Cache, TLC

CONSTANTS k1, k2, k3, k4, v1, v2, vmid, vbig

(* slabclass[].size as slab_init fills it: 32, 64, ..., 16384. *)
MCClassSize == [c \in 0 .. 9 |-> 32 * 2^c]

(* main.c's 5-byte keys; a 25-byte value makes an item of exactly 64 bytes, *)
(* one byte more goes to the next class, and vbig to no class at all.       *)
MCnkey == [k \in Key |-> 5]
MCnval == [v \in Value |-> CASE v = vmid -> 26 [] v = vbig -> 16384 [] OTHER -> 25]

MChash == [k \in Key |-> IF k = k4 THEN 1 ELSE 0]
=============================================================================
