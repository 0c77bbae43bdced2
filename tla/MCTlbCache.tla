----------------------------- MODULE MCTlbCache -----------------------------
(* A small geometry: two-way caches, so that three blocks of a set do not  *)
(* fit, with one set in the first levels and two in the second.            *)
EXTENDS TlbHistory

MCSets  == [c \in CacheName |-> IF c \in {"l2stlb", "llc"} THEN 2 ELSE 1]
MCAssoc == [c \in CacheName |-> 2]

(* Lines of 2 bytes, pages of 4.  The first line has tag 0 in the llc, as  *)
(* an unused way does; the last access spans two lines and two pages.      *)
MCAccess == {[addr |-> 2, size |-> 1], [addr |-> 4, size |-> 1],
             [addr |-> 8, size |-> 2], [addr |-> 12, size |-> 1],
             [addr |-> 7, size |-> 2]}

(* The second of two lines with tag 0, as are the lowest 16384 lines in    *)
(* the last-level cache of config.h, and a line without.                   *)
MCLowAccess == {[addr |-> 2, size |-> 1], [addr |-> 4, size |-> 1]}
=============================================================================
