----------------------------- MODULE MCJenkins -----------------------------
(* Keys of up to three blocks, with the lengths around the multiples of 4  *)
(* and of 12, in memories of which every byte or none of the bytes, or     *)
(* some of them, have the top bit.                                         *)
EXTENDS JenkinsHash

MCMemory ==
  {[p \in 0 .. Top - 1 |-> (p * n + c) % 256] : <<n, c>> \in {<<83, 65>>, <<0, 65>>, <<0, 255>>}}

(* Values the C function returns, for "", for "AAAAA", main's first    *)
(* key, and for "Four score and seven years ago".                          *)
ASSUME Vectors ==
  /\ Hash(<<>>) = Word(57005, 48879)
  /\ Hash(<<65, 65, 65, 65, 65>>) = Word(2366, 11950)
  /\ Hash(<<70, 111, 117, 114, 32, 115, 99, 111, 114, 101, 32, 97, 110, 100, 32, 115, 101,
            118, 101, 110, 32, 121, 101, 97, 114, 115, 32, 97, 103, 111>>) = Word(6007, 1361)
=============================================================================
