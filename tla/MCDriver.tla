------------------------------ MODULE MCDriver ------------------------------
(* Two invocations and two seconds, with the first sizes of run(). *)
EXTENDS Driver

CONSTANTS a, b

MCSizes == <<1024, 4096>>
=============================================================================
