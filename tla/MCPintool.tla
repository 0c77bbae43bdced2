----------------------------- MODULE MCPintool -----------------------------
(* The tool alone, recording anything in any order.  Lines of "main" are   *)
(* too long for snprintf, and three of them fill the text buffer.          *)
EXTENDS Pintool

CONSTANTS
  MaxEntries,     \* length of the trace
  Recorded        \* what is recorded: two words do for the lines of one length

MCAccess  == {[addr |-> 256, size |-> 8]}
MClinelen == [w \in Marker \cup Code |->
                CASE w = "main" -> 9 [] w = "cache" -> 4 [] OTHER -> 3]

BoundedNext ==
  /\ PinNext
  /\ Len(seen') <= MaxEntries
  /\ seen' # seen => seen'[Len(seen')].what \in Recorded

BoundedSpec == PinInit /\ [][BoundedNext]_pinVars
=============================================================================
