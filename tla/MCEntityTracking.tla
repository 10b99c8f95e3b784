-------------------------- MODULE MCEntityTracking --------------------------
(* EntityTracking with one player who goes everywhere and one who mostly    *)
(* watches; either queue may drop packets, the watcher's those of entities. *)
(* The heights are those where the rules change: -120 is in the void, -64   *)
(* outside the box of a player joined at 100, 0 (where every input starts)  *)
(* exactly MaxMove from 100 and less than 8 blocks from 4.                  *)
EXTENDS EntityTracking

CONSTANTS a, b, pig

MCStands == [s \in {pig} |-> 101]
MCSaved == [p \in {a, b} |-> IF p = a THEN 4 ELSE 100]
MCReported == [p \in {a, b} |-> IF p = a THEN {-120, -64, Invalid} ELSE {}]
MCTpTargets == [p \in {a, b} |-> IF p = a THEN {-64} ELSE {}]
MCMaxLost == [p \in {a, b} |-> IF p = b THEN 1 ELSE 0]
=============================================================================
