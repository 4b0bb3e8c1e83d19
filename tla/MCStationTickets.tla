-------------------------- MODULE MCStationTickets --------------------------
(* Two shows: a studio with a top rung and one that is a lower rung until  *)
(* another output asks for it as its top, and a hall with a lower rung,    *)
(* whose process dies and is started again.                                *)
EXTENDS StationTickets
CONSTANTS studio, hall, hallAgain, top, low, side, sideAgain

Showing == [s \in Shows |-> IF s = hallAgain THEN hall ELSE s]
Owner == [n \in Nodes |-> IF n = side THEN hall ELSE IF n = sideAgain THEN hallAgain ELSE studio]
Share == [n \in Nodes |-> 1]
Ladder == [n \in Nodes |-> IF n = top THEN {0} ELSE IF n = low THEN {0, 1} ELSE {1}]
=============================================================================
