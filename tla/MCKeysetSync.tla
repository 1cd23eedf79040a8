----------------------------- MODULE MCKeysetSync -----------------------------
(* Three keysets, two units, room for two. *)
EXTENDS KeysetSync

CONSTANTS k1, k2, k3

MCIds == {k1, k2, k3}
MCUnitOf == [id \in MCIds |-> IF id = k3 THEN "usd" ELSE "sat"]
MCDerived == {k1, k2, k3}
MCPrefixOf == [id \in MCIds |-> IF id = k3 THEN k2 ELSE id]
MCLegacy == {<<>>, <<[id |-> k1, active |-> TRUE, dear |-> FALSE], [id |-> k3, active |-> FALSE, dear |-> FALSE]>>}
MCNoLegacy == {<<>>}
===============================================================================
