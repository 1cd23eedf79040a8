----------------------------- MODULE MCStoreTasks -----------------------------
(* One or two slots with a wallet. *)
EXTENDS StoreTasks

MCTwoSlots == {0, 1}
===============================================================================
