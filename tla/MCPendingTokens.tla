--------------------------- MODULE MCPendingTokens ---------------------------
(* Two slots and two mints; the tokens are of one of them. *)
EXTENDS PendingTokens, TLC

CONSTANTS a, b, t1, t2

MCMints == {a, b}
MCTokens == {t1, t2}
MCMintOf == [t \in MCTokens |-> a]
MCSymmetry == Permutations(MCTokens)
===============================================================================
