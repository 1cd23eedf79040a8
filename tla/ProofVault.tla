------------------------------ MODULE ProofVault ------------------------------
(***************************************************************************)
(* What the firmware promises about the durable proofs of one wallet slot, *)
(* with no word about flows, requests or flash: the vault is rewritten as  *)
(* a whole, only while it is not frozen, only with proofs the mint has     *)
(* signed, and a proof leaves it only after it was let go: printed as a    *)
(* token for somebody else, or taken by the mint as a payment.             *)
(***************************************************************************)

VARIABLES
    vault,     \* the proofs that survive a power loss
    frozen,    \* the vault must not be written until the next restart
    issued,    \* the proofs the mint has signed for this wallet or accepted for it
    letGo      \* the proofs handed to somebody else or taken by the mint

vaultVars == <<vault, frozen, issued, letGo>>

Init ==
    /\ vault = {}
    /\ frozen = FALSE
    /\ issued = {}
    /\ letGo = {}

\* The outside world moves: the mint signs more, and more is let go.
Outside ==
    /\ issued \subseteq issued'
    /\ letGo \subseteq letGo'
    /\ UNCHANGED <<vault, frozen>>

\* One save: all or nothing, never over a frozen vault.
Store ==
    /\ ~frozen
    /\ vault' \subseteq issued
    /\ vault \ vault' \subseteq letGo
    /\ UNCHANGED <<frozen, issued, letGo>>

\* A restart decides afresh whether the vault could be read.
Restart ==
    /\ frozen' \in BOOLEAN
    /\ UNCHANGED <<vault, issued, letGo>>

Next == Outside \/ Store \/ Restart

Spec == Init /\ [][Next]_vaultVars
===============================================================================
