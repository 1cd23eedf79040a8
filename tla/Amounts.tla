------------------------------- MODULE Amounts -------------------------------
(***************************************************************************)
(* The money arithmetic of wallet.cpp, wallet_blind.cpp and keyset.cpp:    *)
(* which keyset an id names, a proof's unit, the fee of a set of inputs,   *)
(* the split of an amount into keyset amounts, the largest-first selection *)
(* and the blank outputs for a melt's change.                              *)
(*                                                                         *)
(* A keyset is a record [id, unit, active, input_fee_ppk, mintable, keys]; *)
(* an id is a sequence, so that a short form is a prefix of it.            *)
(***************************************************************************)
EXTENDS Lists, SequencesExt

CONSTANT None

SumOf(proofs) == Total([i \in DOMAIN proofs |-> proofs[i].amount])

-----------------------------------------------------------------------------
(* keyset_for_id, active_keyset_for_mint: the first that matches.          *)
FirstOf(keysets, hits) == IF hits = {} THEN None ELSE keysets[Min(hits)]

KeysetForId(keysets, id) ==
    FirstOf(keysets, {i \in DOMAIN keysets : keysets[i].id = id})

ActiveForMint(keysets, unit) ==
    FirstOf(keysets, {i \in DOMAIN keysets :
        keysets[i].active /\ keysets[i].unit = unit /\ keysets[i].mintable})

(* resolve_keyset: the keyset itself, else the only one the id is a prefix *)
(* of, else None; two candidates are Ambiguous.                            *)
Candidates(keysets, id) == {i \in DOMAIN keysets : IsPrefix(id, keysets[i].id)}

Ambiguous(keysets, id) ==
    /\ KeysetForId(keysets, id) = None
    /\ Cardinality(Candidates(keysets, id)) > 1

Resolve(keysets, id) ==
    LET exact == KeysetForId(keysets, id)
        near  == Candidates(keysets, id)
    IN IF exact # None THEN exact
       ELSE IF Cardinality(near) = 1 THEN FirstOf(keysets, near) ELSE None

(* unit_for_proof, proofs_unit                                             *)
UnitOf(keysets, p) ==
    LET k == Resolve(keysets, p.id) IN IF k = None THEN None ELSE k.unit

UnitOfAll(keysets, proofs) ==
    LET units == {UnitOf(keysets, p) : p \in Range(proofs)}
    IN IF Cardinality(units) = 1 THEN CHOOSE u \in units : TRUE ELSE None

OfUnit(keysets, proofs, unit) ==
    Kept(proofs, {i \in DOMAIN proofs : UnitOf(keysets, proofs[i]) = unit})

-----------------------------------------------------------------------------
(* calculate_fee: the parts per thousand of the inputs' keysets, summed and*)
(* then rounded up.  An id that is no stored full id costs nothing.        *)
Ppk(keysets, p) ==
    LET k == KeysetForId(keysets, p.id) IN IF k = None THEN 0 ELSE k.input_fee_ppk

PpkOfAll(keysets, inputs) ==
    Total([i \in DOMAIN inputs |-> Ppk(keysets, inputs[i])])

\* Mutant: rounded down.
FeeTruncated(keysets, inputs) == PpkOfAll(keysets, inputs) \div 1000

Fee(keysets, inputs) == (PpkOfAll(keysets, inputs) + 999) \div 1000

(* split_amount: the bits 0..30, ascending.  A negative amount has the bits*)
(* of its two's complement.                                                *)
Bits == [i \in 1..31 |-> 2^(i - 1)]

SplitAmount(amount) ==
    Kept(Bits, {i \in 1..31 : (amount \div Bits[i]) % 2 = 1})

\* Mutant: enough for powers of two only.
BlankLog(maxChange) == Cardinality({i \in 0..30 : maxChange \div 2^i > 1})

(* blank_output_count: as many as max_change has binary digits.            *)
BlankCount(maxChange) == Cardinality({i \in 0..30 : maxChange \div 2^i > 0})

-----------------------------------------------------------------------------
(* select_proofs: of the unit's proofs the largest, one by one, until they *)
(* cover what is needed and their own fee.  Equal amounts come in any      *)
(* order (std::sort), so there may be several outcomes: a selection, or    *)
(* None when all of the proofs do not cover the need.  In what order the   *)
(* selection lists its proofs is left out: it lists them as they were.     *)
Covers(keysets, inputs, needed) ==
    inputs # <<>> /\ SumOf(inputs) >= needed + Fee(keysets, inputs)

\* Mutant: the order turned round.
Smallest(proofs, S) == {i \in S : \A j \in S : proofs[i].amount <= proofs[j].amount}

Largest(proofs, S) == {i \in S : \A j \in S : proofs[i].amount >= proofs[j].amount}

SelectProofs(keysets, proofs, needed, unit) ==
    LET mine  == OfUnit(keysets, proofs, unit)
        all   == DOMAIN mine
        enough(S) == Covers(keysets, Kept(mine, S), needed)
        grown[k \in 0..Len(mine)] ==
            IF k = 0 THEN {{}}
            ELSE UNION {{S \cup {i} : i \in Largest(mine, all \ S)} :
                            S \in {T \in grown[k - 1] : ~enough(T)}}
        ends == UNION {grown[k] : k \in 0..Len(mine)}
    IN {Kept(mine, S) : S \in {T \in ends : enough(T)}}
         \cup {None : S \in {T \in grown[Len(mine)] : ~enough(T)}}

-----------------------------------------------------------------------------
(* What a selection promises.  It covers the need with its fee, and without*)
(* its smallest proof it does not; it is only given up when no set of the  *)
(* unit's proofs covers the need, provided a proof never costs more than it*)
(* is worth (a ppk of at most 1000).                                       *)
SelectionRight(keysets, proofs, needed, unit, chosen) ==
    IF chosen = None
    THEN LET mine == OfUnit(keysets, proofs, unit)
         IN \A S \in SUBSET DOMAIN mine : ~Covers(keysets, Kept(mine, S), needed)
    ELSE /\ Covers(keysets, chosen, needed)
         /\ \A p \in Range(chosen) : UnitOf(keysets, p) = unit
         /\ \E i \in DOMAIN chosen :
                /\ \A j \in DOMAIN chosen : chosen[i].amount <= chosen[j].amount
                /\ ~Covers(keysets, Kept(chosen, DOMAIN chosen \ {i}), needed)
=============================================================================
