------------------------------- MODULE TokenV4 -------------------------------
(***************************************************************************)
(* The V4 token of cashu_cbor.cpp: {m, u, d?, t: [{i, p: [{a, s, c, d?,    *)
(* w?}]}]}, proofs grouped under their keyset.  The decoder stops quietly  *)
(* where the stream does: a token cut between two proofs, or inside the    *)
(* optional part of one, is a valid token of fewer proofs.                 *)
(*                                                                         *)
(* A token is a record [mint, unit, memo, proofs], a proof a record [id,   *)
(* amount, secret, C, dleq, witness], a DLEQ a record [e, s, r]; what is   *)
(* optional may be None.                                                   *)
(***************************************************************************)
EXTENDS CborItems

CONSTANTS IdOrder,          \* the keyset ids in the order of their strings
          NotHex            \* the ids that are not hex strings (legacy ones)

-----------------------------------------------------------------------------
(* Writing                                                                 *)

(* An optional field: its key and items, or nothing.                       *)
Optional(x, name, items) == IF x = None THEN <<>> ELSE <<Key(name)>> \o items

Present(xs) == Cardinality({i \in DOMAIN xs : xs[i] # None})

DleqItems(d) ==
    <<MapOf(2 + Present(<<d.r>>)), Key("e"), Bytes(d.e), Key("s"), Bytes(d.s)>>
        \o Optional(d.r, "r", <<Bytes(d.r)>>)

\* Mutant: the DLEQ is not counted.
FieldsButDleq(p) == 3 + Present(<<p.witness>>)

Fields(p) == 3 + Present(<<p.dleq, p.witness>>)

ProofItems(p) ==
    <<MapOf(Fields(p)), Key("a"), UInt(p.amount),
      Key("s"), Text(p.secret), Key("c"), Bytes(p.C)>>
        \o (IF p.dleq = None THEN <<>> ELSE <<Key("d")>> \o DleqItems(p.dleq))
        \o Optional(p.witness, "w", <<Text(p.witness)>>)

(* The std::map of serialize_token_v4: the ids that occur, ordered, each   *)
(* with its proofs in the order of the token.                              *)
Grouped(proofs) ==
    LET ids == Kept(IdOrder, {i \in DOMAIN IdOrder :
                                 \E p \in Range(proofs) : p.id = IdOrder[i]})
    IN [j \in DOMAIN ids |->
            Kept(proofs, {i \in DOMAIN proofs : proofs[i].id = ids[j]})]

EntryItems(group) ==
    <<MapOf(2), Key("i"), Bytes(group[1].id), Key("p"), ArrayOf(Len(group))>>
        \o Joined([i \in DOMAIN group |-> ProofItems(group[i])])

(* serialize_token_v4: None (the code's "") when a hex field is malformed, *)
(* which only an id can be here.                                           *)
EncodeToken(token) ==
    LET groups == Grouped(token.proofs)
    IN IF \E p \in Range(token.proofs) : p.id \in NotHex THEN None
       ELSE <<MapOf(3 + Present(<<token.memo>>)),
              Key("m"), Text(token.mint), Key("u"), Text(token.unit)>>
            \o Optional(token.memo, "d", <<Text(token.memo)>>)
            \o <<Key("t"), ArrayOf(Len(groups))>>
            \o Joined([j \in DOMAIN groups |-> EntryItems(groups[j])])

-----------------------------------------------------------------------------
(* Reading                                                                 *)

(* decode_v4_dleq: both scalars or nothing; r is optional.                 *)
DleqAt(s, m) ==
    LET e == Field(s, m, "e", "bytes")
        z == Field(s, m, "s", "bytes")
    IN IF e = None \/ z = None THEN None
       ELSE [e |-> e, s |-> z, r |-> Field(s, m, "r", "bytes")]

(* decode_v4_proof: amount, secret and C are required; a DLEQ or witness   *)
(* that cannot be read is one the proof does not have.                     *)
ProofAt(s, m, id) ==
    LET a == Field(s, m, "a", "uint")
        x == Field(s, m, "s", "text")
        c == Field(s, m, "c", "bytes")
        d == Inside(s, m, "d", "map")
    IN IF s[m].k # "map" \/ a = None \/ x = None \/ c = None THEN None
       ELSE [id |-> id, amount |-> a, secret |-> x, C |-> c,
             dleq |-> IF d = 0 THEN None ELSE DleqAt(s, d),
             witness |-> Field(s, m, "w", "text")]

(* One entry of the token array: its proofs, or None when the whole token  *)
(* is refused.                                                             *)
EntryAt(s, m) ==
    LET id     == Field(s, m, "i", "bytes")
        a      == Inside(s, m, "p", "array")
        els    == Elements(s, a)
        proofs == [i \in DOMAIN els |-> ProofAt(s, els[i], id)]
    IN IF id = None \/ a = 0 THEN None
       ELSE IF ~CanEnter(s, a) \/ None \in Range(proofs) THEN None
       ELSE proofs

(* deserialize_token_v4.  Entries that are no maps are stepped over.       *)
DecodeToken(s) ==
    LET mint    == Field(s, 1, "m", "text")
        unit    == Field(s, 1, "u", "text")
        t       == Inside(s, 1, "t", "array")
        els     == Elements(s, t)
        maps    == Kept(els, {i \in DOMAIN els : s[els[i]].k = "map"})
        entries == [j \in DOMAIN maps |-> EntryAt(s, maps[j])]
    IN IF s = <<>> THEN None
       ELSE IF mint = None \/ unit = None \/ t = 0 THEN None
       ELSE IF ~CanEnter(s, t) \/ None \in Range(entries) THEN None
       ELSE [mint |-> mint, unit |-> unit, memo |-> Field(s, 1, "d", "text"),
             proofs |-> Joined(entries)]

-----------------------------------------------------------------------------
(* What the codec promises                                                 *)

(* A proof that lost at most its optional end.                             *)
Trimmed(p, q) ==
    /\ <<p.id, p.amount, p.secret, p.C>> = <<q.id, q.amount, q.secret, q.C>>
    /\ \/ p.dleq = None
       \/ q.dleq # None /\ p.dleq \in {q.dleq, [q.dleq EXCEPT !.r = None]}
    /\ p.witness \in {None, q.witness}

(* The reader takes no amount beyond an int32.                             *)
Readable(token) == \A p \in Range(token.proofs) : p.amount <= MaxInt32

(* The token with its proofs grouped.                                      *)
Sorted(token) == [token EXCEPT !.proofs = Joined(Grouped(token.proofs))]

(* What the start of a token may decode to: nothing, or the token's mint   *)
(* and unit with its first proofs, of which only the last may lack its DLEQ*)
(* or witness.                                                             *)
IsFirstProofs(cut, token) ==
    LET whole == Sorted(token).proofs
        k     == Len(cut.proofs)
    IN \/ cut = None
       \/ /\ <<cut.mint, cut.unit, cut.memo>> = <<token.mint, token.unit, token.memo>>
          /\ k <= Len(whole)
          /\ SubSeq(cut.proofs, 1, k - 1) = SubSeq(whole, 1, k - 1)
          /\ k > 0 => Trimmed(cut.proofs[k], whole[k])
=============================================================================
