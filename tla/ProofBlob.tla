------------------------------ MODULE ProofBlob ------------------------------
(***************************************************************************)
(* The stored form of the proofs, wallet_blob.cpp: "NPB1", a count, and    *)
(* per proof its fields one after the other, hex strings as bytes.  A blob *)
(* is a sequence of chunks [v, n], what one read takes and its bytes; the  *)
(* reader goes by position alone, nothing in the bytes says which field    *)
(* they are.  What a chunk lost its end reads like one that is missing.    *)
(***************************************************************************)
EXTENDS Lists, Functions

CONSTANTS None,
          NotHex            \* the keyset ids that are not hex strings

Chunk(v, n) == [v |-> v, n |-> n]
Flag(b)     == Chunk(IF b THEN 1 ELSE 0, 1)

Magic == Chunk("NPB1", 4)

-----------------------------------------------------------------------------
(* proofs_to_bin_buf                                                       *)

Point(c)   == Chunk(c, 2 + 33)          \* hex_var: a length and the bytes
Scalar(x)  == Chunk(x, 32)              \* hex_fixed

\* Mutant: the sender's factor is not stored.
DleqWithoutFactor(d) ==
    IF d = None THEN <<Flag(FALSE)>>
    ELSE <<Flag(TRUE), Scalar(d.e), Scalar(d.s), Flag(FALSE)>>

DleqChunks(d) ==
    IF d = None THEN <<Flag(FALSE)>>
    ELSE <<Flag(TRUE), Scalar(d.e), Scalar(d.s)>>
         \o (IF d.r = None THEN <<Flag(FALSE)>> ELSE <<Flag(TRUE), Scalar(d.r)>>)

(* An empty witness is not told from none.                                 *)
WitnessChunks(w) ==
    IF w \in {None, ""} THEN <<Chunk(0, 2)>> ELSE <<Chunk(1, 2), Chunk(w, 1)>>

ProofChunks(p) ==
    <<Chunk(p.id, 2 + 8), Chunk(p.amount, 4), Chunk(p.secret, 2 + 32), Point(p.C)>>
        \o DleqChunks(p.dleq) \o WitnessChunks(p.witness)

(* None when a field is no hex string, which only an id can be: then none  *)
(* of the proofs is written.                                               *)
ToBlob(proofs) ==
    IF \E p \in Range(proofs) : p.id \in NotHex THEN None
    ELSE <<Magic, Chunk(Len(proofs), 4)>>
            \o Joined([i \in DOMAIN proofs |-> ProofChunks(proofs[i])])

Size(blob) == Total([i \in DOMAIN blob |-> blob[i].n])

-----------------------------------------------------------------------------
(* proofs_from_blob                                                        *)

(* blob_is_binary                                                          *)
IsBinary(blob) == blob # <<>> /\ blob[1] = Magic

(* One proof from position i: what its fields say, and the position after  *)
(* it.  Reads past the end give no value.                                  *)
ReadProof(blob, i) ==
    LET at(j)  == IF j <= Len(blob) THEN blob[j].v ELSE None
        dleq   == at(i + 4) = 1
        withR  == dleq /\ at(i + 7) = 1
        w      == i + (IF withR THEN 9 ELSE IF dleq THEN 8 ELSE 5)
        longW  == at(w) # 0
    IN [proof |-> [id |-> at(i), amount |-> at(i + 1), secret |-> at(i + 2),
                   C |-> at(i + 3),
                   dleq |-> IF dleq THEN [e |-> at(i + 5), s |-> at(i + 6),
                                          r |-> IF withR THEN at(i + 8) ELSE None]
                            ELSE None,
                   witness |-> IF longW THEN at(w + 1) ELSE None],
        next  |-> IF longW THEN w + 2 ELSE w + 1]

(* All the counted proofs, or None: the reader went past the end, or the   *)
(* count cannot be true of so few bytes.                                   *)
MinProof == 20

FromBlob(blob) ==
    LET count   == blob[2].v
        read[k \in 0..count] ==
            IF k = 0 THEN [proofs |-> <<>>, next |-> 3]
            ELSE LET before == read[k - 1]
                     one    == ReadProof(blob, before.next)
                 IN [proofs |-> Append(before.proofs, one.proof), next |-> one.next]
        all == read[count]
    IN IF ~IsBinary(blob) \/ Len(blob) < 2 THEN None
       ELSE IF count > (Size(blob) - 8) \div MinProof THEN None
       ELSE IF all.next > Len(blob) + 1 THEN None
       ELSE all.proofs

=============================================================================
