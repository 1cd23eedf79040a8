------------------------------ MODULE BlindSigs ------------------------------
(***************************************************************************)
(* The blind signatures of crypto.c and wallet_blind.cpp in a group small  *)
(* enough to compute in: points and scalars are the numbers modulo a prime *)
(* Q, the generator is 1 and 0 is the point at infinity, on which the      *)
(* curve library's operations fail.  What is checked is the algebra, which *)
(* holds in every group of prime order: what the wallet unblinds is what   *)
(* the mint's key signs, and the proofs of equal logarithms are accepted   *)
(* for that key and no other.  The hash functions are polynomials that do  *)
(* not collide on the values met; hash collisions and forgeries are out of *)
(* the model.                                                              *)
(***************************************************************************)
EXTENDS Sequences, Functions

CONSTANTS None,
          Q                 \* the order of the group

Scalars == 1..(Q - 1)
G == 1

-----------------------------------------------------------------------------
(* secp256k1: combine, tweak_mul (create is a multiple of G) and negate.   *)
(* They fail at infinity, on a zero scalar, and on a failed operand.       *)
Plus(X, Y) ==
    IF X = None \/ Y = None THEN None
    ELSE IF (X + Y) % Q = 0 THEN None ELSE (X + Y) % Q

Times(r, X) == IF X = None \/ r \notin Scalars THEN None ELSE (r * X) % Q

Negate(X) == IF X = None THEN None ELSE Q - X

(* SHA-256 and the map to the curve, as toy hashes.                        *)
HashToCurve(secret) == 1 + ((((secret * secret) % Q) * 3 + secret * 7 + 5) % (Q - 1))

HashE(R1, R2, A, C) ==
    1 + ((((((R1 * R1) % Q) * 17 + R2) % Q) * 29 + ((A * C) % Q) * 31 + C) % (Q - 1))

-----------------------------------------------------------------------------
(* cashu_blind_message, cashu_unblind                                      *)
Blind(secret, r) == Plus(HashToCurve(secret), Times(r, G))

Unblind(C_, r, K) == Plus(C_, Negate(Times(r, K)))

(* cashu_verify_dleq: the signer of C_ is the owner of A.                  *)
VerifyDleq(A, B_, C_, e, s) ==
    LET R1 == Plus(Times(s, G), Negate(Times(e, A)))
        R2 == Plus(Times(s, B_), Negate(Times(e, C_)))
    IN IF R1 = None \/ R2 = None THEN FALSE ELSE e = HashE(R1, R2, A, C_)

(* cashu_verify_dleq_unblinded: rebuild what was signed from the proof.    *)
VerifyUnblinded(A, C, secret, e, s, r) ==
    LET C_ == Plus(C, Times(r, A))
        B_ == Blind(secret, r)
    IN IF C_ = None \/ B_ = None THEN FALSE ELSE VerifyDleq(A, B_, C_, e, s)

-----------------------------------------------------------------------------
(* The mint signs B_ with its key k and proves it (external).  Its nonce is*)
(* any that leads to no zero.                                              *)
SignWith(k, B_, nonce) ==
    LET C_ == (k * B_) % Q
        e  == HashE(nonce, (nonce * B_) % Q, k, C_)
    IN [C_ |-> C_, dleq |-> [e |-> e, s |-> (nonce + e * k) % Q, r |-> None]]

-----------------------------------------------------------------------------
(* generate_outputs: each amount with its secret and blinding factor, None *)
(* when one cannot be blinded.                                             *)
GenerateOutputs(amounts, id, secrets, factors) ==
    LET blinded == [i \in DOMAIN amounts |-> Blind(secrets[i], factors[i])]
    IN IF None \in Range(blinded) THEN None
       ELSE [outputs |-> [i \in DOMAIN amounts |->
                             [amount |-> amounts[i], B_ |-> blinded[i], id |-> id]],
             secrets |-> secrets, factors |-> factors]

\* Mutant: the DLEQ has to be there, and is not verified.
UnblindUnverified(sig, B_, secret, r, keyset) ==
    IF sig.amount \notin DOMAIN keyset.keys \/ sig.dleq = None THEN None
    ELSE [id |-> keyset.id, amount |-> sig.amount, secret |-> secret,
          C |-> Unblind(sig.C_, r, keyset.keys[sig.amount]),
          dleq |-> [e |-> sig.dleq.e, s |-> sig.dleq.s, r |-> r], witness |-> None]

(* One signature turned into a proof, None when it is refused: no key for  *)
(* its amount, no DLEQ (the build requires one), a DLEQ that does not hold *)
(* for what this output sent, or a signature that does not unblind.        *)
UnblindOne(sig, B_, secret, r, keyset) ==
    IF sig.amount \notin DOMAIN keyset.keys \/ sig.dleq = None THEN None
    ELSE LET K == keyset.keys[sig.amount]
             C == Unblind(sig.C_, r, K)
         IN IF ~VerifyDleq(K, B_, sig.C_, sig.dleq.e, sig.dleq.s) \/ C = None
            THEN None
            ELSE [id |-> keyset.id, amount |-> sig.amount, secret |-> secret,
                  C |-> C, dleq |-> [e |-> sig.dleq.e, s |-> sig.dleq.s, r |-> r],
                  witness |-> None]

(* unblind_signatures: one for each output, all of them or nothing.        *)
UnblindSignatures(sigs, blinding, keyset) ==
    LET fresh == [i \in DOMAIN sigs |->
                     UnblindOne(sigs[i], blinding.outputs[i].B_,
                                blinding.secrets[i], blinding.factors[i], keyset)]
    IN IF Len(sigs) # Len(blinding.outputs) THEN None
       ELSE IF None \in Range(fresh) THEN None
       ELSE fresh

(* The blinding data of a melt's change, cut to as many as the mint signed.*)
Truncated(blinding, n) ==
    LET m == IF n < Len(blinding.outputs) THEN n ELSE Len(blinding.outputs)
    IN [outputs |-> SubSeq(blinding.outputs, 1, m),
        secrets |-> SubSeq(blinding.secrets, 1, m),
        factors |-> SubSeq(blinding.factors, 1, m)]
=============================================================================
