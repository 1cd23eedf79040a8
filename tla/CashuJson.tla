------------------------------ MODULE CashuJson ------------------------------
(***************************************************************************)
(* The JSON readers and writers of cashu_json.cpp.  A JSON object is a     *)
(* function from the keys it has to their values.  A value of the wrong    *)
(* type is treated by every reader as a key that is not there, so an       *)
(* object of the model only has keys whose values are of the right type;   *)
(* an amount may still be out of range, and is then not there either.  The *)
(* parser cJSON is not part of the repository.                             *)
(***************************************************************************)
EXTENDS Integers, Sequences, Functions

CONSTANT None

(* get_string, get_int64, get_bool: the value under a key.                 *)
Get(o, key)         == IF key \in DOMAIN o THEN o[key] ELSE None
Or(o, key, default) == IF key \in DOMAIN o THEN o[key] ELSE default
Has(o, keys)        == keys \subseteq DOMAIN o

(* get_int: a number that is no natural one below 2^31 is passed over.     *)
MaxInt32               == 2147483647
Int32                  == 0..MaxInt32
HasInt(o, key)         == key \in DOMAIN o /\ o[key] \in Int32
GetInt(o, key)         == IF HasInt(o, key) THEN o[key] ELSE None
OrInt(o, key, default) == IF HasInt(o, key) THEN o[key] ELSE default

(* from_json_array: every element or nothing.                              *)
AllRead(read) == IF None \in Range(read) THEN None ELSE read

(* An object without the keys whose value is None.                         *)
Written(o) == [key \in {f \in DOMAIN o : o[f] # None} |-> o[key]]

-----------------------------------------------------------------------------
(* Proofs, signatures, tokens                                              *)

DleqFrom(o) ==
    IF Has(o, {"e", "s"}) THEN [e |-> o.e, s |-> o.s, r |-> Get(o, "r")] ELSE None

DleqIn(o) == IF Has(o, {"dleq"}) THEN DleqFrom(o.dleq) ELSE None

ProofFrom(o) ==
    IF Has(o, {"id", "secret", "C"}) /\ HasInt(o, "amount")
    THEN [id |-> o.id, amount |-> o.amount, secret |-> o.secret, C |-> o.C,
          dleq |-> DleqIn(o), witness |-> Get(o, "witness")]
    ELSE None

SignatureFrom(o) ==
    IF Has(o, {"id", "C_"}) /\ HasInt(o, "amount")
    THEN [id |-> o.id, amount |-> o.amount, C_ |-> o.C_, dleq |-> DleqIn(o)]
    ELSE None

ProofsFrom(arr)   == AllRead([i \in DOMAIN arr |-> ProofFrom(arr[i])])
SigsFrom(arr)     == AllRead([i \in DOMAIN arr |-> SignatureFrom(arr[i])])

(* SwapResponse and MintResponse.                                          *)
SignaturesFrom(o) ==
    IF Has(o, {"signatures"}) THEN SigsFrom(o.signatures) ELSE None

(* The V3 token: its first entry only; without a unit it is in sat.        *)
TokenFrom(o) ==
    LET proofs == ProofsFrom(o.token[1].proofs)
    IN IF ~Has(o, {"token"}) THEN None
       ELSE IF o.token = <<>> THEN None
       ELSE IF ~Has(o.token[1], {"mint", "proofs"}) \/ proofs = None THEN None
       ELSE [mint |-> o.token[1].mint, unit |-> Or(o, "unit", "sat"),
             memo |-> Get(o, "memo"), proofs |-> proofs]

DleqJson(d) == Written([e |-> d.e, s |-> d.s, r |-> d.r])

ProofJson(p) ==
    Written([id |-> p.id, amount |-> p.amount, secret |-> p.secret, C |-> p.C,
             dleq |-> IF p.dleq = None THEN None ELSE DleqJson(p.dleq),
             witness |-> p.witness])

(* A V3 token as other wallets write it (external).                        *)
TokenJson(t) ==
    LET list == <<[mint |-> t.mint,
                   proofs |-> [i \in DOMAIN t.proofs |-> ProofJson(t.proofs[i])]]>>
        more == Written([unit |-> IF t.unit = "" THEN None ELSE t.unit, memo |-> t.memo])
    IN [key \in {"token"} \cup DOMAIN more |-> IF key = "token" THEN list ELSE more[key]]

-----------------------------------------------------------------------------
(* Quotes                                                                  *)

MintQuoteFrom(o) ==
    IF Has(o, {"quote", "request"})
    THEN [quote |-> o.quote, request |-> o.request, state |-> Or(o, "state", ""),
          unit |-> Or(o, "unit", ""), method |-> Or(o, "method", ""),
          amount |-> OrInt(o, "amount", 0), expiry |-> Or(o, "expiry", 0),
          amount_paid |-> GetInt(o, "amount_paid"),
          amount_issued |-> GetInt(o, "amount_issued")]
    ELSE None

(* MintQuote::mintable: paid less issued when the mint says both, else the *)
(* amount of a quote whose older state is PAID.                            *)
Mintable(q) ==
    IF q.amount_paid # None /\ q.amount_issued # None
    THEN IF q.amount_paid > q.amount_issued
         THEN q.amount_paid - q.amount_issued ELSE 0
    ELSE IF q.state = "PAID" THEN q.amount ELSE 0

MeltQuoteFrom(o) ==
    LET change == IF Has(o, {"change"}) THEN SigsFrom(o.change)
                  ELSE None
    IN IF Has(o, {"quote", "state"}) /\ HasInt(o, "amount")
       THEN [quote |-> o.quote, state |-> o.state, amount |-> o.amount,
             fee_reserve |-> OrInt(o, "fee_reserve", 0), unit |-> Or(o, "unit", ""),
             method |-> Or(o, "method", ""), change |-> change]
       ELSE None
=============================================================================
