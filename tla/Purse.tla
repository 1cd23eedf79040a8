------------------------------- MODULE Purse -------------------------------
(***************************************************************************)
(* What one wallet does to the money itself: the proofs, amounts, points   *)
(* and bytes that WalletCustody takes as given.  A token is written,       *)
(* passed on by other wallets, cut short by a reader, decoded and          *)
(* redeemed; proofs are selected and melted, minted from a quote, saved    *)
(* and loaded.  The steps of a flow follow one another here: what can come *)
(* between them is WalletCustody's subject, as are failed saves and lost   *)
(* answers.                                                                *)
(*                                                                         *)
(* The mint is external: it knows its keysets, signs what adds up and      *)
(* keeps the spent secrets.  Its answers may be damaged in the ways        *)
(* Damages lists.                                                          *)
(***************************************************************************)
EXTENDS Amounts, TLC

CONSTANTS
    Keysets,                \* the mint's keysets, a sequence of records
    IdOrder,                \* every id and short id in string order
    NotHex,                 \* the ids that are no hex strings
    Q,                      \* the order of the toy group
    Starts,                 \* initial situations [known, own, foreign,
                            \* form, json, view]
    OurLocks, TheirLocks,   \* secrets locked to our key, to another one
    Requests,               \* payment requests to show
    LockKey,
    Damages,                \* how a mint's answer may differ from the right one
    MeltTerms,              \* [amount, reserve] of the melts tried
    Refunds,                \* what of the amount due a melt may give back
    MaxOps, MaxPaid         \* bounds: steps in all, amount paid to the quote

Ids     == Range(IdOrder)
Strings == STRING \cup {"", "NPB1", "signed", "q", "r", "PAID", "PENDING", "mint", "usd"}
Name    == Strings \ {""}

(* A proof: a positive amount of a keyset, with a DLEQ and the sender's    *)
(* factor or without.                                                      *)
Dleq  == [e : Int, s : Int, r : Int \cup {None}]

Proof == [id : Ids, amount : Nat \ {0}, secret : Int, C : Int,
          dleq : Dleq \cup {None}, witness : Name \cup {None}]

(* What a stored proof is made of.                                         *)
Chunks == [v : Ids \cup Int \cup Strings, n : Nat]

(* The mint's keysets, each with keys of positive amounts, those of 1 and 2 *)
(* among them.                                                             *)
Keys          == {k.keys : k \in Range(Keysets)}
KeysetRecord  == [id : Ids, unit : Name, active : BOOLEAN, input_fee_ppk : Nat,
                  mintable : BOOLEAN, keys : Keys]

(* The code's amounts, and the sums it makes of them, are int32.           *)
MaxInt == 2147483647

OnceEach(ks) == \A i, j \in DOMAIN ks : ks[i].id = ks[j].id => i = j

(* The wallet's keysets are the mint's; whether one is still active may be *)
(* out of date.  Its proofs are of keysets it knows.                       *)
AreTheMints(ks) ==
    /\ ks \in Seq(KeysetRecord)
    /\ OnceEach(ks)
    /\ \A k \in Range(ks) : \E m \in Range(Keysets) : k = [m EXCEPT !.active = k.active]

OfKnown(ks, ps) == \A p \in Range(ps) : \E k \in Range(ks) : k.id = p.id

IsToken(t) ==
    /\ t = [mint |-> t.mint, unit |-> t.unit, memo |-> t.memo, proofs |-> t.proofs]
    /\ t.mint \in Strings /\ t.unit \in Strings /\ t.memo \in Strings \cup {None}
    /\ t.proofs \in Seq(Proof)

ASSUME IdsListed == IdOrder \in Seq(Ids) /\ NotHex \subseteq Ids
ASSUME ShortIds ==
    \A id \in Ids : /\ SubSeq(id, 1, 1) \in Ids
                    /\ id \notin NotHex => SubSeq(id, 1, 1) \notin NotHex
ASSUME OrderAssumption == Q \in Nat /\ Q > 2
ASSUME NoneApart ==
    /\ None \notin Ids \cup Int \cup Strings \cup Dleq \cup KeysetRecord
                    \cup Proof \cup Seq(Proof) \cup Seq(Chunks)
    /\ \A D \in SUBSET {"e", "s", "r"} : None \notin [D -> Int]
ASSUME MintAssumption ==
    /\ Keysets \in Seq(KeysetRecord) /\ OnceEach(Keysets)
    /\ \A keys \in Keys : /\ {1, 2} \subseteq DOMAIN keys /\ DOMAIN keys \subseteq Nat \ {0}
                          /\ keys \in [DOMAIN keys -> Int]
\* No proof costs more to spend than it is worth.
ASSUME FeesBearable == \A k \in Range(Keysets) : k.input_fee_ppk <= 1000
ASSUME StartsAssumption ==
    \A start \in Starts :
        /\ AreTheMints(start.known)
        /\ start.own \in Seq(Proof) /\ OfKnown(start.known, start.own)
        /\ \A p \in Range(start.own) : p.amount <= MaxInt
        /\ start.json \in BOOLEAN /\ start.form \in {"v3", "v4"}
        /\ start.view \in {"pair", "legacy", "both"}
        /\ start.json \/ \A p \in Range(start.own) : p.id \notin NotHex
        /\ start.foreign # None =>
               /\ IsToken(start.foreign)
               /\ start.form = "v3" \/ \A p \in Range(start.foreign.proofs) : p.id \notin NotHex
ASSUME BoundsAssumption ==
    /\ \A terms \in MeltTerms : /\ terms.amount \in Nat /\ terms.reserve \in Nat
                               /\ terms.amount + terms.reserve <= MaxInt
    /\ \A terms \in MeltTerms, refund \in Refunds : refund \in 0..(terms.amount + terms.reserve)
    /\ Damages \subseteq {"none", "reversed", "short", "nodleq", "nopoint", "offkey"}
    /\ MaxOps \in Nat \ {0} /\ MaxPaid \in Nat

VARIABLES
    known,                  \* the keysets the wallet has
    proofs,                 \* its proofs
    counters,               \* next derivation index of each keyset
    flash,                  \* the stored proofs: [form, data]
    saved,                  \* did the last save succeed
    stale,                  \* was the wallet loaded after a save that did not
    job,                    \* how far the flow that runs is, or None
    token,                  \* the token in hand: [doc, whole, coins], or None
    creq,                   \* a payment request as [shown, read], or None
    quote,                  \* the mint's quote: [paid, issued, view]
    spent,                  \* secrets the mint has taken
    paid,                   \* value the mint kept or paid out, by unit
    forfeit,                \* value it signed in answers the wallet refused
    lost,                   \* history: proofs that were cut off a token and redeemed
                            \* without
    copied,                 \* history: secrets of proofs that left as a token and
                            \* stayed, since their removal could not be saved
    ops

storeVars  == <<proofs, flash, saved, stale>>
mintVars   == <<quote, spent, paid, forfeit>>
history    == <<lost, copied>>
vars       == <<known, counters, storeVars, job, token, creq, mintVars, history, ops>>

Codec   == INSTANCE TokenV4
Request == INSTANCE PayRequest
Blob    == INSTANCE ProofBlob
Json    == INSTANCE CashuJson
Sigs    == INSTANCE BlindSigs

Units == {Keysets[i].unit : i \in DOMAIN Keysets}

-----------------------------------------------------------------------------
(* The mint                                                                *)

(* In the toy group a public key is its private key.                       *)
KeyFor(id, amount) == KeysetForId(Keysets, id).keys[amount]

Genuine(p) ==
    LET k == KeysetForId(Keysets, p.id)
    IN /\ k # None
       /\ p.amount \in DOMAIN k.keys
       /\ p.C = Sigs!Times(k.keys[p.amount], Sigs!HashToCurve(p.secret))

(* A signature as the mint's JSON shows it; the key is that of an amount.  *)
Signature(output, amount, keyAmount) ==
    LET s == Sigs!SignWith(KeyFor(output.id, keyAmount), output.B_, 11 + 3 * amount)
    IN [id |-> output.id, amount |-> amount, C_ |-> s.C_,
        dleq |-> Json!DleqJson(s.dleq)]

Signed(outputs) ==
    [i \in DOMAIN outputs |-> Signature(outputs[i], outputs[i].amount, outputs[i].amount)]

(* Damaged answers: signatures in another order, one missing, one without  *)
(* its DLEQ or its point, or made with the key of another amount.          *)
Damaged(how, sigs, outputs) ==
    CASE how = "none"     -> sigs
      [] how = "reversed" -> Reverse(sigs)
      [] how = "short"    -> Tail(sigs)
      [] how = "nodleq"   -> [sigs EXCEPT ![1] = Json!Written([@ EXCEPT !.dleq = None])]
      [] how = "nopoint"  -> [sigs EXCEPT ![1] = Json!Written([@ EXCEPT !.C_ = None])]
      [] how = "offkey"   -> [sigs EXCEPT ![1] =
                                 Signature(outputs[1], @.amount, IF @.amount = 1 THEN 2 ELSE 1)]

(* What the mint takes: its own unspent proofs of one unit, each once, its *)
(* locks opened.                                                           *)
Spendable(inputs) ==
    /\ \A p \in Range(inputs) : /\ Genuine(p)
                                /\ p.secret \notin spent
                                /\ p.secret \in OurLocks \cup TheirLocks => p.witness # None
    /\ \A i, j \in DOMAIN inputs : inputs[i].secret = inputs[j].secret => i = j
    /\ UnitOfAll(Keysets, inputs) # None

(* Its fee is a part per thousand of every input, made whole.              *)
MintFee(inputs) ==
    LET ppk == Total([i \in DOMAIN inputs |->
                         KeysetForId(Keysets, inputs[i].id).input_fee_ppk])
    IN CHOOSE fee \in 0..ppk : 1000 * fee >= ppk /\ 1000 * (fee - 1) < ppk

(* It only signs with the keysets it still offers.                         *)
Offers(outputs) == \A o \in Range(outputs) : KeysetForId(Keysets, o.id).active

SumOut(outputs) == Total([i \in DOMAIN outputs |-> outputs[i].amount])

TakesSwap(inputs, outputs) ==
    /\ Spendable(inputs)
    /\ outputs # <<>> /\ Offers(outputs)
    /\ SumOf(inputs) = SumOut(outputs) + MintFee(inputs)

-----------------------------------------------------------------------------
(* The wallet's plumbing                                                   *)

(* NUT-13: secrets and blinding factors from the seed, by keyset and index.*)
IdNumber(id)      == CHOOSE i \in DOMAIN IdOrder : IdOrder[i] = id
Secret(id, index) == 1000 * IdNumber(id) + 2 * index + 7
Factor(id, index) == 5000 + 700 * IdNumber(id) + 13 * index

Generate(amounts, id) ==
    Sigs!GenerateOutputs(amounts, id,
                         [i \in DOMAIN amounts |-> Secret(id, counters[id] + i - 1)],
                         [i \in DOMAIN amounts |-> Factor(id, counters[id] + i - 1)])

Used(id, n) == [counters EXCEPT ![id] = @ + n]

(* save_proofs and load_proofs                                             *)
SaveProofs(ps) ==
    LET blob == Blob!ToBlob(ps)
    IN /\ flash' = IF blob = None THEN flash ELSE [form |-> "blob", data |-> blob]
       /\ saved' = (blob # None)

Loaded(stored) ==
    IF stored.form = "blob" THEN Blob!FromBlob(stored.data)
    ELSE Json!ProofsFrom(stored.data)

(* remove_proofs: by secret.                                               *)
Without(ps, gone) ==
    Kept(ps, {i \in DOMAIN ps : ps[i].secret \notin {q.secret : q \in Range(gone)}})

(* strip_dleq_for_send                                                     *)
Stripped(ps) == [i \in DOMAIN ps |-> [ps[i] EXCEPT !.dleq = None]]

(* attach_p2pk_witnesses: sign what is locked to us, refuse other locks.   *)
Witnessed(ps) ==
    IF \E p \in Range(ps) : p.secret \in TheirLocks THEN None
    ELSE [i \in DOMAIN ps |-> IF ps[i].secret \in OurLocks
                              THEN [ps[i] EXCEPT !.witness = "signed"] ELSE ps[i]]

(* load_keysets: the mint's active keysets join the ones already there.    *)
Refreshed(ks) ==
    ks \o Kept(Keysets, {i \in DOMAIN Keysets :
                  Keysets[i].active /\ KeysetForId(ks, Keysets[i].id) = None})

(* ensure_active_keyset: refresh when the unit has no active keyset.       *)
Ensured(unit) ==
    IF \E k \in Range(known) : k.active /\ k.unit = unit THEN known ELSE Refreshed(known)

(* A flow begins, is at a stage, or ends without a change to the wallet.   *)
Begin     == job = None /\ ops < MaxOps /\ ops' = ops + 1 /\ creq' = None
Stage(s)  == job # None /\ job.at = s
At(stage) == Stage(stage) /\ UNCHANGED <<creq, ops>>
GiveUp    == job' = None /\ UNCHANGED <<storeVars, token, mintVars, history>>

(* mint_post: the request goes out; its outputs' indexes are used up.      *)
Post(op, unit, inputs, made, keyset, due) ==
    /\ job' = [at |-> "posted", op |-> op, unit |-> unit, inputs |-> inputs,
               made |-> made, keyset |-> keyset, due |-> due]
    /\ counters' = Used(keyset.id, Len(made.outputs))
    /\ UNCHANGED <<storeVars, token, mintVars, history>>

-----------------------------------------------------------------------------
(* Tokens                                                                  *)

DocOf(t, form) ==
    IF form = "v4" THEN [form |-> "v4", items |-> Codec!EncodeToken(t)]
    ELSE [form |-> "v3", json |-> Json!TokenJson(t)]

(* deserialize_token: by the prefix of the string.                         *)
TokenIn(doc) ==
    IF doc.form = "v4" THEN Codec!DecodeToken(doc.items) ELSE Json!TokenFrom(doc.json)

(* stickup, for one unit: its proofs leave as a token.  A token that cannot*)
(* be written keeps them; a removal that cannot be saved keeps them too,   *)
(* and the token is a duplicate.                                           *)
Stickup(unit) ==
    LET drained == OfUnit(known, proofs, unit)
        whole   == [mint |-> "mint", unit |-> unit, memo |-> None, proofs |-> drained]
        rest    == Without(proofs, drained)
    IN /\ Begin
       /\ token = None /\ drained # <<>>
       /\ \A p \in Range(drained) : p.id \notin NotHex
       /\ token' = [doc |-> DocOf(whole, "v4"), whole |-> whole, coins |-> drained]
       /\ SaveProofs(rest)
       /\ proofs' = IF saved' THEN rest ELSE proofs
       /\ copied' = IF saved' THEN copied
                    ELSE copied \cup {p.secret : p \in Range(drained)}
       /\ UNCHANGED <<known, counters, stale, job, mintVars, lost>>

(* Another wallet passes the token on in a form of its own: short ids, no  *)
(* DLEQs, the V3 form, or without a unit or with another one (external).   *)
Shortened(ps) == [i \in DOMAIN ps |-> [ps[i] EXCEPT !.id = SubSeq(@, 1, 1)]]

Reformed(t, form) ==
    CASE form = "short"  -> [t EXCEPT !.proofs = Shortened(@)]
      [] form = "bare"   -> [t EXCEPT !.proofs = Stripped(@)]
      [] form = "nounit" -> [t EXCEPT !.unit = ""]
      [] form = "usd"    -> [t EXCEPT !.unit = "usd"]
      [] OTHER           -> t

Forms == {"short", "bare", "nounit", "usd", "v3"}

(* The token is as the wallet wrote it.                                    *)
Fresh == /\ token # None
         /\ token.doc.form = "v4"
         /\ token.doc.items = Codec!EncodeToken(token.whole)

Forward(form) ==
    LET t == Reformed(token.whole, form)
    IN /\ Begin /\ Fresh
       /\ token' = [token EXCEPT
                        !.doc = DocOf(t, IF form \in {"v3", "nounit"} THEN "v3" ELSE "v4"),
                        !.whole = t]
       /\ UNCHANGED <<known, counters, storeVars, job, mintVars, history>>

(* A reader hands over the start of a V4 token.                            *)
Cut ==
    /\ Begin /\ Fresh
    /\ \E n \in 0..(Len(token.doc.items) - 1) :
          token' = [token EXCEPT !.doc.items = SubSeq(@, 1, n)]
    /\ UNCHANGED <<known, counters, storeVars, job, mintVars, history>>

-----------------------------------------------------------------------------
(* receive and swap                                                        *)

Receive ==
    /\ Begin /\ token # None
    /\ job' = [at |-> "decoded", read |-> TokenIn(token.doc)]
    /\ UNCHANGED <<known, counters, storeVars, token, mintVars, history>>

Offered == IF job.read = None THEN <<>> ELSE job.read.proofs

NothingInIt ==
    /\ At("decoded") /\ Offered = <<>>
    /\ GiveUp /\ UNCHANGED <<known, counters>>

\* Mutant: a short id is found and left.
LeftShort(ks, ps) == ps

(* One pass of normalize_input_keyset_ids.                                 *)
Renamed(ks, ps) ==
    [i \in DOMAIN ps |->
        LET k == Resolve(ks, ps[i].id)
        IN IF k = None THEN ps[i] ELSE [ps[i] EXCEPT !.id = k.id]]

AnyAmbiguous(ks, ps) == \E p \in Range(ps) : Ambiguous(ks, p.id)
AnyUnknown(ks, ps)   == \E p \in Range(ps) : Resolve(ks, p.id) = None

(* Both passes, the second over the mint's keysets if it can be reached.   *)
Normalize(reachable) ==
    LET ps    == Offered
        twice == AnyUnknown(known, ps) /\ ~AnyAmbiguous(known, ps)
    IN /\ At("decoded") /\ ps # <<>>
       /\ known' = IF twice /\ reachable THEN Refreshed(known) ELSE known
       /\ job' = IF AnyAmbiguous(known', ps) \/ AnyUnknown(known', ps) THEN None
                 ELSE [at |-> "named", unit |-> job.read.unit,
                       inputs |-> Renamed(known', ps)]
       /\ UNCHANGED <<counters, storeVars, token, mintVars, history>>

(* verify_forwarded_dleq: what carries the sender's factor must hold.      *)
ForwardedHolds(ks, ps) ==
    \A p \in Range(ps) :
        p.dleq = None \/ p.dleq.r = None \/
        LET keys == KeysetForId(ks, p.id).keys
        IN /\ p.amount \in DOMAIN keys
           /\ Sigs!VerifyUnblinded(keys[p.amount], p.C, p.secret,
                                   p.dleq.e, p.dleq.s, p.dleq.r)

(* swap, for the whole of its inputs.                                      *)
SwapAmounts(ks, inputs) == SplitAmount(SumOf(inputs) - Fee(ks, inputs))

(* The tests of receive, and swap up to its request.  Outputs are derived, *)
(* and their indexes used, before a lock is found that is not ours.        *)
PostSwap ==
    LET unit == UnitOfAll(known, job.inputs)
        ks   == ActiveForMint(known, unit)
        made == Generate(SwapAmounts(known, job.inputs), ks.id)
        ins  == Witnessed(Stripped(job.inputs))
    IN /\ At("named")
       /\ UNCHANGED known
       /\ IF unit = None \/ ks = None \/ job.unit \notin {"", unit}
          THEN GiveUp /\ UNCHANGED counters
          ELSE IF ~ForwardedHolds(known, job.inputs) \/ made = None
          THEN GiveUp /\ UNCHANGED counters
          ELSE IF ins = None
          THEN GiveUp /\ counters' = Used(ks.id, Len(made.outputs))
          ELSE Post("swap", unit, ins, made, ks, SumOf(ins) - MintFee(ins))

-----------------------------------------------------------------------------
(* melt                                                                    *)

(* A quote of these terms: the balance is enough, proofs are selected.     *)
SelectForMelt(unit, terms) ==
    LET ks     == Ensured(unit)
        needed == terms.amount + terms.reserve
    IN /\ Begin
       /\ ActiveForMint(ks, unit) # None
       /\ SumOf(OfUnit(ks, proofs, unit)) >= needed
       /\ known' = ks
       /\ \E chosen \in SelectProofs(ks, proofs, needed, unit) :
             job' = [at |-> "selected", unit |-> unit, terms |-> terms, chosen |-> chosen]
       /\ UNCHANGED <<counters, storeVars, token, mintVars, history>>

NotCovered ==
    /\ At("selected") /\ job.chosen = None
    /\ GiveUp /\ UNCHANGED <<known, counters>>

(* What select_proofs leaves: the other units' proofs, then what remains of*)
(* this one.                                                               *)
Leftover(gone, unit) ==
    LET kept == Without(proofs, gone)
    IN Kept(kept, {i \in DOMAIN kept : UnitOf(known, kept[i]) # unit})
         \o OfUnit(known, kept, unit)

(* Blank outputs for the most the change can be, then the request.         *)
PostMelt ==
    LET chosen == job.chosen
        ks     == ActiveForMint(known, job.unit)
        change == SumOf(chosen) - job.terms.amount - Fee(known, chosen)
        made   == Generate([i \in 1..BlankCount(change) |-> 0], ks.id)
    IN /\ At("selected") /\ chosen # None
       /\ UNCHANGED known
       /\ IF made = None THEN GiveUp /\ UNCHANGED counters
          ELSE Post("melt", job.unit, Stripped(chosen), made, ks,
                    job.terms.amount + job.terms.reserve + MintFee(chosen))

-----------------------------------------------------------------------------
(* mint                                                                    *)

(* Somebody pays to the quote: once and for all where the mint only has a  *)
(* state, else in parts (external).                                        *)
PayQuote(n) ==
    /\ Begin
    /\ quote.paid + n <= MaxPaid
    /\ quote.view = "legacy" => quote.paid = 0
    /\ quote' = [quote EXCEPT !.paid = @ + n]
    /\ UNCHANGED <<known, counters, storeVars, job, token, spent, paid, forfeit, history>>

(* The quote as the mint shows it: with the accounting pair, with the state*)
(* of older mints, or with both, the state left at PAID.                   *)
QuoteJson ==
    LET pair == quote.view \in {"pair", "both"}
        old  == quote.view \in {"legacy", "both"}
    IN Json!Written(
        [quote |-> "q", request |-> "r", unit |-> "sat",
         amount_paid   |-> IF pair THEN quote.paid ELSE None,
         amount_issued |-> IF pair THEN quote.issued ELSE None,
         amount        |-> IF old THEN quote.paid ELSE None,
         state |-> IF ~old THEN None
                   ELSE IF quote.paid = 0 THEN "UNPAID"
                   ELSE IF quote.issued = 0 \/ pair THEN "PAID" ELSE "ISSUED"])

(* claim: check the quote, ask for what it says is due.                    *)
Claim ==
    LET due  == Json!Mintable(Json!MintQuoteFrom(QuoteJson))
        ks   == ActiveForMint(Ensured("sat"), "sat")
        made == Generate(SplitAmount(due), ks.id)
    IN /\ Begin
       /\ due > 0 /\ ks # None
       /\ known' = Ensured("sat")
       /\ IF made = None THEN GiveUp /\ UNCHANGED counters
          ELSE Post("mint", "sat", <<>>, made, ks, quote.paid - quote.issued)

-----------------------------------------------------------------------------
(* The mint answers, or refuses what does not add up (external).           *)

Answered(answer, worth, how) ==
    [at |-> "answered", op |-> job.op, unit |-> job.unit, inputs |-> job.inputs,
     made |-> job.made, keyset |-> job.keyset, answer |-> answer,
     worth |-> worth, how |-> how]

(* There is something to damage.                                           *)
CanDamage(how, sigs) ==
    how = "none" \/ Len(sigs) > (IF how = "reversed" THEN 1 ELSE 0)

Taken(inputs) == spent' = spent \cup {p.secret : p \in Range(inputs)}

Keeps(amount) == paid' = [paid EXCEPT ![job.unit] = @ + amount]

AnswerSwap(how) ==
    LET outputs == job.made.outputs
        sigs    == Signed(outputs)
    IN /\ At("posted") /\ job.op = "swap"
       /\ TakesSwap(job.inputs, outputs)
       /\ CanDamage(how, sigs)
       /\ job' = Answered([signatures |-> Damaged(how, sigs, outputs)], SumOut(outputs), how)
       /\ Taken(job.inputs)
       /\ Keeps(MintFee(job.inputs))
       /\ lost' = lost \cup {p \in Range(token.coins) :
                                p.secret \notin {q.secret : q \in Range(job.inputs)}}
       /\ token' = None
       /\ UNCHANGED <<known, counters, storeVars, quote, forfeit, copied>>

TakesMint(outputs) == Offers(outputs) /\ SumOut(outputs) <= quote.paid - quote.issued

AnswerMint(how) ==
    LET outputs == job.made.outputs
        sigs    == Signed(outputs)
    IN /\ At("posted") /\ job.op = "mint"
       /\ TakesMint(outputs)
       /\ CanDamage(how, sigs)
       /\ job' = Answered([signatures |-> Damaged(how, sigs, outputs)], SumOut(outputs), how)
       /\ quote' = [quote EXCEPT !.issued = @ + SumOut(outputs)]
       /\ UNCHANGED <<known, counters, storeVars, token, spent, paid, forfeit, history>>

(* The change as the mint signs it: what fits on the blank outputs, and    *)
(* only as many of them as it needs.                                       *)
ChangeSigned(amount, blanks) ==
    LET parts == SplitAmount(amount)
        n     == Min({Len(parts), Len(blanks)})
    IN [i \in 1..n |-> Signature(blanks[i], parts[i], parts[i])]

(* What the melt's quote asks for.                                         *)
Quoted == job.due - MintFee(job.inputs)

TakesMelt(inputs, blanks) == Spendable(inputs) /\ Offers(blanks)

(* A melt that is paid keeps the fee, the amount and what the payment cost;*)
(* of one that is still pending the mint says nothing yet, and keeps all.  *)
AnswerMelt(cost, how) ==
    LET ins    == job.inputs
        keep   == job.due - cost
        change == SumOf(ins) - keep
        sigs   == ChangeSigned(change, job.made.outputs)
        body   == [quote |-> "q", state |-> "PAID", amount |-> Quoted, change |->
                       IF sigs = <<>> THEN None ELSE Damaged(how, sigs, job.made.outputs)]
    IN /\ At("posted") /\ job.op = "melt"
       /\ TakesMelt(ins, job.made.outputs)
       /\ CanDamage(how, sigs)
       /\ job' = Answered(Json!Written(body), change, how)
       /\ Taken(ins)
       /\ Keeps(keep)
       /\ UNCHANGED <<known, counters, storeVars, token, quote, forfeit, history>>

AnswerPending ==
    LET ins == job.inputs
    IN /\ At("posted") /\ job.op = "melt"
       /\ TakesMelt(ins, job.made.outputs)
       /\ job' = Answered([quote |-> "q", state |-> "PENDING", amount |-> Quoted], 0, "none")
       /\ Taken(ins)
       /\ Keeps(SumOf(ins))
       /\ UNCHANGED <<known, counters, storeVars, token, quote, forfeit, history>>

RefuseRequest ==
    /\ At("posted")
    /\ CASE job.op = "swap" -> ~TakesSwap(job.inputs, job.made.outputs)
         [] job.op = "mint" -> ~TakesMint(job.made.outputs)
         [] job.op = "melt" -> ~TakesMelt(job.inputs, job.made.outputs)
    /\ GiveUp /\ UNCHANGED <<known, counters>>

-----------------------------------------------------------------------------
(* The end of a flow: unblind, adopt, save.                                *)

(* What a damaged answer lost is the mint's doing.                         *)
Forfeits(fresh) ==
    forfeit' = IF job.how = "none" THEN forfeit
               ELSE [forfeit EXCEPT ![job.unit] = @ + job.worth - SumOf(fresh)]

Adopt ==
    LET sigs  == Json!SignaturesFrom(job.answer)
        fresh == IF sigs = None THEN None
                 ELSE Sigs!UnblindSignatures(sigs, job.made, job.keyset)
    IN /\ At("answered") /\ job.op \in {"swap", "mint"}
       /\ job' = None
       /\ IF fresh = None
          THEN Forfeits(<<>>) /\ UNCHANGED <<proofs, flash, saved>>
          ELSE Forfeits(fresh) /\ proofs' = proofs \o fresh /\ SaveProofs(proofs')
       /\ UNCHANGED <<known, counters, stale, token, quote, spent, paid, history>>

(* unblind_melt_change: the change proofs; none when they cannot be        *)
(* unblinded.                                                              *)
ChangeProofs(resp, made, ks) ==
    LET n     == Len(resp.change)
        fresh == Sigs!UnblindSignatures(resp.change, Sigs!Truncated(made, n), ks)
    IN IF resp.change = None \/ made.outputs = <<>> THEN <<>>
       ELSE IF n = 0 \/ fresh = None THEN <<>> ELSE fresh

AdoptChange ==
    LET fresh == ChangeProofs(Json!MeltQuoteFrom(job.answer), job.made, job.keyset)
    IN /\ At("answered") /\ job.op = "melt"
       /\ job' = None
       /\ Forfeits(fresh)
       /\ proofs' = Leftover(job.inputs, job.unit) \o fresh
       /\ SaveProofs(proofs')
       /\ UNCHANGED <<known, counters, stale, token, quote, spent, paid, history>>

-----------------------------------------------------------------------------
(* An NFC session shows a request, first thing; a payer reads it.          *)
Ask(r) ==
    /\ job = None /\ ops = 0 /\ ops' = 1
    /\ creq' = [shown |-> r, read |-> Request!DecodeRequest(Request!EncodeRequest(r))]
    /\ UNCHANGED <<known, counters, storeVars, job, token, mintVars, history>>

(* The device restarts and loads what it saved.                            *)
Reboot ==
    /\ Begin
    /\ proofs' = Loaded(flash)
    /\ stale' = (stale \/ ~saved)
    /\ saved' = TRUE
    /\ UNCHANGED <<known, counters, flash, job, token, mintVars, history>>

-----------------------------------------------------------------------------
Init ==
    \E start \in Starts :
        /\ known = start.known
        /\ proofs = start.own
        /\ counters = [id \in Range(IdOrder) |-> 0]
        /\ flash = IF start.json
                   THEN [form |-> "json",
                         data |-> [i \in DOMAIN start.own |-> Json!ProofJson(start.own[i])]]
                   ELSE [form |-> "blob", data |-> Blob!ToBlob(start.own)]
        /\ saved = TRUE /\ stale = FALSE
        /\ job = None
        /\ token = IF start.foreign = None THEN None
                   ELSE [doc |-> DocOf(start.foreign, start.form), whole |-> start.foreign,
                         coins |-> start.foreign.proofs]
        /\ creq = None
        /\ quote = [paid |-> 0, issued |-> 0, view |-> start.view]
        /\ spent = {} /\ lost = {} /\ copied = {}
        /\ paid = [u \in Units |-> 0] /\ forfeit = [u \in Units |-> 0]
        /\ ops = 0

Next ==
    \/ \E u \in Units : Stickup(u)
    \/ \E form \in Forms : Forward(form)
    \/ Cut
    \/ Receive
    \/ NothingInIt
    \/ \E reachable \in BOOLEAN : Normalize(reachable)
    \/ PostSwap
    \/ \E u \in Units, terms \in MeltTerms : SelectForMelt(u, terms)
    \/ NotCovered
    \/ PostMelt
    \/ \E n \in 1..MaxPaid : PayQuote(n)
    \/ Claim
    \/ \E how \in Damages : AnswerSwap(how) \/ AnswerMint(how)
    \/ \E refund \in Refunds, how \in Damages : AnswerMelt(refund, how)
    \/ AnswerPending
    \/ RefuseRequest
    \/ Adopt
    \/ AdoptChange
    \/ \E r \in Requests : Ask(r)
    \/ Reboot

Spec == Init /\ [][Next]_vars

-----------------------------------------------------------------------------
(* Properties                                                              *)

(* The shape of the state: the wallet lists each keyset once and as the    *)
(* mint has it, but for whether it is active; its proofs are of listed     *)
(* keysets.                                                                *)
TypeOK ==
    /\ AreTheMints(known)
    /\ OfKnown(known, proofs) /\ \A p \in Range(proofs) : p.amount \in Nat \ {0}
    /\ counters \in [Range(IdOrder) -> Nat]
    /\ saved \in BOOLEAN /\ stale \in BOOLEAN
    /\ job # None => job.at \in {"decoded", "named", "selected", "posted", "answered"}
    /\ \A u \in Units : paid[u] \in Nat /\ forfeit[u] \in Nat
    /\ quote.issued <= quote.paid
    /\ ops \in 0..MaxOps

(* A wallet that begins with proofs of the mint's, which nobody else has a *)
(* copy of, only ever holds money: signed by the mint's key for its keyset *)
(* and amount, no two alike, with a DLEQ that another wallet will accept,  *)
(* and not spent, except while the wallet waits for the answer to its      *)
(* melt, was loaded from an older save, or kept proofs that had left as a  *)
(* token ("WARNING: token above is a duplicate").  Whatever the mint       *)
(* answers (signatures out of order, made with another key, incomplete),   *)
(* what does not unblind to that is not adopted.                           *)
ProofsGenuine ==
    /\ \A p \in Range(proofs) :
        /\ Genuine(p)
        /\ p.secret \notin spent \/ stale \/ job # None \/ p.secret \in copied
        /\ p.dleq # None =>
               Sigs!VerifyUnblinded(KeyFor(p.id, p.amount), p.C, p.secret,
                                    p.dleq.e, p.dleq.s, p.dleq.r)
    /\ Cardinality({p.secret : p \in Range(proofs)}) = Len(proofs)

(* Money is neither made nor lost: in each unit, the unspent proofs in the *)
(* wallet, in the token in hand and cut off redeemed tokens, what a mint's *)
(* answer on its way is worth, and what the mint kept, paid out or signed  *)
(* in answers it damaged, change only by what the mint issues on a quote.  *)
(* (Not across a restart from an older save.)                              *)
Holdings == Range(proofs) \cup lost \cup
            (IF token = None THEN {} ELSE Range(token.coins))

InFlight(unit) ==
    IF job = None THEN 0
    ELSE IF job.at = "answered" /\ job.unit = unit THEN job.worth ELSE 0

ValueOf(unit) ==
    LET live == {p \in Holdings : p.secret \notin spent /\ UnitOf(Keysets, p) = unit}
        coins == {<<p.secret, p.amount>> : p \in live}
    IN FoldSet(LAMBDA c, sum : sum + c[2], 0, coins)
       + InFlight(unit) + paid[unit] + forfeit[unit]

Balanced ==
    [][stale' \/ \A u \in Units :
          ValueOf(u)' - ValueOf(u) =
              IF u = "sat" THEN quote'.issued - quote.issued ELSE 0]_vars

(* What is posted adds up by the mint's rules: a swap's outputs with the   *)
(* mint's fee are its inputs, a mint's outputs are what the quote still    *)
(* has, a melt's inputs cover amount, reserve and the mint's fee.  A swap  *)
(* of no more than its fee is left out: the code does not test for it, and *)
(* the mint refuses it.  So are sums beyond the code's 32-bit amounts.     *)
PostsAddUp ==
    Stage("posted") =>
        IF job.op = "melt" THEN SumOf(job.inputs) >= job.due
        ELSE job.due \in 1..Codec!MaxInt32 => SumOut(job.made.outputs) = job.due

(* A token reads back whole in either form, but for one with an amount     *)
(* beyond what the code reads: the V3 form of that is refused, the V4 form *)
(* is refused or is its first proofs, as is a V4 token cut anywhere.       *)
TokensReadBack ==
    Stage("decoded") =>
        IF token.doc.form = "v3"
        THEN job.read = IF Codec!Readable(token.whole)
                        THEN [token.whole EXCEPT !.unit = IF @ = "" THEN "sat" ELSE @]
                        ELSE None
        ELSE /\ Codec!IsFirstProofs(job.read, token.whole)
             /\ Fresh /\ Codec!Readable(token.whole) =>
                    job.read = Codec!Sorted(token.whole)

(* Flash holds the wallet's proofs whenever the last save succeeded, and a *)
(* save only fails over an id that is no hex string.                       *)
FlashReadsBack ==
    /\ saved => Loaded(flash) = proofs
    /\ ~saved => \E p \in Range(proofs) : p.id \in NotHex

(* A selection covers its need and its fee, with none to spare, and is     *)
(* given up only when nothing covers them.                                 *)
SelectionsRight ==
    Stage("selected") =>
        SelectionRight(known, proofs, job.terms.amount + job.terms.reserve,
                       job.unit, job.chosen)

(* A payer reads the request the device shows.                             *)
RequestsReadBack == creq # None => Request!ReadsAs(creq.read, creq.shown)
=============================================================================
