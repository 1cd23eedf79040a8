------------------------------ MODULE PurseInv ------------------------------
(***************************************************************************)
(* The inductive invariant of Purse: what the wallet, its flash, the mint, *)
(* the token in hand and the flow in progress have between any two steps,  *)
(* on which the properties of Purse rest.  TLC checks it on the small      *)
(* mint, PurseProofs proves it for every one.                              *)
(***************************************************************************)
EXTENDS Purse

(* A list of anything. *)
IsList(s) == Len(s) \in Nat /\ s = [i \in 1 .. Len(s) |-> s[i]]

(* A list of things with an id and a whole amount.                         *)
HasPrice(p) == "id" \in DOMAIN p /\ "amount" \in DOMAIN p /\ p.amount \in Int

(* A list of proofs that each have a price.                                *)
Priced(ps) == IsList(ps) /\ \A i \in 1 .. Len(ps) : HasPrice(ps[i])

(* Outputs for one keyset.                                                 *)
Outputs(id) == [amount : Nat, B_ : Int, id : {id}]

(* Blinded outputs of one keyset, each with its secret and factor. *)
IsMade(made, id) ==
    /\ made.outputs \in Seq(Outputs(id))
    /\ made.secrets \in Seq(Int) /\ Len(made.secrets) = Len(made.outputs)
    /\ made.factors \in Seq(Int) /\ Len(made.factors) = Len(made.outputs)

(* A signature on an amount the keyset has a key for is made of numbers. *)
SigWell(g, k) ==
    g.amount \in DOMAIN k.keys =>
        /\ g.C_ \in Int
        /\ g.dleq # None => g.dleq.e \in Int /\ g.dleq.s \in Int

(* The wallet knows the keysets of its proofs, which are the mint's.       *)
WalletWell ==
    /\ AreTheMints(known)
    /\ proofs \in Seq(Proof) /\ OfKnown(known, proofs)
    /\ counters \in [Ids -> Nat]

(* So it does those of the proofs in flash, which are the wallet's own     *)
(* unless the last save failed.                                            *)
FlashWell ==
    /\ Loaded(flash) \in Seq(Proof) /\ OfKnown(known, Loaded(flash))
    /\ saved \in BOOLEAN /\ stale \in BOOLEAN
    /\ FlashReadsBack

(* The mint has issued no more than it was paid.                           *)
MintWell ==
    /\ quote = [paid |-> quote.paid, issued |-> quote.issued, view |-> quote.view]
    /\ quote.paid \in Nat /\ quote.issued \in Nat /\ quote.issued <= quote.paid
    /\ quote.view \in {"pair", "legacy", "both"}
    /\ paid \in [Units -> Nat] /\ forfeit \in [Units -> Nat]
    /\ ops \in 0 .. MaxOps

(* The items s are the start of the list x.                                *)
IsStart(s, x) == \E n \in 0 .. Len(x) : s = SubSeq(x, 1, n)

(* The token in hand is in the V3 form, or the start of one in the V4 form. *)
TokenWell ==
    token # None =>
        /\ token = [doc |-> token.doc, whole |-> token.whole, coins |-> token.coins]
        /\ IsToken(token.whole)
        /\ \/ token.doc = DocOf(token.whole, "v3")
           \/ /\ token.doc = [form |-> "v4", items |-> token.doc.items]
              /\ IsStart(token.doc.items, Codec!EncodeToken(token.whole))
              /\ \A p \in Range(token.whole.proofs) : p.id \notin NotHex

(* What is selected, and can be paid from.                                 *)
SelectedWell ==
    /\ job.terms \in MeltTerms
    /\ SelectionsRight
    /\ job.chosen = None \/ (job.chosen \in Seq(Proof) /\ OfKnown(known, job.chosen))
    /\ ActiveForMint(known, job.unit) # None

(* A request: its inputs are of keysets the wallet knows, its outputs of   *)
(* one of them.                                                            *)
RequestWell ==
    /\ job.op \in {"swap", "mint", "melt"}
    /\ Priced(job.inputs) /\ OfKnown(known, job.inputs)
    /\ job.keyset \in Range(known) /\ IsMade(job.made, job.keyset.id)

(* What is posted is a request that adds up.                               *)
PostedWell ==
    /\ RequestWell
    /\ PostsAddUp
    /\ job.op = "melt" =>
           \E terms \in MeltTerms :
               job.due = terms.amount + terms.reserve + MintFee(job.inputs)

(* An answer: its signatures can be read, and are worth no more than they  *)
(* were meant to be.                                                       *)
AnswerSigs ==
    IF job.op = "melt" THEN Json!MeltQuoteFrom(job.answer).change
    ELSE Json!SignaturesFrom(job.answer)

(* Signatures that can be read, by keys of k, of amounts up to worth.        *)
SigsOf(sigs, k, worth) ==
    sigs # None => /\ IsList(sigs)
                   /\ \A i \in 1 .. Len(sigs) : /\ sigs[i].amount \in Nat
                                                /\ SigWell(sigs[i], k)
                   /\ SumOf(sigs) <= worth

(* What a flow has when the answer is there.                               *)
AnsweredWell ==
    /\ RequestWell
    /\ job.worth \in Nat
    /\ SigsOf(AnswerSigs, job.keyset, job.worth)

(* A flow has, at each of its stages, what that stage's step needs.        *)
JobWell ==
    job # None =>
        /\ job.at \in {"decoded", "named", "selected", "posted", "answered"}
        /\ job.at = "decoded" => /\ Priced(Offered)
                                 /\ token # None /\ TokensReadBack
        /\ job.at = "named"   => Priced(job.inputs) /\ OfKnown(known, job.inputs)
        /\ job.at = "selected" => SelectedWell
        /\ job.at = "posted"   => PostedWell
        /\ job.at = "answered" => AnsweredWell

(* The inductive invariant.                                                *)
Inv == WalletWell /\ FlashWell /\ MintWell /\ TokenWell /\ JobWell
=============================================================================
