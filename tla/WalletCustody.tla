---------------------------- MODULE WalletCustody ----------------------------
(***************************************************************************)
(* One wallet slot against its mint: the proofs in RAM and in flash, the   *)
(* derivation counter, the flows that move proofs (receive, mint, melt,    *)
(* stickup), the HTTP exchange they make, and power loss at any moment.    *)
(* The store mutex serialises the flows, so at most one is open.           *)
(*                                                                         *)
(* A proof is its secret: the keyset and derivation index for one of ours, *)
(* a numbered proof of somebody else otherwise.  Amounts are left out; how *)
(* many outputs a request carries, and which proofs greedy selection takes,*)
(* are arbitrary.                                                          *)
(***************************************************************************)
EXTENDS Integers, FiniteSets

CONSTANTS
    Keysets,     \* the keysets of the mint: one active keyset per unit
    MaxIndex,    \* bound on the derivation index (uint32_t in the code)
    Foreign,     \* bound: proofs per keyset that others hold at the start
    Quotes,      \* paid mint quotes
    NoQuote,
    MaxOutputs,  \* bound: outputs one request carries
    MaxWire,     \* bound: request bodies the network holds at once
    BlobMax,     \* how many proofs fit the 32 KiB blob
    Seeded,      \* a NUT-13 seed is configured
    NvsFaults    \* the flash operations that may fail

FaultKinds ==
    {"proofs_write", "proofs_read", "keyset_read", "counter_write", "counter_read"}

ASSUME CustodyAssumption ==
    /\ MaxIndex \in Nat
    /\ Foreign \in Nat
    /\ MaxOutputs \in Nat
    /\ MaxWire \in Nat
    /\ BlobMax \in Nat
    /\ Seeded \in BOOLEAN
    /\ NvsFaults \subseteq FaultKinds
    /\ NoQuote \notin Quotes

VARIABLES
    ram,         \* proofs_
    degraded,    \* degraded_
    known,       \* the keysets in keysets_
    flow,        \* the flow that holds the store mutex
    nvsProofs,   \* the proofs_<slot> blob
    hasBlob,     \* whether that key exists
    nvsCounter,  \* the c_<keyset> keys
    drawn,       \* random secrets drawn so far (a wallet without a seed)
    wire,        \* POST bodies the network still holds
    coin,        \* the mint's view of every secret
    claimed,     \* mint quotes already issued
    payments,    \* melts whose payment is in flight
    exported     \* proofs printed as a token by stickup

ramVars == <<ram, degraded, known, flow>>
nvsVars == <<nvsProofs, hasBlob, nvsCounter>>
mintVars == <<coin, claimed, payments>>
vars == <<ramVars, nvsVars, drawn, wire, mintVars, exported>>

-------------------------------------------------------------------------------
(* Secrets, requests and flows *)

Secrets ==
    [own: {TRUE}, ks: Keysets, n: 0 .. (MaxIndex - 1)]
        \cup [own: {FALSE}, ks: Keysets, n: 0 .. (Foreign - 1)]

Own == {s \in Secrets : s.own}

\* The secrets derived for n outputs from index `base` on.
Outputs(k, base, n) ==
    {s \in Own : s.ks = k /\ base <= s.n /\ s.n < base + n}

CoinStates == {"none", "live", "pending", "returned", "spent"}

Requests ==
    {req \in [op: {"receive", "mint", "melt"}, quote: Quotes \cup {NoQuote},
              inputs: SUBSET Secrets, outs: SUBSET Own] :
        req.op = "mint" => req.quote \in Quotes}

\* What stickup works on between printing the token and removing the proofs.
Drains ==
    [op: {"stickup"}, quote: {NoQuote}, inputs: SUBSET Own, outs: {{}}]

NoRequest == [op |-> "none", quote |-> NoQuote, inputs |-> {}, outs |-> {}]

Replies == {"none", "signed", "paid", "pending", "unpaid", "error"}

Flows ==
    [req: Requests \cup Drains \cup {NoRequest}, tries: {0, 1},
     reply: Replies, sigs: SUBSET Own]

\* The body leaves for the mint.
Send(req) ==
    /\ wire' = wire \cup {req}
    /\ Cardinality(wire') <= MaxWire

Opened(req) == [req |-> req, tries |-> 0, reply |-> "none", sigs |-> {}]

Idle == Opened(NoRequest)

\* A flow is blocked in mint_post until it has an answer it can use.
Posting == flow.req.op \in {"receive", "mint", "melt"}

Spendable == {s \in Secrets : coin[s] \in {"live", "returned"}}

\* Tokens that can reach this wallet: other people's, and its own printed ones.
Circulating(k) == {s \in Secrets : s.ks = k /\ (~s.own \/ s \in exported)}

\* Coins after the mint retires the set `gone` and signs the set `fresh`.
Moved(gone, to, fresh) ==
    [s \in Secrets |-> IF s \in gone THEN to ELSE IF s \in fresh THEN "live" ELSE coin[s]]

-------------------------------------------------------------------------------
(* Flash *)

\* save_proofs refuses a degraded wallet and an oversize blob; flash may fail.
SaveResults(proofs) ==
    IF degraded \/ Cardinality(proofs) > BlobMax THEN {FALSE}
    ELSE IF "proofs_write" \in NvsFaults THEN BOOLEAN ELSE {TRUE}

SaveProofs(proofs, ok) ==
    /\ nvsProofs' = IF ok THEN proofs ELSE nvsProofs
    /\ hasBlob' = (hasBlob \/ ok)

\* load_proofs: no blob is an empty wallet; a blob may be unreadable, too big
\* for the heap, or malformed.
LoadResults ==
    IF hasBlob /\ "proofs_read" \in NvsFaults THEN BOOLEAN ELSE {TRUE}

\* load_counter answers 0 when the namespace cannot be opened.
LoadedCounters(k) ==
    {nvsCounter[k]} \cup IF "counter_read" \in NvsFaults THEN {0} ELSE {}

\* The indexes generate_outputs may start from.
FirstIndexes(k) == IF Seeded THEN LoadedCounters(k) ELSE {drawn[k]}

\* Mutant: one index too few is reserved.
ReserveOneLess(k, next) ==
    /\ nvsCounter' = [nvsCounter EXCEPT ![k] = next - 1]
    /\ UNCHANGED drawn

\* generate_outputs stores the next index before the request leaves; the
\* result of save_counter is not looked at.
AdvanceCounter(k, next) ==
    IF Seeded
    THEN /\ \/ nvsCounter' = [nvsCounter EXCEPT ![k] = next]
            \/ "counter_write" \in NvsFaults /\ UNCHANGED nvsCounter
         /\ UNCHANGED drawn
    ELSE drawn' = [drawn EXCEPT ![k] = next] /\ UNCHANGED nvsCounter

-------------------------------------------------------------------------------
(* Opening a flow *)

\* Derive n outputs, persist the counter, put the request on the wire.
Post(op, quote, k, inputs, n) ==
    /\ flow = Idle
    /\ \E base \in FirstIndexes(k) :
        LET req == [op |-> op, quote |-> quote,
                    inputs |-> inputs, outs |-> Outputs(k, base, n)]
        IN  /\ base + n <= MaxIndex
            /\ IF n = 0 THEN UNCHANGED <<nvsCounter, drawn>>
                        ELSE AdvanceCounter(k, base + n)
            /\ flow' = Opened(req)
            /\ Send(req)
    /\ UNCHANGED <<ram, degraded, nvsProofs, hasBlob, mintVars, exported>>

\* receive: refuse when degraded, refresh the keysets once if the token's is
\* unknown, swap everything.
Receive(k, inputs, n) ==
    /\ ~degraded
    /\ inputs # {}
    /\ inputs \subseteq Circulating(k)
    /\ known' = IF k \in known THEN known ELSE Keysets
    /\ Post("receive", NoQuote, k, inputs, n)

\* mint_tokens, reached from `claim` once the quote is paid and not issued.
MintTokens(k, q, n) ==
    /\ k \in known
    /\ q \notin claimed
    /\ Post("mint", q, k, {}, n)
    /\ UNCHANGED known

\* melt_tokens: select among the unit's proofs, add blank outputs for change.
MeltTokens(k, inputs, n) ==
    /\ k \in known
    /\ inputs # {}
    /\ inputs \subseteq {s \in ram : s.ks = k}
    /\ Post("melt", NoQuote, k, inputs, n)
    /\ UNCHANGED known

\* stickup prints the token of one unit first ...
Stickup(k) ==
    LET drained == {s \in ram : s.ks = k}
    IN  /\ flow = Idle
        /\ k \in known
        /\ drained # {}
        /\ exported' = exported \cup drained
        /\ flow' = Opened([op |-> "stickup", quote |-> NoQuote,
                           inputs |-> drained, outs |-> {}])
        /\ UNCHANGED <<ram, degraded, known, nvsVars, drawn, wire, mintVars>>

\* Mutant: RAM is not restored when the save fails.
RemoveWithoutRestore ==
    /\ flow.req.op = "stickup"
    /\ LET kept == ram \ flow.req.inputs
       IN  /\ ram' = kept
           /\ \E ok \in SaveResults(kept) : SaveProofs(kept, ok)
    /\ flow' = Idle
    /\ UNCHANGED <<degraded, known, nvsCounter, drawn, wire, mintVars, exported>>

\* ... and removes its proofs after; a failed save puts them back in RAM.
RemoveProofs ==
    /\ flow.req.op = "stickup"
    /\ LET kept == ram \ flow.req.inputs
       IN  \E ok \in SaveResults(kept) :
            /\ ram' = IF ok THEN kept ELSE ram
            /\ SaveProofs(kept, ok)
    /\ flow' = Idle
    /\ UNCHANGED <<degraded, known, nvsCounter, drawn, wire, mintVars, exported>>

\* load_keysets merges whatever the mint advertises and never drops one.
LoadKeysets ==
    /\ flow = Idle
    /\ known' = Keysets
    /\ UNCHANGED <<ram, degraded, flow, nvsVars, drawn, wire, mintVars, exported>>

-------------------------------------------------------------------------------
(* The mint and the network (outside src/) *)

\* An answer reaches the wallet only while it waits for that request.
Answer(req, reply, sigs) ==
    flow' = IF flow.req = req /\ flow.reply = "none"
            THEN [flow EXCEPT !.reply = reply, !.sigs = sigs]
            ELSE flow

Handle(req) ==
    /\ req \in wire
    /\ wire' = wire \ {req}
    /\ UNCHANGED <<ram, degraded, known, nvsVars, drawn, exported>>

Signable(req) ==
    /\ req.inputs \subseteq Spendable
    /\ \A s \in req.outs : coin[s] = "none"

\* Blank outputs are signed in order, as many as the change needs.
Prefixes(outs) ==
    {sigs \in SUBSET outs : \A a \in sigs, b \in outs : b.n < a.n => b \in sigs}

MintSwaps(req) ==
    /\ Handle(req)
    /\ req.op = "receive"
    /\ Signable(req)
    /\ coin' = Moved(req.inputs, "spent", req.outs)
    /\ Answer(req, "signed", req.outs)
    /\ UNCHANGED <<claimed, payments>>

MintIssues(req) ==
    /\ Handle(req)
    /\ req.op = "mint"
    /\ req.quote \notin claimed
    /\ Signable(req)
    /\ coin' = Moved({}, "spent", req.outs)
    /\ claimed' = claimed \cup {req.quote}
    /\ Answer(req, "signed", req.outs)
    /\ UNCHANGED payments

MintPays(req) ==
    /\ Handle(req)
    /\ req.op = "melt"
    /\ Signable(req)
    /\ \E change \in Prefixes(req.outs) :
        /\ coin' = Moved(req.inputs, "spent", change)
        /\ Answer(req, "paid", change)
    /\ UNCHANGED <<claimed, payments>>

MintDefers(req) ==
    /\ Handle(req)
    /\ req.op = "melt"
    /\ Signable(req)
    /\ coin' = Moved(req.inputs, "pending", {})
    /\ payments' = payments \cup {req}
    /\ Answer(req, "pending", {})
    /\ UNCHANGED claimed

\* A payment that fails at once, or any other rejection, changes nothing.
MintRefuses(req) ==
    /\ Handle(req)
    /\ \/ req.op = "melt" /\ Answer(req, "unpaid", {})
       \/ Answer(req, "error", {})
    /\ UNCHANGED mintVars

\* A deferred payment settles, or fails and the mint gives the proofs back.
PaymentEnds(req) ==
    /\ req \in payments
    /\ payments' = payments \ {req}
    /\ \/ \E change \in Prefixes({s \in req.outs : coin[s] = "none"}) :
            coin' = Moved(req.inputs, "spent", change)
       \/ coin' = Moved(req.inputs, "returned", {})
    /\ UNCHANGED <<ramVars, nvsVars, drawn, wire, claimed, exported>>

\* Somebody else swaps a token that circulates.
OthersSpend(k) ==
    /\ \E s \in Circulating(k) \cap Spendable :
        coin' = Moved({s}, "spent", {})
    /\ UNCHANGED <<ramVars, nvsVars, drawn, wire, claimed, payments, exported>>

-------------------------------------------------------------------------------
(* Closing a flow *)

\* Mutant: attempts are not counted.
RetryForever ==
    /\ Posting
    /\ flow' = Opened(flow.req)
    /\ Send(flow.req)
    /\ UNCHANGED <<ram, degraded, known, nvsVars, drawn, mintVars, exported>>

\* A transport error on the first attempt sends the same body again.
Retry ==
    /\ Posting
    /\ flow.tries = 0
    /\ flow' = [Opened(flow.req) EXCEPT !.tries = 1]
    /\ Send(flow.req)
    /\ UNCHANGED <<ram, degraded, known, nvsVars, drawn, mintVars, exported>>

\* Mutant: a failed flow hands its derivation indexes back.
GiveUpAndRewind ==
    /\ Posting
    /\ flow.tries = 1 \/ flow.reply # "none"
    /\ flow' = Idle
    /\ nvsCounter' = [k \in Keysets |->
            nvsCounter[k] - Cardinality({s \in flow.req.outs : s.ks = k})]
    /\ UNCHANGED <<ram, degraded, known, nvsProofs, hasBlob, drawn, wire, mintVars,
                   exported>>

\* The second transport error, an error answer, or an answer that does not
\* parse or unblind: the flow returns false and RAM keeps what it had.
GiveUp ==
    /\ Posting
    /\ flow.tries = 1 \/ flow.reply # "none"
    /\ flow' = Idle
    /\ UNCHANGED <<ram, degraded, known, nvsVars, drawn, wire, mintVars, exported>>

\* Mutant: the token's own proofs are adopted, not the ones swapped for them.
AdoptInputs ==
    /\ flow.reply = "signed"
    /\ ram' = ram \cup flow.req.inputs
    /\ SaveProofs(ram', TRUE)
    /\ flow' = Idle
    /\ UNCHANGED <<degraded, known, nvsCounter, drawn, wire, mintVars, exported>>

\* receive and mint_tokens adopt the unblinded proofs, then save; the result
\* of the save is not looked at.
Adopt ==
    /\ flow.reply = "signed"
    /\ LET held == ram \cup flow.sigs
       IN  \E ok \in SaveResults(held) :
            /\ ram' = held
            /\ SaveProofs(held, ok)
    /\ flow' = Idle
    /\ UNCHANGED <<degraded, known, nvsCounter, drawn, wire, mintVars, exported>>

\* Mutant: only the candidates of the melted unit are kept.
LeftoverOfUnit(inputs) ==
    {s \in ram \ inputs : \A i \in inputs : i.ks = s.ks}

\* melt_tokens keeps every proof that was not selected, other units included.
Leftover(inputs) == ram \ inputs

\* On PAID and on PENDING alike the inputs go; change that does not unblind is
\* forfeited.
FinishMelt ==
    /\ flow.reply \in {"paid", "pending"}
    /\ \E got \in {flow.sigs, {}} :
        LET held == Leftover(flow.req.inputs) \cup got
        IN  \E ok \in SaveResults(held) :
            /\ ram' = held
            /\ SaveProofs(held, ok)
    /\ flow' = Idle
    /\ UNCHANGED <<degraded, known, nvsCounter, drawn, wire, mintVars, exported>>

\* Power loss and boot: RAM is gone, load_from_nvs rebuilds it.
Reboot ==
    /\ \E loaded \in LoadResults :
        /\ ram' = IF loaded THEN nvsProofs ELSE {}
        /\ degraded' = ~loaded
    /\ known' \in IF "keyset_read" \in NvsFaults THEN SUBSET known ELSE {known}
    /\ flow' = Idle
    /\ UNCHANGED <<nvsVars, drawn, wire, mintVars, exported>>

-------------------------------------------------------------------------------

Init ==
    /\ ram = {}
    /\ degraded = FALSE
    /\ known = {}
    /\ flow = Idle
    /\ nvsProofs = {}
    /\ hasBlob = FALSE
    /\ nvsCounter = [k \in Keysets |-> 0]
    /\ drawn = [k \in Keysets |-> 0]
    /\ wire = {}
    /\ coin = [s \in Secrets |-> IF s.own THEN "none" ELSE "live"]
    /\ claimed = {}
    /\ payments = {}
    /\ exported = {}

Open ==
    \E k \in Keysets, n \in 0 .. MaxOutputs :
        \/ \E inputs \in SUBSET Circulating(k) : n > 0 /\ Receive(k, inputs, n)
        \/ \E q \in Quotes : n > 0 /\ MintTokens(k, q, n)
        \/ \E inputs \in SUBSET ram : MeltTokens(k, inputs, n)

MintStep ==
    \/ \E req \in wire :
        MintSwaps(req) \/ MintIssues(req) \/ MintPays(req) \/ MintDefers(req)
            \/ MintRefuses(req)
    \/ \E req \in payments : PaymentEnds(req)

\* The steps the task inside a flow takes by itself.
Progress == Retry \/ GiveUp \/ Adopt \/ FinishMelt \/ RemoveProofs

Next ==
    \/ Open
    \/ \E k \in Keysets : Stickup(k) \/ OthersSpend(k)
    \/ LoadKeysets
    \/ MintStep
    \/ Progress
    \/ Reboot

Spec == Init /\ [][Next]_vars

\* A flow runs in a task that is always scheduled, and every HTTP attempt ends
\* by its own timeout.
FairSpec == Spec /\ WF_vars(Progress)

-------------------------------------------------------------------------------
(* Properties *)

TypeOK ==
    /\ ram \subseteq Own
    /\ degraded \in BOOLEAN
    /\ known \subseteq Keysets
    /\ flow \in Flows
    /\ nvsProofs \subseteq Own
    /\ hasBlob \in BOOLEAN
    /\ nvsCounter \in [Keysets -> 0 .. MaxIndex]
    /\ drawn \in [Keysets -> 0 .. MaxIndex]
    /\ wire \subseteq Requests
    /\ coin \in [Secrets -> CoinStates]
    /\ claimed \subseteq Quotes
    /\ payments \subseteq Requests
    /\ exported \subseteq Own

CountersReliable == NvsFaults \cap {"counter_write", "counter_read"} = {}

\* Secrets the mint has signed or may still be asked to sign.
Offered ==
    {s \in Own : coin[s] # "none"}
        \cup UNION {req.outs : req \in wire \cup payments \cup {flow.req}}

\* Every secret the mint signed, or may still sign, lies below the counter in
\* flash: after any crash or lost answer a NUT-13 scan up to the counter finds
\* it (generate_outputs saves the counter before the POST).
OutputsReserved ==
    Seeded /\ CountersReliable => \A s \in Offered : s.n < nvsCounter[s.ks]

\* No request asks the mint to sign a secret that an earlier request, answered
\* or still travelling, already carried (the mint would refuse it, and the
\* receiver of the first answer would hold the same proof).
NoOutputReuse ==
    [][flow = Idle /\ flow'.req.op # "none" /\ CountersReliable
        => flow'.req.outs \cap Offered = {}]_vars

\* A reboot never hands the wallet a proof it had let go on its own: what flash
\* still holds and RAM no longer does was taken by the mint in a melt whose save
\* failed (remove_proofs restores RAM, every other flow only adds).
OnlyPaidReturn ==
    ~degraded => \A s \in nvsProofs \ ram : coin[s] \notin {"none", "live"}

\* Every flow returns and so releases the store mutex, whatever the mint and
\* the network do.
FlowEnds == flow # Idle ~> flow = Idle

Vault == INSTANCE ProofVault WITH
    vault <- nvsProofs,
    frozen <- degraded,
    issued <- {s \in Own : coin[s] # "none"},
    letGo <- exported \cup {s \in Secrets : coin[s] \notin {"none", "live"}}

\* The blob behaves as the abstract vault: rewritten as a whole, frozen while
\* degraded, made of signed proofs, and a proof leaves it only once it was
\* printed or taken by the mint.
VaultSpec == Vault!Spec

\* wallet.hpp: a wallet whose proofs could not be loaded refuses every mutating
\* flow (mint_tokens and melt_tokens do not look at degraded_).
DegradedRefuses == degraded => ~Posting

\* save_proofs: the wallet refuses to run on proofs it cannot persist, rather
\* than going on as a RAM-only wallet (its callers ignore what it returns).
NeverRamOnly == flow = Idle => ram \subseteq nvsProofs
===============================================================================
