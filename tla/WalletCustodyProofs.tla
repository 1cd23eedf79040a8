------------------------- MODULE WalletCustodyProofs -------------------------
(***************************************************************************)
(* What TLC checks of WalletCustody on small instances, proved for every   *)
(* set of keysets, quotes and faults and every value of the bounds.        *)
(***************************************************************************)
EXTENDS WalletCustody, TLAPS

-------------------------------------------------------------------------------
(* Facts about the operators *)

\* The secrets of one request are the wallet's own and lie in [base, base+n).
LEMMA OutputsRange ==
    ASSUME NEW k \in Keysets, NEW base, NEW n
    PROVE  /\ Outputs(k, base, n) \subseteq Own
           /\ \A s \in Outputs(k, base, n) :
                s.ks = k /\ base <= s.n /\ s.n < base + n
BY DEF Outputs

\* Every secret has a keyset and a natural number.
LEMMA OwnFields ==
    ASSUME NEW s \in Own
    PROVE  s \in Secrets /\ s.ks \in Keysets /\ s.n \in Int
<1>1. s \in Secrets
    BY DEF Own
<1>2. s.ks \in Keysets /\ s.n \in Int
    <2>1. CASE s \in [own: {TRUE}, ks: Keysets, n: 0 .. (MaxIndex - 1)]
        BY <2>1
    <2>2. CASE s \in [own: {FALSE}, ks: Keysets, n: 0 .. (Foreign - 1)]
        BY <2>2
    <2>3. QED
        BY <1>1, <2>1, <2>2 DEF Secrets
<1>3. QED
    BY <1>1, <1>2

\* Nothing is offered under the empty request.
LEMMA IdleFlow ==
    /\ Idle \in Flows
    /\ Idle.req = NoRequest
    /\ Idle.req.op = "none" /\ Idle.req.outs = {} /\ Idle.req.inputs = {}
    /\ Idle.reply = "none" /\ Idle.sigs = {} /\ Idle.tries = 0
BY DEF Idle, Opened, NoRequest, Flows, Replies

LEMMA OpenedFlow ==
    ASSUME NEW req \in Requests \cup Drains \cup {NoRequest}
    PROVE  /\ Opened(req) \in Flows
           /\ Opened(req).req = req /\ Opened(req).tries = 0
           /\ Opened(req).reply = "none" /\ Opened(req).sigs = {}
BY DEF Opened, Flows, Replies

LEMMA MovedType ==
    ASSUME coin \in [Secrets -> CoinStates], NEW gone, NEW fresh,
           NEW to \in CoinStates
    PROVE  /\ Moved(gone, to, fresh) \in [Secrets -> CoinStates]
           /\ \A s \in Secrets :
                Moved(gone, to, fresh)[s] = IF s \in gone THEN to
                                            ELSE IF s \in fresh THEN "live"
                                            ELSE coin[s]
BY DEF Moved, CoinStates

LEMMA AnswerType ==
    ASSUME flow \in Flows, NEW req, NEW reply \in Replies, NEW sigs \in SUBSET Own,
           Answer(req, reply, sigs)
    PROVE  /\ flow' \in Flows
           /\ flow'.req = flow.req
           /\ flow'.tries = flow.tries
           /\ \/ flow' = flow
              \/ flow.req = req /\ flow'.reply = reply /\ flow'.sigs = sigs
<1>1. CASE flow.req = req /\ flow.reply = "none"
    <2>1. flow' = [flow EXCEPT !.reply = reply, !.sigs = sigs]
        BY <1>1 DEF Answer
    <2>2. QED
        BY <1>1, <2>1 DEF Flows
<1>2. CASE ~(flow.req = req /\ flow.reply = "none")
    <2>1. flow' = flow
        BY <1>2 DEF Answer
    <2>2. QED
        BY <2>1
<1>3. QED
    BY <1>1, <1>2

LEMMA SaveType ==
    ASSUME NEW proofs \in SUBSET Own, NEW ok \in SaveResults(proofs),
           SaveProofs(proofs, ok), nvsProofs \subseteq Own, hasBlob \in BOOLEAN
    PROVE  /\ ok \in BOOLEAN
           /\ nvsProofs' \subseteq Own
           /\ hasBlob' \in BOOLEAN
           /\ \/ nvsProofs' = nvsProofs
              \/ ~degraded /\ nvsProofs' = proofs
           /\ ok => ~degraded /\ nvsProofs' = proofs
           /\ ~ok => nvsProofs' = nvsProofs
<1>1. ok \in BOOLEAN /\ (ok => ~degraded)
    BY DEF SaveResults
<1>2. QED
    BY <1>1 DEF SaveProofs

-------------------------------------------------------------------------------
(* Type correctness *)

LEMMA PostType ==
    ASSUME TypeOK, NEW op \in {"receive", "mint", "melt"},
           NEW quote \in Quotes \cup {NoQuote}, NEW k \in Keysets,
           NEW inputs \in SUBSET Secrets, NEW n \in 0 .. MaxOutputs,
           op = "mint" => quote \in Quotes,
           known' \subseteq Keysets, Post(op, quote, k, inputs, n)
    PROVE  TypeOK'
<1>1. PICK base \in FirstIndexes(k) :
        /\ base + n <= MaxIndex
        /\ IF n = 0 THEN UNCHANGED <<nvsCounter, drawn>>
                    ELSE AdvanceCounter(k, base + n)
        /\ flow' = Opened([op |-> op, quote |-> quote, inputs |-> inputs,
                           outs |-> Outputs(k, base, n)])
        /\ wire' = wire \cup {[op |-> op, quote |-> quote, inputs |-> inputs,
                               outs |-> Outputs(k, base, n)]}
    BY DEF Post, Send
<1> DEFINE req == [op |-> op, quote |-> quote, inputs |-> inputs,
                   outs |-> Outputs(k, base, n)]
<1>2. req \in Requests
    BY OutputsRange DEF Requests
<1>3. flow' \in Flows /\ wire' \subseteq Requests
    BY <1>1, <1>2, OpenedFlow DEF TypeOK
<1>4. base \in 0 .. MaxIndex /\ n \in Nat /\ base + n \in 0 .. MaxIndex
    <2>1. base \in 0 .. MaxIndex
        BY CustodyAssumption DEF FirstIndexes, LoadedCounters, TypeOK
    <2>2. QED
        BY <1>1, <2>1, CustodyAssumption
<1>5. /\ nvsCounter' \in [Keysets -> 0 .. MaxIndex]
      /\ drawn' \in [Keysets -> 0 .. MaxIndex]
    BY <1>1, <1>4 DEF AdvanceCounter, TypeOK
<1>6. QED
    BY <1>3, <1>5 DEF Post, TypeOK, mintVars

\* A step of the mint's changes the coins and the flow's answer only.
LEMMA HandleType ==
    ASSUME TypeOK, NEW req \in wire, Handle(req),
           NEW reply \in Replies, NEW sigs \in SUBSET Own, Answer(req, reply, sigs),
           coin' \in [Secrets -> CoinStates], claimed' \subseteq Quotes,
           payments' \subseteq Requests
    PROVE  TypeOK'
<1>1. flow' \in Flows
    BY AnswerType DEF TypeOK
<1>2. wire' \subseteq Requests
    BY DEF Handle, TypeOK
<1>3. QED
    BY <1>1, <1>2 DEF Handle, TypeOK, nvsVars

\* Closing a flow with a save.
LEMMA CloseType ==
    ASSUME TypeOK, NEW held \in SUBSET Own, NEW ok \in SaveResults(held),
           SaveProofs(held, ok), ram' \subseteq Own, flow' = Idle,
           UNCHANGED <<degraded, known, nvsCounter, drawn, wire, mintVars, exported>>
    PROVE  TypeOK'
<1>1. nvsProofs' \subseteq Own /\ hasBlob' \in BOOLEAN
    BY SaveType DEF TypeOK
<1>2. QED
    BY <1>1, IdleFlow DEF TypeOK, mintVars

LEMMA InitType == Init => TypeOK
<1> SUFFICES ASSUME Init PROVE TypeOK
    OBVIOUS
<1>1. flow \in Flows
    BY IdleFlow DEF Init
<1>2. /\ nvsCounter \in [Keysets -> 0 .. MaxIndex]
      /\ drawn \in [Keysets -> 0 .. MaxIndex]
    BY CustodyAssumption DEF Init
<1>3. coin \in [Secrets -> CoinStates]
    BY DEF Init, CoinStates
<1>4. QED
    BY <1>1, <1>2, <1>3 DEF Init, TypeOK

LEMMA StepType == TypeOK /\ [Next]_vars => TypeOK'
<1> SUFFICES ASSUME TypeOK, [Next]_vars PROVE TypeOK'
    OBVIOUS
<1>1. ASSUME NEW k \in Keysets, NEW n \in 0 .. MaxOutputs,
             NEW inputs \in SUBSET Circulating(k), Receive(k, inputs, n)
      PROVE  TypeOK'
    <2>1. inputs \subseteq Secrets
        BY DEF Circulating
    <2>2. known' \subseteq Keysets
        BY <1>1 DEF Receive, TypeOK
    <2>3. QED
        BY <1>1, <2>1, <2>2, PostType DEF Receive
<1>2. ASSUME NEW k \in Keysets, NEW n \in 0 .. MaxOutputs, NEW q \in Quotes,
             MintTokens(k, q, n)
      PROVE  TypeOK'
    BY <1>2, PostType DEF MintTokens, TypeOK
<1>3. ASSUME NEW k \in Keysets, NEW n \in 0 .. MaxOutputs,
             NEW inputs \in SUBSET ram, MeltTokens(k, inputs, n)
      PROVE  TypeOK'
    <2>1. inputs \subseteq Secrets
        BY DEF TypeOK, Own
    <2>2. QED
        BY <1>3, <2>1, PostType DEF MeltTokens, TypeOK
<1>4. ASSUME NEW k \in Keysets, Stickup(k) PROVE TypeOK'
    <2> DEFINE drained == {s \in ram : s.ks = k}
               req == [op |-> "stickup", quote |-> NoQuote, inputs |-> drained,
                       outs |-> {}]
    <2>1. drained \subseteq Own
        BY DEF TypeOK
    <2>2. req \in Drains
        BY <2>1 DEF Drains
    <2>3. flow' \in Flows
        BY <1>4, <2>2, OpenedFlow DEF Stickup
    <2>4. QED
        BY <1>4, <2>1, <2>3 DEF Stickup, TypeOK, nvsVars, mintVars
<1>5. ASSUME NEW k \in Keysets, OthersSpend(k) PROVE TypeOK'
    <2>1. coin' \in [Secrets -> CoinStates]
        BY <1>5, MovedType DEF OthersSpend, TypeOK, CoinStates
    <2>2. QED
        BY <1>5, <2>1 DEF OthersSpend, TypeOK, ramVars, nvsVars
<1>6. CASE LoadKeysets
    BY <1>6 DEF LoadKeysets, TypeOK, nvsVars, mintVars
<1>7. ASSUME NEW req \in wire, MintSwaps(req) PROVE TypeOK'
    <2>1. req \in Requests /\ req.outs \subseteq Own
        BY DEF TypeOK, Requests
    <2>2. coin' \in [Secrets -> CoinStates]
        BY <1>7, MovedType DEF MintSwaps, TypeOK, CoinStates
    <2>3. QED
        BY <1>7, <2>1, <2>2, HandleType DEF MintSwaps, Replies, TypeOK
<1>8. ASSUME NEW req \in wire, MintIssues(req) PROVE TypeOK'
    <2>1. req \in Requests /\ req.outs \subseteq Own
        BY DEF TypeOK, Requests
    <2>2. coin' \in [Secrets -> CoinStates]
        BY <1>8, MovedType DEF MintIssues, TypeOK, CoinStates
    <2>3. req.quote \in Quotes
        BY <1>8, <2>1 DEF MintIssues, Requests
    <2>4. QED
        BY <1>8, <2>1, <2>2, <2>3, HandleType DEF MintIssues, Replies, TypeOK
<1>9. ASSUME NEW req \in wire, MintPays(req) PROVE TypeOK'
    <2>1. PICK change \in Prefixes(req.outs) :
            /\ coin' = Moved(req.inputs, "spent", change)
            /\ Answer(req, "paid", change)
        BY <1>9 DEF MintPays
    <2>2. change \subseteq Own
        BY <2>1 DEF Prefixes, TypeOK, Requests
    <2>3. coin' \in [Secrets -> CoinStates]
        BY <2>1, MovedType DEF TypeOK, CoinStates
    <2>4. QED
        BY <1>9, <2>1, <2>2, <2>3, HandleType DEF MintPays, Replies, TypeOK
<1>10. ASSUME NEW req \in wire, MintDefers(req) PROVE TypeOK'
    <2>1. coin' \in [Secrets -> CoinStates]
        BY <1>10, MovedType DEF MintDefers, TypeOK, CoinStates
    <2>2. payments' \subseteq Requests
        BY <1>10 DEF MintDefers, TypeOK
    <2>3. QED
        BY <1>10, <2>1, <2>2, HandleType DEF MintDefers, Replies, TypeOK
<1>11. ASSUME NEW req \in wire, MintRefuses(req) PROVE TypeOK'
    BY <1>11, HandleType DEF MintRefuses, Replies, TypeOK, mintVars
<1>12. ASSUME NEW req \in payments, PaymentEnds(req) PROVE TypeOK'
    <2>1. PICK to \in {"spent", "returned"}, change \in SUBSET Own :
            coin' = Moved(req.inputs, to, change)
        BY <1>12 DEF PaymentEnds, Prefixes, TypeOK, Requests
    <2>2. coin' \in [Secrets -> CoinStates]
        BY <2>1, MovedType DEF TypeOK, CoinStates
    <2>3. QED
        BY <1>12, <2>2 DEF PaymentEnds, TypeOK, ramVars, nvsVars
<1>13. CASE Retry
    <2>1. flow' \in Flows
        BY <1>13, OpenedFlow DEF Retry, Flows, TypeOK
    <2>2. flow.req \in Requests
        BY <1>13 DEF Retry, Posting, TypeOK, Flows, Drains, NoRequest
    <2>3. QED
        BY <1>13, <2>1, <2>2 DEF Retry, Send, TypeOK, nvsVars, mintVars
<1>14. CASE GiveUp
    BY <1>14, IdleFlow DEF GiveUp, TypeOK, nvsVars, mintVars
<1>15. CASE Adopt
    BY <1>15, CloseType DEF Adopt, TypeOK, Flows
<1>16. CASE FinishMelt
    <2>1. PICK got \in {flow.sigs, {}} :
            \E ok \in SaveResults(Leftover(flow.req.inputs) \cup got) :
                /\ ram' = Leftover(flow.req.inputs) \cup got
                /\ SaveProofs(Leftover(flow.req.inputs) \cup got, ok)
        BY <1>16 DEF FinishMelt
    <2>2. Leftover(flow.req.inputs) \cup got \subseteq Own
        BY DEF Leftover, TypeOK, Flows
    <2>3. QED
        BY <1>16, <2>1, <2>2, CloseType DEF FinishMelt
<1>17. CASE RemoveProofs
    <2>1. PICK ok \in SaveResults(ram \ flow.req.inputs) :
            /\ ram' = IF ok THEN ram \ flow.req.inputs ELSE ram
            /\ SaveProofs(ram \ flow.req.inputs, ok)
        BY <1>17 DEF RemoveProofs
    <2>2. ram' \subseteq Own /\ ram \ flow.req.inputs \subseteq Own
        BY <2>1 DEF TypeOK
    <2>3. QED
        BY <1>17, <2>1, <2>2, CloseType DEF RemoveProofs
<1>18. CASE Reboot
    <2>1. ram' \subseteq Own /\ degraded' \in BOOLEAN /\ known' \subseteq Keysets
        BY <1>18 DEF Reboot, LoadResults, TypeOK
    <2>2. QED
        BY <1>18, <2>1, IdleFlow DEF Reboot, TypeOK, nvsVars, mintVars
<1>19. CASE UNCHANGED vars
    BY <1>19 DEF TypeOK, vars, ramVars, nvsVars, mintVars
<1>20. QED
    BY <1>1, <1>2, <1>3, <1>4, <1>5, <1>6, <1>7, <1>8, <1>9, <1>10, <1>11, <1>12,
       <1>13, <1>14, <1>15, <1>16, <1>17, <1>18, <1>19
       DEF Next, Open, MintStep, Progress

\* The variables keep their types; in particular the wallet never holds a
\* proof whose secret somebody else generated.
THEOREM TypeCorrect == Spec => []TypeOK
<1>1. Init => TypeOK
    BY InitType
<1>2. TypeOK /\ [Next]_vars => TypeOK'
    BY StepType
<1>3. QED
    BY <1>1, <1>2, PTL DEF Spec

-------------------------------------------------------------------------------
(* Derivation indexes *)

\* Where the next request of a keyset starts: the counter in flash, or the
\* number of random secrets drawn so far.
NextIndex(k) == IF Seeded THEN nvsCounter[k] ELSE drawn[k]

\* The inductive form of OutputsReserved, for wallets with and without a seed.
Reserved == CountersReliable => \A s \in Offered : s.n < NextIndex(s.ks)

\* A step that puts no new request together offers no new secret.
LEMMA OfferedShrinks ==
    ASSUME \A s \in Own : coin'[s] # "none" => s \in Offered,
           wire' \subseteq wire \cup {flow.req},
           payments' \subseteq payments \cup wire,
           flow'.req.outs \subseteq flow.req.outs
    PROVE  Offered' \subseteq Offered
<1> SUFFICES ASSUME NEW s \in Offered' PROVE s \in Offered
    OBVIOUS
<1>1. CASE s \in Own /\ coin'[s] # "none"
    BY <1>1
<1>2. CASE s \in UNION {req.outs : req \in (wire \cup payments \cup {flow.req})'}
    <2>1. PICK req \in wire' \cup payments' \cup {flow'.req} : s \in req.outs
        BY <1>2
    <2>2. CASE req \in wire \cup payments \cup {flow.req}
        BY <2>1, <2>2 DEF Offered
    <2>3. CASE req = flow'.req
        BY <2>1, <2>3 DEF Offered
    <2>4. QED
        BY <2>1, <2>2, <2>3
<1>3. QED
    BY <1>1, <1>2 DEF Offered, Own, Secrets

LEMMA ReservedKept ==
    ASSUME Reserved, Offered' \subseteq Offered, UNCHANGED <<nvsCounter, drawn>>
    PROVE  Reserved'
BY DEF Reserved, NextIndex

\* generate_outputs derives above everything offered so far, and the counter
\* passes what it derived before the request can leave.
LEMMA PostReserves ==
    ASSUME TypeOK, Reserved, NEW op \in {"receive", "mint", "melt"},
           NEW quote \in Quotes \cup {NoQuote}, NEW k \in Keysets,
           NEW inputs \in SUBSET Secrets, NEW n \in 0 .. MaxOutputs,
           Post(op, quote, k, inputs, n)
    PROVE  /\ Reserved'
           /\ CountersReliable => flow'.req.outs \cap Offered = {}
<1> SUFFICES ASSUME CountersReliable
             PROVE  /\ \A s \in Offered' : s.n < NextIndex(s.ks)'
                    /\ flow'.req.outs \cap Offered = {}
    BY DEF Reserved
<1>1. PICK base \in FirstIndexes(k) :
        /\ base + n <= MaxIndex
        /\ IF n = 0 THEN UNCHANGED <<nvsCounter, drawn>>
                    ELSE AdvanceCounter(k, base + n)
        /\ flow' = Opened([op |-> op, quote |-> quote, inputs |-> inputs,
                           outs |-> Outputs(k, base, n)])
        /\ wire' = wire \cup {[op |-> op, quote |-> quote, inputs |-> inputs,
                               outs |-> Outputs(k, base, n)]}
    BY DEF Post, Send
<1> DEFINE req == [op |-> op, quote |-> quote, inputs |-> inputs,
                   outs |-> Outputs(k, base, n)]
<1>2. base = NextIndex(k)
    BY <1>1 DEF FirstIndexes, LoadedCounters, CountersReliable, NextIndex
<1>3. n \in Nat /\ \A j \in Keysets : NextIndex(j) \in Nat
    BY CustodyAssumption DEF NextIndex, TypeOK
<1>4. \A j \in Keysets :
        NextIndex(j)' = IF j = k /\ n # 0 THEN base + n ELSE NextIndex(j)
    <2>1. CASE n = 0
        BY <1>1, <2>1 DEF NextIndex
    <2>2. CASE n # 0
        BY <1>1, <2>2 DEF AdvanceCounter, NextIndex, CountersReliable, TypeOK
    <2>3. QED
        BY <2>1, <2>2
<1>5. flow'.req = req /\ flow'.req.outs = Outputs(k, base, n)
    BY <1>1 DEF Opened
<1>6. \A s \in Offered' : s \in Offered \/ s \in Outputs(k, base, n)
    <2> SUFFICES ASSUME NEW s \in Offered', s \notin Outputs(k, base, n)
                 PROVE  s \in Offered
        OBVIOUS
    <2>1. coin' = coin /\ payments' = payments
        BY DEF Post, mintVars
    <2>2. CASE s \in Own /\ coin'[s] # "none"
        BY <2>1, <2>2 DEF Offered
    <2>3. CASE s \in UNION {r.outs : r \in wire' \cup payments' \cup {flow'.req}}
        <3>1. PICK r \in wire' \cup payments' \cup {flow'.req} : s \in r.outs
            BY <2>3
        <3>2. r # req
            BY <3>1
        <3>3. r \in wire \cup payments
            BY <1>1, <1>5, <2>1, <3>1, <3>2
        <3>4. QED
            BY <3>1, <3>3 DEF Offered
    <2>4. QED
        BY <2>2, <2>3 DEF Offered, Own, Secrets
<1>7. \A s \in Offered : s \in Own
    BY DEF Offered, TypeOK, Requests, Flows, Drains, NoRequest
<1>8. \A s \in Offered : s.n < NextIndex(s.ks)
    BY DEF Reserved
<1>9. ASSUME NEW s \in Outputs(k, base, n)
      PROVE  s \notin Offered /\ s.n < NextIndex(s.ks)'
    <2>1. s \in Own /\ s.ks = k /\ base <= s.n /\ s.n < base + n
        BY OutputsRange
    <2>2. s.n \in Int
        BY <2>1, OwnFields
    <2>3. s \notin Offered
        BY <1>2, <1>3, <1>8, <2>1, <2>2
    <2>4. n # 0
        BY <1>2, <1>3, <2>1, <2>2
    <2>5. QED
        BY <1>4, <2>1, <2>3, <2>4
<1>10. ASSUME NEW s \in Offered PROVE s.n < NextIndex(s.ks)'
    <2>1. s.n \in Int /\ s.ks \in Keysets /\ s.n < NextIndex(s.ks)
        BY <1>7, <1>8, OwnFields
    <2>2. NextIndex(s.ks)' >= NextIndex(s.ks) /\ NextIndex(s.ks)' \in Int
        BY <1>2, <1>3, <1>4, <2>1
    <2>3. QED
        BY <1>3, <2>1, <2>2
<1>11. QED
    BY <1>5, <1>6, <1>9, <1>10

-------------------------------------------------------------------------------
(* The mint's side *)

\* What a deferred melt pays with exists.
PaymentsKnown == \A req \in payments : \A s \in req.inputs : coin[s] # "none"

\* The mint retires coins that exist, and signs only what it was asked to and
\* has not signed before.
MintMove(gone, to, fresh) ==
    /\ to \in {"spent", "pending", "returned"}
    /\ gone \subseteq {s \in Secrets : coin[s] # "none"}
    /\ fresh \subseteq {s \in Own \cap Offered : coin[s] = "none"}
    /\ coin' = Moved(gone, to, fresh)

MintMoves == coin' = coin \/ \E gone, to, fresh : MintMove(gone, to, fresh)

LEMMA StepMoves ==
    ASSUME TypeOK, PaymentsKnown, [Next]_vars
    PROVE  MintMoves
<1>1. ASSUME NEW req \in wire \cup payments
      PROVE  /\ req \in Requests
             /\ req.outs \subseteq Own \cap Offered
             /\ req.inputs \subseteq Secrets
             /\ Prefixes(req.outs) \subseteq SUBSET (Own \cap Offered)
    <2>1. req \in Requests
        BY DEF TypeOK
    <2>2. req.outs \subseteq Own /\ req.inputs \subseteq Secrets
        BY <2>1 DEF Requests
    <2>3. req.outs \subseteq Offered
        BY DEF Offered
    <2>4. QED
        BY <2>1, <2>2, <2>3 DEF Prefixes
<1>2. ASSUME NEW req \in wire, Signable(req)
      PROVE  /\ req.inputs \subseteq {s \in Secrets : coin[s] # "none"}
             /\ \A s \in req.outs : coin[s] = "none"
    BY <1>2 DEF Signable, Spendable
<1>3. ASSUME NEW req \in wire, MintSwaps(req) PROVE MintMoves
    <2>1. MintMove(req.inputs, "spent", req.outs)
        BY <1>1, <1>2, <1>3 DEF MintSwaps, MintMove
    <2>2. QED
        BY <2>1 DEF MintMoves
<1>4. ASSUME NEW req \in wire, MintIssues(req) PROVE MintMoves
    <2>1. MintMove({}, "spent", req.outs)
        BY <1>1, <1>2, <1>4 DEF MintIssues, MintMove
    <2>2. QED
        BY <2>1 DEF MintMoves
<1>5. ASSUME NEW req \in wire, MintPays(req) PROVE MintMoves
    <2>1. PICK change \in Prefixes(req.outs) : coin' = Moved(req.inputs, "spent", change)
        BY <1>5 DEF MintPays
    <2>2. change \subseteq req.outs
        BY <2>1 DEF Prefixes
    <2>3. MintMove(req.inputs, "spent", change)
        BY <1>1, <1>2, <1>5, <2>1, <2>2 DEF MintPays, MintMove
    <2>4. QED
        BY <2>3 DEF MintMoves
<1>6. ASSUME NEW req \in wire, MintDefers(req) PROVE MintMoves
    <2>1. MintMove(req.inputs, "pending", {})
        BY <1>1, <1>2, <1>6 DEF MintDefers, MintMove
    <2>2. QED
        BY <2>1 DEF MintMoves
<1>7. ASSUME NEW req \in payments, PaymentEnds(req) PROVE MintMoves
    <2>1. req.inputs \subseteq {s \in Secrets : coin[s] # "none"}
        BY <1>1 DEF PaymentsKnown
    <2>2. CASE coin' = Moved(req.inputs, "returned", {})
        <3>1. MintMove(req.inputs, "returned", {})
            BY <2>1, <2>2 DEF MintMove
        <3>2. QED
            BY <3>1 DEF MintMoves
    <2>3. CASE \E change \in Prefixes({s \in req.outs : coin[s] = "none"}) :
                coin' = Moved(req.inputs, "spent", change)
        <3>1. PICK change \in Prefixes({s \in req.outs : coin[s] = "none"}) :
                coin' = Moved(req.inputs, "spent", change)
            BY <2>3
        <3>2. change \subseteq {s \in req.outs : coin[s] = "none"}
            BY <3>1 DEF Prefixes
        <3>3. MintMove(req.inputs, "spent", change)
            BY <1>1, <2>1, <3>1, <3>2 DEF MintMove
        <3>4. QED
            BY <3>3 DEF MintMoves
    <2>4. QED
        BY <1>7, <2>2, <2>3 DEF PaymentEnds
<1>8. ASSUME NEW k \in Keysets, OthersSpend(k) PROVE MintMoves
    <2>1. PICK s \in Circulating(k) \cap Spendable : coin' = Moved({s}, "spent", {})
        BY <1>8 DEF OthersSpend
    <2>2. MintMove({s}, "spent", {})
        BY <2>1 DEF MintMove, Circulating, Spendable
    <2>3. QED
        BY <2>2 DEF MintMoves
<1>9. CASE \E req \in wire : MintRefuses(req)
    BY <1>9 DEF MintRefuses, mintVars, MintMoves
<1>10. CASE Open \/ (\E k \in Keysets : Stickup(k)) \/ LoadKeysets
    BY <1>10 DEF Open, Receive, MintTokens, MeltTokens, Post, Stickup, LoadKeysets,
                 mintVars, MintMoves
<1>11. CASE Progress \/ Reboot
    BY <1>11 DEF Progress, Retry, GiveUp, Adopt, FinishMelt, RemoveProofs, Reboot,
                 mintVars, MintMoves
<1>12. CASE UNCHANGED vars
    BY <1>12 DEF vars, mintVars, MintMoves
<1>13. QED
    BY <1>3, <1>4, <1>5, <1>6, <1>7, <1>8, <1>9, <1>10, <1>11, <1>12
       DEF Next, MintStep

\* A coin that exists never stops existing, and one that was used never
\* becomes unused again.
LEMMA CoinsAdvance ==
    ASSUME TypeOK, MintMoves
    PROVE  \A s \in Secrets :
            /\ coin[s] # "none" => coin'[s] # "none"
            /\ coin[s] \notin {"none", "live"} => coin'[s] \notin {"none", "live"}
            /\ coin'[s] # "none" /\ coin[s] = "none" => s \in Own \cap Offered
<1>1. CASE coin' = coin
    BY <1>1
<1>2. ASSUME NEW gone, NEW to, NEW fresh, MintMove(gone, to, fresh)
      PROVE  \A s \in Secrets :
                /\ coin[s] # "none" => coin'[s] # "none"
                /\ coin[s] \notin {"none", "live"} => coin'[s] \notin {"none", "live"}
                /\ coin'[s] # "none" /\ coin[s] = "none" => s \in Own \cap Offered
    <2>1. to \in CoinStates
        BY <1>2 DEF MintMove, CoinStates
    <2>2. \A s \in Secrets :
            coin'[s] = IF s \in gone THEN to ELSE IF s \in fresh THEN "live" ELSE coin[s]
        BY <1>2, <2>1, MovedType DEF MintMove, TypeOK
    <2>3. QED
        BY <1>2, <2>2 DEF MintMove
<1>3. QED
    BY <1>1, <1>2 DEF MintMoves

LEMMA StepPayments ==
    ASSUME TypeOK, PaymentsKnown, [Next]_vars
    PROVE  PaymentsKnown'
<1>1. \A s \in Secrets : coin[s] # "none" => coin'[s] # "none"
    BY StepMoves, CoinsAdvance
<1>2. \A req \in wire \cup payments : req.inputs \subseteq Secrets
    BY DEF TypeOK, Requests
<1>3. CASE payments' \subseteq payments
    BY <1>1, <1>2, <1>3 DEF PaymentsKnown
<1>4. ASSUME NEW req \in wire, MintDefers(req) PROVE PaymentsKnown'
    <2>1. payments' = payments \cup {req}
        BY <1>4 DEF MintDefers
    <2>2. \A s \in req.inputs : coin[s] # "none"
        BY <1>4 DEF MintDefers, Signable, Spendable
    <2>3. QED
        BY <1>1, <1>2, <2>1, <2>2 DEF PaymentsKnown
<1>5. CASE \E req \in wire :
            MintSwaps(req) \/ MintIssues(req) \/ MintPays(req) \/ MintRefuses(req)
    BY <1>3, <1>5 DEF MintSwaps, MintIssues, MintPays, MintRefuses, mintVars
<1>6. CASE \E req \in payments : PaymentEnds(req)
    BY <1>3, <1>6 DEF PaymentEnds
<1>7. CASE Open \/ (\E k \in Keysets : Stickup(k) \/ OthersSpend(k)) \/ LoadKeysets
    <2>1. CASE Open
        BY <1>3, <2>1 DEF Open, Receive, MintTokens, MeltTokens, Post, mintVars
    <2>2. CASE LoadKeysets \/ \E k \in Keysets : Stickup(k)
        BY <1>3, <2>2 DEF Stickup, LoadKeysets, mintVars
    <2>3. CASE \E k \in Keysets : OthersSpend(k)
        BY <1>3, <2>3 DEF OthersSpend
    <2>4. QED
        BY <1>7, <2>1, <2>2, <2>3
<1>8. CASE Progress \/ Reboot
    BY <1>3, <1>8 DEF Progress, Retry, GiveUp, Adopt, FinishMelt, RemoveProofs, Reboot,
                      mintVars
<1>9. CASE UNCHANGED vars
    BY <1>3, <1>9 DEF vars, mintVars
<1>10. QED
    BY <1>4, <1>5, <1>6, <1>7, <1>8, <1>9 DEF Next, MintStep

-------------------------------------------------------------------------------
(* The indexes stay ahead of the mint *)

LEMMA OpenReserves ==
    ASSUME TypeOK, Reserved, Open
    PROVE  /\ Reserved'
           /\ CountersReliable => flow'.req.outs \cap Offered = {}
<1>1. ASSUME NEW k \in Keysets, NEW n \in 0 .. MaxOutputs,
             NEW inputs \in SUBSET Circulating(k), Receive(k, inputs, n)
      PROVE  \E op \in {"receive", "mint", "melt"}, quote \in Quotes \cup {NoQuote},
                ins \in SUBSET Secrets : Post(op, quote, k, ins, n)
    <2>1. inputs \subseteq Secrets
        BY DEF Circulating
    <2>2. QED
        BY <1>1, <2>1 DEF Receive
<1>2. ASSUME NEW k \in Keysets, NEW n \in 0 .. MaxOutputs, NEW q \in Quotes,
             MintTokens(k, q, n)
      PROVE  \E op \in {"receive", "mint", "melt"}, quote \in Quotes \cup {NoQuote},
                ins \in SUBSET Secrets : Post(op, quote, k, ins, n)
    BY <1>2 DEF MintTokens
<1>3. ASSUME NEW k \in Keysets, NEW n \in 0 .. MaxOutputs,
             NEW inputs \in SUBSET ram, MeltTokens(k, inputs, n)
      PROVE  \E op \in {"receive", "mint", "melt"}, quote \in Quotes \cup {NoQuote},
                ins \in SUBSET Secrets : Post(op, quote, k, ins, n)
    <2>1. inputs \subseteq Secrets
        BY DEF TypeOK, Own
    <2>2. QED
        BY <1>3, <2>1 DEF MeltTokens
<1>4. QED
    BY <1>1, <1>2, <1>3, PostReserves DEF Open

LEMMA StepReserves ==
    ASSUME TypeOK, PaymentsKnown, Reserved, [Next]_vars
    PROVE  Reserved'
<1>1. \A s \in Own : coin'[s] # "none" => s \in Offered
    BY StepMoves, CoinsAdvance DEF Offered, Own
<1>2. ASSUME /\ wire' \subseteq wire \cup {flow.req}
             /\ payments' \subseteq payments \cup wire
             /\ flow'.req.outs \subseteq flow.req.outs
             /\ UNCHANGED <<nvsCounter, drawn>>
      PROVE  Reserved'
    BY <1>1, <1>2, OfferedShrinks, ReservedKept
<1>3. CASE Open
    BY <1>3, OpenReserves
<1>4. ASSUME NEW k \in Keysets, Stickup(k) PROVE Reserved'
    <2>1. flow'.req.outs = {}
        BY <1>4 DEF Stickup, Opened
    <2>2. QED
        BY <1>2, <1>4, <2>1 DEF Stickup, nvsVars, mintVars
<1>5. CASE \E k \in Keysets : OthersSpend(k)
    BY <1>2, <1>5 DEF OthersSpend, ramVars, nvsVars
<1>6. CASE LoadKeysets
    BY <1>2, <1>6 DEF LoadKeysets, nvsVars, mintVars
<1>7. ASSUME NEW req, Handle(req), payments' \subseteq payments \cup wire,
             flow'.req = flow.req
      PROVE  Reserved'
    BY <1>2, <1>7 DEF Handle, nvsVars
<1>8. ASSUME NEW req, NEW reply, NEW sigs, Answer(req, reply, sigs)
      PROVE  flow'.req = flow.req
    BY <1>8 DEF Answer, TypeOK, Flows
<1>9. CASE \E req \in wire : MintSwaps(req)
    BY <1>7, <1>8, <1>9 DEF MintSwaps
<1>10. CASE \E req \in wire : MintIssues(req)
    BY <1>7, <1>8, <1>10 DEF MintIssues
<1>11. CASE \E req \in wire : MintPays(req)
    BY <1>7, <1>8, <1>11 DEF MintPays
<1>12. CASE \E req \in wire : MintDefers(req)
    BY <1>7, <1>8, <1>12 DEF MintDefers
<1>13. CASE \E req \in wire : MintRefuses(req)
    BY <1>7, <1>8, <1>13 DEF MintRefuses, mintVars
<1>14. CASE \E req \in payments : PaymentEnds(req)
    BY <1>2, <1>14 DEF PaymentEnds, ramVars, nvsVars
<1>15. CASE Retry
    <2>1. flow'.req = flow.req
        BY <1>15 DEF Retry, Opened
    <2>2. QED
        BY <1>2, <1>15, <2>1 DEF Retry, Send, nvsVars, mintVars
<1>16. CASE GiveUp \/ Adopt \/ FinishMelt \/ RemoveProofs \/ Reboot
    <2>1. flow'.req.outs = {}
        BY <1>16, IdleFlow DEF GiveUp, Adopt, FinishMelt, RemoveProofs, Reboot
    <2>2. QED
        BY <1>2, <1>16, <2>1 DEF GiveUp, Adopt, FinishMelt, RemoveProofs, Reboot,
                                 nvsVars, mintVars
<1>17. CASE UNCHANGED vars
    BY <1>2, <1>17 DEF vars, ramVars, nvsVars, mintVars
<1>18. QED
    BY <1>3, <1>4, <1>5, <1>6, <1>9, <1>10, <1>11, <1>12, <1>13, <1>14, <1>15, <1>16,
       <1>17 DEF Next, MintStep, Progress

\* The inductive invariant behind the two results below.
IndexInv == TypeOK /\ PaymentsKnown /\ Reserved

LEMMA IndexInit == Init => IndexInv
<1> SUFFICES ASSUME Init PROVE IndexInv
    OBVIOUS
<1>1. TypeOK
    BY InitType
<1>2. PaymentsKnown
    BY DEF Init, PaymentsKnown
<1>3. Offered = {}
    BY IdleFlow DEF Init, Offered, Own
<1>4. QED
    BY <1>1, <1>2, <1>3 DEF IndexInv, Reserved

LEMMA IndexInvariant == Spec => []IndexInv
<1>1. Init => IndexInv
    BY IndexInit
<1>2. IndexInv /\ [Next]_vars => IndexInv'
    BY StepType, StepPayments, StepReserves DEF IndexInv
<1>3. QED
    BY <1>1, <1>2, PTL DEF Spec

\* Whatever the mint signed, or may still sign, for a seeded wallet lies below
\* the counter in flash (generate_outputs saves it before the POST).
THEOREM OutputsAreReserved == Spec => []OutputsReserved
<1>1. IndexInv => OutputsReserved
    BY DEF IndexInv, Reserved, OutputsReserved, NextIndex
<1>2. QED
    BY <1>1, IndexInvariant, PTL

\* No request carries a secret an earlier one carried, with or without a seed.
THEOREM OutputsAreFresh == Spec => NoOutputReuse
<1>1. IndexInv /\ [Next]_vars =>
        [flow = Idle /\ flow'.req.op # "none" /\ CountersReliable
            => flow'.req.outs \cap Offered = {}]_vars
    <2> SUFFICES ASSUME IndexInv, Next, flow = Idle, flow'.req.op # "none",
                        CountersReliable
                 PROVE  flow'.req.outs \cap Offered = {}
        OBVIOUS
    <2>1. CASE Open
        BY <2>1, OpenReserves DEF IndexInv
    <2>2. CASE \E k \in Keysets : Stickup(k)
        BY <2>2 DEF Stickup, Opened
    <2>3. CASE \E k \in Keysets : OthersSpend(k)
        BY <2>3, IdleFlow DEF OthersSpend, ramVars
    <2>4. CASE LoadKeysets
        BY <2>4, IdleFlow DEF LoadKeysets
    <2>5. CASE MintStep
        <3>1. flow'.req = flow.req
            BY <2>5 DEF MintStep, MintSwaps, MintIssues, MintPays, MintDefers,
                        MintRefuses, PaymentEnds, Answer, IndexInv, TypeOK, Flows,
                        ramVars
        <3>2. QED
            BY <3>1, IdleFlow
    <2>6. CASE Retry
        BY <2>6, IdleFlow DEF Retry, Posting
    <2>7. CASE GiveUp \/ Adopt \/ FinishMelt \/ RemoveProofs \/ Reboot
        BY <2>7, IdleFlow DEF GiveUp, Adopt, FinishMelt, RemoveProofs, Reboot
    <2>8. QED
        BY <2>1, <2>2, <2>3, <2>4, <2>5, <2>6, <2>7 DEF Next, Progress
<1>2. QED
    BY <1>1, IndexInvariant, PTL DEF Spec, NoOutputReuse

-------------------------------------------------------------------------------
(* What is in flash.  The blob implements ProofVault: the proofs that      *)
(* survive a power loss change only by whole saves of signed proofs, never *)
(* while degraded, and lose a proof only after it was let go.              *)

\* Everything the wallet holds, or is about to adopt, was signed by the mint.
Signed == ram \cup nvsProofs \cup flow.sigs \subseteq {s \in Own : coin[s] # "none"}

\* A melt is answered PAID or PENDING only after the mint took its inputs.
Settled ==
    flow.reply \in {"paid", "pending"}
        => \A s \in flow.req.inputs : coin[s] \notin {"none", "live"}

\* stickup removes only what it printed.
Printed == flow.req.op = "stickup" => flow.req.inputs \subseteq exported

\* The inductive invariant behind the refinement.
VaultInv == IndexInv /\ Signed /\ OnlyPaidReturn /\ Settled /\ Printed

-------------------------------------------------------------------------------
(* Steps that leave RAM and flash alone *)

LEMMA CoinsFollow ==
    ASSUME VaultInv, [Next]_vars
    PROVE  /\ \A s \in Secrets : coin[s] # "none" => coin'[s] # "none"
           /\ \A s \in Secrets :
                coin[s] \notin {"none", "live"} => coin'[s] \notin {"none", "live"}
           /\ ram \subseteq Own /\ nvsProofs \subseteq Own /\ flow \in Flows
           /\ flow.req.inputs \subseteq Secrets
<1>1. TypeOK /\ PaymentsKnown
    BY DEF VaultInv, IndexInv
<1>2. flow.req.inputs \subseteq Secrets
    BY <1>1 DEF TypeOK, Flows, Requests, Drains, NoRequest, Own
<1>3. QED
    BY <1>1, <1>2, StepMoves, CoinsAdvance DEF TypeOK

\* Holdings and flow unchanged, coins moved on.
LEMMA HoldingsKept ==
    ASSUME VaultInv, [Next]_vars,
           UNCHANGED <<ram, nvsProofs, degraded>>, exported \subseteq exported',
           \/ flow' = flow
           \/ flow'.sigs = {} /\ flow'.reply = "none"
                /\ (flow'.req.op = "stickup" => flow'.req.inputs \subseteq exported')
    PROVE  Signed' /\ OnlyPaidReturn' /\ Settled' /\ Printed'
<1>1. Signed'
    BY CoinsFollow DEF VaultInv, Signed, Own
<1>2. OnlyPaidReturn'
    BY CoinsFollow DEF VaultInv, OnlyPaidReturn, Own
<1>3. Settled'
    BY CoinsFollow DEF VaultInv, Settled
<1>4. Printed'
    BY DEF VaultInv, Printed
<1>5. QED
    BY <1>1, <1>2, <1>3, <1>4

\* The mint answers with signatures it has just made, and with PAID or PENDING
\* after taking the inputs.
LEMMA AnswerKeeps ==
    ASSUME VaultInv, [Next]_vars, NEW req \in wire, Handle(req),
           NEW reply \in Replies, NEW sigs \in SUBSET Own, Answer(req, reply, sigs),
           \A s \in sigs : coin'[s] # "none",
           reply \in {"paid", "pending"} =>
                \A s \in req.inputs : coin'[s] \notin {"none", "live"}
    PROVE  Signed' /\ OnlyPaidReturn' /\ Settled' /\ Printed'
<1>1. /\ flow \in Flows
      /\ flow'.req = flow.req
      /\ \/ flow' = flow
         \/ flow.req = req /\ flow'.reply = reply /\ flow'.sigs = sigs
    BY AnswerType DEF VaultInv, IndexInv, TypeOK
<1>2. UNCHANGED <<ram, nvsProofs, degraded, exported>>
    BY DEF Handle, nvsVars
<1>3. CASE flow' = flow
    BY <1>2, <1>3, HoldingsKept
<1>4. CASE flow.req = req /\ flow'.reply = reply /\ flow'.sigs = sigs
    <2>1. Signed'
        BY <1>2, <1>4, CoinsFollow DEF VaultInv, Signed, Own
    <2>2. OnlyPaidReturn'
        BY <1>2, CoinsFollow DEF VaultInv, OnlyPaidReturn, Own
    <2>3. Settled'
        BY <1>1, <1>4 DEF Settled
    <2>4. Printed'
        BY <1>1, <1>2 DEF VaultInv, Printed
    <2>5. QED
        BY <2>1, <2>2, <2>3, <2>4
<1>5. QED
    BY <1>1, <1>3, <1>4

\* Moved retires what it is told to and signs the rest.
LEMMA MovedCoins ==
    ASSUME TypeOK, NEW gone \in SUBSET Secrets, NEW fresh \in SUBSET Secrets,
           NEW to \in {"spent", "pending", "returned"},
           coin' = Moved(gone, to, fresh)
    PROVE  /\ \A s \in fresh : coin'[s] # "none"
           /\ \A s \in gone : coin'[s] \notin {"none", "live"}
<1>1. to \in CoinStates
    BY DEF CoinStates
<1>2. QED
    BY <1>1, MovedType DEF TypeOK

LEMMA MintKeeps ==
    ASSUME VaultInv, [Next]_vars, MintStep
    PROVE  Signed' /\ OnlyPaidReturn' /\ Settled' /\ Printed'
<1>1. TypeOK
    BY DEF VaultInv, IndexInv
<1>2. \A req \in wire \cup payments :
        req.inputs \subseteq Secrets /\ req.outs \subseteq Own
    BY <1>1 DEF TypeOK, Requests
<1>3. Own \subseteq Secrets
    BY DEF Own
<1>4. ASSUME NEW req \in wire, MintSwaps(req)
      PROVE  Signed' /\ OnlyPaidReturn' /\ Settled' /\ Printed'
    <2>1. \A s \in req.outs : coin'[s] # "none"
        BY <1>1, <1>2, <1>3, <1>4, MovedCoins DEF MintSwaps
    <2>2. QED
        BY <1>2, <1>4, <2>1, AnswerKeeps DEF MintSwaps, Replies
<1>5. ASSUME NEW req \in wire, MintIssues(req)
      PROVE  Signed' /\ OnlyPaidReturn' /\ Settled' /\ Printed'
    <2>1. \A s \in req.outs : coin'[s] # "none"
        BY <1>1, <1>2, <1>3, <1>5, MovedCoins DEF MintIssues
    <2>2. QED
        BY <1>2, <1>5, <2>1, AnswerKeeps DEF MintIssues, Replies
<1>6. ASSUME NEW req \in wire, MintPays(req)
      PROVE  Signed' /\ OnlyPaidReturn' /\ Settled' /\ Printed'
    <2>1. PICK change \in Prefixes(req.outs) :
            /\ coin' = Moved(req.inputs, "spent", change)
            /\ Answer(req, "paid", change)
        BY <1>6 DEF MintPays
    <2>2. change \subseteq Own
        BY <1>2, <2>1 DEF Prefixes
    <2>3. /\ \A s \in change : coin'[s] # "none"
          /\ \A s \in req.inputs : coin'[s] \notin {"none", "live"}
        BY <1>1, <1>2, <1>3, <2>1, <2>2, MovedCoins
    <2>4. QED
        BY <1>6, <2>1, <2>2, <2>3, AnswerKeeps DEF MintPays, Replies
<1>7. ASSUME NEW req \in wire, MintDefers(req)
      PROVE  Signed' /\ OnlyPaidReturn' /\ Settled' /\ Printed'
    <2>1. \A s \in req.inputs : coin'[s] \notin {"none", "live"}
        BY <1>1, <1>2, <1>7, MovedCoins DEF MintDefers
    <2>2. QED
        BY <1>7, <2>1, AnswerKeeps DEF MintDefers, Replies
<1>8. ASSUME NEW req \in wire, MintRefuses(req)
      PROVE  Signed' /\ OnlyPaidReturn' /\ Settled' /\ Printed'
    BY <1>8, AnswerKeeps DEF MintRefuses, Replies
<1>9. ASSUME NEW req \in payments, PaymentEnds(req)
      PROVE  Signed' /\ OnlyPaidReturn' /\ Settled' /\ Printed'
    BY <1>9, HoldingsKept DEF PaymentEnds, ramVars, nvsVars
<1>10. QED
    BY <1>4, <1>5, <1>6, <1>7, <1>8, <1>9 DEF MintStep

-------------------------------------------------------------------------------
(* Steps that open or close a flow *)

LEMMA OpeningKeeps ==
    ASSUME VaultInv, [Next]_vars,
           Open \/ (\E k \in Keysets : Stickup(k)) \/ LoadKeysets \/ Retry \/ GiveUp
    PROVE  Signed' /\ OnlyPaidReturn' /\ Settled' /\ Printed'
<1>1. CASE Open
    <2>1. PICK op, quote, k, inputs, n :
            op # "stickup" /\ Post(op, quote, k, inputs, n)
        BY <1>1 DEF Open, Receive, MintTokens, MeltTokens
    <2>2. flow'.sigs = {} /\ flow'.reply = "none" /\ flow'.req.op # "stickup"
        BY <2>1 DEF Post, Opened
    <2>3. QED
        BY <2>1, <2>2, HoldingsKept DEF Post
<1>2. ASSUME NEW k \in Keysets, Stickup(k)
      PROVE  Signed' /\ OnlyPaidReturn' /\ Settled' /\ Printed'
    <2>1. /\ flow'.sigs = {} /\ flow'.reply = "none"
          /\ flow'.req.inputs \subseteq exported'
        BY <1>2 DEF Stickup, Opened
    <2>2. QED
        BY <1>2, <2>1, HoldingsKept DEF Stickup, nvsVars
<1>3. CASE LoadKeysets
    BY <1>3, HoldingsKept DEF LoadKeysets, nvsVars
<1>4. CASE Retry
    <2>1. flow'.sigs = {} /\ flow'.reply = "none" /\ flow'.req = flow.req
        BY <1>4 DEF Retry, Opened
    <2>2. flow'.req.op # "stickup"
        BY <1>4, <2>1 DEF Retry, Posting
    <2>3. QED
        BY <1>4, <2>1, <2>2, HoldingsKept DEF Retry, nvsVars
<1>5. CASE GiveUp
    BY <1>5, IdleFlow, HoldingsKept DEF GiveUp, nvsVars
<1>6. QED
    BY <1>1, <1>2, <1>3, <1>4, <1>5

\* A save of `held`, taken or refused, after RAM became `held`; what RAM lost
\* meanwhile the mint has taken.
LEMMA SaveKeeps ==
    ASSUME VaultInv, [Next]_vars, NEW held \in SUBSET Own, NEW ok \in SaveResults(held),
           SaveProofs(held, ok), flow' = Idle,
           UNCHANGED <<degraded, mintVars, exported>>,
           ram' = held,
           \A s \in held : coin[s] # "none",
           \A s \in ram \ held : coin[s] \notin {"none", "live"}
    PROVE  Signed' /\ OnlyPaidReturn' /\ Settled' /\ Printed'
<1>1. /\ ok => ~degraded /\ nvsProofs' = held
      /\ ~ok => nvsProofs' = nvsProofs
      /\ ok \in BOOLEAN
    BY SaveType DEF VaultInv, IndexInv, TypeOK
<1>2. coin' = coin
    BY DEF mintVars
<1>3. Signed'
    BY <1>1, <1>2, IdleFlow DEF VaultInv, Signed
<1>4. OnlyPaidReturn'
    BY <1>1, <1>2 DEF VaultInv, OnlyPaidReturn
<1>5. Settled' /\ Printed'
    BY IdleFlow DEF Settled, Printed
<1>6. QED
    BY <1>3, <1>4, <1>5

LEMMA ClosingKeeps ==
    ASSUME VaultInv, [Next]_vars, Adopt \/ FinishMelt \/ RemoveProofs \/ Reboot
    PROVE  Signed' /\ OnlyPaidReturn' /\ Settled' /\ Printed'
<1>1. ram \subseteq Own /\ flow.sigs \subseteq Own /\ nvsProofs \subseteq Own
    BY DEF VaultInv, IndexInv, TypeOK, Flows
<1>2. \A s \in ram \cup nvsProofs \cup flow.sigs : coin[s] # "none"
    BY DEF VaultInv, Signed
<1>3. CASE Adopt
    <2>1. PICK ok \in SaveResults(ram \cup flow.sigs) :
            ram' = ram \cup flow.sigs /\ SaveProofs(ram \cup flow.sigs, ok)
        BY <1>3 DEF Adopt
    <2>2. QED
        BY <1>1, <1>2, <1>3, <2>1, SaveKeeps DEF Adopt
<1>4. CASE FinishMelt
    <2>1. PICK got \in {flow.sigs, {}} :
            \E ok \in SaveResults(Leftover(flow.req.inputs) \cup got) :
                /\ ram' = Leftover(flow.req.inputs) \cup got
                /\ SaveProofs(Leftover(flow.req.inputs) \cup got, ok)
        BY <1>4 DEF FinishMelt
    <2> DEFINE held == Leftover(flow.req.inputs) \cup got
    <2>2. held \subseteq Own /\ \A s \in held : coin[s] # "none"
        BY <1>1, <1>2 DEF Leftover
    <2>3. \A s \in ram \ held : coin[s] \notin {"none", "live"}
        BY <1>4 DEF FinishMelt, Leftover, VaultInv, Settled
    <2>4. QED
        BY <1>4, <2>1, <2>2, <2>3, SaveKeeps DEF FinishMelt
<1>5. CASE RemoveProofs
    <2> DEFINE kept == ram \ flow.req.inputs
    <2>1. PICK ok \in SaveResults(kept) :
            ram' = (IF ok THEN kept ELSE ram) /\ SaveProofs(kept, ok)
        BY <1>5 DEF RemoveProofs
    <2>2. /\ ok \in BOOLEAN
          /\ ok => ~degraded /\ nvsProofs' = kept
          /\ ~ok => nvsProofs' = nvsProofs
        BY <1>1, <2>1, SaveType DEF VaultInv, IndexInv, TypeOK
    <2>3. coin' = coin /\ degraded' = degraded /\ flow' = Idle
        BY <1>5 DEF RemoveProofs, mintVars
    <2>4. Signed'
        BY <1>1, <1>2, <2>1, <2>2, <2>3, IdleFlow DEF Signed
    <2>5. OnlyPaidReturn'
        BY <2>1, <2>2, <2>3 DEF VaultInv, OnlyPaidReturn
    <2>6. Settled' /\ Printed'
        BY <2>3, IdleFlow DEF Settled, Printed
    <2>7. QED
        BY <2>4, <2>5, <2>6
<1>6. CASE Reboot
    <2>1. /\ coin' = coin /\ nvsProofs' = nvsProofs /\ flow' = Idle
          /\ \/ ram' = nvsProofs
             \/ ram' = {} /\ degraded'
        BY <1>6 DEF Reboot, LoadResults, nvsVars, mintVars
    <2>2. Signed'
        BY <1>1, <1>2, <2>1, IdleFlow DEF Signed
    <2>3. OnlyPaidReturn'
        BY <2>1 DEF OnlyPaidReturn
    <2>4. Settled' /\ Printed'
        BY <2>1, IdleFlow DEF Settled, Printed
    <2>5. QED
        BY <2>2, <2>3, <2>4
<1>7. QED
    BY <1>3, <1>4, <1>5, <1>6

LEMMA VaultInvariant == Spec => []VaultInv
<1>1. Init => VaultInv
    <2> SUFFICES ASSUME Init PROVE VaultInv
        OBVIOUS
    <2>1. IndexInv
        BY IndexInit
    <2>2. Signed /\ OnlyPaidReturn /\ Settled /\ Printed
        BY IdleFlow DEF Init, Signed, OnlyPaidReturn, Settled, Printed
    <2>3. QED
        BY <2>1, <2>2 DEF VaultInv
<1>2. VaultInv /\ [Next]_vars => VaultInv'
    <2> SUFFICES ASSUME VaultInv, [Next]_vars PROVE VaultInv'
        OBVIOUS
    <2>1. IndexInv'
        BY StepType, StepPayments, StepReserves DEF VaultInv, IndexInv
    <2>2. CASE MintStep
        BY <2>1, <2>2, MintKeeps DEF VaultInv
    <2>3. CASE Open \/ (\E k \in Keysets : Stickup(k)) \/ LoadKeysets \/ Retry \/ GiveUp
        BY <2>1, <2>3, OpeningKeeps DEF VaultInv
    <2>4. CASE Adopt \/ FinishMelt \/ RemoveProofs \/ Reboot
        BY <2>1, <2>4, ClosingKeeps DEF VaultInv
    <2>5. CASE (\E k \in Keysets : OthersSpend(k)) \/ UNCHANGED vars
        <3>1. UNCHANGED <<ram, nvsProofs, degraded, exported, flow>>
            BY <2>5 DEF OthersSpend, vars, ramVars, nvsVars
        <3>2. QED
            BY <2>1, <3>1, HoldingsKept DEF VaultInv
    <2>6. QED
        BY <2>2, <2>3, <2>4, <2>5 DEF Next, Progress
<1>3. QED
    BY <1>1, <1>2, PTL DEF Spec

\* What a power loss would bring back beyond what RAM holds was taken by the
\* mint: remove_proofs, adopt_proofs and melt_tokens never forget a live proof
\* that flash still has.
THEOREM OnlyPaidReturns == Spec => []OnlyPaidReturn
<1>1. VaultInv => OnlyPaidReturn
    BY DEF VaultInv
<1>2. QED
    BY <1>1, VaultInvariant, PTL

-------------------------------------------------------------------------------
(* Refinement *)

LEMMA VaultInit == Init => Vault!Init
BY DEF Init, Vault!Init, Own

\* A step that leaves the blob alone is a move of the outside world.
LEMMA OutsideStep ==
    ASSUME VaultInv, [Next]_vars, UNCHANGED <<nvsProofs, degraded>>,
           exported \subseteq exported'
    PROVE  Vault!Outside
BY CoinsFollow DEF Vault!Outside, Own

\* A save either happened, over a wallet that is not degraded, or did not.
LEMMA StoreStep ==
    ASSUME VaultInv, [Next]_vars, UNCHANGED <<degraded, coin, exported>>,
           Signed', nvsProofs' # nvsProofs, ~degraded,
           nvsProofs \ nvsProofs' \subseteq
                exported \cup {s \in Secrets : coin[s] \notin {"none", "live"}}
    PROVE  Vault!Store
BY DEF Vault!Store, Signed

LEMMA CloseStep ==
    ASSUME VaultInv, [Next]_vars, Adopt \/ FinishMelt \/ RemoveProofs
    PROVE  Vault!Next
<1> DEFINE letGo == exported \cup {s \in Secrets : coin[s] \notin {"none", "live"}}
<1>1. /\ UNCHANGED <<degraded, coin, exported>>
      /\ \E held \in {ram \cup flow.sigs,
                      Leftover(flow.req.inputs) \cup flow.sigs,
                      Leftover(flow.req.inputs) \cup {},
                      ram \ flow.req.inputs} :
            \E ok \in SaveResults(held) : SaveProofs(held, ok)
    BY DEF Adopt, FinishMelt, RemoveProofs, mintVars
<1>2. Signed'
    BY ClosingKeeps
<1>3. nvsProofs \subseteq Secrets /\ ram \subseteq Own /\ flow.sigs \subseteq Own
    BY DEF VaultInv, IndexInv, TypeOK, Flows, Own
<1>4. CASE nvsProofs' = nvsProofs
    BY <1>1, <1>4, OutsideStep DEF Vault!Next
<1>5. CASE nvsProofs' # nvsProofs
    <2>1. ~degraded
        BY <1>1, <1>5 DEF SaveProofs, SaveResults
    <2>2. \A s \in nvsProofs \ ram : s \in letGo
        BY <1>3, <2>1 DEF VaultInv, OnlyPaidReturn
    <2>3. CASE Adopt
        <3>1. nvsProofs' = ram \cup flow.sigs
            BY <1>5, <2>3 DEF Adopt, SaveProofs
        <3>2. QED
            BY <1>1, <1>2, <1>5, <2>1, <2>2, <3>1, StoreStep DEF Vault!Next
    <2>4. CASE FinishMelt
        <3>1. ram \ flow.req.inputs \subseteq nvsProofs'
            BY <1>5, <2>4 DEF FinishMelt, SaveProofs, Leftover
        <3>2. \A s \in ram \cap flow.req.inputs : s \in letGo
            BY <1>3, <2>4 DEF FinishMelt, VaultInv, Settled, Own
        <3>3. QED
            BY <1>1, <1>2, <1>5, <2>1, <2>2, <3>1, <3>2, StoreStep DEF Vault!Next
    <2>5. CASE RemoveProofs
        <3>1. nvsProofs' = ram \ flow.req.inputs
            BY <1>5, <2>5 DEF RemoveProofs, SaveProofs
        <3>2. flow.req.inputs \subseteq exported
            BY <2>5 DEF RemoveProofs, VaultInv, Printed
        <3>3. QED
            BY <1>1, <1>2, <1>5, <2>1, <2>2, <3>1, <3>2, StoreStep DEF Vault!Next
    <2>6. QED
        BY <2>3, <2>4, <2>5
<1>6. QED
    BY <1>4, <1>5

\* The blob in flash behaves as ProofVault says, for every number of keysets,
\* quotes and flash faults.
THEOREM FlashImplementsVault == Spec => VaultSpec
<1>1. VaultInv /\ [Next]_vars => [Vault!Next]_(Vault!vaultVars)
    <2> SUFFICES ASSUME VaultInv, [Next]_vars PROVE [Vault!Next]_(Vault!vaultVars)
        OBVIOUS
    <2>1. CASE Adopt \/ FinishMelt \/ RemoveProofs
        BY <2>1, CloseStep
    <2>2. CASE Reboot
        <3>1. degraded' \in BOOLEAN /\ UNCHANGED <<nvsProofs, coin, exported>>
            BY <2>2 DEF Reboot, LoadResults, nvsVars, mintVars
        <3>2. QED
            BY <3>1 DEF Vault!Next, Vault!Restart
    <2>3. CASE MintStep
        <3>1. UNCHANGED <<nvsProofs, degraded, exported>>
            BY <2>3 DEF MintStep, MintSwaps, MintIssues, MintPays, MintDefers,
                        MintRefuses, PaymentEnds, Handle, ramVars, nvsVars
        <3>2. QED
            BY <3>1, OutsideStep DEF Vault!Next
    <2>4. CASE Open
        <3>1. UNCHANGED <<nvsProofs, degraded, exported>>
            BY <2>4 DEF Open, Receive, MintTokens, MeltTokens, Post
        <3>2. QED
            BY <3>1, OutsideStep DEF Vault!Next
    <2>5. CASE (\E k \in Keysets : Stickup(k) \/ OthersSpend(k)) \/ LoadKeysets
                    \/ Retry \/ GiveUp
        <3>1. UNCHANGED <<nvsProofs, degraded>> /\ exported \subseteq exported'
            BY <2>5 DEF Stickup, OthersSpend, LoadKeysets, Retry, GiveUp, ramVars,
                        nvsVars
        <3>2. QED
            BY <3>1, OutsideStep DEF Vault!Next
    <2>6. CASE UNCHANGED vars
        <3>1. UNCHANGED <<nvsProofs, degraded, exported>>
            BY <2>6 DEF vars, ramVars, nvsVars
        <3>2. QED
            BY <3>1, OutsideStep DEF Vault!Next
    <2>7. QED
        BY <2>1, <2>2, <2>3, <2>4, <2>5, <2>6 DEF Next, Progress
<1>2. QED
    BY <1>1, VaultInit, VaultInvariant, PTL DEF Spec, VaultSpec, Vault!Spec
===============================================================================
