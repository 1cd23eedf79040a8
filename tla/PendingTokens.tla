---------------------------- MODULE PendingTokens ----------------------------
(***************************************************************************)
(* The wallet slots and, per slot, the flash queue of tokens accepted      *)
(* offline: adding and removing mints, stashing, draining, seed wipe, and  *)
(* power loss between any two flash writes.  One operation at a time holds *)
(* the store mutex; its flash writes are separate steps because each one   *)
(* is durable by itself, and may fail by itself where it touches a queue.  *)
(*                                                                         *)
(* A wallet's proofs are abstracted to the mints that signed them; how a   *)
(* swap moves them is the subject of WalletCustody.                        *)
(***************************************************************************)
EXTENDS Naturals, Sequences, Functions

CONSTANTS
    MaxMints,   \* MAX_MINTS
    PendMax,    \* PEND_MAX
    Mints,
    NoMint,
    Tokens,     \* tokens that payers present
    NoToken,
    MintOf,     \* the mint named in each token
    MaxStash    \* bound: stashes in a behaviour

ASSUME PendingAssumption ==
    /\ MaxMints \in Nat \ {0}
    /\ PendMax \in Nat \ {0}
    /\ MaxStash \in Nat
    /\ NoMint \notin Mints
    /\ NoToken \notin Tokens
    /\ MintOf \in [Tokens -> Mints]

Slots == 0 .. (MaxMints - 1)
Places == 0 .. (PendMax - 1)

VARIABLES
    wallets,    \* s_wallets: the mint of each slot in RAM
    cash,       \* proofs_ of each slot: the mints that signed them
    url,        \* the url_<slot> keys
    blob,       \* the proofs_<slot> blobs
    count,      \* the pendn_<slot> keys
    item,       \* the pend_<slot>_<i> keys
    job,        \* the operation that holds the store mutex
    online,     \* wifi_is_connected()
    accepted,   \* tokens whose payer was told they were accepted offline
    stashes,    \* how many stashes there were
    redeemed,   \* tokens this device swapped
    dropped,    \* tokens a rewrite had in hand when it failed to write them back
    cut         \* the multi-write operations that a power loss or a failed write cut

ramVars == <<wallets, cash>>
queueVars == <<count, item>>
slotVars == <<url, blob>>
tokenVars == <<accepted, stashes, redeemed, dropped>>
vars == <<ramVars, queueVars, slotVars, job, online, tokenVars, cut>>

-------------------------------------------------------------------------------
(* Operations in progress *)

NoJob == [op |-> "none", slot |-> 0, todo |-> {}, kept |-> <<>>, at |-> 0]

\* op: stash (item written, count not), drain (the items at the places `todo` are
\* still to be tried), rewrite (erasing place `at`), restore (writing kept[at + 1]),
\* remove (the url key of `slot` is gone, the slots `todo` follow).
Jobs ==
    [op: {"none", "stash", "drain", "rewrite", "restore", "remove"},
     slot: Slots, todo: SUBSET (Places \cup Slots), kept: Seq(Tokens), at: 0 .. PendMax]

\* Places and slots are visited in ascending order.
Least(i, S) == i \in S /\ \A j \in S : i <= j

Idle == job = NoJob

\* The queue of job.slot is between its old and its new state.
Rewriting == job.op \in {"rewrite", "restore"}

Find(m) == {s \in Slots : wallets[s] = m}

Free == {s \in Slots : wallets[s] = NoMint}

\* list_pending_tokens: the places below the count with a readable item.
Listed(s) == {i \in Places : i < count[s] /\ item[s][i] # NoToken}

\* The proofs a boot loads: only slots with a url get a wallet.
Booted == [s \in Slots |-> IF url[s] = NoMint THEN {} ELSE blob[s]]

\* receive on slot s: swap, adopt, save.
Credit(s, t) ==
    /\ redeemed' = redeemed \cup {t}
    /\ cash' = [cash EXCEPT ![s] = @ \cup {MintOf[t]}]
    /\ blob' = [blob EXCEPT ![s] = cash'[s]]

Redeemable(t) == online /\ t \notin redeemed

-------------------------------------------------------------------------------
(* Adding, receiving, removing *)

\* wallet_store_get_or_create for a mint without a wallet.
AddMint(m) ==
    /\ Idle
    /\ Find(m) = {}
    /\ \E s \in Slots :
        /\ Least(s, Free)
        /\ wallets' = [wallets EXCEPT ![s] = m]
        /\ cash' = [cash EXCEPT ![s] = {}]
        /\ url' = [url EXCEPT ![s] = m]
    /\ UNCHANGED <<blob, queueVars, job, online, tokenVars, cut>>

\* A token presented online is redeemed at once.
ReceiveOnline(t) ==
    /\ Idle
    /\ Redeemable(t)
    /\ \E s \in Find(MintOf[t]) : Credit(s, t)
    /\ UNCHANGED <<wallets, url, queueVars, job, online, accepted, stashes, dropped, cut>>

\* `mint remove` takes one slot, `seed wipe` every occupied slot in order;
\* erase_nvs of the first begins with its url.
BeginRemove(slots) ==
    /\ Idle
    /\ \E s \in Slots :
        /\ Least(s, slots)
        /\ job' = [NoJob EXCEPT !.op = "remove", !.slot = s, !.todo = slots \ {s}]
        /\ url' = [url EXCEPT ![s] = NoMint]
    /\ UNCHANGED <<ramVars, blob, queueVars, online, tokenVars, cut>>

\* Mutant: the proofs stay in flash.
LeaveProofs ==
    /\ job.op = "remove"
    /\ wallets' = [wallets EXCEPT ![job.slot] = NoMint]
    /\ cash' = [cash EXCEPT ![job.slot] = {}]
    /\ job' = NoJob
    /\ UNCHANGED <<slotVars, queueVars, online, tokenVars, cut>>

\* ... then its proofs (and keysets), then the wallet object goes; the pending
\* queue is not touched.
FinishRemove ==
    /\ job.op = "remove"
    /\ blob' = [blob EXCEPT ![job.slot] = {}]
    /\ wallets' = [wallets EXCEPT ![job.slot] = NoMint]
    /\ cash' = [cash EXCEPT ![job.slot] = {}]
    /\ \/ job.todo = {} /\ job' = NoJob /\ UNCHANGED url
       \/ \E s \in Slots :
            /\ Least(s, job.todo)
            /\ job' = [job EXCEPT !.slot = s, !.todo = @ \ {s}]
            /\ url' = [url EXCEPT ![s] = NoMint]
    /\ UNCHANGED <<queueVars, online, tokenVars, cut>>

-------------------------------------------------------------------------------
(* Stashing *)

\* nfc_redeem_or_stash offline, for a mint with a wallet: write the item ...
StashItem(t) ==
    /\ Idle
    /\ ~online
    /\ stashes < MaxStash
    /\ \E s \in Find(MintOf[t]) :
        /\ count[s] < PendMax
        /\ item' = [item EXCEPT ![s][count[s]] = t]
        /\ job' = [NoJob EXCEPT !.op = "stash", !.slot = s, !.kept = <<t>>]
    /\ stashes' = stashes + 1
    /\ UNCHANGED <<ramVars, slotVars, count, online, accepted, redeemed, dropped, cut>>

\* The payer is told that the token is accepted: from here on it may not be lost.
Accept(t) ==
    /\ accepted' = accepted \cup {t}
    /\ dropped' = dropped \ {t}

\* Mutant: no PEND_MAX guard where the count is raised.
StashTwice ==
    /\ job.op = "stash"
    /\ count' = [count EXCEPT ![job.slot] = @ + 2]
    /\ Accept(job.kept[1])
    /\ job' = NoJob
    /\ UNCHANGED <<ramVars, slotVars, item, online, stashes, redeemed, cut>>

\* ... then the count, and tell the payer.
StashCount ==
    /\ job.op = "stash"
    /\ count' = [count EXCEPT ![job.slot] = @ + 1]
    /\ Accept(job.kept[1])
    /\ job' = NoJob
    /\ UNCHANGED <<ramVars, slotVars, item, online, stashes, redeemed, cut>>

\* The count is not written, or its commit fails although it is: the exchange ends
\* in an error, and the payer keeps the token.
StashFails ==
    /\ job.op = "stash"
    /\ \/ UNCHANGED count
       \/ count' = [count EXCEPT ![job.slot] = @ + 1]
    /\ job' = NoJob
    /\ UNCHANGED <<ramVars, slotVars, item, online, tokenVars, cut>>

-------------------------------------------------------------------------------
(* Draining *)

\* wifi_drain_task visits a slot with a wallet and a non-empty queue.
DrainStart(s) ==
    /\ Idle
    /\ online
    /\ wallets[s] # NoMint
    /\ Listed(s) # {}
    /\ job' = [NoJob EXCEPT !.op = "drain", !.slot = s, !.todo = Listed(s)]
    /\ UNCHANGED <<ramVars, slotVars, queueVars, online, tokenVars, cut>>

\* The next item is redeemed and not retained.
DrainRedeem ==
    /\ job.op = "drain"
    /\ \E i \in Places :
        LET t == item[job.slot][i]
        IN  /\ Least(i, job.todo)
            /\ MintOf[t] = wallets[job.slot]
            /\ Redeemable(t)
            /\ Credit(job.slot, t)
            /\ job' = [job EXCEPT !.todo = @ \ {i}]
    /\ UNCHANGED <<wallets, url, queueVars, online, accepted, stashes, dropped, cut>>

\* A token of another mint, or one whose redemption failed, is retained: the
\* link may be down, the mint out of reach, the token spent.
DrainRetain ==
    /\ job.op = "drain"
    /\ \E i \in Places :
        /\ Least(i, job.todo)
        /\ job' = [job EXCEPT !.todo = @ \ {i}, !.kept = Append(@, item[job.slot][i])]
    /\ UNCHANGED <<ramVars, slotVars, queueVars, online, tokenVars, cut>>

\* The rewrite cannot open flash: the queue stays as it is.
DrainOpenFails ==
    /\ job.op = "drain"
    /\ job.todo = {}
    /\ job' = NoJob
    /\ UNCHANGED <<ramVars, slotVars, queueVars, online, tokenVars, cut>>

\* The rewrite erases every place, whatever becomes of each ...
DrainErase ==
    /\ \/ job.op = "drain" /\ job.todo = {}
       \/ job.op = "rewrite"
    /\ \/ item' = [item EXCEPT ![job.slot][job.at] = NoToken]
       \/ UNCHANGED item
    /\ job' = IF job.at + 1 < PendMax
              THEN [job EXCEPT !.op = "rewrite", !.at = @ + 1]
              ELSE [job EXCEPT !.op = "restore", !.at = 0]
    /\ UNCHANGED <<ramVars, slotVars, count, online, tokenVars, cut>>

\* Mutant: writing back ends at the first failure.
RestoreStops ==
    /\ job.op = "restore"
    /\ job.at < Len(job.kept)
    /\ LET t == job.kept[job.at + 1]
       IN  \/ /\ item' = [item EXCEPT ![job.slot][job.at] = t]
              /\ job' = [job EXCEPT !.at = @ + 1]
              /\ UNCHANGED <<dropped, cut>>
           \/ /\ dropped' = dropped \cup {t}
              /\ cut' = cut \cup {"rewrite"}
              /\ job' = NoJob
              /\ UNCHANGED item
    /\ UNCHANGED <<ramVars, slotVars, count, online, accepted, stashes, redeemed>>

\* ... writes the retained tokens back one by one, going on after a failure ...
DrainRestore ==
    /\ job.op = "restore"
    /\ job.at < Len(job.kept)
    /\ job' = [job EXCEPT !.at = @ + 1]
    /\ LET t == job.kept[job.at + 1]
       IN  \/ /\ item' = [item EXCEPT ![job.slot][job.at] = t]
              /\ UNCHANGED <<dropped, cut>>
           \/ /\ dropped' = dropped \cup {t}
              /\ cut' = cut \cup {"rewrite"}
              /\ UNCHANGED item
    /\ UNCHANGED <<ramVars, slotVars, count, online, accepted, stashes, redeemed>>

\* Mutant: the count is left as it was.
KeepCount ==
    /\ job.op = "restore"
    /\ job.at = Len(job.kept)
    /\ job' = NoJob
    /\ UNCHANGED <<ramVars, slotVars, queueVars, online, tokenVars, cut>>

\* ... and the count last (erased when nothing was retained).  A count that cannot
\* be written stays too high.
DrainCount ==
    /\ job.op = "restore"
    /\ job.at = Len(job.kept)
    /\ \/ /\ count' = [count EXCEPT ![job.slot] = Len(job.kept)]
          /\ UNCHANGED cut
       \/ /\ cut' = cut \cup {"rewrite"}
          /\ UNCHANGED count
    /\ job' = NoJob
    /\ UNCHANGED <<ramVars, slotVars, item, online, tokenVars>>

-------------------------------------------------------------------------------
(* The surroundings *)

WifiChanges ==
    /\ online' = ~online
    /\ UNCHANGED <<ramVars, slotVars, queueVars, job, tokenVars, cut>>

\* wallet_store_init rebuilds the slots from their urls.
PowerLoss ==
    /\ wallets' = url
    /\ cash' = Booted
    /\ job' = NoJob
    /\ online' = FALSE
    /\ dropped' = dropped \cup (IF Rewriting THEN Range(job.kept) ELSE {})
    /\ cut' = cut \cup (CASE job.op = "remove" -> {"erase"}
                          [] Rewriting -> {"rewrite"}
                          [] OTHER -> {})
    /\ UNCHANGED <<slotVars, queueVars, accepted, stashes, redeemed>>

-------------------------------------------------------------------------------

Init ==
    /\ wallets = [s \in Slots |-> NoMint]
    /\ cash = [s \in Slots |-> {}]
    /\ url = [s \in Slots |-> NoMint]
    /\ blob = [s \in Slots |-> {}]
    /\ count = [s \in Slots |-> 0]
    /\ item = [s \in Slots |-> [i \in Places |-> NoToken]]
    /\ job = NoJob
    /\ online = FALSE
    /\ accepted = {}
    /\ stashes = 0
    /\ redeemed = {}
    /\ dropped = {}
    /\ cut = {}

Occupied == {s \in Slots : wallets[s] # NoMint}

Drain ==
    \/ \E s \in Slots : DrainStart(s)
    \/ DrainRedeem \/ DrainRetain
    \/ DrainOpenFails \/ DrainErase \/ DrainRestore \/ DrainCount

Next ==
    \/ \E m \in Mints : AddMint(m)
    \/ \E t \in Tokens : ReceiveOnline(t) \/ StashItem(t)
    \/ \E s \in Occupied : BeginRemove({s})
    \/ BeginRemove(Occupied)
    \/ FinishRemove
    \/ StashCount
    \/ StashFails
    \/ Drain
    \/ WifiChanges
    \/ PowerLoss

Spec == Init /\ [][Next]_vars

\* The link, the mints and the drain task all behave: every slot is visited
\* again and again while online, and a redemption that stays possible happens.
\* The code promises less; it is the most a comment could rely on.
FairSpec ==
    /\ Spec
    /\ \A s \in Slots : SF_vars(DrainStart(s))
    /\ SF_vars(DrainRedeem)
    /\ WF_vars(DrainRetain)
    /\ WF_vars(StashCount \/ FinishRemove \/ DrainErase \/ DrainRestore \/ DrainCount)

-------------------------------------------------------------------------------
(* Properties *)

TypeOK ==
    /\ wallets \in [Slots -> Mints \cup {NoMint}]
    /\ cash \in [Slots -> SUBSET Mints]
    /\ url \in [Slots -> Mints \cup {NoMint}]
    /\ blob \in [Slots -> SUBSET Mints]
    /\ count \in [Slots -> 0 .. PendMax]
    /\ item \in [Slots -> [Places -> Tokens \cup {NoToken}]]
    /\ job \in Jobs
    /\ online \in BOOLEAN
    /\ accepted \subseteq Tokens
    /\ stashes \in 0 .. MaxStash
    /\ redeemed \subseteq Tokens
    /\ dropped \subseteq Tokens
    /\ cut \subseteq {"erase", "rewrite"}

\* The token waits in the queue of slot s, or in the rewrite of that queue.
Waiting(s, t) ==
    \/ \E i \in Listed(s) : item[s][i] = t
    \/ Rewriting /\ job.slot = s /\ t \in Range(job.kept)

\* A token whose payer was told it is accepted stays queued until this device
\* redeems it, through failed drains, failed flash writes, removed mints and
\* restarts.  drain_pending_tokens can lose it in one place only: its rewrite has
\* the retained tokens in RAM alone, so that a power loss inside it may take them,
\* and one that it fails to write back is gone ("retained tokens may be lost").
\* The failure of one write takes that token and no other.
StashedKept ==
    \A t \in accepted \ (redeemed \cup dropped) : \E s \in Slots : Waiting(s, t)

\* A wallet never shows proofs of another mint, also when its slot was used
\* before; only a power loss between erasing the url and the proofs in
\* erase_nvs leaves a blob for the slot's next mint to load.
WalletPure == "erase" \notin cut => \A s \in Slots : cash[s] \subseteq {wallets[s]}

\* Between operations every item below the count is readable, barring the power
\* loss or the failed write in a rewrite (a failed erasure does no harm, nor does a
\* stash that fails), so a queue that says it is full can be drained.
QueueDense ==
    "rewrite" \notin cut /\ Idle => \A s \in Slots : Listed(s) = 0 .. (count[s] - 1)

\* wallet_nvs.cpp's schema comment, with no exception for a power loss:
\* pendn_<slot> is the current count of the items.
CountCurrent == Idle => \A s \in Slots : Listed(s) = 0 .. (count[s] - 1)

\* A token in the queue of one slot while its mint's wallet is in another.
WrongSlot(t) ==
    /\ t \notin redeemed
    /\ \E s \in Slots : Waiting(s, t) /\ wallets[s] # MintOf[t]
    /\ Find(MintOf[t]) # {}

\* drain_pending_tokens: a token stashed against the wrong slot is kept, and
\* another wallet's drain pass will pick it up.
WrongSlotPickedUp == \A t \in Tokens : []<>~(online /\ WrongSlot(t))
===============================================================================
