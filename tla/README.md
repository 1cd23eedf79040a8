# Verification of the nucula firmware

nucula is an ESP32 hardware wallet for Cashu ecash: it receives tokens over a
serial console and over NFC, swaps them at a mint over HTTPS, keeps the
resulting proofs in flash (NVS) and pays Lightning invoices with them.  A proof
is money: a secret with the mint's signature.  Losing one is losing money, and
so is asking the mint to sign the same secret twice.  This directory models the
parts of the firmware where that can happen, checks the models with TLC and
proves the central properties with TLAPS.

## 1. Inventory

All paths are under `src/main/` unless said otherwise.

| Component | State it keeps | Operations | Talks to |
|---|---|---|---|
| wallet core (`wallet.cpp`, `wallet.hpp`) | `proofs_`, `keysets_`, `degraded_`, one wallet per slot | `adopt_proofs`, `remove_proofs`, `select_proofs`, `calculate_fee` | flows, NVS |
| flows (`wallet_flows.cpp`) | nothing between calls; request and blinding data on the stack | `receive`/`swap`, `mint_tokens`, `melt_tokens`, quotes | HTTP client, wallet core |
| blinding, counters (`wallet_blind.cpp`, `wallet_identity.cpp`) | seed, NUT-13 counter per keyset, P2PK key | `generate_outputs`, `unblind_signatures`, `load_counter`, `save_counter`, seed commands | NVS |
| persistence (`wallet_nvs.cpp`) | `url_`, `proofs_`, `k_`/`kn_`, `pend_`/`pendn_` keys per slot | save and load of each, `erase_nvs` | flash |
| pending queue (`wallet_nvs.cpp:393-575`) | up to 8 tokens per slot | stash, list, drain | flash, `receive` |
| wallet store (`wallet_store.cpp`) | `s_wallets[3]`, one recursive mutex | find, get-or-create, remove, remove-all, init | everything that holds a wallet pointer |
| keyset sync (`wallet_keysets.cpp`, `keyset.cpp`) | `keysets_` | fetch, validate ids, drop collisions, merge, resolve short ids | HTTP client, NVS |
| HTTP client (`http.c`) | two cached connections, one mutex | GET, POST with one retry, prewarm, close-all | mints |
| link (`wifi.c`) | connected bit, retry count | event handler, supervisor task | HTTP client, drain task |
| boot and drain task (`nucula.cpp`) | back-off | boot order; drain passes while online | wallet store |
| NFC redeem (`nfc_common.cpp`) | - | redeem online, stash offline | wallet store, flows |
| NFC session (`nfc.cpp`, `nfc_reader.cpp`) | state, stop flag, task handle, done semaphore, received token | start, stop, the session task | NDEF, NFC redeem, UI |
| NDEF tag (`ndef.cpp`) | selected file, receive buffer, expected length | SELECT, READ BINARY, UPDATE BINARY | NFC session |
| keypad and UI (`keypad.c`, `ui.cpp`, `button.c`) | UI state machine, key queue | key events, NFC polling, frames | NFC session, wallet store |
| console (`console.cpp`, `commands_*.cpp`) | command table | about 25 commands | wallet store, flows, NFC session |
| codecs (`cashu_json.cpp`, `cashu_cbor.cpp`, `base64url.cpp`, `wallet_blob.cpp`, `unit.cpp`, `nut10.cpp`) | - | tokens, quotes, blobs, amounts | flows |
| crypto (`crypto.c`, `crypto_bls.c`, `bip39.c`, `hex.c`) | - | blind signatures, DLEQ, mnemonic | blinding |
| display, buses, chip drivers (`display*.c*`, `i2c_bus.c`, `components/pn7160`, `components/rc522`) | frame buffer, registers | I/O | UI, NFC session |
| bench rig and tests (`rig/`, `tests/` beside `main/`) | - | drive the device | - |

What is hard here:

* **Money in flight.** A POST has left, the answer has not come, the power goes
  out.  The mint may or may not have signed; the request may have been sent
  twice (`http.c:185`); the mint may handle either copy much later.
* **Two copies of the proofs.** RAM and flash are updated one after the other,
  and most callers ignore what `save_proofs` returns.
* **Several flash writes that belong together**: the rewrite of the pending
  queue, the erasure of a slot, the keyset blobs.
* **Tasks**: console, keypad UI, NFC session, drain task, wifi supervisor, wifi
  event handler.  They share the store mutex, the HTTP mutex, the UI mutex and
  a few unguarded globals.
* **Partial trust in time**: a five second limit on stopping the NFC task, a
  five second poll of the link in the drain task, 100 ms for a frame.

What makes each part correct:

* flows and counters: a derivation index is in flash before it is offered, and
  is never offered again; every flow ends and releases the store;
* persistence: the proofs in flash are only signed proofs, and one leaves only
  when it was printed as a token or taken by the mint;
* pending queue: an accepted token stays until redeemed; the count and the
  items agree;
* store: a slot never shows another mint's proofs;
* drain task: a queued token is tried after a reconnect;
* NFC session and UI: one session at a time, its result is the one shown, the
  UI comes back from every session;
* NDEF: only a complete message reaches the callback;
* amounts: outputs and fee add up to the inputs; selection covers its fee;
* keysets: ids stay distinct, a known keyset is not lost.

## 2. Modules

| Module | Models |
|---|---|
| `ProofVault` | abstract specification: what the firmware promises about the durable proofs of one slot |
| `WalletCustody` | one wallet against its mint: RAM, flash, counters, flows, network, power loss |
| `WalletCustodyProofs` | theorems: types, reserved and fresh outputs, what a reboot can bring back, refinement of `ProofVault` |
| `PendingTokens` | slots, offline queue, drain, removal and seed wipe, power loss between flash writes |
| `KeysetSync` | the keyset list: both requests of a refresh, merge, and a save written item by item |
| `HttpConns`, `WifiLink` | the two cached connections and their mutex; station, fast retries and supervisor on top |
| `StoreTasks` | console, NFC session, drain and keypad over three mutexes; the screen they refresh |
| `NdefTag` | the emulated tag: file selection, receive buffer, which write completes a message |
| `NfcSession` | extends `NdefTag`: session task, start and stop, semaphore, the keypad's screen |
| `TagReader` | the boards that read tags: RC522, session, `nfcdump`, tags that come and go |
| `CborItems`, `TokenV4`, `PayRequest`, `CashuJson`, `ProofBlob` | what is written and read back: tokens, requests, JSON, the stored proofs |
| `Lists` | the loops over a vector that all of these use: keep some elements, add up, join |
| `Amounts`, `BlindSigs` | fees, splits, selection, keyset choice; the algebra of blind signatures |
| `Purse` | one wallet's flows on real amounts, points and bytes, over the eight modules above |
| `PendingTokensProofs`, `KeysetSyncProofs`, `WifiLinkProofs`, `StoreTasksProofs`, `TagReaderProofs` | theorems about the module each is named after |
| `NfcSessionProofs` | theorems about `NfcSession` and the `NdefTag` inside it |
| `PurseInv` | the inductive invariant of `Purse`, which TLC checks and `PurseProofs` proves |
| `PurseProofs` | theorems about `Purse`, and lemmas about the operators of the modules under it |
| `MC*` | instances for TLC |

How they fit: `WalletCustody` is about *when* things happen to proofs (failures,
reordering, power) and leaves their values out; `Purse` is about the values and
runs one step after the other; `StoreTasks` is about who may run at all;
`PendingTokens` and `KeysetSync` take the flash copies that `WalletCustody`
leaves out.

### WalletCustody

A proof is identified with its secret.  A secret of ours is a keyset and a
derivation index (or, without a seed, the n-th random draw of that keyset);
another person's proof is a number.  One keyset per unit stands for
`active_keyset_for_mint`.  Amounts are left out: how many outputs a request
carries and which proofs `select_proofs` takes are arbitrary, so whatever holds
here holds for every split and every selection.

| Variable | Code |
|---|---|
| `ram`, `degraded`, `known` | `proofs_`, `degraded_`, the ids in `keysets_` |
| `flow` | the one flow inside the store mutex: its request, which of the two HTTP attempts it is in, the answer it has |
| `nvsProofs`, `hasBlob`, `nvsCounter` | keys `proofs_<slot>` and `c_<keyset>` |
| `wire` | request bodies the network still holds; an aborted attempt's body stays there and may be handled at any later time, also after a reboot |
| `coin`, `claimed`, `payments` | the mint: state of every secret, quotes issued, payments in flight (outside `src/`) |
| `exported` | proofs printed by `stickup` |

Each flow has three kinds of steps.  *Opening* (`Receive`, `MintTokens`,
`MeltTokens`) reads and saves the counter and sends the body: all of
`generate_outputs` and the first half of `mint_post`.  The *mint and network*
steps take any body at any time, in any order, and answer only if the wallet
still waits.  *Closing* is `Retry` (second attempt), `GiveUp` (error, or an
answer that does not parse or unblind), `Adopt` or `FinishMelt` (new proofs in
RAM, then one `save_proofs`).  `Stickup` is two steps, print and remove, because
power may go out in between.  `Reboot` is power loss plus `load_from_nvs`.
`wire` is a set: the two bodies of a retried request are equal, and a second
copy that the mint handles is refused because its inputs are spent or its
outputs signed; a mint that answers a repeated request from a cache is not
modelled.

Flash faults are chosen per instance (`NvsFaults`): a failed write of the
proofs or the counter, an unreadable proofs blob, unreadable keysets, a
namespace that does not open when the counter is read.  A set of an NVS key is
durable at once, as in the host tests' shim (`tests/host/nvs_shim.cpp`).

### ProofVault

Three steps: the outside world signs more and takes more; one store rewrites
the vault, unless it is frozen, with signed proofs, dropping only proofs that
were let go; a restart decides whether the vault is frozen.  `WalletCustody`
implements it with `vault` = the blob, `frozen` = `degraded`, `issued` = what
the mint has signed, `letGo` = what was printed or left the state "live" at the
mint.

### PendingTokens

Slots, their `url_`, `proofs_`, `pendn_` and `pend_` keys, the operation that
holds the store mutex, and power loss between any two flash writes of one
operation: stash (item, then count), drain (items redeemed one by one, then
erased, rewritten, counted), slot removal (url, then the rest; `seed wipe`
takes the slots in turn).  A wallet's proofs are reduced to the mints that
signed them.  Each write to a queue may also fail, with what the code does then: a
stash ends in an error, so that the payer keeps the token; the rewrite at the end
of a drain does not begin when flash does not open, and else goes on past every
failed erasure, item and count and only logs it.  `cut` remembers which operations
a power loss or a failed write left half done, and `dropped` the retained tokens
that were in RAM alone when that happened, so that a property can name exactly the
exception the code makes.  Failing writes of an erased or added slot and of the
proofs are left out here (`WalletCustody` has the latter).  The check that an
offline token's mint has keysets is left out too (any wallet may stash), and tokens
that do not decode never get in.  What the code does place by place or slot by slot,
in ascending order, is a set of those still to visit, of which the least comes next.

### NdefTag

A message is a number of cells; the two length bytes at offset 0 are kept apart.
A reader comes with a message and a way to write it (`Strategies`): the whole
file in one command, in chunks from its start, the length alone and then the
body, or length 0, body, length.  It may leave between any two commands.
`WriteLength` and `WriteBody` are UPDATE BINARY at offset 0 and behind it:
refusals, the copy into `s_recv_buf`, the decision that the message is complete
and, in the same step as in the code, the parse and the hand-over to `s_rx`.
READ BINARY changes nothing and is left out; so are record syntax beyond "the
whole length is there" and the ways a token hides in a URL.

### NfcSession

The loop of `nfc_task` handles one frame per turn, so `NfcSession` extends
`NdefTag` and lets a polling session perform the tag's actions.  A session's
task is starting (request, lock of the store), looping (the head of the loop:
stop flag, clock), polling, redeeming (a token is in `s_rx`, the task waits for the
store), paying (the token is decoded), closing, giving (handle cleared, semaphore
not yet given) or gone.  The console and the keypad task each run
`nfc_request_start` in two steps (the look at the handle, the rest) and
`nfc_request_stop` in two (flag and look at the handle, end of the wait).  All
globals of the code are single variables here too, so two sessions share flag,
state, buffer and semaphore as they do there.  The hand-over is by reference as in the code
(`nfc.cpp:219`): `Decode` reads what is in `s_rx` when the store's lock is the
task's own, not what was there when the payer's write was accepted, and a start
clears `s_rx` whoever waits.  Between the decoding and the swap, or the stash of the
text itself, the task waits for nothing that lets a caller run, so these are one
step.  `Scheduled` is the priority order on the single core.  `result`, `mine`,
`owed` (texts a payer saw accepted and no session has decoded) and `wiped` (of
these, what another session took out of `s_rx`) are history.
Whether a redemption pays is arbitrary (that is `PendingTokens` and
`WalletCustody`), except that a text that is no whole token cannot.  Amount
entry on the keypad is not modelled.

### TagReader

Boards with an RC522 read tags instead of being one (`nfc_reader.cpp` over
`components/rc522/rc522.c`).  The state is the chip's registers as far as one
user can leave them wrong for another (`field`, `crc`, `timer`, `fifo`, `irq`),
the tag at the antenna, and for each user (a session, or the console's
`nfcdump`) its place, its exchange and what it has read.  An exchange is three
steps - load the FIFO, send, collect - since single register accesses are all
that is atomic and nothing locks the chip; a tag may come, go or be swapped at
any step.  A session's way: antenna on, poll (reset, REQA, WUPA, select), then
RATS and READ BINARY, or the type 2 pages, also as the fallback, and back to
the loop or on to the redemption.  `failed` and `alone` are history.

The model keeps one departure of the code visible.  `rc522_isodep_connect`
sets the timer to 20 ms for RATS, and its `fail:` exit (line 598) restores the
modes and not the timer; no poll sets it, so every later poll waits 20 ms,
although lines 261-262 say that 25 ms is too short for many cards.  Only an
ISO-DEP session that comes up and ends, or a reboot, cures it.  `RestsClean` and
`HeldTagTaken` name this exception.  Two more things hold only as far as the
properties say: the antenna is on for as long as *some* session runs, which
includes one that a stop has abandoned; and a session that another user
disturbed may take the other's answer for its own, as an answer to READ carries
no page number.

### HttpConns, WifiLink

A slot of the client (`s_slots`) has an origin and a socket that is closed, open
or dead; `http` is the mutex with the request its owner makes.  A request is
begin (find or evict), answer, error (close the socket, second attempt) and
finish; the supervisor's `http_close_all` waits for the mutex like a request.
`WifiLink` adds the access point and the driver (outside `src/`), the event
handler's fast retries and the supervisor's loop, step by step, because the
event handler may run between any two of its steps.

### StoreTasks

Four tasks and three mutexes (store, UI, http).  Per task the model keeps where
it stands between takings and givings; of a wallet operation it keeps whether
the home screen must change.  `frame` and `panel` are the frame buffer and the
display, `debt` is history: a refresh that was skipped because the store was
busy for 100 ms, or that the code never tries.  The drain task is whole: wait
for the link, passes slot by slot, back-off, and the parked loop.  A pass that
retained every token counts neither as redeemed nor as failed, so it ends without a
refresh (`nucula.cpp:67`); `FrameHeals` excuses a skip that it, or an operation that
fails, caused and nobody made good.

### KeysetSync

A refresh is two requests between which the mint may rotate; then
`build_validated_keysets`, the collision check, `merge_keysets` and
`save_keysets` item by item with refusals and power loss between.  `short` is
history: flash may lack keysets because a write was refused, the cap was met or
the older single-blob format was being replaced.  Key material is left out: an
id either derives from its keys or not.  The rows of a refresh are a set, since the
mint may list them in any order; the wallet's list is a sequence, and `Place` says
which item of flash each of its entries is saved to, in the order of the stable sort.
The count is cut to a byte before it is compared with the cap
(`wallet_nvs.cpp:253`), so a list of 256 would be saved as none; a wallet gets there
only by seeing 246 new keysets without a reboot, and `CapKeepsHeld` excludes it.

### The data path: Purse and the modules under it

The codecs are operators: what the code writes is a sequence of items
(`CborItems`), an object (`CashuJson`) or a sequence of chunks (`ProofBlob`), and
the readers are translated with every check and every way out they have.
`TokenV4` reads a token the way `deserialize_token_v4` does, which stops quietly
where the stream does.  `Amounts` has the money arithmetic; `BlindSigs` the
algebra of `crypto.c` in the integers modulo a prime, where it can be computed
and where both DLEQ checks can fail for the reasons they fail on the curve.

`Purse` puts them together: `Stickup`, `Receive`, `Claim`, melting (`SelectForMelt`,
`PostMelt`, `AdoptChange`), showing a payment request, a reboot.  `job` is how far the flow is: decoded,
named (short keyset ids resolved), selected, posted, answered.  Its mint is
external and strict: it signs what adds up and keeps what was spent; its answers
may be damaged (signatures in another order, one missing, one without its DLEQ
or its point, one made with another key).  `forfeit` and `paid` are the accounts
that make "no money is lost" a statement about every step.  `copied` is history too:
what `Stickup` printed and could not remove, because its save failed ("token above is
a duplicate", `commands_wallet.cpp:582-585`), is in two hands, and once either has
redeemed it the other holds spent proofs, which is the exception `ProofsGenuine`
names.  The order in which
`select_proofs` lists what it selects is left out (no property depends on it): the
model keeps the proofs as they were listed.

The assumptions on the constants say what kind of mint and of wallet the flows are
about, and TLC checks them on the instance: each keyset of the mint once, with keys
for 1 and 2 among others (`MintAssumption`); an input fee of at most 1000 parts per
thousand, so that a proof is worth its fee (`FeesBearable`); an id's short
form is an id too, and hex when the id is (`ShortIds`); a wallet that starts with keysets of this mint
(`StartsAssumption`); the ways an answer may be damaged (`BoundsAssumption`); and
that the value `None` is none of the values it stands for the absence of
(`NoneApart`).  `PostsAddUp` speaks of amounts up to INT32_MAX, which is where the
code's `int` ends; what the wallet starts with and what a melt asks for are within
it.  A JSON amount beyond it counts as missing (`GetInt`, as `get_int` in
`cashu_json.cpp:18-27`), so a V3 token with one is refused; TLC's own integers end
there as well, so that case is covered by `TokensSound` and not by the run.

## 3. Runs

| Run | Expected | Question |
|---|---|---|
| `custody` | pass | Are derivation indexes in flash before they are offered, and never offered twice, whatever is lost, retried or delivered late?  Does every flow end? |
| `custody_units` | pass | With two units and every flash fault, does the blob implement the vault, and what can a reboot bring back? |
| `pending` | pass | Do accepted offline tokens survive drains, failed writes, removals and power losses but for what a rewrite has in RAM alone, do slots stay pure, do counts agree with items? |
| `nfc` | pass | With the keypad as the only caller and no session stuck for 5 s: one session at a time, idle only when none runs, the result shown is its own, the keypad comes back from every session, and a session gets exactly one payer's whole token, in the step in which that payer's last write is accepted. |
| `nfc_overrun` | pass | Whatever console and keypad do, also with two sessions at once: does a token whose write was accepted stay in the hand-off until a session decodes it, unless a session beside it takes it from there? |
| `nfc_result` | violation | Is the result the keypad pauses on (`ui.cpp:320`) the result of its session?  No: a session abandoned in its redemption (`nfc.cpp:327`) reports success into the next one. |
| `link` | pass | Is a request's client ever taken from it, does a dead cached socket alone fail a request, and does the link come back to an access point that stays? |
| `tasks` | pass | Can the tasks wait in a circle, does a skipped frame heal, and does a drain that is not parked go on while there is something to do and a link? |
| `keysets` | pass | Through rotations, refreshes and saves cut anywhere: are the keysets of held proofs in flash, and kept first above the cap? |
| `keyset_rotation` | violation | Does the wallet mint against an active keyset of the mint (`keyset.cpp:45-47`)?  No: one that was rotated out stays active in the wallet and stays its choice. |
| `purse` | pass | Is money conserved, what is adopted genuine, what is posted right, and does what is written read back? |
| `reader` | pass | With a session and `nfcdump` on one chip: is what is redeemed one tag's text, is the chip left as it was found, and is a token on a tag that is held there read? |

Departures that were found while modelling and have no run of their own (a run
answers one question, and these are settled by reading the lines): a degraded
wallet still mints and melts (`wallet_flows.cpp:612`, against `wallet.hpp:171-173`;
`DegradedRefuses` in `WalletCustody` states the comment and fails); the flows
ignore what `save_proofs` returns (`NeverRamOnly`, against `wallet_nvs.cpp:95-97`);
after a power loss or a failed write inside the rewrite of the queue `pendn_<slot>` is
not the count of the items (`CountCurrent` in `PendingTokens`, against `wallet_nvs.cpp:398`); a
token stashed under a wrong slot is never picked up by another wallet
(`WrongSlotPickedUp` under `FairSpec`, against `wallet_nvs.cpp:509`), because each
drain lists its own slot; a long token written in chunks from the file's start is
taken after the first chunk (against `ndef.hpp:14`); the RC522's timer after a
failed RATS (see `TagReader`); a token whose payer saw it accepted is lost when its
session waits for the store (`nfc_common.cpp:21`), a stop abandons it after 5 s, and
the next start clears the text it was given by reference (`nfc.cpp:311-312`, against
the hand-off comment at `nfc.cpp:50-52`; `HandedOff` in `NfcSession` states that
comment and fails, also with the keypad as the only caller); and a token stashed during a link flap shorter than
the parked drain task's 5 s look waits for the next loss of the link (against
`nucula.cpp:36-39`; this is why `DrainRearms` says "not parked" - without these
words, `DrainAlwaysRearms` in `StoreTasks`, it fails).

Bounds and why they are enough:

* `custody`: one keyset, 2 indexes, up to 2 outputs per request, 1 foreign
  proof, 1 quote, 2 bodies in flight, a blob of 1 proof.  Reuse of an index
  needs two requests on one keyset; an overtaken request needs two bodies in
  flight; a counter short by one needs a request of one output; a full blob
  needs two proofs.  `proofs_write`, `proofs_read` and `keyset_read` may fail;
  the counter keys are assumed to work (see below).
* `custody_units`: two keysets with one index each, two quotes, all faults.
  The question is what a flow on one unit does to the other's proofs and what
  a failed save leaves behind; one proof per unit shows both.
* `pending`: two slots and two mints make reuse of a slot by another mint
  possible, a queue of two places makes order and compaction matter, three
  stashes let one token come twice.  Both tokens are of one mint, so that one can
  be lost by a failed write and the other must not be; they are interchangeable,
  which is the symmetry used.
* `nfc`: three sessions, since a stale give needs one session to leave it, one
  to be stopped too early and one to be started beside it.  A buffer of four
  cells, chunks of two, messages of two (`t2`), three (`t1`, and `url` without a
  token) and five cells (`huge`, longer than the buffer).  Every pair of message
  and strategy is there except a token longer than a chunk in chunks from the
  file's start, the departure named above.
* `nfc_overrun`: two sessions, both callers, sessions that get stuck; the tag is
  as small as can be, its own questions are asked by `nfc`.
* `link`: three origins on two slots force evictions, two tasks force waiting for
  the mutex, three fast retries are enough to use them up and need the supervisor.
* `tasks`: two slots, so that a pass can redeem in one and fail in the other.
* `keysets`: three ids of two units with room for two; two of them share a
  prefix, one may have its fee raised, one flash starts in the older format, any
  write may be refused.  `keyset_rotation` needs none of the faults.
* `purse`: five keysets (two active of one unit, another unit, one rotated out that
  shares a short id with an active one, one with a legacy id), keys for 1, 2, 4
  and 8, a group of order 32003 in which the secrets and factors that occur have
  distinct images; eight starting situations, listed in `MCPurse`; three steps,
  enough to write a token, have it forwarded or cut, and redeem it, or to claim,
  reboot and melt.
* `reader`: one session beside `nfcdump`.  Of the tags, one is slower than the 20
  ms of RATS but not than the 100 ms of a poll, one asks for more time, one has
  no token.  A text is two READs, the least with a place to be torn at.

Fairness.  `custody` uses `FairSpec`: weak fairness on the steps a flow takes by
itself (`Progress`).  The task inside a flow is never blocked for ever: the
store mutex is already its own, each HTTP attempt ends by the client's timeout
(`esp_http_client_set_timeout_ms`, `http.c:191`), and there are two attempts.
Nothing is assumed of the mint, the network or the power.

`link` assumes that the supervisor's loop goes on (a vTaskDelay and calls that
return; strong fairness for its wait for the http mutex, which serves waiters),
that a request ends by its timeouts, and, of the world, that an access point which
stays accepts the station and gives it an address sooner or later.

`tasks` assumes strong fairness of each task's steps (mutexes serve waiters by
priority and then in order, and none is held for ever), and that a mint that is
asked again and again takes a pending token now and then; without the latter the
queue of a mint that refuses for good never empties.

`reader` assumes weak fairness of each user of the chip: its exchanges end by the
chip's timer or the loop's cap of 5000.  The 120 s timeout and the stop are not
assumed to happen, so that `HeldTagTaken` cannot be met by giving up.

`nfc` assumes weak fairness of every session's task (redemptions end by the HTTP
timeouts), of the keypad's 200 ms poll, of the end of its 2 s pause and of its
wait in a stop, which has a limit of its own.  Leaving the loop is strongly
fair: it is possible at every turn and, once the clock has passed 120 s
(`nfc.cpp:158`) or the stop flag is set, what the next turn does.
The properties of `nfc` are conditional on one caller and on prompt stops, and
each condition matters: with stuck sessions `ResultIsOwn` fails as in
`nfc_result`; with the console as the caller, which has the same priority as the
nfc task, `IdleIsIdle` fails, because a start can drain the semaphore between
the clearing of the handle and the give (`nfc.cpp:256`); with both, a start of
the console can fall between the two steps of a start of the keypad, and a stop
from the console leaves the keypad's screen in the session.

`OutputsReserved` and `NoOutputReuse` are conditional on the counter keys
working.  The code itself does not look: `generate_outputs` ignores
`save_counter`, and `load_counter` answers 0 when the namespace does not open.
`StashedKept`, `QueueDense` and `WalletPure` name the power loss, and the first two
the failed write of a rewrite, that they do not survive; the departures above and the
hazards list say what happens then.

## 4. Proofs

Every theorem holds for every value of the constants that the module's named
assumptions allow: any number of slots, tasks, sessions, keysets, tokens, places,
any bound.  The assumptions say what kind of thing a constant is (`MaxMints` is a
positive number, `MintOf` maps tokens to mints); the few that say more are named
below.  Each proof is an inductive invariant, checked on a run before it was proved,
with one step per action.

| Theorem | Property | Module |
|---|---|---|
| `TypeCorrect`, `OutputsAreReserved`, `OutputsAreFresh` | `TypeOK`, `OutputsReserved`, `NoOutputReuse` | `WalletCustody` |
| `OnlyPaidReturns`, `FlashImplementsVault` | `OnlyPaidReturn`, `VaultSpec` (refinement) | `WalletCustody` |
| `QueuesTyped`, `AcceptedNotLost`, `SlotsPure`, `QueuesDense` | `TypeOK`, `StashedKept`, `WalletPure`, `QueueDense` | `PendingTokens` |
| `KeysetsTyped`, `HeldStaysListed`, `CapPrefersHeld` | `TypeOK`, `HeldListed`, `CapKeepsHeld` | `KeysetSync` |
| `LinkTyped`, `ClientOwned`, `StaleRetried` | `TypeOK`, `RequestOwnsClient`, `StaleNeverFails` | `WifiLink`, `HttpConns` |
| `MutexesOwned`, `FramesHeal`, `NobodyWaitsInACircle` | `TypeOK`, `FrameHeals`, the lock order | `StoreTasks` |
| `SessionsTyped`, `PaymentsAnswered` | `TypeOK`, `AnsweredIsRedeemed` | `NfcSession` |
| `NothingWiped` | with the keypad alone, `AnsweredIsRedeemed` has no exception | `NfcSession` |
| `OneSessionAtATime`, `ResultShownIsOwn`, `IdleMeansIdle` | `OneSession`, `ResultIsOwn`, `IdleIsIdle` | `NfcSession` |
| `LastWriteTakes`, `HandedOverWhole` | `AnsweredIsTaken`, `TokensWhole` | `NdefTag` |
| `TagTextsWhole`, `ChipRestsClean` | `TextsWhole`, `RestsClean` | `TagReader` |
| `PurseInvariant`, `PurseTyped` | `Inv`, which implies `TypeOK` | `Purse` |
| `FlashKeepsProofs`, `TokensSound` | `FlashReadsBack`, `TokensReadBack` | `ProofBlob`, `CashuJson`, `TokenV4` |
| `SelectionsSound`, `PostsSound` | `SelectionsRight`, `PostsAddUp` | `Purse`, `Amounts` |

**WalletCustody.**  Call *offered* every own secret the mint has signed or that some
request, travelling, deferred or current, still carries.  The invariant of the
first three theorems, `IndexInv`, says that offered secrets lie below the
counter (below `drawn` for a wallet without a seed), and that the mint knows
the inputs of a deferred payment.  Only
`Post` adds offered secrets, and it raises the counter past them first; every
other step moves a secret between the places that count as offered (lemma
`OfferedShrinks`).  Freshness follows because `Post` derives from the counter
upwards.

`VaultInv` adds what the blob needs: everything in RAM and flash is signed;
while not degraded, a proof in flash but not in RAM was taken by the mint
(`OnlyPaidReturn`, inductive only with the next part); a flow whose answer is
PAID or PENDING has inputs that are no longer live (`Settled`); a stickup's
proofs are among the exported ones (`Printed`).  `Settled` is the part that is
easy to overlook: it ties the answer the wallet acts on, possibly much later, to
the mint's state at that time.

**PendingTokens.**  `StashedKept` by itself says nothing of a rewrite half done.
`PendingInv` says, for each operation in progress, what it may rely on (`JobOK`): a
stash has its item in the place the count will reach; what a drain has retained
fits below the next place it will look at; a rewrite retains no more than the
queue had.  `QueueOK` says where every token of the queue is at that moment: at
a place still to try, redeemed, or retained in RAM, and below `at` written back.
A failed write takes the one token it was to write from that list to `dropped`, and a
power loss all that are retained.  That the retained tokens fit is what makes the last
write, of the count, leave a dense queue.  `SlotsPure` needs `UrlOK`, which ties the slot's url to its wallet
through a removal.

**KeysetSync.**  A save overwrites item after item, so flash never lists two versions
of the list whole.  `HeldListed` survives because of `InPlace`: while no save
was refused or met the cap, every item in flash has the id of the entry at the
same place in RAM, so each write replaces the terms of a keyset and not the keyset.
The merge keeps places (`MergeKeepsPlaces`: known ids stay where they are, new
ones go to the end), and so does the load, because items have no gap
(`ItemsOK`, `LoadKeepsPlaces`: an ascending list of a gapless set is that set in
its own order; by the least counterexample).  Above the cap, `HeldComesFirst` counts: who
ranks before the first entry of a keyset with proofs is the first entry of another
keyset with proofs, so its place is at most the number of those.  One assumption
is more than a type: what an older firmware left lists no keyset twice.

**HttpConns, WifiLink.**  `HttpInv`: whoever holds the mutex has a slot whose origin
stays its own (`SlotKept`), no two slots serve one origin (`OneSlotEach`), and a
second attempt starts on a socket that was closed (`SecondIsFresh`).  The
supervisor and the event handler touch no slot while a request owns the mutex.

**StoreTasks.**  `MutexesOwned` is `TypeOK`, whose last part is the point: who has a
mutex is who stands between its taking and its giving.  `FramesHeal` needs `Owes`:
a frame that is not current has a task that is still to refresh, and `FrameOwed`
hands that duty from task to task, also to the console that made another task
skip; a drain owes it once its pass has redeemed something, or while a skip that
it may have caused is neither made good nor excused.  `NobodyWaitsInACircle` states the order store, UI, http without ENABLED:
of the tasks that hold a mutex, one waits for none that another holds.

**NdefTag, NfcSession.**  `ReaderOK` says what is in the receive buffer while a
reader writes: the cells it has written, nothing of any reader before, and the
length fields of its strategy.  With it the write that completes a message is
recognised, and hands over all of it.  `HandedOverWhole` assumes `ShortFirst`, the
exclusion the run makes too: a token written from the file's start with its length
fits in one chunk (else the departure named above happens).  `AnsweredIsRedeemed`
needs nothing about who runs: it holds with sessions that overlap, and says that only
a session beside one that waits for the store can take an accepted token from `s_rx`.
`NothingWiped` adds that with one session at a time nobody does.  It and the three
theorems about sessions assume `KeypadAlone`, the conditions of the run `nfc`: the
keypad is the only caller and no session is stuck for longer than a stop waits.
Then `ScreenInv` answers who owns the give in the semaphore: a give that is there
means that every session has ended, the handle is that of the session the keypad
started last, and state, task and screen go together until the keypad stops it.

**TagReader.**  `ModesOwed`: a mode of the chip that is not as initialised has a
user who is behind the connect and will restore it, or a connect has failed.
`BufferOK`: what a session that was alone has read, together with the answer that
waits in the FIFO, are the first cells of one tag, and a card that will answer the
next read is that tag; a tag that was swapped in between two reads is not awake
and will not answer.

**Purse.**  `Inv` has a part for each thing that holds money or a promise of it.
`WalletWell`: the wallet's keysets are the mint's, each once, and its proofs are of
keysets it knows.  `FlashWell`: what is stored reads back as what was stored, and
after a save that succeeded as what RAM holds.  `MintWell`: the mint's accounts.
`TokenWell`: a token under way is a V3 document or the start of what the V4 writer
makes of it (`IsStart`), whatever was done to it.  `JobWell`: a
flow has, at each stage, what its next step uses: what the token reads as, inputs of
known keysets, a selection that is right, a request that adds up, an answer that is
worth no more than was due.  `Inv` is an invariant of the run `purse` too: TLC
looked at it before the proof did.

`SelectionsSound` is about the greedy loop of `select_proofs`.  In it every proof
brings its amount less its part of the fee, counted in thousandths (`Gains`), so that
the rounding of the fee is one inequality (`CoversMeans`, `FeesBearable`: none of
these is negative).  A set of positions that does not cover the need yet grows by
one of the largest; when it covers, the one added last cannot be spared, and no
other can, being at least as large; when everything has been added and
the need is not covered, no subset covers it.  `PostsSound` rests on
`split_amount` (the bits of a number below 2^31 add up to it) and on the fee being the
mint's as long as the wallet's keysets are (`OfKnown`).  `FlashKeepsProofs` unfolds the
blob's reader against its writer: the proof at which the reader stands
begins where the chunks of the proofs before it end.

`TokensSound` does the same for CBOR, where the reader may have less than was
written.  A list of items is `Whole` when the reader's countdown steps over it from
wherever it stands, and its length is known in advance; what is written for a
DLEQ, a proof, an entry and the token is (`AfterTheOther`, `ArrayWhole`).  `Given`
says what a lookup finds in pairs that are written one after another, under each
name, when the stream may end between them or in them.  A map reads, field by field,
as what its pairs give (`MapGives`), so a proof is read whole, or without its end, or not at all
(`ProofRead`), and it is only the last one that can lack something because all the
others end before the stream does (`ElementsShown`).  From the proofs to the
entries and the token it is the joining of lists, each one whole but the last
(`JoinedBegins`).  The whole token reads whole if no amount is beyond an int32,
which the reader refuses (`Readable`).

A list of any length is dealt with by the functions of `Lists`, which are defined over
positions: the positions at which a claim fails would have a least one, and the
step from the one before refutes it (`Upwards`).  This is how the proofs do
without induction theorems.

Model-checked only, and why:

* liveness (`FlowEnds`, `KeypadReturns`, `LinkReturns`, `DrainRearms`,
  `HeldTagTaken`): fairness is beyond the prover;
* `NoCircle`, because it uses ENABLED (its lock order is proved);
* `ProofsGenuine`: that no two proofs have one secret rests on the derivation giving
  different secrets, and that signatures are the mint's on arithmetic modulo a
  prime and hashes without collisions, none of which can be assumed of a toy group
  for every order;
* `Balanced`: sums over sets whose parts move between six places at each step;
* `RequestsReadBack`: the argument is that of `TokensSound`, over requests, whose
  lists of strings have other shapes.

## 5. Plan

Done: `ProofVault`, `WalletCustody` and their proofs; `PendingTokens`; `NdefTag` and
`NfcSession`; `WifiLink` over `HttpConns`; `StoreTasks`; `KeysetSync`; the data path
with `Purse`; `TagReader`; theorems about every module.

Next, in this order:

1. `RequestsReadBack` from the lemmas about `Whole` and `Given` that `TokensSound` uses.
2. `ProofsGenuine` over an abstract group (a ring homomorphism instead of numbers
   modulo a prime) with injective derivation as an assumption.
3. The seed's life cycle (`commands_seed.cpp`, the boot's order, a wallet that
   changes from random to derived secrets), key queue and button, amount entry,
   a reader with a second session beside an abandoned one (its state space is
   above 26 million states; it needs a smaller tag).

Not modelled, and why:

* collisions of the hash functions, forged proofs, the curve itself: the toy group
  stands for any group of prime order;
* mnemonic, NUT-11 signatures (a mark on the proof), the hash behind keyset ids,
  BLS: pure functions of unbounded data;
* TinyCBOR and cJSON (not in the repository; modelled from how they are used),
  keysets and mint info as JSON, digits and hex;
* in `Purse`: failed saves and lost answers (`WalletCustody` has them), blobs
  truncated in flash, short ids resolved against an incomplete list, the second
  refresh of the console's `receive`, `ensure_active_keyset` taking a legacy
  keyset for an active one and not refreshing, the order of equal amounts in
  `std::sort`, how much a mint claims a quote is for (its word);
* in `TagReader`: failing register accesses (an antenna that could not be switched
  off stays on), noise other than a tag that leaves, chained blocks, the rounds of
  anticollision, the interleavings inside `rc522_calc_crc`; which block numbers a
  card accepts (the driver toggles bit 6 of the block's first byte) is the card's
  affair, and the model's cards accept what they are sent;
* display and bus I/O, the PN7160's registers, the bench rig and host tests;
* left out of the modelled parts: wording of errors, statistics
  (`g_wallet_nvs_stat`), the prewarm requests.
