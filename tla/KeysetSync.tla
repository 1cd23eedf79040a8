------------------------------- MODULE KeysetSync -------------------------------
(***************************************************************************)
(* The keysets of one wallet: what the mint lists, the two requests of a   *)
(* refresh, the merge into the wallet's list, and the list's flash copy,   *)
(* written item by item.  Each flash write is durable by itself, and power *)
(* may go at any moment.                                                   *)
(*                                                                         *)
(* Key material is left out: a keyset is its id, with what the id says of  *)
(* it (unit, version, whether it derives from its keys) as constants.  The *)
(* proofs are the set of keysets that some proof refers to; how proofs are *)
(* saved is the subject of WalletCustody.                                  *)
(***************************************************************************)
EXTENDS Naturals, FiniteSets, Sequences, SequencesExt

CONSTANTS
    Ids,           \* the keysets of the mint, past and present
    UnitOf,        \* the unit of each
    Derived,       \* v1 and v2 ids that derive from their keys
    OldIds,        \* ids from before NUT-02, which cannot be derived
    PrefixOf,      \* the 13 hex digits that name the counter
    Repriced,      \* those whose input fee the mint may raise
    MaxKeysets,    \* MAX_KEYSETS
    LegacyLists,   \* what an older firmware may have left in flash
    MayRefuse      \* a flash write may be refused

ASSUME KeysetAssumption ==
    /\ IsFiniteSet(Ids)
    /\ DOMAIN UnitOf = Ids /\ DOMAIN PrefixOf = Ids
    /\ Derived \subseteq Ids /\ Repriced \subseteq Ids /\ OldIds \subseteq Ids \ Derived
    /\ MaxKeysets \in 1 .. 255
    /\ MayRefuse \in BOOLEAN

Units == {UnitOf[id] : id \in Ids}
Keyset == [id : Ids, active : BOOLEAN, dear : BOOLEAN]

Distinct(list) == \A i, j \in DOMAIN list : list[i].id = list[j].id => i = j

\* The older format was written from a merged list too.
ASSUME LegacyAssumption ==
    \A list \in LegacyLists : list \in Seq(Keyset) /\ Distinct(list)

NoBlob == [id |-> "none"]

VARIABLES
    offers,    \* the ids that are active at the mint
    dear,      \* the ids whose input_fee_ppk was raised
    keysets,   \* keysets_
    held,      \* the ids that proofs of the wallet refer to
    infos,     \* the metadata rows in hand, of the active keysets
    stage,     \* where load_keysets stands, or "off"
    at,        \* the next item of the save
    nvs,       \* flash: the count, the items, the older single blob
    short      \* history: flash may hold less than the wallet's list

mintVars == <<offers, dear>>
vars == <<mintVars, keysets, held, infos, stage, at, nvs, short>>

IdsOf(list) == {list[i].id : i \in DOMAIN list}

-------------------------------------------------------------------------------
(* The mint *)

\* A keyset is put into or taken out of use.
Rotate(id) ==
    /\ offers' = IF id \in offers THEN offers \ {id} ELSE offers \cup {id}
    /\ UNCHANGED <<dear, keysets, held, infos, stage, at, nvs, short>>

RaiseFee(id) ==
    /\ dear' = dear \cup {id}
    /\ UNCHANGED <<offers, keysets, held, infos, stage, at, nvs, short>>

-------------------------------------------------------------------------------
(* load_keysets *)

Row(id) == [id |-> id, active |-> id \in offers, dear |-> id \in dear]

\* GET /v1/keysets; a failure leaves everything as it is.  The mint may list its
\* keysets in any order, and the active ones come first under the cap.  The rows
\* that are not active are passed over by the next step, and not kept here.
FetchInfos ==
    /\ stage = "idle"
    /\ \E some \in SUBSET offers :
        /\ IF Cardinality(offers) <= MaxKeysets
           THEN some = offers
           ELSE Cardinality(some) = MaxKeysets
        /\ infos' = {Row(id) : id \in some}
    /\ stage' = "infos"
    /\ UNCHANGED <<mintVars, keysets, held, at, nvs, short>>

\* The rows whose keys were sent and whose id is theirs, or cannot be checked.
Validated(served) == {r \in infos : r.id \in served \cap (Derived \cup OldIds)}

Collides(rows) == \E r, q \in rows : r # q /\ PrefixOf[r.id] = PrefixOf[q.id]

\* The first entry of its keyset.
First(i) == \A j \in 1 .. i - 1 : keysets[j].id # keysets[i].id

\* Mutant: a keyset whose terms changed is taken for a new one.
MergeAppends(fresh) == {keysets \o new : new \in SetToSeqs(fresh \ ToSet(keysets))}

\* merge_keysets: new terms for the known ones (a keyset that a cut save left in
\* the list twice is found at its first place), the new ones at the end, in the
\* order the mint listed them.
Updated(fresh) ==
    [i \in DOMAIN keysets |->
        IF First(i) /\ \E r \in fresh : r.id = keysets[i].id
        THEN CHOOSE r \in fresh : r.id = keysets[i].id
        ELSE keysets[i]]

Merged(fresh) ==
    {Updated(fresh) \o new : new \in SetToSeqs({r \in fresh : r.id \notin IdsOf(keysets)})}

\* GET /v1/keys, sent for the keysets active by now; none when it does not parse.
\* The list is saved only if the merge changed it.
FetchKeys ==
    /\ stage = "infos"
    /\ \E served \in {offers, {}} :
        LET fresh == Validated(served)
        IN  \/ /\ fresh = {} \/ Collides(fresh)
               /\ stage' = "idle"
               /\ UNCHANGED keysets
            \/ /\ fresh # {} /\ ~Collides(fresh)
               /\ keysets' \in Merged(fresh)
               /\ stage' = IF keysets' = keysets THEN "idle" ELSE "opening"
    /\ infos' = {}
    /\ UNCHANGED <<mintVars, held, at, nvs, short>>

-------------------------------------------------------------------------------
(* save_keysets *)

\* Mutant: above the cap, the first ones.
AsListed(i) == i

Rank(i) == IF keysets[i].id \in held /\ First(i) THEN 0 ELSE IF keysets[i].active THEN 1 ELSE 2

Before(i) ==
    {j \in DOMAIN keysets : Rank(j) < Rank(i) \/ (Rank(j) = Rank(i) /\ j < i)}

\* Where keyset i is saved.  Above the cap those that proofs refer to come first,
\* then the active ones, then the rest.
Place(i) == IF Len(keysets) <= MaxKeysets THEN i ELSE Cardinality(Before(i)) + 1

\* How many are saved: the length, kept in a byte before it is compared with the cap.
Saved == LET count == Len(keysets) % 256 IN IF count <= MaxKeysets THEN count ELSE MaxKeysets

\* The older blob goes first.
Open ==
    /\ stage = "opening"
    /\ nvs' = [nvs EXCEPT !.legacy = <<>>]
    /\ stage' = "counting"
    /\ short' = (short \/ Len(keysets) > MaxKeysets \/ nvs.legacy # <<>>)
    /\ UNCHANGED <<mintVars, keysets, held, infos, at>>

\* Mutant: the old items are erased before the new ones are written.
ClearFirst ==
    /\ stage = "counting"
    /\ nvs' = [nvs EXCEPT !.count = Saved, !.items = [i \in DOMAIN @ |-> NoBlob]]
    /\ at' = 1
    /\ stage' = "writing"
    /\ UNCHANGED <<mintVars, keysets, held, infos, short>>

SaveCount ==
    /\ stage = "counting"
    /\ nvs' = [nvs EXCEPT !.count = Saved]
    /\ at' = 1
    /\ stage' = "writing"
    /\ UNCHANGED <<mintVars, keysets, held, infos, short>>

SaveItem ==
    /\ stage = "writing"
    /\ at <= Saved
    /\ \E i \in DOMAIN keysets :
        /\ Place(i) = at
        /\ nvs' = [nvs EXCEPT !.items[at] = keysets[i]]
    /\ at' = at + 1
    /\ UNCHANGED <<mintVars, keysets, held, infos, stage, short>>

EraseRest ==
    /\ stage = "writing"
    /\ at > Saved
    /\ nvs' = [nvs EXCEPT !.items =
                 [i \in DOMAIN @ |-> IF i < at THEN @[i] ELSE NoBlob]]
    /\ at' = 0
    /\ stage' = "idle"
    /\ UNCHANGED <<mintVars, keysets, held, infos, short>>

\* nvs_open, a write or the serialisation fails: the save returns, its caller goes on.
SaveFails ==
    /\ MayRefuse
    /\ \/ stage \in {"opening", "counting"}
       \/ stage = "writing" /\ at <= Saved
    /\ stage' = "idle"
    /\ at' = 0
    /\ short' = TRUE
    /\ UNCHANGED <<mintVars, keysets, held, infos, nvs>>

-------------------------------------------------------------------------------
(* Power and boot *)

PowerLoss ==
    /\ stage # "off"
    /\ stage' = "off"
    /\ keysets' = <<>>
    /\ infos' = {}
    /\ at' = 0
    /\ UNCHANGED <<mintVars, held, nvs, short>>

\* load_keysets_nvs: the readable items of the count, or the older blob.
Readable == {i \in 1 .. nvs.count : nvs.items[i] # NoBlob}

StoredIds ==
    IF nvs.count > 0 THEN {nvs.items[i].id : i \in Readable} ELSE IdsOf(nvs.legacy)

Boot ==
    /\ stage = "off"
    /\ stage' = "idle"
    /\ \/ nvs.count = 0 /\ keysets' = nvs.legacy
       \/ /\ nvs.count > 0
          /\ \E list \in [1 .. Cardinality(Readable) -> Readable] :
                /\ \A m, n \in DOMAIN list : m < n => list[m] < list[n]
                /\ ToSet(list) = Readable
                /\ keysets' = [n \in DOMAIN list |-> nvs.items[list[n]]]
    /\ UNCHANGED <<mintVars, held, infos, at, nvs, short>>

-------------------------------------------------------------------------------
(* The flows *)

\* active_keyset_for_mint: the first active one of the unit that may mint, if any.
Mintable(unit) ==
    {i \in DOMAIN keysets :
        keysets[i].active /\ UnitOf[keysets[i].id] = unit /\ keysets[i].id \in Derived}

Choice(unit) ==
    {keysets[i].id : i \in {i \in Mintable(unit) : \A j \in Mintable(unit) : i <= j}}

\* The mint signs new outputs, and only under a keyset that is active.
Receive(unit) ==
    /\ stage = "idle"
    /\ \E id \in Choice(unit) \cap offers : held' = held \cup {id}
    /\ UNCHANGED <<mintVars, keysets, infos, stage, at, nvs, short>>

\* The last proof of a keyset is spent; those of a keyset the wallet does not
\* know have no unit and are not selected.
Spend(id) ==
    /\ stage = "idle"
    /\ id \in held \cap IdsOf(keysets)
    /\ held' = held \ {id}
    /\ UNCHANGED <<mintVars, keysets, infos, stage, at, nvs, short>>

-------------------------------------------------------------------------------

Init ==
    /\ offers \in SUBSET Ids
    /\ dear = {}
    /\ keysets = <<>>
    /\ infos = {}
    /\ stage = "off"
    /\ at = 0
    /\ \E list \in LegacyLists :
        /\ nvs = [count |-> 0, items |-> [i \in 1 .. MaxKeysets |-> NoBlob], legacy |-> list]
        /\ held \in SUBSET IdsOf(list)
    /\ short = FALSE

Next ==
    \/ \E id \in Ids : Rotate(id) \/ Spend(id)
    \/ \E id \in Repriced : RaiseFee(id)
    \/ \E unit \in Units : Receive(unit)
    \/ FetchInfos \/ FetchKeys
    \/ Open \/ SaveCount \/ SaveItem \/ EraseRest \/ SaveFails
    \/ PowerLoss \/ Boot

Spec == Init /\ [][Next]_vars

-------------------------------------------------------------------------------
(* Properties *)

\* Types; no keyset is in the wallet's list twice (flash may hold one twice while
\* a save is cut short, and the next boot then reads it twice).
TypeOK ==
    /\ offers \subseteq Ids /\ dear \subseteq Ids /\ held \subseteq Ids
    /\ keysets \in Seq(Keyset)
    /\ infos \subseteq Keyset /\ Cardinality(infos) <= MaxKeysets
    /\ stage \in {"idle", "infos", "opening", "counting", "writing", "off"}
    /\ at \in 0 .. MaxKeysets + 1
    /\ nvs \in [count : 0 .. MaxKeysets,
               items : [1 .. MaxKeysets -> Keyset \cup {NoBlob}],
               legacy : Seq(Keyset)]
    /\ short \in BOOLEAN
    /\ ~short => Distinct(keysets)

\* wallet_keysets.cpp: a keyset the wallet holds proofs under is preserved.  At
\* every moment, a save cut short included, flash knows the keysets of all proofs,
\* unless an earlier save was refused, met the cap, or replaced the older format.
HeldListed == short \/ held \subseteq StoredIds

\* wallet_nvs.cpp: above the cap the keysets that proofs refer to are preferred - a
\* save that ends has kept them all, if they fit and the list's length fits a byte.
CapKeepsHeld ==
    [][stage = "writing" /\ at > Saved /\ stage' = "idle"
        => \/ held \cap IdsOf(keysets) \subseteq StoredIds'
           \/ Cardinality(held \cap IdsOf(keysets)) > MaxKeysets
           \/ Len(keysets) > 255]_vars

\* keyset.cpp: "a wallet must mint against whatever active keyset the mint offers".
\* A refresh that brings a keyset of a unit leaves the wallet with a choice for the
\* unit that is active at the mint.
MintsAgainstActive ==
    [][stage = "infos" /\ stage' # "off" /\ keysets' # keysets
        => \A unit \in Units :
            (\E r \in Validated(offers) : UnitOf[r.id] = unit /\ r.id \in Derived)
                => Choice(unit)' \cap offers # {}]_vars
===============================================================================
