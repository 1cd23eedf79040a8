----------------------------- MODULE PayRequest -----------------------------
(***************************************************************************)
(* The NUT-18 payment request of cashu_cbor.cpp: what a payee's tag shows  *)
(* and a payer's wallet reads.  A request is a record of eight optional    *)
(* fields; transports and the NUT-10 lock may carry tags, lists of lists   *)
(* of strings.  A list that is present but empty is counted in the root    *)
(* map and not written.                                                    *)
(***************************************************************************)
EXTENDS CborItems

CONSTANT LockKey            \* the public key an offline request asks to lock to

RequestFields == {"payment_id", "amount", "unit", "single_use", "mints",
                  "description", "transports", "nut10"}

NoRequest == [f \in RequestFields |-> None]

-----------------------------------------------------------------------------
(* Writing                                                                 *)

Some(xs)   == xs # None /\ xs # <<>>

Texts(xs) == <<ArrayOf(Len(xs))>> \o [i \in DOMAIN xs |-> Text(xs[i])]

TagsItems(tags) ==
    <<ArrayOf(Len(tags))>> \o Joined([i \in DOMAIN tags |-> Texts(tags[i])])

(* A transport {t, a, g?} or a lock {k, d, t?}: two strings and tags.      *)
\* Mutant: tags are counted when present, and written when not empty.
CountPresent(tags) == IF tags # None THEN 3 ELSE 2

CountTags(tags) == IF Some(tags) THEN 3 ELSE 2

TaggedItems(k1, v1, k2, v2, k3, tags) ==
    <<MapOf(CountTags(tags)), Key(k1), Text(v1), Key(k2), Text(v2)>>
        \o (IF Some(tags) THEN <<Key(k3)>> \o TagsItems(tags) ELSE <<>>)

TransportItems(t) == TaggedItems("t", t.type, "a", t.target, "g", t.tags)
LockItems(n)      == TaggedItems("k", n.kind, "d", n.data, "t", n.tags)

(* serialize_payment_request, in the order it writes.                      *)
EncodeRequest(r) ==
    LET one(name, x, item) == IF x = None THEN <<>> ELSE <<Key(name), item>>
        transports == r.transports
    IN <<MapOf(Cardinality({f \in RequestFields : r[f] # None}))>>
        \o (IF Some(transports)
            THEN <<Key("t"), ArrayOf(Len(transports))>>
                    \o Joined([i \in DOMAIN transports |->
                                      TransportItems(transports[i])])
            ELSE <<>>)
        \o one("i", r.payment_id, Text(r.payment_id))
        \o one("a", r.amount, UInt(r.amount))
        \o one("u", r.unit, Text(r.unit))
        \o (IF Some(r.mints) THEN <<Key("m")>> \o Texts(r.mints) ELSE <<>>)
        \o one("d", r.description, Text(r.description))
        \o one("s", r.single_use, Bool(r.single_use))
        \o (IF r.nut10 = None THEN <<>> ELSE <<Key("nut10")>> \o LockItems(r.nut10))

-----------------------------------------------------------------------------
(* Reading                                                                 *)

(* The strings of an array, others stepped over.                           *)
TextsAt(s, a) ==
    LET els   == Elements(s, a)
        texts == Kept(els, {i \in DOMAIN els : s[els[i]].k = "text"})
    IN [i \in DOMAIN texts |-> s[texts[i]].v]

(* The tags that are not empty.                                            *)
Full(tags) == Kept(tags, {i \in DOMAIN tags : tags[i] # <<>>})

(* decode_tags, None when a list cannot be entered; empty lists are left   *)
(* out.                                                                    *)
TagsAt(s, a) ==
    LET els   == Elements(s, a)
        lists == Kept(els, {i \in DOMAIN els : s[els[i]].k = "array"})
        read  == [i \in DOMAIN lists |-> TextsAt(s, lists[i])]
    IN IF ~CanEnter(s, a) \/ \E p \in Range(lists) : ~CanEnter(s, p) THEN None
       ELSE Full(read)

OptionalTags(s, m, name) ==
    LET a == Inside(s, m, name, "array")
    IN IF a = 0 THEN None ELSE TagsAt(s, a)

(* decode_transport and decode_nut10: both strings or nothing.             *)
TransportAt(s, m) ==
    LET t == Field(s, m, "t", "text")
        a == Field(s, m, "a", "text")
    IN IF s[m].k # "map" \/ t = None \/ a = None THEN None
       ELSE [type |-> t, target |-> a, tags |-> OptionalTags(s, m, "g")]

LockAt(s, m) ==
    LET k == Field(s, m, "k", "text")
        d == Field(s, m, "d", "text")
    IN IF k = None \/ d = None THEN None
       ELSE [kind |-> k, data |-> d, tags |-> OptionalTags(s, m, "t")]

(* The elements of an optional array that can be read, None when there are *)
(* none.                                                                   *)
ListOf(xs) == IF xs = <<>> THEN None ELSE xs

MintsAt(s) ==
    LET a == Inside(s, 1, "m", "array")
    IN IF a = 0 \/ ~CanEnter(s, a) THEN None ELSE ListOf(TextsAt(s, a))

TransportsAt(s) ==
    LET a   == Inside(s, 1, "t", "array")
        els == Elements(s, a)
        read == [i \in DOMAIN els |-> TransportAt(s, els[i])]
    IN IF a = 0 \/ ~CanEnter(s, a) THEN None
       ELSE ListOf(Kept(read, {i \in DOMAIN read : read[i] # None}))

(* deserialize_payment_request                                             *)
DecodeRequest(s) ==
    LET lock == Inside(s, 1, "nut10", "map")
    IN [payment_id  |-> Field(s, 1, "i", "text"),
        amount      |-> Field(s, 1, "a", "uint"),
        unit        |-> Field(s, 1, "u", "text"),
        single_use  |-> Field(s, 1, "s", "bool"),
        description |-> Field(s, 1, "d", "text"),
        mints       |-> MintsAt(s),
        transports  |-> TransportsAt(s),
        nut10       |-> IF lock = 0 THEN None ELSE LockAt(s, lock)]

-----------------------------------------------------------------------------
(* What a payer should read: the request, an empty list as an absent one.  *)
OrNone(xs) == IF Some(xs) THEN xs ELSE None

FullTags(x) ==
    IF x = None THEN None
    ELSE [x EXCEPT !.tags = IF Some(x.tags)
                            THEN Full(x.tags)
                            ELSE None]

ReadsAs(read, r) ==
    read =
        [r EXCEPT !.mints = OrNone(r.mints),
                  !.transports =
                      IF Some(r.transports)
                      THEN [i \in DOMAIN r.transports |-> FullTags(r.transports[i])]
                      ELSE None,
                  !.nut10 = FullTags(r.nut10)]

-----------------------------------------------------------------------------
(* The request an NFC session shows: an amount in a unit, once, at the mint*)
(* when one is chosen, locked to the device's key when it is offline.      *)
SessionRequest(amount, unit, url, online) ==
    [NoRequest EXCEPT
        !.amount = amount, !.unit = unit, !.single_use = TRUE,
        !.mints = IF url = None THEN None ELSE <<url>>,
        !.nut10 = IF online THEN None
                  ELSE [kind |-> "P2PK", data |-> LockKey, tags |-> None]]
=============================================================================
