------------------------------ MODULE CborItems ------------------------------
(***************************************************************************)
(* CBOR as the codecs of cashu_cbor.cpp see it: a sequence of data items   *)
(* in the order they are written.  A map or array item is only its header  *)
(* and says how many pairs or elements follow; nothing closes it.  What a  *)
(* reader finds in a stream that was cut short therefore depends on how    *)
(* far it has to read, which is what the tokens' decoder is about.  A      *)
(* string cut in the middle is not an item: every getter of the code fails *)
(* on it as it fails on one that is not there.                             *)
(*                                                                         *)
(* Strings, ids, points and scalars are values; the text strings used as   *)
(* map keys have a kind of their own.  TinyCBOR is not part of the         *)
(* repository: its cursor is modelled from how the code uses it.           *)
(***************************************************************************)
EXTENDS Lists, FiniteSetsExt

CONSTANT None               \* no value: an absent optional, or a failure

MapOf(n)   == [k |-> "map",   v |-> n]
ArrayOf(n) == [k |-> "array", v |-> n]
Key(name)  == [k |-> "key",   v |-> name]
Text(x)    == [k |-> "text",  v |-> x]
Bytes(x)   == [k |-> "bytes", v |-> x]
UInt(x)    == [k |-> "uint",  v |-> x]
Bool(x)    == [k |-> "bool",  v |-> x]

(* How many items stand directly under an item.                            *)
Kids(item) == CASE item.k = "map"   -> 2 * item.v
                [] item.k = "array" -> item.v
                [] OTHER            -> 0

(* cbor_value_advance, n times from position p: the position after n whole *)
(* items with all they contain, or 0 when the stream ends first.           *)
Past(s) ==
    LET past[p \in 1..(Len(s) + 1)] ==
            [n \in Nat |-> IF n = 0 THEN p
                           ELSE IF p > Len(s) THEN 0
                           ELSE past[p + 1][n - 1 + Kids(s[p])]]
    IN past

(* cbor_find_in_map: the position of the value under a key of the map at m,*)
(* 0 when the key, or what has to be read on the way to it, is missing.    *)
Find(s, m, name) ==
    LET past  == Past(s)
        at(i) == past[m + 1][2 * (i - 1)]
        hits  == {i \in 1..s[m].v : /\ at(i) \in 1..(Len(s) - 1)
                                    /\ s[at(i)].k = "key"
                                    /\ s[at(i)].v = name}
    IN IF s[m].k # "map" \/ hits = {} THEN 0 ELSE at(Min(hits)) + 1

(* The getters cbor_get_string, cbor_get_bytes_as_hex, cbor_get_int and    *)
(* cbor_get_bool on a field of a map: its value when it has that kind.  An *)
(* amount must fit an int32.                                               *)
MaxInt32 == 2147483647

Field(s, m, name, kind) ==
    LET p == Find(s, m, name)
    IN IF p = 0 \/ s[p].k # kind THEN None
       ELSE IF kind = "uint" /\ s[p].v > MaxInt32 THEN None
       ELSE s[p].v

(* The field as a container to go into: its position, or 0.                *)
Inside(s, m, name, kind) ==
    LET p == Find(s, m, name)
    IN IF p # 0 /\ s[p].k = kind THEN p ELSE 0

(* cbor_value_enter_container needs the first element's header.            *)
CanEnter(s, a) == s[a].v = 0 \/ a < Len(s)

(* The positions of the elements the loops `while (!at_end) ... advance'   *)
(* visit in the array at a: all of them, or those whose start was not cut. *)
Elements(s, a) ==
    LET past == Past(s)
        at   == [i \in 1..s[a].v |-> past[a + 1][i - 1]]
    IN Kept(at, {i \in DOMAIN at : at[i] \in 1..Len(s)})
=============================================================================
