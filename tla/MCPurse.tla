------------------------------ MODULE MCPurse ------------------------------
(* Purse with a mint of five keysets: two active ones of one unit and one  *)
(* of another, one rotated out that shares a short id with an active one,  *)
(* and one with a legacy id.                                               *)
EXTENDS PurseInv

KeysOf(base, amounts) == [a \in amounts |-> base + 101 * a]

Keyset(id, unit, active, ppk, mintable, base) ==
    [id |-> id, unit |-> unit, active |-> active, input_fee_ppk |-> ppk,
     mintable |-> mintable, keys |-> KeysOf(base, {1, 2, 4, 8})]

NewSat == Keyset(<<3, 1>>, "sat", TRUE, 100, TRUE, 1234)
OldSat == Keyset(<<1, 1>>, "sat", TRUE, 1000, TRUE, 2345)
Usd    == Keyset(<<2, 1>>, "usd", TRUE, 0, TRUE, 3456)
Twin   == Keyset(<<3, 2>>, "sat", FALSE, 500, TRUE, 5678)
Legacy == Keyset(<<9>>, "sat", FALSE, 0, FALSE, 4567)

MCKeysets == <<OldSat, NewSat, Usd, Twin, Legacy>>
MCIdOrder == <<<<1>>, <<1, 1>>, <<2>>, <<2, 1>>, <<3>>, <<3, 1>>, <<3, 2>>, <<9>>>>
MCNotHex  == {<<9>>}
MCQ == 32003

(* A proof the mint once signed: keyset, amount, secret; others' secrets   *)
(* are below 1000.                                                         *)
Coin(k, amount, secret) ==
    LET r  == 300 + 7 * secret
        B_ == Sigs!Blind(secret, r)
        s  == Sigs!SignWith(k.keys[amount], B_, 97)
    IN Sigs!UnblindOne([amount |-> amount, C_ |-> s.C_, dleq |-> s.dleq], B_,
                       secret, r, k)

MCOurLocks   == {21, 22}
MCTheirLocks == {31}

Foreign(unit, ps) == [mint |-> "mint", unit |-> unit, memo |-> None, proofs |-> ps]

(* The wallet keeps a keyset active that the mint has rotated out.         *)
Start(ks, own, foreign, form, json, view) ==
    [known |-> [i \in DOMAIN ks |-> [ks[i] EXCEPT !.active = TRUE]], own |-> own,
     foreign |-> foreign, form |-> form, json |-> json, view |-> view]

(* A wallet that knows all; one that met the old keyset only, offered a    *)
(* token of the new one; one whose proofs are still stored as JSON and one *)
(* of them under a legacy id; empty ones, offered tokens locked to it, to  *)
(* another, of two units, or worth no more than their fee; one that knows  *)
(* two keysets of one short id, the first rotated out.                     *)
MCStarts == {
    Start(<<NewSat, OldSat, Usd>>,
          <<Coin(NewSat, 4, 1), Coin(OldSat, 2, 2), Coin(NewSat, 2, 3), Coin(OldSat, 1, 5),
            Coin(Usd, 4, 4)>>, None, "v4", FALSE, "both"),
    Start(<<OldSat, Usd>>, <<Coin(OldSat, 2, 1), Coin(OldSat, 4, 2)>>,
          Foreign("sat", <<Coin(NewSat, 8, 3), Coin(NewSat, 1, 21)>>), "v4", FALSE, "pair"),
    Start(<<Legacy, NewSat, Usd>>, <<Coin(Legacy, 1, 1), Coin(NewSat, 4, 2), Coin(Usd, 4, 4)>>,
          None, "v4", TRUE, "legacy"),
    Start(<<NewSat>>, <<>>,
          Foreign("sat", <<Coin(NewSat, 2, 22), Coin(Legacy, 4, 3)>>), "v3", FALSE, "pair"),
    Start(<<NewSat>>, <<>>,
          Foreign("sat", <<Coin(NewSat, 2, 31), Coin(NewSat, 4, 3)>>), "v4", FALSE, "legacy"),
    Start(<<Usd>>, <<>>,
          Foreign("sat", <<Coin(NewSat, 2, 3), Coin(Usd, 4, 4)>>), "v4", FALSE, "both"),
    Start(<<OldSat, NewSat>>, <<>>,
          Foreign("sat", <<Coin(OldSat, 1, 3), Coin(OldSat, 1, 4)>>), "v4", FALSE, "pair"),
    Start(<<Twin, NewSat>>, <<>>,
          Foreign("sat", <<Coin(NewSat, 4, 3)>>), "v4", FALSE, "both")}

MCRequests ==
    {Request!SessionRequest(5, unit, url, online) :
        unit \in {"sat", "usd"}, url \in {None, "mint"}, online \in BOOLEAN}
    \cup
    {[Request!NoRequest EXCEPT
        !.payment_id = "id", !.amount = 3, !.mints = ms, !.description = "for",
        !.transports = ts, !.nut10 = lock] :
        ms \in {None, <<>>, <<"m1", "m2">>},
        ts \in {<<>>,
                <<[type |-> "nostr", target |-> "n", tags |-> <<<<"n", "17">>>>],
                  [type |-> "post", target |-> "p", tags |-> <<>>]>>},
        lock \in {None, [kind |-> "P2PK", data |-> "key", tags |-> <<<<>>, <<"x">>>>]}}

MCDamages == {"none", "reversed", "short", "nodleq", "nopoint", "offkey"}

MCMeltTerms == {[amount |-> 1, reserve |-> 1], [amount |-> 3, reserve |-> 1],
                [amount |-> 2, reserve |-> 2], [amount |-> 7, reserve |-> 1]}
=============================================================================
