---------------------------- MODULE MCTagReader ----------------------------
(* A type 2 tag with a token, slower than RATS allows but not than the 100 ms*)
(* of a poll; a type 4 card with a token that asks for more time; a type 4   *)
(* card with another text.                                                   *)
EXTENDS TagReader, TLC

CONSTANTS sticker, bolt, poster

MCTags == {sticker, bolt, poster}
MCTokenTags == {sticker, bolt}
MCAsks == {bolt}
MCKind == sticker :> "T2" @@ bolt :> "T4" @@ poster :> "T4"
MCDelay == sticker :> 50 @@ bolt :> 5 @@ poster :> 5
=============================================================================
