----------------------------- MODULE MCNfcSession -----------------------------
(* Two tokens, a message without one, a token the buffer cannot hold, and every *)
(* way to write them, but no long token in chunks from the start of the file;   *)
(* and a small tag, of one-cell messages written in two ways.                   *)
EXTENDS NfcSession, TLC

CONSTANTS t1, t2, url, huge

MCAllMessages == {t1, t2, url, huge}
MCAllTokens == {t1, t2, huge}
MCAllLenOf == t1 :> 3 @@ t2 :> 2 @@ url :> 3 @@ huge :> 5
MCAllWriters == (MCAllMessages \X Strategies) \ ({t1, huge} \X {"length_first"})

MCMessages == {t1, url}
MCTokens == {t1}
MCLenOf == t1 :> 1 @@ url :> 1
MCWriters == {<<t1, "length_last">>, <<url, "whole">>}

MCKeypad == {"keypad"}
MCBoth == {"console", "keypad"}
===============================================================================
