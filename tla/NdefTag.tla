------------------------------- MODULE NdefTag -------------------------------
(***************************************************************************)
(* The emulated type 4 tag a payer writes a token to: file selection, the  *)
(* receive buffer assembled from UPDATE BINARY commands, and the decision  *)
(* that a message is complete.                                             *)
(*                                                                         *)
(* A message is a number of cells.  The two length bytes at offset 0 are   *)
(* kept apart from the body; the first cell stands for the record header   *)
(* and the start of the text, which every first chunk is long enough for.  *)
(***************************************************************************)
EXTENDS Integers

CONSTANTS
    Messages,    \* what readers write
    Tokens,      \* the messages that hold a cashu token
    NoMessage,
    LenOf,       \* cells of each message
    Room,        \* cells the receive buffer holds (NDEF_MAX_DATA_SIZE)
    MaxChunk,    \* cells one UPDATE BINARY carries (MLc in the CC file)
    Writers      \* which reader writes what, and how: <<message, strategy>>

Strategies == {"whole", "length_first", "length_alone", "length_last"}

ASSUME TagAssumption ==
    /\ Tokens \subseteq Messages
    /\ NoMessage \notin Messages
    /\ LenOf \in [Messages -> Nat \ {0}]
    /\ Room \in Nat \ {0}
    /\ MaxChunk \in Nat \ {0}
    /\ Writers \subseteq Messages \X Strategies

VARIABLES
    loaded,      \* s_ndef_file_len > 0
    selected,    \* s_selected
    body,        \* s_recv_buf behind the length
    nlen,        \* the length bytes in s_recv_buf
    expected,    \* s_expected_nlen
    rx,          \* the token text handed to nfc.cpp (s_rx), <<>> for none
    reader       \* the payer in the field (outside src/)

tagVars == <<loaded, selected, body, nlen, expected, rx, reader>>

-------------------------------------------------------------------------------

Zero == <<NoMessage, 0>>

Bytes(m) == [i \in 1 .. LenOf[m] |-> <<m, i>>]

Cells == {Zero} \cup UNION {{<<m, i>> : i \in 1 .. LenOf[m]} : m \in Messages}

Away == [msg |-> NoMessage, order |-> "none", at |-> 0, stage |-> "away"]

\* Longest stretch of the buffer that a message of n cells covers.
Covered(n) == IF n < Room THEN n ELSE Room

\* Mutant: only the length is forgotten.
ResetLength ==
    /\ body' = body
    /\ nlen' = 0
    /\ expected' = -1

\* ndef_reset_receive
ResetReceive ==
    /\ body' = [i \in 1 .. Room |-> Zero]
    /\ nlen' = 0
    /\ expected' = -1

-------------------------------------------------------------------------------
(* The session loads and clears the tag *)

\* ndef_set_message and ndef_set_receive_callback
SetMessage ==
    /\ loaded' = TRUE
    /\ UNCHANGED <<selected, body, nlen, expected, reader>>

\* ndef_clear_message; the receive buffer stays as it is.
ClearMessage ==
    /\ loaded' = FALSE
    /\ selected' = "none"
    /\ UNCHANGED <<body, nlen, expected, rx, reader>>

-------------------------------------------------------------------------------
(* Readers *)

\* RF_INTF_ACTIVATED: a payer with message m.
Activate(m, order) ==
    /\ reader = Away
    /\ reader' = [msg |-> m, order |-> order, at |-> 0, stage |-> "near"]
    /\ ResetReceive
    /\ UNCHANGED <<loaded, selected, rx>>

\* RF_DEACTIVATE, at any moment.
Deactivate ==
    /\ reader # Away
    /\ reader' = Away
    /\ ResetReceive
    /\ UNCHANGED <<loaded, selected, rx>>

SelectCC ==
    /\ reader.stage = "near"
    /\ selected' = "cc"
    /\ UNCHANGED <<loaded, body, nlen, expected, rx, reader>>

\* SELECT of the NDEF file: 6A82 when no message is loaded.
SelectNdef ==
    /\ reader.stage = "near"
    /\ IF loaded
       THEN /\ selected' = "ndef"
            /\ ResetReceive
            /\ reader' = [reader EXCEPT !.stage = "ready"]
       ELSE /\ reader' = [reader EXCEPT !.stage = "refused"]
            /\ UNCHANGED <<selected, body, nlen, expected>>
    /\ UNCHANGED <<loaded, rx>>

-------------------------------------------------------------------------------
(* UPDATE BINARY *)

\* process_complete_message hands over as much of the buffer as the length
\* says, all of it when the length is absurd.
Handed(want) == IF 0 < want /\ want <= Room THEN want ELSE Room

\* on_ndef_written: ndef_parse_message needs the whole length to be there and a
\* record that fits; ndef_extract_cashu_token looks at the start of the text.
TextOf(cells, length, want) ==
    LET m == cells[1][1]
    IN  IF /\ 0 < length
           /\ length <= Handed(want)
           /\ m \in Tokens
           /\ LenOf[m] <= Handed(want)
        THEN [i \in 1 .. LenOf[m] |-> cells[i]]
        ELSE rx

\* The buffer after k cells of the reader's message were written from `from` on.
Written(from, k) ==
    [i \in 1 .. Room |->
        IF from < i /\ i <= from + k THEN <<reader.msg, i>> ELSE body[i]]

\* Mutant: the check for a body that is already there is missing.
CompleteInOneWrite(k, length) == 0 < length /\ length <= k

\* A write at offset 0: complete when it carries the whole message, or when the
\* body was written before (has_nonzero_data).
CompleteAtLength(k, length) ==
    /\ 0 < length
    /\ \/ length <= k
       \/ \E i \in 1 .. Covered(length) : Written(0, k)[i] # Zero

\* A write behind it: complete when it reaches the length announced.
CompleteAtBody(from, k) == 0 < expected /\ expected <= from + k

\* The reader gets 6A82 and goes away without a payment.
Refuse ==
    /\ reader' = [reader EXCEPT !.stage = "refused"]
    /\ UNCHANGED <<loaded, selected, body, nlen, expected, rx>>

\* Every branch of UPDATE BINARY, as the reader sees it: refused unless the
\* NDEF file is selected and the data fits.
Accepts(from, k) == selected = "ndef" /\ from + k <= Room

WriteLength(length, k, next) ==
    IF ~Accepts(0, k)
    THEN Refuse
    ELSE /\ body' = Written(0, k)
         /\ nlen' = length
         /\ expected' = length
         /\ rx' = IF CompleteAtLength(k, length)
                  THEN TextOf(body', length, length) ELSE rx
         /\ reader' = next
         /\ UNCHANGED <<loaded, selected>>

WriteBody(from, k, next) ==
    IF ~Accepts(from, k)
    THEN Refuse
    ELSE /\ body' = Written(from, k)
         /\ rx' = IF CompleteAtBody(from, k)
                  THEN TextOf(body', nlen, expected) ELSE rx
         /\ reader' = next
         /\ UNCHANGED <<loaded, selected, nlen, expected>>

\* Where the reader stands once it has written up to cell `at`.
Wrote(at, finished) ==
    [reader EXCEPT !.at = at, !.stage = IF finished THEN "done" ELSE "writing"]

\* Cells the next chunk from cell `from` on carries.
Chunk(from) ==
    IF LenOf[reader.msg] - from < MaxChunk THEN LenOf[reader.msg] - from ELSE MaxChunk

\* The whole file in one command.
WriteWhole ==
    LET n == LenOf[reader.msg]
    IN  /\ reader.order = "whole"
        /\ reader.stage = "ready"
        /\ n <= MaxChunk
        /\ WriteLength(n, n, Wrote(n, TRUE))

\* The length by itself, then the body in chunks.
WriteLengthAlone ==
    LET n == LenOf[reader.msg]
    IN  /\ reader.order = "length_alone"
        /\ \/ /\ reader.stage = "ready"
              /\ WriteLength(n, 0, Wrote(0, FALSE))
           \/ /\ reader.stage = "writing"
              /\ LET k == Chunk(reader.at)
                 IN  WriteBody(reader.at, k, Wrote(reader.at + k, reader.at + k = n))

\* The file from its first byte on, in chunks (rig/src/acr.rs: write_ndef).
WriteLengthFirst ==
    LET n == LenOf[reader.msg]
    IN  /\ reader.order = "length_first"
        /\ \/ /\ reader.stage = "ready"
              /\ WriteLength(n, Chunk(0), Wrote(Chunk(0), Chunk(0) = n))
           \/ /\ reader.stage = "writing"
              /\ LET k == Chunk(reader.at)
                 IN  WriteBody(reader.at, k, Wrote(reader.at + k, reader.at + k = n))

\* Length 0, the body in chunks, then the length (the phone pattern of
\* tests/host/nfc_tests.cpp).
WriteLengthLast ==
    LET n == LenOf[reader.msg]
    IN  /\ reader.order = "length_last"
        /\ \/ /\ reader.stage = "ready"
              /\ WriteLength(0, 0, Wrote(0, FALSE))
           \/ /\ reader.stage = "writing"
              /\ reader.at < n
              /\ LET k == Chunk(reader.at)
                 IN  WriteBody(reader.at, k, Wrote(reader.at + k, FALSE))
           \/ /\ reader.stage = "writing"
              /\ reader.at = n
              /\ WriteLength(n, 0, Wrote(n, TRUE))

-------------------------------------------------------------------------------

TagInit ==
    /\ loaded = FALSE
    /\ selected = "none"
    /\ body = [i \in 1 .. Room |-> Zero]
    /\ nlen = 0
    /\ expected = -1
    /\ rx = <<>>
    /\ reader = Away

\* A payer at a tag that is listening: once a token was taken the session stops
\* answering.
Approach ==
    \/ \E w \in Writers : Activate(w[1], w[2])
    \/ Deactivate

Command ==
    \/ SelectCC
    \/ SelectNdef
    \/ WriteWhole
    \/ WriteLengthAlone
    \/ WriteLengthFirst
    \/ WriteLengthLast

\* The tag alone, for a session that always listens.
TagNext ==
    \/ ~loaded /\ SetMessage /\ rx' = <<>>
    \/ loaded /\ rx = <<>> /\ (Approach \/ Command)
    \/ loaded /\ ClearMessage

-------------------------------------------------------------------------------
(* Properties *)

TagTypeOK ==
    /\ loaded \in BOOLEAN
    /\ selected \in {"none", "cc", "ndef"}
    /\ body \in [1 .. Room -> Cells]
    /\ nlen \in Nat
    /\ expected \in Nat \cup {-1}
    /\ rx = <<>> \/ \E m \in Tokens : DOMAIN rx = 1 .. LenOf[m]
    /\ reader.stage \in {"away", "near", "ready", "writing", "done", "refused"}

\* ndef.hpp: the callback is invoked when a complete message has been written,
\* so a token that is taken is a token some payer presented, all of it.
TokensWhole == rx # <<>> => \E m \in Tokens : rx = Bytes(m)

\* A payer whose last command is answered 9000 has had its token taken in that
\* very step, all of it and nobody else's.
AnsweredIsTaken ==
    [][reader'.stage = "done" /\ reader.stage # "done" /\ reader.msg \in Tokens
          => rx' = Bytes(reader.msg)]_tagVars
===============================================================================
