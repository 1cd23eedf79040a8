------------------------------ MODULE TagReader ------------------------------
(***************************************************************************)
(* Payment sessions on the boards with an MFRC522 (nfc_reader.cpp over     *)
(* rc522.c): the session powers the antenna, looks for a tag, and reads a  *)
(* token off it, as a type 4 tag over ISO-DEP or as a type 2 tag page by   *)
(* page.  The console's nfcdump uses the same chip, and so does a second   *)
(* session beside one that a stop has abandoned: nothing locks it, and     *)
(* only single register accesses are atomic.                               *)
(*                                                                         *)
(* One exchange with the card is three steps: load the FIFO, send, collect.*)
(* The rounds of the anticollision and of SELECT are one exchange, as are  *)
(* the selection of application, CC and file and the read of the length;   *)
(* chained blocks are one answer.  Register accesses do not fail.          *)
(***************************************************************************)
EXTENDS Integers, Sequences

CONSTANTS
    Tags,          \* what may be held to the antenna
    NoTag,
    Kind,          \* a tag's type: "T2" or "T4"
    Delay,         \* ms a tag takes to answer the activation and page reads
    Asks,          \* the tags that ask for more time (WTX)
    TokenTags,     \* the tags with a token
    Blocks,        \* READs or READ BINARYs that a text takes
    MaxSessions    \* bound: sessions ever started

\* Timer values in ms: rc522_init and isodep_end, RATS, and a card's own.
InitMs == 100
RatsMs == 20
FrameMs == 40

ASSUME ReaderAssumption ==
    /\ NoTag \notin Tags
    /\ Kind \in [Tags -> {"T2", "T4"}]
    /\ Delay \in [Tags -> 1 .. InitMs]
    /\ Asks \subseteq Tags /\ TokenTags \subseteq Tags
    /\ Blocks \in Nat \ {0}
    /\ MaxSessions \in Nat \ {0}

VARIABLES
    field,      \* TxControlReg: the antenna is driven
    crc,        \* TxModeReg, RxModeReg: hardware CRC
    timer,      \* TReloadReg, in ms
    fifo,       \* FIFODataReg: a frame to send, an answer, or Empty
    irq,        \* ComIrqReg: "none", "rx" or "timer"
    tag,        \* the tag at the antenna (outside src/)
    card,       \* and the state it is in
    pc,         \* where each user of the chip stands
    io,         \* in its exchange: "idle", "loaded", "sent"
    n,          \* its next block, or its attempts at RATS
    text,       \* what it has read
    handle,     \* s_task_handle: a session, 0 for nullptr
    stopFlag,   \* s_stop_flag
    failed,     \* history: a connect has failed and no ISO-DEP session has ended since
    alone       \* history: users that nobody has disturbed since their poll began

chipVars == <<field, crc, timer, fifo, irq>>
cardVars == <<tag, card>>
userVars == <<pc, io, n, text>>
taskVars == <<handle, stopFlag>>
vars == <<chipVars, cardVars, userVars, taskVars, failed, alone>>

Dump == 0
Sessions == 1 .. MaxSessions
Users == {Dump} \cup Sessions

Empty == <<"empty">>

Cell(t, i) == <<"cell", t, i>>

Whole(t) == [i \in 1 .. Blocks |-> Cell(t, i)]

Goto(u, where) == pc' = [pc EXCEPT ![u] = where]

Touches(u) == alone' = alone \cap {u}

-----------------------------------------------------------------------------
(* The card                                                                *)

(* What a card does with a frame: its next state and its answer.           *)
Silent == [card |-> IF card \in {"isodep", "asked"} THEN card ELSE "idle",
           answer |-> Empty]

Reply(frame) ==
    LET to(state, answer) == [card |-> state, answer |-> answer]
    IN CASE ~crc /\ frame \in {<<"reqa">>, <<"wupa">>} /\ card = "idle" ->
                to("ready", <<"atqa">>)
         [] ~crc /\ frame = <<"select">> /\ card = "ready" ->
                to("selected", <<"sak", Kind[tag]>>)
         [] ~crc /\ frame[1] = "page" /\ card = "selected" /\ Kind[tag] = "T2" ->
                to("selected", Cell(tag, frame[2]))
         [] crc /\ frame = <<"rats">> /\ card = "selected" /\ Kind[tag] = "T4" ->
                to("isodep", <<"ats">>)
         [] crc /\ frame = <<"pick">> /\ card = "isodep" ->
                IF tag \in Asks THEN to("asked", <<"wtx">>) ELSE to("isodep", <<"ok">>)
         [] crc /\ frame = <<"wtx">> /\ card = "asked" -> to("isodep", <<"ok">>)
         [] crc /\ frame[1] = "block" /\ card = "isodep" ->
                to("isodep", Cell(tag, frame[2]))
         [] OTHER -> Silent

\* How long the answer takes.
Due(frame) ==
    IF frame[1] = "wtx" THEN 2 * FrameMs
    ELSE IF frame[1] \in {"pick", "block"} THEN FrameMs
    ELSE Delay[tag]

TagChanges ==
    /\ tag' \in (Tags \cup {NoTag}) \ {tag}
    /\ card' = IF tag' # NoTag /\ field THEN "idle" ELSE "off"
    /\ UNCHANGED <<chipVars, userVars, taskVars, failed, alone>>

(* rc522_field                                                             *)
Field(on) ==
    /\ field' = on
    /\ card' = IF ~on THEN "off"
               ELSE IF card = "off" /\ tag # NoTag THEN "idle" ELSE card
    /\ tag' = tag

-----------------------------------------------------------------------------
(* rc522_transceive                                                        *)

Exchanges == {"reqa", "wupa", "select", "rats", "pick", "wtx", "block", "page"}

Frame(u) ==
    IF pc[u] \in {"block", "page"} THEN <<pc[u], n[u]>> ELSE <<pc[u]>>

\* Idle, clear the interrupts, flush, fill the FIFO.
Load(u) ==
    /\ pc[u] \in Exchanges /\ io[u] = "idle"
    /\ fifo' = Frame(u)
    /\ irq' = "none"
    /\ io' = [io EXCEPT ![u] = "loaded"]
    /\ Touches(u)
    /\ UNCHANGED <<field, crc, timer, cardVars, pc, n, text, taskVars, failed>>

\* Whatever is in the FIFO goes out; the timer starts at its end.
Send(u) ==
    /\ io[u] = "loaded"
    /\ LET reply == IF card = "off" THEN [card |-> card, answer |-> Empty]
                    ELSE Reply(fifo)
           heard == reply.answer # Empty /\ Due(fifo) <= timer
       IN /\ card' = reply.card
          /\ fifo' = IF heard THEN reply.answer ELSE Empty
          /\ irq' = IF heard THEN "rx" ELSE "timer"
    /\ io' = [io EXCEPT ![u] = "sent"]
    /\ Touches(u)
    /\ UNCHANGED <<field, crc, timer, tag, pc, n, text, taskVars, failed>>

(* The answer as the user sees it, nothing after the timer.  When another  *)
(* user has cleared the interrupts the loop runs to its cap, and takes what*)
(* is in the FIFO.                                                         *)
Heard == IF irq = "timer" THEN Empty ELSE fifo

Collected(u) ==
    /\ io[u] = "sent"
    /\ fifo' = Empty
    /\ io' = [io EXCEPT ![u] = "idle"]
    /\ irq' = irq
    /\ Touches(u)

-----------------------------------------------------------------------------
(* rc522_poll                                                              *)

\* A session goes back to its loop, a dump gives up; what was read is gone.
Fails(u) ==
    /\ Goto(u, IF u = Dump THEN "close" ELSE "loop")
    /\ n' = [n EXCEPT ![u] = 0]
    /\ text' = [text EXCEPT ![u] = <<>>]

\* The antenna goes off, the framing and the modes are restored.
Reset(u) ==
    /\ pc[u] = "poll"
    /\ Field(FALSE)
    /\ crc' = FALSE
    /\ fifo' = Empty
    /\ alone' = {u}
    /\ Goto(u, "power")
    /\ UNCHANGED <<timer, irq, io, n, text, taskVars, failed>>

PowerUp(u) ==
    /\ pc[u] = "power"
    /\ Field(TRUE)
    /\ Touches(u)
    /\ Goto(u, "reqa")
    /\ UNCHANGED <<crc, timer, fifo, irq, io, n, text, taskVars, failed>>

Woken(u) ==
    /\ pc[u] \in {"reqa", "wupa"}
    /\ Collected(u)
    /\ IF Heard = <<"atqa">> THEN Goto(u, "select") /\ UNCHANGED <<n, text>>
       ELSE IF pc[u] = "reqa" THEN Goto(u, "wupa") /\ UNCHANGED <<n, text>>
       ELSE Fails(u)
    /\ UNCHANGED <<field, crc, timer, cardVars, taskVars, failed>>

(* Selected: an ISO-DEP card is connected to, any other read by pages.     *)
Selected(u) ==
    /\ pc[u] = "select"
    /\ Collected(u)
    /\ \/ Heard = <<"sak", "T4">> /\ Goto(u, "connect") /\ UNCHANGED <<n, text>>
       \/ Heard = <<"sak", "T2">> /\ Goto(u, "page") /\ UNCHANGED <<n, text>>
       \/ Heard[1] # "sak" /\ Fails(u)
    /\ UNCHANGED <<field, crc, timer, cardVars, taskVars, failed>>

-----------------------------------------------------------------------------
(* ISO-DEP: rc522_isodep_connect, exchange and end                         *)

Connect(u) ==
    /\ pc[u] = "connect"
    /\ crc' = TRUE
    /\ timer' = RatsMs
    /\ Touches(u)
    /\ Goto(u, "rats")
    /\ UNCHANGED <<field, fifo, irq, cardVars, io, n, text, taskVars, failed>>

\* Mutant: a dump that cannot connect returns with the antenna on.
FallBackRadiating(u) ==
    /\ Goto(u, IF u = Dump THEN "off" ELSE "page")
    /\ n' = [n EXCEPT ![u] = 0]
    /\ text' = [text EXCEPT ![u] = <<>>]

\* Without ISO-DEP a session tries the pages; a dump gives up.
FallBack(u) ==
    /\ Goto(u, IF u = Dump THEN "close" ELSE "page")
    /\ n' = [n EXCEPT ![u] = 0]
    /\ text' = [text EXCEPT ![u] = <<>>]

(* Up to three RATS.  After the last the modes are restored, not the timer.*)
Ats(u) ==
    /\ pc[u] = "rats"
    /\ Collected(u)
    /\ \/ /\ Heard = <<"ats">>
          /\ timer' = FrameMs
          /\ n' = [n EXCEPT ![u] = 1]
          /\ Goto(u, "pick")
          /\ UNCHANGED <<crc, text, failed>>
       \/ /\ Heard # <<"ats">> /\ n[u] < 2
          /\ n' = [n EXCEPT ![u] = @ + 1]
          /\ UNCHANGED <<crc, timer, pc, text, failed>>
       \/ /\ Heard # <<"ats">> /\ n[u] = 2
          /\ crc' = FALSE
          /\ failed' = TRUE
          /\ FallBack(u)
          /\ UNCHANGED timer
    /\ UNCHANGED <<field, cardVars, taskVars>>

(* SELECTs and the length.  A card may ask for more time once: the timer is*)
(* widened for its answer and set back after it.                           *)
Picked(u) ==
    /\ pc[u] \in {"pick", "wtx"}
    /\ Collected(u)
    /\ \/ /\ Heard = <<"ok">>
          /\ timer' = IF pc[u] = "wtx" THEN FrameMs ELSE timer
          /\ Goto(u, "block")
       \/ /\ Heard = <<"wtx">> /\ pc[u] = "pick"
          /\ timer' = 2 * FrameMs
          /\ Goto(u, "wtx")
       \/ /\ Heard # <<"ok">> /\ (Heard = <<"wtx">> => pc[u] = "wtx")
          /\ Goto(u, "leave")
          /\ UNCHANGED timer
    /\ UNCHANGED <<field, crc, cardVars, n, text, taskVars, failed>>

-----------------------------------------------------------------------------
(* t2_read_ndef_text, t4t_read_ndef_text                                   *)

IsCell(answer) == answer[1] = "cell"

\* The READ behind the header, or the next READ BINARY.
Longer(u, answer) ==
    IF u = Dump \/ n[u] = 0 THEN text[u] ELSE Append(text[u], answer)

Block(u) ==
    /\ pc[u] = "block"
    /\ Collected(u)
    /\ \/ /\ IsCell(Heard)
          /\ text' = [text EXCEPT ![u] = Longer(u, Heard)]
          /\ n' = [n EXCEPT ![u] = @ + 1]
          /\ IF n[u] < Blocks THEN pc' = pc ELSE Goto(u, "leave")
       \/ /\ ~IsCell(Heard)
          /\ Goto(u, "leave")
          /\ UNCHANGED <<n, text>>
    /\ UNCHANGED <<field, crc, timer, cardVars, taskVars, failed>>

\* Whoever has read a text: a session redeems one with a token and goes on
\* looking after any other.
Judged(u, read) ==
    IF u # Dump /\ read # <<>> /\ \E t \in TokenTags : read[1] = Cell(t, 1)
    THEN Goto(u, "redeeming") /\ n' = [n EXCEPT ![u] = 0] /\ text' = [text EXCEPT ![u] = read]
    ELSE Fails(u)

\* Mutant: the timer keeps the card's value.
EndKeepsTimer == crc' = FALSE /\ timer' = timer

\* rc522_isodep_end
End == crc' = FALSE /\ timer' = InitMs

Leave(u) ==
    /\ pc[u] = "leave"
    /\ End
    /\ failed' = FALSE
    /\ Touches(u)
    /\ IF n[u] > Blocks THEN Judged(u, text[u])
       ELSE FallBack(u)
    /\ UNCHANGED <<field, fifo, irq, cardVars, io, taskVars>>

\* Behind the page of the header and that of each cell of the text.
NextPage(u, read) ==
    IF n[u] = Blocks THEN Judged(u, read)
    ELSE /\ n' = [n EXCEPT ![u] = @ + 1]
         /\ text' = [text EXCEPT ![u] = read]
         /\ pc' = pc

\* Mutant: a page that is not read is passed over.
NotReadIgnored(u) == NextPage(u, text[u])

NotRead(u) == Fails(u)

(* The capability container in the first READ, then the text.              *)
Page(u) ==
    /\ pc[u] = "page"
    /\ Collected(u)
    /\ \/ IsCell(Heard) /\ NextPage(u, Longer(u, Heard))
       \/ ~IsCell(Heard) /\ NotRead(u)
    /\ UNCHANGED <<field, crc, timer, cardVars, taskVars, failed>>

-----------------------------------------------------------------------------
(* nfc_task and cmd_nfcdump                                                *)

Idle(u) == pc[u] \in {"off", "gone"}

\* rc522_field(true), then a session may wait for the store's lock.
FieldOn(u) ==
    /\ pc[u] = "new"
    /\ Field(TRUE)
    /\ Touches(u)
    /\ Goto(u, IF u = Dump THEN "poll" ELSE "starting")
    /\ UNCHANGED <<crc, timer, fifo, irq, io, n, text, taskVars, failed>>

Ready(u) ==
    /\ pc[u] = "starting"
    /\ Goto(u, "loop")
    /\ UNCHANGED <<chipVars, cardVars, io, n, text, taskVars, failed, alone>>

(* The head of the loop: stopped, timed out after 120 s, or another poll.  *)
SeeStop(u) ==
    /\ pc[u] = "loop" /\ stopFlag
    /\ Goto(u, "close")
    /\ UNCHANGED <<chipVars, cardVars, io, n, text, taskVars, failed, alone>>

Timeout(u) ==
    /\ pc[u] = "loop" /\ ~stopFlag
    /\ Goto(u, "close")
    /\ UNCHANGED <<chipVars, cardVars, io, n, text, taskVars, failed, alone>>

Poll(u) ==
    /\ pc[u] = "loop" /\ ~stopFlag
    /\ Goto(u, "poll")
    /\ UNCHANGED <<chipVars, cardVars, io, n, text, taskVars, failed, alone>>

\* nfc_redeem_or_stash; the antenna stays on.
Redeem(u) ==
    /\ pc[u] = "redeeming"
    /\ Goto(u, "close")
    /\ UNCHANGED <<chipVars, cardVars, io, n, text, taskVars, failed, alone>>

\* The antenna goes off; a session clears the handle and is gone.
Close(u) ==
    /\ pc[u] = "close"
    /\ Field(FALSE)
    /\ Touches(u)
    /\ text' = [text EXCEPT ![u] = <<>>]
    /\ IF u = Dump THEN Goto(u, "off") /\ handle' = handle
       ELSE Goto(u, "gone") /\ handle' = 0
    /\ UNCHANGED <<crc, timer, fifo, irq, io, n, stopFlag, failed>>

User(u) ==
    \/ FieldOn(u) \/ Ready(u) \/ SeeStop(u) \/ Timeout(u) \/ Poll(u)
    \/ Reset(u) \/ PowerUp(u)
    \/ Load(u) \/ Send(u)
    \/ Woken(u) \/ Selected(u) \/ Connect(u) \/ Ats(u) \/ Picked(u)
    \/ Block(u) \/ Leave(u) \/ Page(u)
    \/ Redeem(u) \/ Close(u)

-----------------------------------------------------------------------------
(* The console: nfc request, nfc stop, nfcdump, one at a time              *)

Stopping == stopFlag /\ handle # 0

AtPrompt == ~Stopping /\ Idle(Dump)

Start ==
    /\ AtPrompt
    /\ handle = 0
    /\ stopFlag' = FALSE
    /\ \E s \in Sessions :
        /\ pc[s] = "off" /\ \A t \in Sessions : pc[t] = "off" => s <= t
        /\ handle' = s
        /\ Goto(s, "new")
    /\ UNCHANGED <<chipVars, cardVars, io, n, text, failed, alone>>

Stop ==
    /\ AtPrompt
    /\ stopFlag' = TRUE
    /\ UNCHANGED <<chipVars, cardVars, userVars, handle, failed, alone>>

\* Lock, redemption and a card that asks for time can take more than 5 s.
StopAbandons ==
    /\ Stopping
    /\ \E s \in Sessions : pc[s] \in {"starting", "redeeming", "wtx"}
    /\ handle' = 0
    /\ UNCHANGED <<chipVars, cardVars, userVars, stopFlag, failed, alone>>

NfcDump ==
    /\ AtPrompt
    /\ Goto(Dump, "new")
    /\ UNCHANGED <<chipVars, cardVars, io, n, text, taskVars, failed, alone>>

-----------------------------------------------------------------------------

Init ==
    /\ field = FALSE /\ crc = FALSE /\ timer = InitMs
    /\ fifo = Empty /\ irq = "none"
    /\ tag = NoTag /\ card = "off"
    /\ pc = [u \in Users |-> "off"]
    /\ io = [u \in Users |-> "idle"]
    /\ n = [u \in Users |-> 0]
    /\ text = [u \in Users |-> <<>>]
    /\ handle = 0 /\ stopFlag = FALSE
    /\ failed = FALSE
    /\ alone = {}

Next ==
    \/ \E u \in Users : User(u)
    \/ Start \/ Stop \/ StopAbandons \/ NfcDump
    \/ TagChanges

\* Every task is scheduled: locks are released and http requests end.
Fairness == \A u \in Users : WF_vars(User(u))

Spec == Init /\ [][Next]_vars /\ Fairness

-----------------------------------------------------------------------------
(* Properties                                                              *)

\* What a session sets out to redeem is one tag's whole text, although tags come
\* and go between two READs and the buffer holds an older text: unless another
\* user of the chip came in between, whose answers carry no page number.
TextsWhole ==
    \A s \in Sessions :
        pc[s] = "redeeming" /\ s \in alone => \E t \in Tags : text[s] = Whole(t)

\* rc522.c: the antenna stays off at idle, so that a writer beside the board never
\* meets two fields.  When no session and no dump is left, whichever way the last
\* ended and whatever another was doing, the antenna is off and the chip as
\* rc522_init left it; only a failed connect leaves the timer at the 20 ms of RATS.
RestsClean ==
    (\A u \in Users : Idle(u)) =>
        /\ ~field /\ ~crc
        /\ timer = InitMs \/ failed

\* A token on a tag that is left at the antenna ends the session that looks for it:
\* it is read, also a slow one and after whatever tags were read before.  Not after
\* a failed connect, whose 20 ms every later poll inherits (see the README).
HeldTagTaken ==
    \A t \in TokenTags :
        <>[](/\ tag = t /\ ~failed /\ Idle(Dump)
             /\ \A r, s \in Sessions : Idle(r) \/ Idle(s) \/ r = s)
            => <>[](\A s \in Sessions : Idle(s))
=============================================================================
