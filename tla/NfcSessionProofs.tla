--------------------------- MODULE NfcSessionProofs ---------------------------
(***************************************************************************)
(* The emulated tag and the sessions over it, for any messages, buffer and *)
(* chunk sizes, readers and number of sessions.                            *)
(*                                                                         *)
(* What the tag promises a payer holds whoever starts and stops sessions;  *)
(* what the keypad shows is proved for the keypad alone and sessions that  *)
(* are never stuck for longer than a stop waits.                           *)
(***************************************************************************)
EXTENDS NfcSession, TLAPS

(* The receive buffer holds the first `n` cells of the reader's message.     *)
Holds(n) ==
    \A i \in 1 .. Room : body[i] = IF i <= n THEN <<reader.msg, i>> ELSE Zero

(* The reader in the field, and what the buffer holds for it: nothing but    *)
(* what it wrote since it selected the file, however the tag was cleared and *)
(* loaded in between.                                                        *)
ReaderOK ==
    /\ reader \in [msg: Messages \cup {NoMessage}, order: Strategies \cup {"none"},
                   at: Nat,
                   stage: {"away", "near", "ready", "writing", "done", "refused"}]
    /\ reader.stage # "away" => <<reader.msg, reader.order>> \in Writers
    /\ reader.stage = "ready" => Holds(0)
    /\ reader.stage = "writing" =>
        /\ reader.at <= LenOf[reader.msg]
        /\ reader.at <= Room
        /\ Holds(reader.at)
        /\ \/ /\ reader.order \in {"length_first", "length_alone"}
              /\ reader.at < LenOf[reader.msg]
              /\ nlen = LenOf[reader.msg]
              /\ expected = LenOf[reader.msg]
           \/ /\ reader.order = "length_last"
              /\ nlen = 0
              /\ expected = 0

TagInv == TagTypeOK /\ ReaderOK

SessionInv == TagInv /\ TypeOK /\ AnsweredIsRedeemed

(* A session between the creation of its task and the reset of the handle.   *)
Working(t) ==
    task[t] \in {"starting", "looping", "polling", "redeeming", "paying", "closing"}

Ended(t) == task[t] \in {"none", "gone"}

(* How a session ended, and what the state says of it.                       *)
Shown(how) ==
    \/ how = "success" /\ result[mine] = "paid"
    \/ how = "error" /\ result[mine] \in {"refused", "timeout", "failed"}

(* The keypad by itself: only the session it started last is alive, the      *)
(* handle is that session's, a give means that it is gone, and the state     *)
(* follows its task until the keypad stops it.                               *)
ScreenInv ==
    /\ \A t \in Sessions : t # mine => Ended(t)
    /\ handle # 0 => handle = mine
    /\ \A t \in Sessions : Working(t) => handle = t
    /\ done => \A t \in Sessions : Ended(t)
    /\ ui = "home" =>
        /\ state = "idle"
        /\ \A t \in Sessions : Ended(t)
        /\ caller["keypad"] \in {"free", "starting"}
    /\ ui = "session" =>
        /\ mine \in Sessions
        /\ caller["keypad"] \in {"free", "stopping", "pausing"}
        /\ stopFlag => caller["keypad"] = "stopping"
        /\ \/ task[mine] = "starting" /\ state = "idle"
           \/ task[mine] \in {"looping", "polling"} /\ state \in {"waiting", "active"}
           \/ task[mine] \in {"redeeming", "paying"} /\ state = "redeeming"
           \/ /\ task[mine] \in {"closing", "giving", "gone"}
              /\ Shown(state) \/ stopFlag
    /\ caller["keypad"] = "pausing" =>
        /\ task[mine] \in {"closing", "giving", "gone"}
        /\ Shown(lastNfc)
-------------------------------------------------------------------------------
(* The buffer *)

\* The first cell exists and is no length of a message.
LEMMA CellFacts ==
    /\ \A m \in Messages : LenOf[m] \in Nat \ {0}
    /\ Tokens \subseteq Messages /\ NoMessage \notin Messages
    /\ Zero \in Cells
    /\ \A m \in Messages : \A i \in 1 .. LenOf[m] : <<m, i>> \in Cells /\ <<m, i>> # Zero
BY TagAssumption DEF Cells, Zero

\* A write right behind the cells that are there leaves that many more.
LEMMA WrittenBehind ==
    ASSUME NEW from \in Nat, NEW k \in Nat, Holds(from)
    PROVE  \A i \in 1 .. Room :
              Written(from, k)[i] = IF i <= from + k THEN <<reader.msg, i>> ELSE Zero
BY TagAssumption DEF Holds, Written

\* A chunk is not empty and ends within the message.
LEMMA ChunkBound ==
    ASSUME NEW n \in Nat, LenOf[reader.msg] = n, NEW from \in Nat, from < n
    PROVE  Chunk(from) \in Nat /\ 0 < Chunk(from) /\ from + Chunk(from) <= n
BY TagAssumption DEF Chunk

\* The whole token is in the buffer: on_ndef_written hands over all of it.
LEMMA TextWhole ==
    ASSUME NEW m \in Tokens, NEW cells, LenOf[m] <= Room,
           \A i \in 1 .. Room : cells[i] = IF i <= LenOf[m] THEN <<m, i>> ELSE Zero
    PROVE  TextOf(cells, LenOf[m], LenOf[m]) = Bytes(m) /\ Bytes(m) # <<>>
<1>1. LenOf[m] \in Nat /\ 0 < LenOf[m] /\ Room \in Nat /\ 0 < Room
  BY CellFacts, TagAssumption
<1>2. cells[1] = <<m, 1>>
  <2>1. 1 \in 1 .. Room /\ 1 <= LenOf[m]
    BY <1>1
  <2> QED
    BY <2>1
<1>3. TextOf(cells, LenOf[m], LenOf[m]) = [i \in 1 .. LenOf[m] |-> cells[i]]
  BY <1>1, <1>2 DEF TextOf, Handed
<1>4. ASSUME NEW i \in 1 .. LenOf[m] PROVE cells[i] = <<m, i>>
  <2>1. i \in 1 .. Room /\ i <= LenOf[m]
    BY <1>1
  <2> QED
    BY <2>1
<1>5. TextOf(cells, LenOf[m], LenOf[m]) = Bytes(m)
  BY <1>3, <1>4 DEF Bytes
<1>6. DOMAIN Bytes(m) = 1 .. LenOf[m] /\ 1 \in 1 .. LenOf[m]
  BY <1>1 DEF Bytes
<1>7. DOMAIN <<>> = {}
  OBVIOUS
<1> QED
  BY <1>5, <1>6, <1>7

\* Whatever is handed over has the length of a token, or is what was there before.
LEMMA TextTyped ==
    ASSUME NEW cells, NEW length, NEW want
    PROVE  \/ TextOf(cells, length, want) = rx
           \/ /\ cells[1][1] \in Tokens
              /\ DOMAIN TextOf(cells, length, want) = 1 .. LenOf[cells[1][1]]
BY DEF TextOf

\* A reader that writes from the start of the file on fits a token in one chunk.
ShortFirst ==
    \A w \in Writers :
        w[2] = "length_first" /\ w[1] \in Tokens => LenOf[w[1]] <= MaxChunk

\* What a command leaves: the reader is the same one, a reader that is done sees its
\* token taken, and nothing but a whole token is taken.
Answered ==
    /\ TagInv'
    /\ reader.stage \notin {"away", "done"}
    /\ reader'.msg = reader.msg /\ reader'.order = reader.order
    /\ reader'.stage = "done" /\ reader.msg \in Tokens =>
            rx' = Bytes(reader.msg) /\ rx' # <<>>
    /\ ShortFirst => rx' = rx \/ \E m \in Tokens : rx' = Bytes(m)

\* A reader in the field writes one of the messages.
LEMMA Messenger ==
    ASSUME TagInv, reader.stage # "away"
    PROVE  /\ reader.msg \in Messages /\ reader.order \in Strategies
           /\ <<reader.msg, reader.order>> \in Writers
           /\ LenOf[reader.msg] \in Nat /\ 0 < LenOf[reader.msg]
BY CellFacts, TagAssumption DEF TagInv, ReaderOK

\* An accepted write after which the first `a` cells are there: the text is handed
\* over when it was the last, or too early by the first chunk of a longer message.
Put(a, stage) == [reader EXCEPT !.at = a, !.stage = stage]

WriteLeaves(a, stage) ==
    /\ reader.stage \in {"ready", "writing"}
    /\ a <= LenOf[reader.msg] /\ a <= Room
    /\ body' = [i \in 1 .. Room |-> IF i <= a THEN <<reader.msg, i>> ELSE Zero]
    /\ reader' = Put(a, stage)
    /\ UNCHANGED <<loaded, selected>>
    /\ nlen' \in Nat /\ expected' \in Nat
    /\ stage = "writing" =>
        \/ /\ reader.order \in {"length_first", "length_alone"}
           /\ a < LenOf[reader.msg]
           /\ nlen' = LenOf[reader.msg] /\ expected' = LenOf[reader.msg]
        \/ reader.order = "length_last" /\ nlen' = 0 /\ expected' = 0
    /\ stage = "done" =>
        /\ a = LenOf[reader.msg]
        /\ rx' = TextOf(body', LenOf[reader.msg], LenOf[reader.msg])
    /\ \/ rx' = rx
       \/ stage = "done"
       \/ /\ \E l, w : rx' = TextOf(body', l, w)
          /\ reader.order = "length_first" /\ MaxChunk < LenOf[reader.msg]

LEMMA WriteEffect ==
    ASSUME TagInv, NEW a \in Nat, NEW stage \in {"writing", "done"},
           WriteLeaves(a, stage)
    PROVE  Answered
<1> USE DEF WriteLeaves
<1>1. /\ reader.msg \in Messages /\ reader.order \in Strategies
      /\ <<reader.msg, reader.order>> \in Writers
      /\ LenOf[reader.msg] \in Nat /\ 0 < LenOf[reader.msg]
  BY Messenger
<1>2. reader' = [msg |-> reader.msg, order |-> reader.order, at |-> a,
                 stage |-> stage]
  BY DEF TagInv, ReaderOK, Put
<1>3. \A i \in 1 .. Room : body'[i] = IF i <= a THEN <<reader.msg, i>> ELSE Zero
  OBVIOUS
<1>4. body' \in [1 .. Room -> Cells]
  BY <1>1, CellFacts
<1>5. body'[1][1] \in Tokens => body'[1][1] = reader.msg
  <2>1. Room \in Nat /\ 1 \in 1 .. Room
    BY TagAssumption
  <2>2. body'[1] = <<reader.msg, 1>> \/ body'[1] = Zero
    BY <2>1
  <2> QED
    BY <2>2, CellFacts DEF Zero
<1>6. ReaderOK'
  <2>1. reader' \in [msg: Messages \cup {NoMessage}, order: Strategies \cup {"none"},
                     at: Nat,
                     stage: {"away", "near", "ready", "writing", "done", "refused"}]
    BY <1>1, <1>2
  <2>2. Holds(reader.at)'
    BY <1>2, <1>3 DEF Holds
  <2> QED
    BY <1>1, <1>2, <2>1, <2>2 DEF ReaderOK
<1>7. rx' = <<>> \/ \E m \in Tokens : DOMAIN rx' = 1 .. LenOf[m]
  <2>1. rx' = rx \/ \E l, w : rx' = TextOf(body', l, w)
    OBVIOUS
  <2>2. rx = <<>> \/ \E m \in Tokens : DOMAIN rx = 1 .. LenOf[m]
    BY DEF TagInv, TagTypeOK
  <2> QED
    BY <2>1, <2>2, TextTyped
<1>8. TagTypeOK'
  BY <1>2, <1>4, <1>7 DEF TagInv, TagTypeOK
<1>9. stage = "done" /\ reader.msg \in Tokens => rx' = Bytes(reader.msg) /\ rx' # <<>>
  BY <1>3, TextWhole
<1>10. ASSUME ShortFirst PROVE rx' = rx \/ \E m \in Tokens : rx' = Bytes(m)
  <2>1. CASE stage = "done" /\ reader.msg \in Tokens
    BY <1>9, <2>1
  <2>2. CASE reader.msg \notin Tokens
    BY <1>5, <2>2, TextTyped
  <2>3. CASE reader.msg \in Tokens /\ stage # "done"
    <3>1. ~(reader.order = "length_first" /\ MaxChunk < LenOf[reader.msg])
      BY <1>1, <1>10, <2>3, TagAssumption DEF ShortFirst
    <3> QED
      BY <2>3, <3>1
  <2> QED
    BY <2>1, <2>2, <2>3
<1> QED
  BY <1>2, <1>6, <1>8, <1>9, <1>10 DEF Answered, TagInv

\* A command that is refused leaves the buffer and what was taken.
LEMMA RefuseEffect ==
    ASSUME TagInv, reader.stage \in {"near", "ready", "writing"}, Refuse
    PROVE  Answered
<1>1. reader' = [msg |-> reader.msg, order |-> reader.order, at |-> reader.at,
                 stage |-> "refused"]
  BY DEF Refuse, TagInv, ReaderOK
<1>2. ReaderOK'
  BY <1>1 DEF TagInv, ReaderOK
<1>3. TagTypeOK'
  BY <1>1 DEF Refuse, TagInv, TagTypeOK
<1> QED
  BY <1>1, <1>2, <1>3 DEF Refuse, Answered, TagInv

\* The buffer all zero, as ndef_reset_receive leaves it.
LEMMA ResetEffect ==
    ASSUME ResetReceive
    PROVE  /\ Holds(0)' /\ nlen' \in Nat /\ expected' \in Nat \cup {-1}
           /\ body' \in [1 .. Room -> Cells]
BY CellFacts, TagAssumption DEF ResetReceive, Holds

\* Every command of a reader: SELECT, and UPDATE BINARY in each of the orders.
LEMMA CommandStep ==
    ASSUME TagInv, Command
    PROVE  Answered
<1>1. CASE SelectCC
  BY <1>1 DEF SelectCC, Answered, TagInv, TagTypeOK, ReaderOK, Holds
<1>2. CASE SelectNdef
  <2>1. CASE loaded
    <3>1. /\ ResetReceive /\ selected' = "ndef" /\ reader.stage = "near"
          /\ reader' = [msg |-> reader.msg, order |-> reader.order, at |-> reader.at,
                       stage |-> "ready"]
          /\ UNCHANGED <<loaded, rx>>
      BY <1>2, <2>1 DEF SelectNdef, TagInv, ReaderOK
    <3>2. ReaderOK'
      BY <3>1, ResetEffect DEF TagInv, ReaderOK
    <3>3. TagTypeOK'
      BY <3>1, ResetEffect DEF TagInv, TagTypeOK
    <3> QED
      BY <3>1, <3>2, <3>3 DEF Answered, TagInv
  <2>2. CASE ~loaded
    <3>1. Refuse /\ reader.stage = "near"
      BY <1>2, <2>2 DEF SelectNdef, Refuse
    <3> QED
      BY <3>1, RefuseEffect
  <2> QED
    BY <2>1, <2>2
<1> DEFINE n == LenOf[reader.msg]
<1>3. ASSUME reader.stage \in {"ready", "writing"}
      PROVE  n \in Nat /\ 0 < n /\ TagTypeOK /\ ReaderOK
  BY <1>3, Messenger DEF TagInv
<1> HIDE DEF n
<1>5. CASE WriteWhole
  <2>1. reader.stage = "ready" /\ Holds(0) /\ n \in Nat /\ 0 < n
    BY <1>3, <1>5 DEF WriteWhole, ReaderOK
  <2>2. CASE ~Accepts(0, n)
    BY <1>5, <2>1, <2>2, RefuseEffect DEF WriteWhole, WriteLength, n
  <2>3. CASE Accepts(0, n)
    <3>1. /\ body' = Written(0, n) /\ nlen' = n /\ expected' = n
          /\ UNCHANGED <<loaded, selected>>
          /\ reader' = Put(n, "done")
          /\ rx' = TextOf(body', n, n) /\ n <= Room
      BY <1>5, <2>1, <2>3
         DEF WriteWhole, WriteLength, Accepts, CompleteAtLength, Wrote, Put, n
    <3>2. body' = [i \in 1 .. Room |-> IF i <= n THEN <<reader.msg, i>> ELSE Zero]
      BY <2>1, <3>1, WrittenBehind DEF Written
    <3>3. WriteLeaves(n, "done")
      <4>1. /\ n <= n /\ nlen' \in Nat /\ expected' \in Nat
            /\ reader.stage \in {"ready", "writing"}
        BY <2>1, <3>1
      <4> QED
        BY <3>1, <3>2, <4>1 DEF WriteLeaves, n
    <3> QED
      BY <2>1, <3>3, WriteEffect
  <2> QED
    BY <2>2, <2>3
<1>6. ASSUME NEW k \in Nat, 0 < k, reader.stage = "writing", reader.at + k <= n,
             WriteBody(reader.at, k, Wrote(reader.at + k, FALSE)),
             reader.order = "length_last"
      PROVE  Answered
  <2>1. /\ reader.at \in Nat /\ Holds(reader.at) /\ n \in Nat
        /\ nlen = 0 /\ expected = 0 /\ Room \in Nat
    BY <1>3, <1>6, TagAssumption DEF ReaderOK
  <2>2. CASE ~Accepts(reader.at, k)
    BY <1>6, <2>2, RefuseEffect DEF WriteBody
  <2>3. CASE Accepts(reader.at, k)
    <3>1. /\ body' = Written(reader.at, k) /\ nlen' = 0 /\ expected' = 0
          /\ UNCHANGED <<loaded, selected>>
          /\ reader' = Put(reader.at + k, "writing")
          /\ rx' = rx /\ reader.at + k <= Room
      BY <1>6, <2>1, <2>3 DEF WriteBody, Accepts, CompleteAtBody, Wrote, Put
    <3>2. body' = [i \in 1 .. Room |->
                      IF i <= reader.at + k THEN <<reader.msg, i>> ELSE Zero]
      BY <2>1, <3>1, WrittenBehind DEF Written
    <3>3. WriteLeaves(reader.at + k, "writing")
      BY <1>6, <2>1, <3>1, <3>2 DEF WriteLeaves, n
    <3> QED
      BY <2>1, <3>3, WriteEffect
  <2> QED
    BY <2>2, <2>3
<1>7. ASSUME NEW k \in Nat, 0 < k, reader.stage = "writing", reader.at + k <= n,
             NEW next, WriteBody(reader.at, k, next),
             reader.at + k = n => next = Put(reader.at + k, "done"),
             reader.at + k # n => next = Put(reader.at + k, "writing"),
             reader.order \in {"length_first", "length_alone"}
      PROVE  Answered
  <2>1. /\ reader.at \in Nat /\ Holds(reader.at) /\ n \in Nat /\ 0 < n
        /\ nlen = n /\ expected = n /\ Room \in Nat
    BY <1>3, <1>7, TagAssumption DEF ReaderOK, n
  <2>2. CASE ~Accepts(reader.at, k)
    BY <1>7, <2>2, RefuseEffect DEF WriteBody
  <2>3. CASE Accepts(reader.at, k)
    <3>1. /\ body' = Written(reader.at, k) /\ nlen' = n /\ expected' = n
          /\ UNCHANGED <<loaded, selected>>
          /\ reader' = next
          /\ rx' = IF reader.at + k = n THEN TextOf(body', n, n) ELSE rx
          /\ reader.at + k <= Room
      BY <1>7, <2>1, <2>3 DEF WriteBody, Accepts, CompleteAtBody, Wrote, Put
    <3>2. body' = [i \in 1 .. Room |->
                      IF i <= reader.at + k THEN <<reader.msg, i>> ELSE Zero]
      BY <2>1, <3>1, WrittenBehind DEF Written
    <3>3. CASE reader.at + k = n
      <4>1. WriteLeaves(reader.at + k, "done")
        BY <1>7, <2>1, <3>1, <3>2, <3>3 DEF WriteLeaves, n
      <4> QED
        BY <2>1, <4>1, WriteEffect
    <3>4. CASE reader.at + k # n
      <4>1. /\ reader.at + k < n /\ reader.at + k <= n /\ n \in Nat
            /\ nlen' = n /\ expected' = n /\ rx' = rx
            /\ reader.at + k \in Nat
        BY <1>7, <2>1, <3>1, <3>4
      <4>2. WriteLeaves(reader.at + k, "writing")
        BY <1>7, <3>1, <3>2, <3>4, <4>1 DEF WriteLeaves, n
      <4> QED
        BY <4>1, <4>2, WriteEffect
    <3> QED
      BY <3>3, <3>4
  <2> QED
    BY <2>2, <2>3
<1>8. ASSUME NEW k \in Nat, NEW length, reader.stage = "ready", k <= n,
             NEW next, WriteLength(length, k, next),
             k = n => next = Put(k, "done"),
             k # n => next = Put(k, "writing"),
             \/ reader.order = "length_alone" /\ k = 0 /\ length = n
             \/ reader.order = "length_first" /\ k = Chunk(0) /\ length = n /\ 0 < k
             \/ reader.order = "length_last" /\ k = 0 /\ length = 0
      PROVE  Answered
  <2>1. Holds(0) /\ n \in Nat /\ 0 < n /\ Room \in Nat /\ length \in Nat
    BY <1>3, <1>8, TagAssumption DEF ReaderOK
  <2>2. CASE ~Accepts(0, k)
    BY <1>8, <2>2, RefuseEffect DEF WriteLength
  <2>3. CASE Accepts(0, k)
    <3>1. /\ body' = Written(0, k) /\ nlen' = length /\ expected' = length
          /\ UNCHANGED <<loaded, selected>>
          /\ reader' = next
          /\ k <= Room
          /\ rx' = IF CompleteAtLength(k, length)
                   THEN TextOf(body', length, length) ELSE rx
      BY <1>8, <2>1, <2>3 DEF WriteLength, Accepts, Wrote, Put
    <3>2. \A i \in 1 .. Room :
              Written(0, k)[i] = IF i <= k THEN <<reader.msg, i>> ELSE Zero
      BY <2>1, WrittenBehind
    <3>3. body' = [i \in 1 .. Room |-> IF i <= k THEN <<reader.msg, i>> ELSE Zero]
      BY <3>1, <3>2 DEF Written
    <3>4. k = 0 => ~CompleteAtLength(k, length)
      <4>1. \A i \in 1 .. Covered(length) : i \in 1 .. Room
        BY <2>1 DEF Covered
      <4>2. k = 0 => \A i \in 1 .. Room : Written(0, k)[i] = Zero
        <5>1. \A i \in 1 .. Room : ~(i <= 0)
          OBVIOUS
        <5> QED
          BY <3>2, <5>1
      <4> QED
        BY <2>1, <4>1, <4>2 DEF CompleteAtLength
    <3>5. 0 < k /\ k = n => CompleteAtLength(k, length) /\ length = n
      BY <1>8, <2>1 DEF CompleteAtLength
    <3>6. 0 < k /\ k < n => MaxChunk < n /\ reader.order = "length_first"
      BY <1>8, <2>1, TagAssumption DEF Chunk, n
    <3>7. CASE k = 0
      <4>1. WriteLeaves(k, "writing")
        BY <1>8, <2>1, <3>1, <3>3, <3>4, <3>7 DEF WriteLeaves, n
      <4> QED
        BY <4>1, WriteEffect
    <3>8. CASE 0 < k /\ k = n
      <4>1. WriteLeaves(k, "done")
        BY <1>8, <2>1, <3>1, <3>3, <3>5, <3>8 DEF WriteLeaves, n
      <4> QED
        BY <4>1, WriteEffect
    <3>9. CASE 0 < k /\ k < n
      <4>1. rx' = rx \/ \E l, w : rx' = TextOf(body', l, w)
        BY <3>1
      <4>2. length = n /\ nlen' = n /\ expected' = n
        BY <1>8, <2>1, <3>1, <3>9
      <4>3. WriteLeaves(k, "writing")
        BY <1>8, <2>1, <3>1, <3>3, <3>6, <3>9, <4>1, <4>2 DEF WriteLeaves, n
      <4> QED
        BY <4>3, WriteEffect
    <3> QED
      BY <1>8, <2>1, <3>7, <3>8, <3>9
  <2> QED
    BY <2>2, <2>3
<1>9. CASE WriteLengthAlone
  <2>1. CASE reader.stage = "ready"
    <3>1. /\ WriteLength(n, 0, Put(0, "writing")) /\ reader.order = "length_alone"
          /\ n \in Nat /\ 0 < n
      <4>1. Wrote(0, FALSE) = Put(0, "writing")
        BY DEF Wrote, Put
      <4>2. WriteLength(n, 0, Wrote(0, FALSE)) /\ reader.order = "length_alone"
        BY <1>9, <2>1 DEF WriteLengthAlone, n
      <4> QED
        BY <1>3, <2>1, <4>1, <4>2
    <3>2. PICK next : next = Put(0, "writing")
      OBVIOUS
    <3>3. 0 \in Nat /\ 0 <= n /\ 0 # n
      BY <3>1
    <3> QED
      BY <1>8, <2>1, <3>1, <3>2, <3>3
  <2>2. CASE reader.stage = "writing"
    <3>1. /\ reader.order = "length_alone"
          /\ WriteBody(reader.at, Chunk(reader.at),
                      Wrote(reader.at + Chunk(reader.at), reader.at + Chunk(reader.at) = n))
      BY <1>9, <2>2 DEF WriteLengthAlone, n
    <3>2. reader.at \in Nat /\ reader.at < n /\ n \in Nat
      BY <1>3, <2>2, <3>1 DEF ReaderOK, n
    <3>3. /\ Chunk(reader.at) \in Nat /\ 0 < Chunk(reader.at)
          /\ reader.at + Chunk(reader.at) <= n
      BY <3>2, ChunkBound DEF n
    <3>4. LET at == reader.at + Chunk(reader.at)
          IN  /\ at = n => Wrote(at, at = n) = Put(at, "done")
              /\ at # n => Wrote(at, at = n) = Put(at, "writing")
      BY DEF Wrote, Put
    <3> QED
      BY <1>7, <2>2, <3>1, <3>3, <3>4
  <2> QED
    BY <1>9, <2>1, <2>2 DEF WriteLengthAlone
<1>10. CASE WriteLengthFirst
  <2>1. CASE reader.stage = "ready"
    <3>1. /\ WriteLength(n, Chunk(0), Wrote(Chunk(0), Chunk(0) = n))
          /\ reader.order = "length_first" /\ n \in Nat /\ 0 < n
      BY <1>3, <1>10, <2>1 DEF WriteLengthFirst, n
    <3>2. Chunk(0) \in Nat /\ 0 < Chunk(0) /\ Chunk(0) <= n
      BY <3>1, ChunkBound DEF n
    <3>3. /\ Chunk(0) = n => Wrote(Chunk(0), Chunk(0) = n) = Put(Chunk(0), "done")
          /\ Chunk(0) # n => Wrote(Chunk(0), Chunk(0) = n) = Put(Chunk(0), "writing")
      BY DEF Wrote, Put
    <3> QED
      BY <1>8, <2>1, <3>1, <3>2, <3>3
  <2>2. CASE reader.stage = "writing"
    <3>1. /\ reader.order = "length_first"
          /\ WriteBody(reader.at, Chunk(reader.at),
                      Wrote(reader.at + Chunk(reader.at), reader.at + Chunk(reader.at) = n))
      BY <1>10, <2>2 DEF WriteLengthFirst, n
    <3>2. reader.at \in Nat /\ reader.at < n /\ n \in Nat
      BY <1>3, <2>2, <3>1 DEF ReaderOK, n
    <3>3. /\ Chunk(reader.at) \in Nat /\ 0 < Chunk(reader.at)
          /\ reader.at + Chunk(reader.at) <= n
      BY <3>2, ChunkBound DEF n
    <3>4. LET at == reader.at + Chunk(reader.at)
          IN  /\ at = n => Wrote(at, at = n) = Put(at, "done")
              /\ at # n => Wrote(at, at = n) = Put(at, "writing")
      BY DEF Wrote, Put
    <3> QED
      BY <1>7, <2>2, <3>1, <3>3, <3>4
  <2> QED
    BY <1>10, <2>1, <2>2 DEF WriteLengthFirst
<1>11. CASE WriteLengthLast
  <2>1. CASE reader.stage = "ready"
    <3>1. /\ WriteLength(0, 0, Put(0, "writing")) /\ reader.order = "length_last"
          /\ n \in Nat /\ 0 < n
      <4>1. Wrote(0, FALSE) = Put(0, "writing")
        BY DEF Wrote, Put
      <4>2. WriteLength(0, 0, Wrote(0, FALSE)) /\ reader.order = "length_last"
        BY <1>11, <2>1 DEF WriteLengthLast
      <4> QED
        BY <1>3, <2>1, <4>1, <4>2
    <3>2. PICK next : next = Put(0, "writing")
      OBVIOUS
    <3>3. 0 \in Nat /\ 0 <= n /\ 0 # n
      BY <3>1
    <3> QED
      BY <1>8, <2>1, <3>1, <3>2, <3>3
  <2>2. CASE reader.stage = "writing" /\ reader.at < n
    <3>1. reader.at \in Nat /\ n \in Nat
      BY <1>3, <2>2 DEF ReaderOK
    <3>2. /\ reader.order = "length_last"
          /\ WriteBody(reader.at, Chunk(reader.at),
                      Wrote(reader.at + Chunk(reader.at), FALSE))
      <4>1. reader.stage # "ready" /\ ~(reader.at = n)
        BY <2>2, <3>1
      <4> QED
        BY <1>11, <2>2, <4>1 DEF WriteLengthLast, n
    <3>3. /\ Chunk(reader.at) \in Nat /\ 0 < Chunk(reader.at)
          /\ reader.at + Chunk(reader.at) <= n
      BY <2>2, <3>1, ChunkBound DEF n
    <3> QED
      BY <1>6, <2>2, <3>1, <3>2, <3>3
  <2>3. CASE reader.stage = "writing" /\ reader.at = n
    <3>1. /\ WriteLength(n, 0, Wrote(n, TRUE)) /\ reader.order = "length_last"
          /\ n \in Nat /\ 0 < n /\ n <= Room /\ Holds(n) /\ Room \in Nat
      <4>1. n \in Nat /\ 0 < n /\ n <= Room /\ Holds(n) /\ Room \in Nat
        BY <1>3, <2>3, TagAssumption DEF ReaderOK
      <4> QED
        <5>1. reader.stage # "ready" /\ ~(reader.at < n)
          BY <2>3, <4>1
        <5> QED
          BY <1>11, <2>3, <4>1, <5>1 DEF WriteLengthLast, n
    <3>2. CASE ~Accepts(0, 0)
      BY <2>3, <3>1, <3>2, RefuseEffect DEF WriteLength
    <3>3. CASE Accepts(0, 0)
      <4>1. \A i \in 1 .. Room :
                Written(0, 0)[i] = IF i <= n THEN <<reader.msg, i>> ELSE Zero
        BY <3>1 DEF Written, Holds
      <4>2. CompleteAtLength(0, n)
        <5>1. 1 \in 1 .. Room /\ 1 \in 1 .. Covered(n) /\ 1 <= n /\ 1 \in 1 .. n
          BY <3>1 DEF Covered
        <5>2. Written(0, 0)[1] = <<reader.msg, 1>>
          BY <4>1, <5>1
        <5>3. <<reader.msg, 1>> # Zero
          BY <2>3, <5>1, Messenger, CellFacts DEF n
        <5> QED
          BY <3>1, <5>1, <5>2, <5>3 DEF CompleteAtLength
      <4>3. /\ body' = Written(0, 0) /\ nlen' = n /\ expected' = n
            /\ UNCHANGED <<loaded, selected>>
            /\ reader' = Put(n, "done")
            /\ rx' = TextOf(body', n, n)
        BY <3>1, <3>3, <4>2 DEF WriteLength, Wrote, Put
      <4>4. body' = [i \in 1 .. Room |-> IF i <= n THEN <<reader.msg, i>> ELSE Zero]
        BY <4>1, <4>3 DEF Written
      <4>5. WriteLeaves(n, "done")
        BY <2>3, <3>1, <4>3, <4>4 DEF WriteLeaves, n
      <4> QED
        BY <3>1, <4>5, WriteEffect
    <3> QED
      BY <3>2, <3>3
  <2> QED
    BY <1>11, <2>1, <2>2, <2>3 DEF WriteLengthLast, n
<1> QED
  BY <1>1, <1>2, <1>5, <1>9, <1>10, <1>11 DEF Command
-------------------------------------------------------------------------------
(* Sessions over the tag *)

\* Everything but rx, which a new session clears.
bufferVars == <<loaded, selected, body, nlen, expected, reader>>

\* What a step does to the tag.
LEMMA TagView ==
    ASSUME Next
    PROVE  \/ UNCHANGED tagVars
           \/ UNCHANGED bufferVars /\ rx' = <<>>
           \/ SetMessage /\ rx' = rx
           \/ ClearMessage
           \/ Deactivate
           \/ \E w \in Writers : Activate(w[1], w[2])
           \/ Command
<1>1. ASSUME NEW t \in Sessions, Task(t)
      PROVE  \/ UNCHANGED tagVars
             \/ SetMessage /\ rx' = rx
             \/ ClearMessage
             \/ Deactivate
             \/ \E w \in Writers : Activate(w[1], w[2])
             \/ Command
  BY <1>1 DEF Task, Prepare, PrepareFails, SeeStop, Timeout, Poll, NoFrame, ReaderComes,
              ReaderGoes, HandleApdu, Decode, Redeem, Close, Give
<1>2. ASSUME NEW c \in Callers, Caller(c)
      PROVE  UNCHANGED tagVars \/ (UNCHANGED bufferVars /\ rx' = <<>>)
  BY <1>2 DEF Caller, StartCheck, StartCreate, Stop, StopTaken, StopAbandons, bufferVars
<1>3. CASE Look
  BY <1>3 DEF Look
<1> QED
  BY <1>1, <1>2, <1>3 DEF Next

\* The tag, its buffer and the reader stay as they must be.
LEMMA TagStep ==
    ASSUME TagInv, Next
    PROVE  TagInv'
<1>1. CASE UNCHANGED tagVars
  BY <1>1 DEF tagVars, TagInv, TagTypeOK, ReaderOK, Holds
<1>2. CASE UNCHANGED bufferVars /\ rx' = <<>>
  BY <1>2 DEF bufferVars, TagInv, TagTypeOK, ReaderOK, Holds
<1>3. CASE SetMessage /\ rx' = rx
  BY <1>3 DEF SetMessage, TagInv, TagTypeOK, ReaderOK, Holds
<1>4. CASE ClearMessage
  BY <1>4 DEF ClearMessage, TagInv, TagTypeOK, ReaderOK, Holds
<1>5. CASE Deactivate
  BY <1>5, ResetEffect DEF Deactivate, Away, TagInv, TagTypeOK, ReaderOK
<1>6. ASSUME NEW w \in Writers, Activate(w[1], w[2]) PROVE TagInv'
  <2>1. /\ w = <<w[1], w[2]>> /\ w[1] \in Messages /\ w[2] \in Strategies
        /\ reader' = [msg |-> w[1], order |-> w[2], at |-> 0, stage |-> "near"]
        /\ ResetReceive /\ UNCHANGED <<loaded, selected, rx>>
    BY <1>6, TagAssumption DEF Activate
  <2>2. ReaderOK'
    BY <2>1 DEF ReaderOK
  <2>3. TagTypeOK'
    BY <2>1, ResetEffect DEF TagInv, TagTypeOK
  <2> QED
    BY <2>2, <2>3 DEF TagInv
<1>7. CASE Command
  BY <1>7, CommandStep DEF Answered
<1> QED
  BY <1>1, <1>2, <1>3, <1>4, <1>5, <1>6, <1>7, TagView

\* A text a payer saw accepted stays in s_rx, with a session waiting to decode it, or
\* is recorded as decoded or as taken by another session.
LEMMA AnsweredStep ==
    ASSUME TagInv, TypeOK, AnsweredIsRedeemed, Next
    PROVE  AnsweredIsRedeemed'
<1>1. ASSUME UNCHANGED <<owed, wiped, rx>>, Awaiting => Awaiting'
      PROVE  AnsweredIsRedeemed'
  BY <1>1 DEF AnsweredIsRedeemed
<1>2. ASSUME NEW t \in Sessions, task[t] # "redeeming", NEW pc, Goto(t, pc), Awaiting
      PROVE  Awaiting'
  BY <1>2 DEF Awaiting, Goto, TypeOK
<1>3. ASSUME NEW t \in Sessions, Task(t) PROVE AnsweredIsRedeemed'
  <2>1. CASE HandleApdu(t)
    <3>1. /\ task[t] = "polling" /\ Command /\ CheckToken(t)
          /\ owed' = owed \cup NewlyAnswered
          /\ wiped' = (wiped \cup WrittenOver) \ NewlyAnswered
      BY <2>1 DEF HandleApdu
    <3>2. Awaiting => Awaiting'
      BY <1>2, <3>1 DEF CheckToken
    <3>3. ASSUME NEW text \in NewlyAnswered PROVE rx' = text /\ Awaiting'
      <4>1. /\ reader'.stage = "done" /\ reader.msg \in Tokens /\ text = Bytes(reader.msg)
        BY <3>3 DEF NewlyAnswered
      <4>2. rx' = text /\ rx' # <<>>
        BY <3>1, <4>1, CommandStep DEF Answered
      <4>3. task' = [task EXCEPT ![t] = "redeeming"]
        BY <3>1, <4>2 DEF CheckToken, Goto
      <4> QED
        BY <4>2, <4>3 DEF Awaiting, TypeOK
    <3>4. ASSUME NEW text \in owed, text \notin wiped, text \notin WrittenOver
          PROVE  rx' = text /\ Awaiting'
      <4>1. rx = text /\ Awaiting
        BY <3>4 DEF AnsweredIsRedeemed
      <4> QED
        BY <3>2, <3>4, <4>1 DEF WrittenOver
    <3> QED
      BY <3>1, <3>3, <3>4 DEF AnsweredIsRedeemed
  <2>2. CASE Decode(t)
    <3>1. owed' = owed \ {rx} /\ wiped' = wiped
      BY <2>2 DEF Decode
    <3> QED
      BY <3>1 DEF AnsweredIsRedeemed
  <2>3. CASE Prepare(t) \/ PrepareFails(t) \/ SeeStop(t) \/ Timeout(t) \/ Poll(t) \/ NoFrame(t)
    <3>1. /\ task[t] # "redeeming" /\ \E pc : Goto(t, pc)
          /\ UNCHANGED <<owed, wiped, rx>>
      BY <2>3 DEF Prepare, PrepareFails, SeeStop, Timeout, Poll, NoFrame, tagVars
    <3> QED
      BY <1>1, <1>2, <3>1
  <2>4. CASE ReaderComes(t) \/ ReaderGoes(t) \/ Redeem(t) \/ Close(t) \/ Give(t)
    <3>1. /\ task[t] # "redeeming" /\ \E pc : Goto(t, pc)
          /\ UNCHANGED <<owed, wiped, rx>>
      BY <2>4 DEF ReaderComes, ReaderGoes, Redeem, Close, Give, tagVars, Activate,
                  Deactivate, ClearMessage
    <3> QED
      BY <1>1, <1>2, <3>1
  <2> QED
    BY <1>3, <2>1, <2>2, <2>3, <2>4 DEF Task
<1>4. ASSUME NEW c \in Callers, StartCreate(c) PROVE AnsweredIsRedeemed'
  <2>1. wiped' = wiped \cup WrittenOver /\ rx' = <<>> /\ owed' = owed
    BY <1>4 DEF StartCreate
  <2>2. Awaiting => Awaiting'
    <3>1. \/ task' = task
          \/ \E t \in Unused : Goto(t, "starting")
      BY <1>4 DEF StartCreate
    <3>2. CASE task' = task
      BY <3>2 DEF Awaiting
    <3>3. ASSUME NEW t \in Unused, Goto(t, "starting"), Awaiting PROVE Awaiting'
      BY <1>2, <3>3 DEF Unused
    <3> QED
      BY <3>1, <3>2, <3>3
  <2>3. ASSUME NEW text \in owed, text \notin wiped, text \notin WrittenOver
        PROVE  rx' = text /\ Awaiting'
    <3>1. rx = text /\ Awaiting
      BY <2>3 DEF AnsweredIsRedeemed
    <3> QED
      BY <2>2, <2>3, <3>1 DEF WrittenOver
  <2> QED
    BY <2>1, <2>3 DEF AnsweredIsRedeemed
<1>5. ASSUME NEW c \in Callers,
             StartCheck(c) \/ Stop(c) \/ StopTaken(c) \/ StopAbandons(c)
      PROVE  AnsweredIsRedeemed'
  <2>1. UNCHANGED <<owed, wiped, rx, task>>
    BY <1>5 DEF StartCheck, Stop, StopTaken, StopAbandons, tagVars
  <2> QED
    BY <1>1, <2>1 DEF Awaiting
<1>6. CASE Look
  <2>1. UNCHANGED <<owed, wiped, rx, task>>
    BY <1>6 DEF Look, tagVars
  <2> QED
    BY <1>1, <2>1 DEF Awaiting
<1> QED
  BY <1>3, <1>4, <1>5, <1>6 DEF Next, Caller

\* Types of the session, whoever starts and stops it; the handle is reset before the
\* task gives and goes.
LEMMA SessionTyped ==
    ASSUME TagInv, TypeOK, Next
    PROVE  TypeOK'
<1> USE DEF NfcStates, Sessions
<1> USE SessionAssumption
<1>0. TagTypeOK'
  BY TagStep DEF TagInv
<1> DEFINE Rest ==
      /\ state' \in NfcStates
      /\ stopFlag' \in BOOLEAN /\ done' \in BOOLEAN
      /\ handle' \in 0 .. MaxSessions /\ mine' \in 0 .. MaxSessions
      /\ task' \in [Sessions -> {"none", "starting", "looping", "polling", "redeeming",
                                 "paying", "closing", "giving", "gone"}]
      /\ caller' \in [{"console", "keypad"} -> {"free", "starting", "stopping", "pausing"}]
      /\ ui' \in {"home", "session"}
      /\ lastNfc' \in NfcStates \cup {"off"}
      /\ result' \in [Sessions -> {"none", "refused", "stopped", "timeout", "paid", "failed"}]
      /\ handle' # 0 => task'[handle'] \notin {"none", "giving", "gone"}
<1>1. ASSUME NEW t \in Sessions, Task(t) PROVE Rest
  <2>1. CASE Prepare(t)
    BY <2>1 DEF Prepare, Goto, TypeOK
  <2>2. CASE PrepareFails(t)
    BY <2>2 DEF PrepareFails, Goto, End, TypeOK
  <2>3. CASE SeeStop(t)
    BY <2>3 DEF SeeStop, Goto, End, TypeOK
  <2>4. CASE Timeout(t)
    BY <2>4 DEF Timeout, Goto, End, TypeOK
  <2>5. CASE \/ Poll(t) \/ NoFrame(t) \/ ReaderComes(t) \/ ReaderGoes(t) \/ HandleApdu(t)
    <3>1. /\ \E pc \in {"looping", "polling", "redeeming"} :
                task' = [task EXCEPT ![t] = pc]
          /\ state' \in {state, "active", "waiting", "redeeming"}
          /\ UNCHANGED <<stopFlag, handle, done, caller, ui, lastNfc, mine, result>>
      BY <2>5 DEF Poll, NoFrame, ReaderComes, ReaderGoes, HandleApdu, CheckToken, Goto
    <3> QED
      BY <3>1 DEF TypeOK
  <2>9. CASE Decode(t)
    <3>1. CASE Goto(t, "paying") /\ UNCHANGED <<state, result>>
      BY <2>9, <3>1 DEF Decode, Goto, TypeOK
    <3>2. CASE Goto(t, "closing") /\ state' = "error" /\ End(t, "failed")
      BY <2>9, <3>2 DEF Decode, Goto, End, TypeOK
    <3> QED
      BY <2>9, <3>1, <3>2 DEF Decode
  <2>6. CASE Redeem(t)
    <3>1. PICK paid \in BOOLEAN :
              /\ state' = IF paid THEN "success" ELSE "error"
              /\ result' = [result EXCEPT ![t] = IF paid THEN "paid" ELSE "failed"]
      BY <2>6 DEF Redeem, End
    <3> QED
      BY <2>6, <3>1 DEF Redeem, Goto, TypeOK
  <2>7. CASE Close(t)
    BY <2>7 DEF Close, Goto, TypeOK
  <2>8. CASE Give(t)
    BY <2>8 DEF Give, Goto, TypeOK
  <2> QED
    BY <1>1, <2>1, <2>2, <2>3, <2>4, <2>5, <2>6, <2>7, <2>8, <2>9 DEF Task
<1>2. ASSUME NEW c \in Callers, Caller(c) PROVE Rest
  <2>0. c \in {"console", "keypad"}
    BY SessionAssumption
  <2>1. CASE StartCheck(c)
    BY <2>0, <2>1 DEF StartCheck, Arrive, TypeOK
  <2>2. CASE StartCreate(c)
    <3>1. /\ done' = FALSE /\ stopFlag' = FALSE /\ UNCHANGED <<state, result>>
          /\ caller' = [caller EXCEPT ![c] = "free"]
      BY <2>2 DEF StartCreate, DrainGive, Arrive
    <3>2. CASE UNCHANGED <<handle, task, ui, lastNfc, mine>>
      BY <2>0, <3>1, <3>2 DEF TypeOK
    <3>3. ASSUME NEW t \in Unused, Goto(t, "starting"), handle' = t,
                 \/ ui' = "session" /\ lastNfc' = "off" /\ mine' = t
                 \/ UNCHANGED <<ui, lastNfc, mine>>
          PROVE  Rest
      <4>1. t \in Sessions /\ t \in 0 .. MaxSessions
        BY SessionAssumption DEF Unused
      <4>2. task' = [task EXCEPT ![t] = "starting"]
        BY <3>3 DEF Goto
      <4>3. /\ task' \in [Sessions -> {"none", "starting", "looping", "polling", "redeeming",
                                 "paying", "closing", "giving", "gone"}]
            /\ task'[handle'] = "starting"
        BY <3>3, <4>1, <4>2 DEF TypeOK
      <4> QED
        BY <2>0, <3>1, <3>3, <4>1, <4>3 DEF TypeOK
    <3> QED
      BY <2>2, <3>2, <3>3 DEF StartCreate
  <2>3. CASE Stop(c) \/ StopTaken(c) \/ StopAbandons(c)
    <3>1. /\ stopFlag' \in {stopFlag, TRUE} /\ done' \in {done, FALSE}
          /\ UNCHANGED <<task, mine, result>>
          /\ \/ Stopped(c)
             \/ Arrive(c, "stopping") /\ UNCHANGED <<handle, state, ui, lastNfc>>
      BY <2>3 DEF Stop, BeginStop, StopTaken, StopAbandons
    <3>2. CASE Stopped(c)
      <4>1. /\ handle' = 0 /\ state' = "idle"
            /\ caller' = [caller EXCEPT ![c] = "free"]
            /\ ui' \in {ui, "home"} /\ lastNfc' \in {lastNfc, "off"}
        BY <3>2 DEF Stopped, Arrive
      <4>2. caller' \in [{"console", "keypad"} -> {"free", "starting", "stopping", "pausing"}]
        BY <2>0, <4>1 DEF TypeOK
      <4>3. stopFlag' \in BOOLEAN /\ done' \in BOOLEAN
        BY <3>1 DEF TypeOK
      <4> QED
        BY <3>1, <4>1, <4>2, <4>3 DEF TypeOK
    <3>3. CASE Arrive(c, "stopping") /\ UNCHANGED <<handle, state, ui, lastNfc>>
      BY <2>0, <3>1, <3>3 DEF Arrive, TypeOK
    <3> QED
      BY <3>1, <3>2, <3>3
  <2> QED
    BY <1>2, <2>1, <2>2, <2>3 DEF Caller
<1>3. ASSUME Look PROVE Rest
  <2>1. /\ lastNfc' = state
        /\ caller' = caller \/ caller' = [caller EXCEPT !["keypad"] = "pausing"]
        /\ UNCHANGED <<state, stopFlag, handle, done, task, ui, mine, result>>
    BY <1>3 DEF Look, Arrive
  <2> QED
    BY <2>1 DEF TypeOK
<1> QED
  BY <1>0, <1>1, <1>2, <1>3 DEF Next, TypeOK

\* Nobody else starts or stops sessions, and a stop waits until the task gives.
KeypadAlone == Callers \subseteq {"keypad"} /\ ~MaySlow

\* What the state says of the session behind the screen.
Follows ==
    \/ task[mine] = "starting" /\ state = "idle"
    \/ task[mine] \in {"looping", "polling"} /\ state \in {"waiting", "active"}
    \/ task[mine] \in {"redeeming", "paying"} /\ state = "redeeming"
    \/ /\ task[mine] \in {"closing", "giving", "gone"}
       /\ Shown(state) \/ stopFlag

\* A step of the one task that is alive.
Moves(pc) ==
    /\ pc \in {"looping", "polling", "redeeming", "paying", "closing", "giving", "gone"}
    /\ task' = [task EXCEPT ![mine] = pc]
    /\ UNCHANGED <<stopFlag, caller, ui, lastNfc, mine>>
    /\ done' => done \/ pc = "gone"
    /\ handle' = IF pc \in {"giving", "gone"} THEN 0 ELSE handle
    /\ task[mine] \in {"closing", "giving"} =>
            UNCHANGED <<state, result>> /\ pc \in {"giving", "gone"}

LEMMA TaskMoves ==
    ASSUME TypeOK, ScreenInv, mine \in Sessions, ~Ended(mine),
           NEW pc, Moves(pc), Follows'
    PROVE  ScreenInv'
<1> USE DEF Moves
<1> USE DEF Ended, Working
<1>1. ui = "session" /\ ~done
  BY DEF ScreenInv, TypeOK
<1>2. task'[mine] = pc /\ \A t \in Sessions : t # mine => task'[t] = task[t]
  BY DEF TypeOK
<1>3. /\ \A t \in Sessions : t # mine' => Ended(t)'
      /\ handle' # 0 => handle' = mine'
      /\ \A t \in Sessions : Working(t)' => handle' = t
  <2>1. \A t \in Sessions : t # mine => Ended(t) /\ Ended(t)' /\ ~Working(t)'
    BY <1>2 DEF ScreenInv
  <2>2. Working(mine) \/ pc \in {"giving", "gone"}
    BY DEF TypeOK
  <2>3. pc \notin {"giving", "gone"} => handle' = mine
    BY <2>2 DEF ScreenInv
  <2>4. \A t \in Sessions : t = mine /\ pc \in {"giving", "gone"} => ~Working(t)'
    BY <1>2
  <2> QED
    BY <2>1, <2>3, <2>4
<1>4. done' => \A t \in Sessions : Ended(t)'
  BY <1>1, <1>2, <1>3
<1>5. caller'["keypad"] = "pausing" =>
        /\ task'[mine'] \in {"closing", "giving", "gone"}
        /\ Shown(lastNfc)'
  BY <1>2 DEF ScreenInv, Shown
<1>6. /\ mine' \in Sessions
      /\ caller'["keypad"] \in {"free", "stopping", "pausing"}
      /\ stopFlag' => caller'["keypad"] = "stopping"
      /\ ui' # "home"
  BY <1>1 DEF ScreenInv
<1> QED
  BY <1>3, <1>4, <1>5, <1>6 DEF ScreenInv, Follows, Sessions

LEMMA ScreenStep ==
    ASSUME KeypadAlone, TypeOK, ScreenInv, Next
    PROVE  ScreenInv'
<1> USE DEF Ended, Working
<1>1. ASSUME NEW t \in Sessions, Task(t) PROVE ScreenInv'
  <2>1. task[t] \in {"starting", "looping", "polling", "redeeming", "paying", "closing",
                     "giving"}
    BY <1>1 DEF Task, Prepare, PrepareFails, SeeStop, Timeout, Poll, NoFrame, ReaderComes,
                ReaderGoes, HandleApdu, Decode, Redeem, Close, Give
  <2>2. mine \in Sessions /\ t = mine /\ ~Ended(mine) /\ ~done /\ Follows
    BY <2>1 DEF ScreenInv, Follows, TypeOK
  <2>3. \A pc : task' = [task EXCEPT ![mine] = pc] => task'[mine] = pc
    BY <2>2 DEF TypeOK
  <2>4. \A how : result' = [result EXCEPT ![mine] = how] => result'[mine] = how
    BY <2>2 DEF TypeOK
  <2>5. CASE Prepare(t)
    <3>1. Moves("looping")
      BY <2>2, <2>5 DEF Prepare, Goto, Moves
    <3>2. Follows'
      BY <2>2, <2>3, <2>5 DEF Prepare, Goto, Follows
    <3> QED
      BY <2>2, <3>1, <3>2, TaskMoves
  <2>6. CASE PrepareFails(t)
    <3>1. Moves("giving")
      BY <2>2, <2>6 DEF PrepareFails, Goto, Moves
    <3>2. Follows'
      BY <2>2, <2>3, <2>4, <2>6 DEF PrepareFails, Goto, End, Follows, Shown
    <3> QED
      BY <2>2, <3>1, <3>2, TaskMoves
  <2>7. CASE SeeStop(t)
    <3>1. Moves("closing")
      BY <2>2, <2>7 DEF SeeStop, Goto, Moves
    <3>2. Follows'
      BY <2>2, <2>3, <2>7 DEF SeeStop, Goto, Follows
    <3> QED
      BY <2>2, <3>1, <3>2, TaskMoves
  <2>8. CASE Timeout(t)
    <3>1. Moves("closing")
      BY <2>2, <2>8 DEF Timeout, Goto, Moves
    <3>2. Follows'
      BY <2>2, <2>3, <2>4, <2>8 DEF Timeout, Goto, End, Follows, Shown
    <3> QED
      BY <2>2, <3>1, <3>2, TaskMoves
  <2>9. CASE Poll(t)
    <3>1. Moves("polling")
      BY <2>2, <2>9 DEF Poll, Goto, Moves
    <3>2. Follows'
      BY <2>2, <2>3, <2>9 DEF Poll, Goto, Follows
    <3> QED
      BY <2>2, <3>1, <3>2, TaskMoves
  <2>10. CASE NoFrame(t)
    <3>1. Moves("looping")
      BY <2>2, <2>10 DEF NoFrame, Goto, Moves
    <3>2. Follows'
      BY <2>2, <2>3, <2>10 DEF NoFrame, Goto, Follows
    <3> QED
      BY <2>2, <3>1, <3>2, TaskMoves
  <2>11. CASE ReaderComes(t)
    <3>1. Moves("looping")
      BY <2>2, <2>11 DEF ReaderComes, Goto, Moves
    <3>2. Follows'
      BY <2>2, <2>3, <2>11 DEF ReaderComes, Goto, Follows
    <3> QED
      BY <2>2, <3>1, <3>2, TaskMoves
  <2>12. CASE ReaderGoes(t)
    <3>1. Moves("looping")
      BY <2>2, <2>12 DEF ReaderGoes, Goto, Moves
    <3>2. Follows'
      BY <2>2, <2>3, <2>12 DEF ReaderGoes, Goto, Follows
    <3> QED
      BY <2>2, <3>1, <3>2, TaskMoves
  <2>13. CASE HandleApdu(t)
    <3>1. \/ Moves("redeeming") /\ state' = "redeeming"
          \/ Moves("looping") /\ state' = state
      BY <2>2, <2>13 DEF HandleApdu, CheckToken, Goto, Moves
    <3>2. Follows'
      BY <2>2, <2>3, <2>13, <3>1 DEF HandleApdu, Moves, Follows
    <3> QED
      BY <2>2, <3>1, <3>2, TaskMoves
  <2>17. CASE Decode(t)
    <3>1. CASE Goto(t, "paying") /\ UNCHANGED <<state, result>>
      <4>1. Moves("paying")
        BY <2>2, <2>17, <3>1 DEF Decode, Goto, Moves
      <4>2. Follows'
        BY <2>2, <2>3, <2>17, <3>1 DEF Decode, Goto, Follows
      <4> QED
        BY <2>2, <4>1, <4>2, TaskMoves
    <3>2. CASE Goto(t, "closing") /\ state' = "error" /\ End(t, "failed")
      <4>1. Moves("closing")
        BY <2>2, <2>17, <3>2 DEF Decode, Goto, Moves
      <4>2. Follows'
        BY <2>2, <2>3, <2>4, <2>17, <3>2 DEF Decode, Goto, End, Follows, Shown
      <4> QED
        BY <2>2, <4>1, <4>2, TaskMoves
    <3> QED
      BY <2>17, <3>1, <3>2 DEF Decode
  <2>14. CASE Redeem(t)
    <3>1. PICK paid \in BOOLEAN :
              /\ state' = IF paid THEN "success" ELSE "error"
              /\ result' = [result EXCEPT ![mine] = IF paid THEN "paid" ELSE "failed"]
      BY <2>2, <2>14 DEF Redeem, End
    <3>2. Shown(state)'
      BY <2>2, <2>14, <3>1 DEF Redeem, Shown, TypeOK
    <3>3. Moves("closing")
      BY <2>2, <2>14 DEF Redeem, Goto, Moves
    <3>4. Follows'
      BY <2>3, <3>2, <3>3 DEF Moves, Follows
    <3> QED
      BY <2>2, <3>3, <3>4, TaskMoves
  <2>15. CASE Close(t)
    <3>1. Moves("giving")
      BY <2>2, <2>15 DEF Close, Goto, Moves
    <3>2. Follows'
      BY <2>2, <2>3, <2>15 DEF Close, Goto, Follows, Shown
    <3> QED
      BY <2>2, <3>1, <3>2, TaskMoves
  <2>16. CASE Give(t)
    <3>0. handle = 0
      BY <2>2, <2>16 DEF Give, ScreenInv, TypeOK
    <3>1. Moves("gone")
      BY <2>2, <2>16, <3>0 DEF Give, Goto, Moves
    <3>2. Follows'
      BY <2>2, <2>3, <2>16 DEF Give, Goto, Follows, Shown
    <3> QED
      BY <2>2, <3>1, <3>2, TaskMoves
  <2> QED
    BY <1>1, <2>5, <2>6, <2>7, <2>8, <2>9, <2>10, <2>11, <2>12, <2>13, <2>14, <2>15, <2>16,
       <2>17
       DEF Task
<1>2. ASSUME NEW c \in Callers, Caller(c) PROVE ScreenInv'
  <2>0. c = "keypad"
    BY DEF KeypadAlone
  <2>1. CASE StartCheck(c)
    BY <2>0, <2>1 DEF StartCheck, At, Arrive, ScreenInv, Shown, TypeOK
  <2>2. CASE StartCreate(c)
    <3>1. /\ done' = FALSE /\ stopFlag' = FALSE /\ UNCHANGED <<state, result>>
          /\ caller' = [caller EXCEPT !["keypad"] = "free"]
          /\ caller["keypad"] = "starting"
      BY <2>0, <2>2 DEF StartCreate, DrainGive, Arrive, At
    <3>2. /\ ui = "home" /\ state = "idle" /\ \A t \in Sessions : Ended(t)
          /\ caller'["keypad"] = "free"
      BY <3>1 DEF ScreenInv, TypeOK
    <3>3. CASE UNCHANGED <<handle, task, ui, lastNfc, mine>>
      BY <3>1, <3>2, <3>3 DEF ScreenInv
    <3>4. ASSUME NEW t \in Unused, task' = [task EXCEPT ![t] = "starting"], handle' = t,
                 ui' = "session", lastNfc' = "off", mine' = t
          PROVE  ScreenInv'
      <4>1. /\ t \in Sessions /\ task'[t] = "starting"
            /\ \A u \in Sessions : u # t => Ended(u)'
        BY <3>2, <3>4 DEF Unused, TypeOK
      <4> QED
        BY <3>1, <3>2, <3>4, <4>1 DEF ScreenInv, Sessions
    <3> QED
      BY <2>0, <2>2, <3>3, <3>4 DEF StartCreate, Goto
  <2>3. ASSUME Stopped(c), UNCHANGED <<task, mine, result>>, done' => done,
               \A t \in Sessions : Ended(t)
        PROVE  ScreenInv'
    <3>1. /\ handle' = 0 /\ state' = "idle" /\ ui' = "home"
          /\ caller' = [caller EXCEPT !["keypad"] = "free"]
      BY <2>0, <2>3 DEF Stopped, Arrive
    <3>2. caller'["keypad"] = "free"
      BY <3>1 DEF TypeOK
    <3> QED
      BY <2>3, <3>1, <3>2 DEF ScreenInv
  <2>4. CASE Stop(c)
    <3>1. Scheduled("keypad") /\ (ui = "session" \/ caller["keypad"] = "pausing")
      BY <2>0, <2>4 DEF Stop, At
    <3>2. ui = "session"
      BY <3>1 DEF ScreenInv, TypeOK
    <3>3. CASE handle = 0
      <4>1. \A t \in Sessions : Ended(t)
        BY <3>1, <3>3 DEF ScreenInv, TypeOK, Scheduled, Sessions
      <4> QED
        BY <2>3, <2>4, <3>3, <4>1 DEF Stop, BeginStop
    <3>4. CASE handle # 0
      <4>1. /\ stopFlag' = TRUE /\ caller'["keypad"] = "stopping"
            /\ UNCHANGED <<handle, state, ui, lastNfc, done, task, mine, result>>
        BY <2>0, <2>4, <3>4 DEF Stop, BeginStop, Arrive, TypeOK
      <4> QED
        BY <3>2, <4>1 DEF ScreenInv, Shown
    <3> QED
      BY <3>3, <3>4
  <2>5. CASE StopTaken(c)
    BY <2>3, <2>5 DEF StopTaken, ScreenInv
  <2>6. CASE StopAbandons(c)
    BY <2>3, <2>6 DEF StopAbandons, KeypadAlone
  <2> QED
    BY <1>2, <2>1, <2>2, <2>4, <2>5, <2>6 DEF Caller
<1>3. CASE Look
  <2>1. /\ lastNfc' = state /\ ui = "session" /\ caller["keypad"] = "free"
        /\ \/ /\ state \in {"success", "error"}
              /\ caller' = [caller EXCEPT !["keypad"] = "pausing"]
           \/ caller' = caller
        /\ UNCHANGED <<state, stopFlag, handle, done, task, ui, mine, result>>
    BY <1>3 DEF Look, Arrive, At
  <2>2. CASE caller' = caller
    BY <2>1, <2>2 DEF ScreenInv, Shown
  <2>3. CASE /\ state \in {"success", "error"}
             /\ caller' = [caller EXCEPT !["keypad"] = "pausing"]
    <3>1. caller'["keypad"] = "pausing" /\ ~stopFlag
      BY <2>1, <2>3 DEF TypeOK, ScreenInv
    <3>2. task[mine] \in {"closing", "giving", "gone"} /\ Shown(state)
      BY <2>1, <2>3, <3>1 DEF ScreenInv
    <3> QED
      BY <2>1, <3>1, <3>2 DEF ScreenInv, Shown
  <2> QED
    BY <2>1, <2>2, <2>3
<1> QED
  BY <1>1, <1>2, <1>3 DEF Next
-------------------------------------------------------------------------------
(* The invariants *)

LEMMA SessionInit == Init => TagInv /\ TypeOK /\ AnsweredIsRedeemed /\ TokensWhole /\ ScreenInv
<1> SUFFICES ASSUME Init PROVE TagInv /\ TypeOK /\ AnsweredIsRedeemed /\ TokensWhole /\ ScreenInv
  OBVIOUS
<1>1. /\ TagTypeOK
  BY CellFacts DEF Init, TagInit, TagTypeOK, Away
<1>2. ReaderOK /\ reader.stage = "away"
  BY DEF Init, TagInit, ReaderOK, Away
<1>3. TypeOK
  <2>1. 0 \in 0 .. MaxSessions
    BY SessionAssumption
  <2>2. /\ task \in [Sessions -> {"none", "starting", "looping", "polling", "redeeming",
                                  "paying", "closing", "giving", "gone"}]
        /\ result \in [Sessions -> {"none", "refused", "stopped", "timeout", "paid",
                                    "failed"}]
        /\ caller \in [{"console", "keypad"} ->
                            {"free", "starting", "stopping", "pausing"}]
    BY DEF Init
  <2> QED
    BY <1>1, <2>1, <2>2 DEF Init, TypeOK, NfcStates
<1>4. ScreenInv
  BY SessionAssumption DEF Init, ScreenInv, Ended, Working
<1> QED
  BY <1>1, <1>2, <1>3, <1>4 DEF Init, TagInit, TagInv, AnsweredIsRedeemed, TokensWhole

LEMMA SessionNext == SessionInv /\ [Next]_vars => SessionInv'
<1>1. ASSUME SessionInv, Next PROVE SessionInv'
  BY <1>1, TagStep, SessionTyped, AnsweredStep DEF SessionInv
<1>2. ASSUME SessionInv, UNCHANGED vars PROVE SessionInv'
  <2> USE <1>2 DEF vars, tagVars, sessionVars
  <2>1. TagInv'
    BY DEF SessionInv, TagInv, TagTypeOK, ReaderOK, Holds
  <2>2. TypeOK'
    BY <2>1 DEF SessionInv, TagInv, TypeOK
  <2>3. AnsweredIsRedeemed'
    BY DEF SessionInv, AnsweredIsRedeemed, Awaiting
  <2> QED
    BY <2>1, <2>2, <2>3 DEF SessionInv
<1> QED
  BY <1>1, <1>2

LEMMA SessionAlways == Spec => []SessionInv
<1>1. Init => SessionInv
  BY SessionInit DEF SessionInv
<1> QED
  BY <1>1, SessionNext, PTL DEF Spec

LEMMA ScreenAlways ==
    ASSUME KeypadAlone
    PROVE  Spec => []ScreenInv
<1>1. SessionInv /\ ScreenInv /\ [Next]_vars => ScreenInv'
  <2>1. ASSUME SessionInv, ScreenInv, Next PROVE ScreenInv'
    BY <2>1, ScreenStep DEF SessionInv
  <2>2. ASSUME ScreenInv, UNCHANGED vars PROVE ScreenInv'
    BY <2>2 DEF vars, sessionVars, ScreenInv, Ended, Working, Shown
  <2> QED
    BY <2>1, <2>2
<1>2. Init => ScreenInv
  BY SessionInit
<1> QED
  BY <1>1, <1>2, SessionAlways, PTL DEF Spec
-------------------------------------------------------------------------------
(* What every behaviour keeps *)

\* Types of tag and session, and nfc_task resets the handle before it gives and goes,
\* whoever starts, stops and abandons sessions, and however many run at once.
THEOREM SessionsTyped == Spec => []TypeOK
<1>1. SessionInv => TypeOK
  BY DEF SessionInv
<1> QED
  BY <1>1, SessionAlways, PTL

\* A payer that saw its last write accepted is not forgotten, in every order of chunks
\* and lengths and whoever starts and stops sessions: its token is in s_rx with a
\* session on its way to redeem it, or decoded, or another session took it from there.
THEOREM PaymentsAnswered == Spec => []AnsweredIsRedeemed
<1>1. SessionInv => AnsweredIsRedeemed
  BY DEF SessionInv
<1> QED
  BY <1>1, SessionAlways, PTL

\* handle_update_binary: a payer's last command is answered only in the step that
\* hands over all of its token and nobody else's.
THEOREM LastWriteTakes == Spec => AnsweredIsTaken
<1>1. SessionInv /\ [Next]_vars =>
        [reader'.stage = "done" /\ reader.stage # "done" /\ reader.msg \in Tokens
            => rx' = Bytes(reader.msg)]_tagVars
  <2> SUFFICES ASSUME SessionInv, [Next]_vars, reader'.stage = "done",
                      reader.stage # "done", reader.msg \in Tokens
               PROVE  rx' = Bytes(reader.msg)
    OBVIOUS
  <2>1. reader' # reader
    OBVIOUS
  <2>2. Next
    BY <2>1 DEF vars, tagVars
  <2>3. Command
    <3>1. ~UNCHANGED tagVars /\ ~UNCHANGED bufferVars /\ ~SetMessage /\ ~ClearMessage
      BY <2>1 DEF tagVars, bufferVars, SetMessage, ClearMessage
    <3>2. ~Deactivate /\ \A w \in Writers : ~Activate(w[1], w[2])
      BY DEF Deactivate, Away, Activate
    <3> QED
      BY <2>2, <3>1, <3>2, TagView
  <2> QED
    BY <2>3, CommandStep DEF SessionInv, Answered
<1> QED
  BY <1>1, SessionAlways, PTL DEF Spec, AnsweredIsTaken

\* ndef.hpp: what is handed over is a token some payer presented, all of it, as long
\* as readers that write from the start of the file fit it in one chunk.
THEOREM HandedOverWhole ==
    ASSUME ShortFirst
    PROVE  Spec => []TokensWhole
<1>1. SessionInv /\ TokensWhole /\ [Next]_vars => TokensWhole'
  <2>1. ASSUME SessionInv, TokensWhole, Next PROVE TokensWhole'
    <3>1. rx' = rx \/ rx' = <<>> \/ Command
      BY <2>1, TagView DEF tagVars, ClearMessage, Deactivate, Activate
    <3>2. Command => rx' = rx \/ \E m \in Tokens : rx' = Bytes(m)
      BY <2>1, CommandStep DEF SessionInv, Answered
    <3> QED
      BY <2>1, <3>1, <3>2 DEF TokensWhole, Bytes
  <2>2. ASSUME TokensWhole, UNCHANGED vars PROVE TokensWhole'
    BY <2>2 DEF vars, tagVars, TokensWhole, Bytes
  <2> QED
    BY <2>1, <2>2
<1>2. Init => TokensWhole
  BY SessionInit
<1> QED
  BY <1>1, <1>2, SessionAlways, PTL DEF Spec

\* nfc_request_start and nfc_request_stop from the keypad: never two tasks on the
\* chip that take or redeem tokens.
THEOREM OneSessionAtATime ==
    ASSUME KeypadAlone
    PROVE  Spec => []OneSession
<1>1. ScreenInv => OneSession
  BY DEF ScreenInv, OneSession, Running, Ended
<1> QED
  BY <1>1, ScreenAlways, PTL

\* keypad_ui_task: the result on the screen is that of the session it started.
THEOREM ResultShownIsOwn ==
    ASSUME KeypadAlone
    PROVE  Spec => []ResultIsOwn
<1>1. ScreenInv => ResultIsOwn
  BY DEF ScreenInv, ResultIsOwn, Shown
<1> QED
  BY <1>1, ScreenAlways, PTL

\* No start has cleared a token that a session was still to decode.
NoneWiped == wiped = {}

\* nfc_request_start from the keypad never clears a token that a session waits to
\* decode, so that nobody takes it from there.
THEOREM NothingWiped ==
    ASSUME KeypadAlone
    PROVE  Spec => []NoneWiped
<1>1. TypeOK /\ ScreenInv /\ NoneWiped /\ [Next]_vars => NoneWiped'
  <2>1. ASSUME TypeOK, ScreenInv, wiped = {}, NEW t \in Sessions, Task(t) PROVE wiped' = {}
    <3>1. CASE HandleApdu(t)
      <4>1. task[t] = "polling" /\ wiped' \subseteq wiped \cup WrittenOver
        BY <3>1 DEF HandleApdu
      <4>2. ~Awaiting
        BY <2>1, <4>1 DEF ScreenInv, Ended, Awaiting
      <4> QED
        BY <2>1, <4>1, <4>2 DEF WrittenOver
    <3>2. CASE ~HandleApdu(t)
      BY <2>1, <3>2 DEF Task, Prepare, PrepareFails, SeeStop, Timeout, Poll, NoFrame,
                        ReaderComes, ReaderGoes, Decode, Redeem, Close, Give
    <3> QED
      BY <3>1, <3>2
  <2>2. ASSUME TypeOK, ScreenInv, wiped = {}, NEW c \in Callers, StartCreate(c)
        PROVE  wiped' = {}
    <3>1. caller["keypad"] = "starting" /\ wiped' = wiped \cup WrittenOver
      BY <2>2 DEF StartCreate, At, KeypadAlone
    <3>2. ~Awaiting
      BY <2>2, <3>1 DEF TypeOK, ScreenInv, Ended, Awaiting
    <3> QED
      BY <2>2, <3>1, <3>2 DEF WrittenOver
  <2>3. ASSUME wiped = {}, NEW c \in Callers, Caller(c), ~StartCreate(c) PROVE wiped' = {}
    BY <2>3 DEF Caller, StartCheck, Stop, StopTaken, StopAbandons
  <2>4. ASSUME wiped = {}, Look \/ UNCHANGED vars PROVE wiped' = {}
    BY <2>4 DEF Look, vars, sessionVars
  <2> QED
    BY <2>1, <2>2, <2>3, <2>4 DEF Next, NoneWiped
<1>2. Init => NoneWiped
  BY DEF Init, NoneWiped
<1>3. SessionInv => TypeOK
  BY DEF SessionInv
<1> QED
  BY <1>1, <1>2, <1>3, SessionAlways, ScreenAlways, PTL DEF Spec

\* nfc_request_state: while it says idle nobody takes or redeems a token.
THEOREM IdleMeansIdle ==
    ASSUME KeypadAlone
    PROVE  Spec => []IdleIsIdle
<1>1. TypeOK /\ ScreenInv => IdleIsIdle
  BY DEF TypeOK, ScreenInv, IdleIsIdle, Running, Ended, Shown
<1>2. SessionInv => TypeOK
  BY DEF SessionInv
<1> QED
  BY <1>1, <1>2, SessionAlways, ScreenAlways, PTL
===============================================================================
