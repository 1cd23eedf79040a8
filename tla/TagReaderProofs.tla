---------------------------- MODULE TagReaderProofs ----------------------------
(***************************************************************************)
(* The users of one reader chip, for every set of tags, every length of a  *)
(* text and every number of sessions.                                      *)
(***************************************************************************)
EXTENDS TagReader, TLAPS

Stages == {"off", "gone", "new", "starting", "loop", "poll", "power", "reqa", "wupa",
           "select", "connect", "rats", "pick", "wtx", "block", "leave", "page",
           "redeeming", "close"}

(* The stages behind rc522_isodep_connect, before the modes are restored.    *)
IsoDep == {"rats", "pick", "wtx", "block", "leave"}

(* The stages of a poll, and those before it.                                *)
Looking == {"off", "new", "starting", "loop", "poll", "power", "reqa", "wupa",
            "select", "connect"}

UsersOK ==
    /\ pc \in [Users -> Stages]
    /\ io \in [Users -> {"idle", "loaded", "sent"}]
    /\ n \in [Users -> Nat]
    /\ text = [u \in Users |-> text[u]]
    /\ \A u \in Users : io[u] # "idle" => pc[u] \in Exchanges

(* Only a tag at the antenna can be awake.                                   *)
CardOK ==
    /\ tag \in Tags \cup {NoTag}
    /\ card # "off" => tag # NoTag

(* Each mode of the chip is off, or someone is there who will set it back.   *)
ModesOwed ==
    /\ (\A u \in Users : Idle(u)) => ~field
    /\ crc => \E u \in Users : pc[u] \in IsoDep
    /\ timer = InitMs \/ failed \/ \E u \in Users : pc[u] \in IsoDep

-----------------------------------------------------------------------------

Cells(t, k) == [i \in 1 .. k |-> Cell(t, i)]

(* The state of a card that answers a session at its reads.                  *)
Live(s) == IF pc[s] = "page" THEN "selected" ELSE "isodep"

(* An answer waits in the FIFO.                                              *)
Answered(s) == io[s] = "sent" /\ irq # "timer" /\ fifo # Empty

(* All that s has read, and the answer that waits, are the first cells of    *)
(* one tag; a card that will answer its next read is that tag.               *)
OneTag(s) ==
    \E t \in Tags \cup {NoTag} :
        /\ text[s] = Cells(t, n[s] - 1)
        /\ n[s] > 1 \/ Answered(s) => t \in Tags /\ (card = Live(s) => tag = t)
        /\ Answered(s) => fifo = Cell(t, n[s])

(* The buffer of a session is empty until it reads, and from then on holds   *)
(* one tag's cells, while it has the chip to itself.                         *)
BufferOK(s) ==
    /\ pc[s] \in Looking => text[s] = <<>> /\ n[s] = 0
    /\ pc[s] = "rats" => text[s] = <<>>
    /\ pc[s] \in {"pick", "wtx"} => text[s] = <<>> /\ n[s] = 1
    /\ pc[s] \in {"page", "block"} => n[s] <= Blocks
    /\ pc[s] = "block" => n[s] >= 1
    /\ s \in alone =>
        /\ pc[s] \in {"page", "block"} => OneTag(s)
        /\ pc[s] \in {"page", "block"} /\ io[s] = "loaded" => fifo = Frame(s)
        /\ pc[s] = "redeeming" \/ (pc[s] = "leave" /\ n[s] > Blocks) =>
                \E t \in Tags : text[s] = Whole(t)

ReaderInv == UsersOK /\ CardOK /\ ModesOwed /\ \A s \in Sessions : BufferOK(s)
-----------------------------------------------------------------------------
(* A step of a user *)

\* A step keeps the types, and leaves no tag awake that is not there.
LEMMA UserTyped ==
    ASSUME UsersOK, CardOK, NEW u \in Users, User(u)
    PROVE  UsersOK' /\ CardOK'
<1> USE DEF UsersOK, CardOK, Goto, Stages, Exchanges, chipVars, cardVars
<1>1. CASE FieldOn(u)
  BY <1>1 DEF FieldOn, Field
<1>2. CASE Ready(u)
  BY <1>2 DEF Ready
<1>3. CASE SeeStop(u)
  BY <1>3 DEF SeeStop
<1>4. CASE Timeout(u)
  BY <1>4 DEF Timeout
<1>5. CASE Poll(u)
  BY <1>5 DEF Poll
<1>6. CASE Reset(u)
  BY <1>6 DEF Reset, Field
<1>7. CASE PowerUp(u)
  BY <1>7 DEF PowerUp, Field
<1>8. CASE Load(u)
  BY <1>8 DEF Load
<1>9. CASE Send(u)
  BY <1>9 DEF Send
<1>10. CASE Woken(u)
  BY <1>10 DEF Woken, Collected, Fails
<1>11. CASE Selected(u)
  <2>1. /\ pc' \in [Users -> Stages]
        /\ \A v \in Users : v # u => pc'[v] = pc[v]
    <3>1. pc' \in {[pc EXCEPT ![u] = "connect"], [pc EXCEPT ![u] = "page"],
                   [pc EXCEPT ![u] = "close"], [pc EXCEPT ![u] = "loop"]}
      BY <1>11 DEF Selected, Fails
    <3> QED
      BY <3>1
  <2>2. n' \in [Users -> Nat]
    BY <1>11 DEF Selected, Collected, Fails
  <2>3. \E read : text' = [text EXCEPT ![u] = read]
    BY <1>11 DEF Selected, Collected, Fails
  <2>4. io' = [io EXCEPT ![u] = "idle"] /\ CardOK'
    BY <1>11 DEF Selected, Collected, Fails
  <2> QED
    BY <1>11, <2>1, <2>2, <2>3, <2>4 DEF Selected
<1>12. CASE Connect(u)
  BY <1>12 DEF Connect
<1>13. CASE Ats(u)
  <2>1. /\ pc' \in [Users -> Stages]
        /\ \A v \in Users : v # u => pc'[v] = pc[v]
    <3>1. pc' \in {pc, [pc EXCEPT ![u] = "pick"], [pc EXCEPT ![u] = "close"],
                   [pc EXCEPT ![u] = "page"]}
      BY <1>13 DEF Ats, FallBack
    <3> QED
      BY <3>1
  <2>2. n' \in [Users -> Nat]
    BY <1>13 DEF Ats, Collected, FallBack
  <2>3. \E read : text' = [text EXCEPT ![u] = read]
    BY <1>13 DEF Ats, Collected, FallBack
  <2>4. io' = [io EXCEPT ![u] = "idle"] /\ CardOK'
    BY <1>13 DEF Ats, Collected, FallBack
  <2> QED
    BY <1>13, <2>1, <2>2, <2>3, <2>4 DEF Ats
<1>14. CASE Picked(u)
  BY <1>14 DEF Picked, Collected
<1>15. CASE Block(u)
  <2>1. /\ pc' \in [Users -> Stages]
        /\ \A v \in Users : v # u => pc'[v] = pc[v]
    BY <1>15 DEF Block, Collected, Longer
  <2>2. n' \in [Users -> Nat]
    BY <1>15 DEF Block, Collected, Longer
  <2>3. \E read : text' = [text EXCEPT ![u] = read]
    BY <1>15 DEF Block, Collected, Longer
  <2>4. io' = [io EXCEPT ![u] = "idle"] /\ CardOK'
    BY <1>15 DEF Block, Collected, Longer
  <2> QED
    BY <1>15, <2>1, <2>2, <2>3, <2>4 DEF Block
<1>16. CASE Leave(u)
  <2>1. /\ pc' \in [Users -> Stages]
        /\ \A v \in Users : v # u => pc'[v] = pc[v]
    BY <1>16 DEF Leave, Judged, FallBack, Fails, End
  <2>2. n' \in [Users -> Nat]
    BY <1>16 DEF Leave, Judged, FallBack, Fails, End
  <2>3. \E read : text' = [text EXCEPT ![u] = read]
    BY <1>16 DEF Leave, Judged, FallBack, Fails, End
  <2>4. io' = io /\ io[u] = "idle" /\ CardOK'
    BY <1>16 DEF Leave, Judged, FallBack, Fails, End
  <2> QED
    BY <1>16, <2>1, <2>2, <2>3, <2>4 DEF Leave
<1>17. CASE Page(u)
  <2>1. /\ pc' \in [Users -> Stages]
        /\ \A v \in Users : v # u => pc'[v] = pc[v]
    BY <1>17 DEF Page, Collected, NextPage, Judged, NotRead, Fails
  <2>2. n' \in [Users -> Nat]
    <3>1. n' \in {n, [n EXCEPT ![u] = 0], [n EXCEPT ![u] = n[u] + 1]}
      BY <1>17 DEF Page, NextPage, Judged, NotRead, Fails
    <3>2. n[u] + 1 \in Nat
      OBVIOUS
    <3> QED
      BY <3>1, <3>2
  <2>3. \E read : text' = [text EXCEPT ![u] = read]
    BY <1>17 DEF Page, Collected, NextPage, Judged, NotRead, Fails
  <2>4. io' = [io EXCEPT ![u] = "idle"] /\ CardOK'
    BY <1>17 DEF Page, Collected, NextPage, Judged, NotRead, Fails
  <2> QED
    BY <1>17, <2>1, <2>2, <2>3, <2>4 DEF Page
<1>18. CASE Redeem(u)
  BY <1>18 DEF Redeem
<1>19. CASE Close(u)
  BY <1>19 DEF Close, Field
<1> QED
  BY <1>1, <1>2, <1>3, <1>4, <1>5, <1>6, <1>7, <1>8, <1>9, <1>10,
     <1>11, <1>12, <1>13, <1>14, <1>15, <1>16, <1>17, <1>18, <1>19 DEF User

\* Whoever changes a mode of the chip is not gone before it is set back, and
\* nobody leaves the chip with the antenna on.
LEMMA UserOwes ==
    ASSUME UsersOK, ModesOwed, NEW u \in Users, User(u)
    PROVE  ModesOwed'
<1> USE DEF UsersOK, ModesOwed, Goto, IsoDep, Idle, Exchanges, chipVars
<1>1. CASE FieldOn(u)
  BY <1>1 DEF FieldOn, Field
<1>2. CASE Ready(u)
  BY <1>2 DEF Ready
<1>3. CASE SeeStop(u)
  BY <1>3 DEF SeeStop
<1>4. CASE Timeout(u)
  BY <1>4 DEF Timeout
<1>5. CASE Poll(u)
  BY <1>5 DEF Poll
<1>6. CASE Reset(u)
  BY <1>6 DEF Reset, Field
<1>7. CASE PowerUp(u)
  BY <1>7 DEF PowerUp, Field
<1>8. CASE Load(u)
  BY <1>8 DEF Load
<1>9. CASE Send(u)
  BY <1>9 DEF Send
<1>10. CASE Woken(u)
  BY <1>10 DEF Woken, Collected, Fails
<1>11. CASE Selected(u)
  BY <1>11 DEF Selected, Collected, Fails
<1>12. CASE Connect(u)
  BY <1>12 DEF Connect
<1>13. CASE Ats(u)
  BY <1>13 DEF Ats, Collected, FallBack
<1>14. CASE Picked(u)
  BY <1>14 DEF Picked, Collected
<1>15. CASE Block(u)
  BY <1>15 DEF Block, Collected
<1>16. CASE Leave(u)
  BY <1>16 DEF Leave, Judged, FallBack, Fails, End
<1>17. CASE Page(u)
  BY <1>17 DEF Page, Collected, NextPage, Judged, NotRead, Fails
<1>18. CASE Redeem(u)
  BY <1>18 DEF Redeem
<1>19. CASE Close(u)
  BY <1>19 DEF Close, Field
<1> QED
  BY <1>1, <1>2, <1>3, <1>4, <1>5, <1>6, <1>7, <1>8, <1>9, <1>10,
     <1>11, <1>12, <1>13, <1>14, <1>15, <1>16, <1>17, <1>18, <1>19 DEF User

-----------------------------------------------------------------------------
(* The buffers *)

\* The next cell of a tag behind its first k is its first k + 1.
LEMMA CellsGrow ==
    ASSUME NEW t, NEW k \in Nat
    PROVE  Append(Cells(t, k), Cell(t, k + 1)) = Cells(t, k + 1)
BY DEF Cells, Cell

\* The first cells are none before the first page of the text.
LEMMA CellsNone ==
    ASSUME NEW t, NEW k \in Int, k <= 0
    PROVE  Cells(t, k) = <<>>
BY DEF Cells

\* Another user leaves a session's buffer alone, and takes the chip from it when it
\* uses it.
LEMMA OthersApart ==
    ASSUME UsersOK, NEW s \in Sessions, BufferOK(s), NEW u \in Users, u # s, User(u)
    PROVE  BufferOK(s)'
<1>1. pc'[s] = pc[s] /\ io'[s] = io[s] /\ n'[s] = n[s] /\ text'[s] = text[s]
  <2> USE DEF UsersOK, Goto, Users
  <2>1. CASE FieldOn(u)
    BY <2>1 DEF FieldOn
  <2>2. CASE Ready(u)
    BY <2>2 DEF Ready
  <2>3. CASE SeeStop(u)
    BY <2>3 DEF SeeStop
  <2>4. CASE Timeout(u)
    BY <2>4 DEF Timeout
  <2>5. CASE Poll(u)
    BY <2>5 DEF Poll
  <2>6. CASE Reset(u)
    BY <2>6 DEF Reset
  <2>7. CASE PowerUp(u)
    BY <2>7 DEF PowerUp
  <2>8. CASE Load(u)
    BY <2>8 DEF Load
  <2>9. CASE Send(u)
    BY <2>9 DEF Send
  <2>10. CASE Woken(u)
    BY <2>10 DEF Woken, Collected, Fails
  <2>11. CASE Selected(u)
    BY <2>11 DEF Selected, Collected, Fails
  <2>12. CASE Connect(u)
    BY <2>12 DEF Connect
  <2>13. CASE Ats(u)
    BY <2>13 DEF Ats, Collected, FallBack
  <2>14. CASE Picked(u)
    BY <2>14 DEF Picked, Collected
  <2>15. CASE Block(u)
    BY <2>15 DEF Block, Collected
  <2>16. CASE Leave(u)
    BY <2>16 DEF Leave, Judged, FallBack, Fails
  <2>17. CASE Page(u)
    BY <2>17 DEF Page, Collected, NextPage, Judged, NotRead, Fails
  <2>18. CASE Redeem(u)
    BY <2>18 DEF Redeem
  <2>19. CASE Close(u)
    BY <2>19 DEF Close
  <2> QED
    BY <2>1, <2>2, <2>3, <2>4, <2>5, <2>6, <2>7, <2>8, <2>9, <2>10,
       <2>11, <2>12, <2>13, <2>14, <2>15, <2>16, <2>17, <2>18, <2>19 DEF User
<1>2. s \in alone' => s \in alone /\ UNCHANGED <<fifo, irq, cardVars>>
  <2> USE DEF chipVars
  <2>1. CASE FieldOn(u)
    BY <2>1 DEF FieldOn, Touches
  <2>2. CASE Ready(u)
    BY <2>2 DEF Ready
  <2>3. CASE SeeStop(u)
    BY <2>3 DEF SeeStop
  <2>4. CASE Timeout(u)
    BY <2>4 DEF Timeout
  <2>5. CASE Poll(u)
    BY <2>5 DEF Poll
  <2>6. CASE Reset(u)
    BY <2>6 DEF Reset
  <2>7. CASE PowerUp(u)
    BY <2>7 DEF PowerUp, Touches
  <2>8. CASE Load(u)
    BY <2>8 DEF Load, Touches
  <2>9. CASE Send(u)
    BY <2>9 DEF Send, Touches
  <2>10. CASE Woken(u)
    BY <2>10 DEF Woken, Touches, Collected
  <2>11. CASE Selected(u)
    BY <2>11 DEF Selected, Touches, Collected
  <2>12. CASE Connect(u)
    BY <2>12 DEF Connect, Touches
  <2>13. CASE Ats(u)
    BY <2>13 DEF Ats, Touches, Collected
  <2>14. CASE Picked(u)
    BY <2>14 DEF Picked, Touches, Collected
  <2>15. CASE Block(u)
    BY <2>15 DEF Block, Touches, Collected
  <2>16. CASE Leave(u)
    BY <2>16 DEF Leave, Touches
  <2>17. CASE Page(u)
    BY <2>17 DEF Page, Touches, Collected
  <2>18. CASE Redeem(u)
    BY <2>18 DEF Redeem
  <2>19. CASE Close(u)
    BY <2>19 DEF Close, Touches
  <2> QED
    BY <2>1, <2>2, <2>3, <2>4, <2>5, <2>6, <2>7, <2>8, <2>9, <2>10,
       <2>11, <2>12, <2>13, <2>14, <2>15, <2>16, <2>17, <2>18, <2>19 DEF User
<1> QED
  BY <1>1, <1>2 DEF BufferOK, OneTag, Answered, Live, Frame, cardVars

\* A card answers a READ with the cell of the tag that is there, and only in the
\* state in which it then stays; a frame it does not expect never wakes it.
LEMMA ReadAnswer ==
    ASSUME NEW f \in {"page", "block"}, NEW k \in Nat
    PROVE  LET live == IF f = "page" THEN "selected" ELSE "isodep"
               reply == Reply(<<f, k>>)
           IN  /\ reply.answer # Empty => reply.answer = Cell(tag, k) /\ card = live
               /\ reply.card = live => card = live
BY DEF Reply, Silent, Cell, Empty

\* The cell that a session collects at its reads is the next one of the tag whose
\* cells it holds.
LEMMA NextCell ==
    ASSUME UsersOK, NEW s \in Sessions, BufferOK(s), s \in alone,
           pc[s] \in {"page", "block"}, io[s] = "sent", IsCell(Heard)
    PROVE  \E t \in Tags : Longer(s, Heard) = Cells(t, n[s]) /\ (card = Live(s) => tag = t)
<1>1. Answered(s) /\ Heard = fifo
  BY DEF Heard, IsCell, Answered, Empty
<1>2. PICK t \in Tags : /\ text[s] = Cells(t, n[s] - 1)
                        /\ card = Live(s) => tag = t
                        /\ fifo = Cell(t, n[s])
  BY <1>1 DEF BufferOK, OneTag
<1>3. n[s] \in Nat /\ s # Dump
  BY DEF UsersOK, Users, Sessions, Dump
<1>4. CASE n[s] = 0
  <2>1. Cells(t, n[s] - 1) = <<>> /\ Cells(t, n[s]) = <<>>
    BY <1>4, CellsNone
  <2>2. Longer(s, Heard) = text[s]
    BY <1>4 DEF Longer
  <2> QED
    BY <1>2, <2>1, <2>2
<1>5. CASE n[s] # 0
  <2>1. PICK k \in Nat : n[s] = k + 1 /\ n[s] - 1 = k
    BY <1>3, <1>5
  <2>2. Append(Cells(t, k), Cell(t, k + 1)) = Cells(t, k + 1)
    BY CellsGrow
  <2>3. Longer(s, Heard) = Append(text[s], Heard)
    BY <1>3, <1>5 DEF Longer
  <2> QED
    BY <1>1, <1>2, <2>1, <2>2, <2>3
<1> QED
  BY <1>4, <1>5

\* A session begins to read with an empty buffer.
LEMMA FreshBuffer ==
    ASSUME NEW s \in Sessions, text'[s] = <<>>, io'[s] = "idle",
           \/ pc'[s] = "page" /\ n'[s] = 0
           \/ pc'[s] = "block" /\ n'[s] = 1
    PROVE  BufferOK(s)'
<1>1. text'[s] = Cells(NoTag, n'[s] - 1)
  BY CellsNone
<1>2. OneTag(s)'
  BY <1>1 DEF OneTag, Answered
<1>3. Blocks \in Nat \ {0}
  BY ReaderAssumption
<1> QED
  BY <1>2, <1>3 DEF BufferOK, Looking

\* What is sent to the card at a session's reads is its READ, and the answer the
\* next cell of its tag.
LEMMA OwnSend ==
    ASSUME UsersOK, CardOK, NEW s \in Sessions, BufferOK(s), Send(s)
    PROVE  BufferOK(s)'
<1>1. /\ io[s] = "loaded" /\ io'[s] = "sent"
      /\ UNCHANGED <<pc, n, text, tag>>
      /\ s \in alone' => s \in alone
  BY DEF Send, Touches, UsersOK, Users
<1>2. ASSUME s \in alone, pc[s] \in {"page", "block"} PROVE OneTag(s)'
  <2>1. fifo = <<pc[s], n[s]>> /\ n[s] \in Nat
    BY <1>1, <1>2 DEF BufferOK, Frame, UsersOK, Users
  <2>2. /\ Reply(fifo).answer # Empty =>
                Reply(fifo).answer = Cell(tag, n[s]) /\ card = Live(s)
        /\ Reply(fifo).card = Live(s) => card = Live(s)
    BY <1>2, <2>1, ReadAnswer DEF Live
  <2>3. PICK t \in Tags \cup {NoTag} :
            /\ text[s] = Cells(t, n[s] - 1)
            /\ n[s] > 1 => t \in Tags /\ (card = Live(s) => tag = t)
    BY <1>2 DEF BufferOK, OneTag
  <2>4. Live(s)' = Live(s) /\ Live(s) # "off"
    BY <1>1 DEF Live
  <2>5. CASE fifo' = Empty
    <3>1. card' = Live(s) => card = Live(s)
      BY <2>2, <2>4 DEF Send
    <3>2. ~Answered(s)'
      BY <2>5 DEF Answered
    <3> QED
      BY <1>1, <2>3, <2>4, <3>1, <3>2 DEF OneTag
  <2>6. CASE fifo' # Empty
    <3>1. fifo' = Cell(tag, n[s]) /\ card = Live(s)
      BY <2>2, <2>6 DEF Send
    <3>2. tag \in Tags
      BY <2>4, <3>1 DEF CardOK
    <3>3. text[s] = Cells(tag, n[s] - 1)
      BY <2>1, <2>3, <3>1, CellsNone
    <3> QED
      BY <1>1, <3>1, <3>2, <3>3 DEF OneTag
  <2> QED
    BY <2>5, <2>6
<1> QED
  BY <1>1, <1>2 DEF BufferOK

\* A READ BINARY that was answered adds a cell; after the last the text is whole.
LEMMA OwnBlock ==
    ASSUME UsersOK, NEW s \in Sessions, BufferOK(s), Block(s)
    PROVE  BufferOK(s)'
<1> USE DEF UsersOK, Goto, Users
<1>1. /\ pc[s] = "block" /\ io[s] = "sent" /\ io'[s] = "idle" /\ UNCHANGED cardVars
      /\ s \in alone' => s \in alone
  BY DEF Block, Collected, Touches
<1>2. n[s] \in 1 .. Blocks /\ Blocks \in Nat
  BY <1>1, ReaderAssumption DEF BufferOK
<1>3. CASE ~IsCell(Heard)
  <2>1. pc'[s] = "leave" /\ n'[s] = n[s]
    BY <1>3 DEF Block
  <2> QED
    BY <1>2, <2>1 DEF BufferOK, Looking
<1>4. CASE IsCell(Heard)
  <2>1. text'[s] = Longer(s, Heard) /\ n'[s] = n[s] + 1
    BY <1>4 DEF Block
  <2>2. pc'[s] = IF n[s] < Blocks THEN "block" ELSE "leave"
    BY <1>1, <1>4 DEF Block
  <2>3. s \in alone' => \E t \in Tags : /\ text'[s] = Cells(t, n[s])
                                        /\ card = "isodep" => tag = t
    BY <1>1, <1>4, <2>1, NextCell DEF Live
  <2>4. CASE n[s] < Blocks
    <3>1. n'[s] - 1 = n[s] /\ ~Answered(s)' /\ Live(s)' = "isodep"
      BY <1>1, <1>2, <2>1, <2>2, <2>4 DEF Answered, Live
    <3>2. s \in alone' => OneTag(s)'
      BY <1>1, <2>3, <3>1 DEF OneTag, cardVars
    <3> QED
      BY <1>1, <1>2, <2>1, <2>2, <2>4, <3>2 DEF BufferOK, Looking
  <2>5. CASE n[s] = Blocks
    <3>1. \A t \in Tags : Cells(t, Blocks) = Whole(t)
      BY DEF Cells, Whole
    <3>2. s \in alone' => \E t \in Tags : text'[s] = Whole(t)
      BY <2>3, <2>5, <3>1
    <3> QED
      BY <1>2, <2>2, <2>5, <3>2 DEF BufferOK, Looking
  <2> QED
    BY <1>2, <2>4, <2>5
<1> QED
  BY <1>3, <1>4

\* A page that was read adds a cell, any other ends the poll; after the last the
\* text is whole.
LEMMA OwnPage ==
    ASSUME UsersOK, NEW s \in Sessions, BufferOK(s), Page(s)
    PROVE  BufferOK(s)'
<1> USE DEF UsersOK, Goto, Users
<1>1. /\ pc[s] = "page" /\ io[s] = "sent" /\ io'[s] = "idle" /\ UNCHANGED cardVars
      /\ s \in alone' => s \in alone
  BY DEF Page, Collected, Touches
<1>2. n[s] \in 0 .. Blocks /\ Blocks \in Nat /\ s # Dump
  BY <1>1, ReaderAssumption DEF BufferOK, Sessions, Dump
<1>3. ASSUME Fails(s) PROVE BufferOK(s)'
  BY <1>2, <1>3 DEF Fails, BufferOK
<1>4. CASE IsCell(Heard) /\ n[s] < Blocks
  <2>1. text'[s] = Longer(s, Heard) /\ n'[s] = n[s] + 1 /\ pc'[s] = "page"
    BY <1>1, <1>4 DEF Page, NextPage
  <2>2. s \in alone' => \E t \in Tags : /\ text'[s] = Cells(t, n[s])
                                        /\ card = "selected" => tag = t
    BY <1>1, <1>4, <2>1, NextCell DEF Live
  <2>3. n'[s] - 1 = n[s] /\ ~Answered(s)' /\ Live(s)' = "selected"
    BY <1>1, <1>2, <2>1 DEF Answered, Live
  <2>4. s \in alone' => OneTag(s)'
    BY <1>1, <2>1, <2>2, <2>3 DEF OneTag, cardVars
  <2> QED
    BY <1>1, <1>2, <1>4, <2>1, <2>4 DEF BufferOK, Looking
<1>5. CASE IsCell(Heard) /\ n[s] = Blocks
  <2>1. Judged(s, Longer(s, Heard))
    BY <1>5 DEF Page, NextPage
  <2>2. CASE pc'[s] = "redeeming" /\ text'[s] = Longer(s, Heard)
    <3>1. \A t \in Tags : Cells(t, Blocks) = Whole(t)
      BY DEF Cells, Whole
    <3>2. s \in alone' => \E t \in Tags : text'[s] = Whole(t)
      BY <1>1, <1>5, <2>2, <3>1, NextCell
    <3> QED
      BY <2>2, <3>2 DEF BufferOK, Looking
  <2> QED
    BY <1>3, <2>1, <2>2 DEF Judged
<1>6. CASE ~IsCell(Heard)
  BY <1>3, <1>6 DEF Page, NotRead
<1> QED
  BY <1>2, <1>4, <1>5, <1>6

\* The session's own step: what it adds to its buffer is the next cell of the tag
\* whose first cells it holds.
LEMMA OwnBuffer ==
    ASSUME UsersOK, CardOK, NEW s \in Sessions, BufferOK(s), User(s)
    PROVE  BufferOK(s)'
<1> USE DEF UsersOK, Goto, Users, Looking, Exchanges
<1>1. CASE FieldOn(s)
  BY <1>1 DEF FieldOn, BufferOK
<1>2. CASE Ready(s)
  BY <1>2 DEF Ready, BufferOK
<1>3. CASE SeeStop(s)
  BY <1>3 DEF SeeStop, BufferOK
<1>4. CASE Timeout(s)
  BY <1>4 DEF Timeout, BufferOK
<1>5. CASE Poll(s)
  BY <1>5 DEF Poll, BufferOK
<1>6. CASE Reset(s)
  BY <1>6 DEF Reset, BufferOK
<1>7. CASE PowerUp(s)
  BY <1>7 DEF PowerUp, BufferOK
<1>8. CASE Load(s)
  <2>1. /\ fifo' = Frame(s) /\ io'[s] = "loaded" /\ UNCHANGED <<pc, n, text, cardVars>>
        /\ s \in alone' => s \in alone
    BY <1>8 DEF Load, Touches
  <2> QED
    BY <2>1 DEF BufferOK, OneTag, Answered, Live, Frame, cardVars
<1>9. CASE Send(s)
  BY <1>9, OwnSend
<1>10. CASE Woken(s)
  BY <1>10 DEF Woken, Collected, Fails, BufferOK
<1>11. CASE Selected(s)
  <2>1. io'[s] = "idle" /\ text[s] = <<>> /\ n[s] = 0
    BY <1>11 DEF Selected, Collected, BufferOK
  <2>2. \/ pc'[s] \in {"connect", "page"} /\ text' = text /\ n' = n
        \/ Fails(s)
    BY <1>11 DEF Selected
  <2> QED
    BY <2>1, <2>2, FreshBuffer DEF BufferOK, Fails
<1>12. CASE Connect(s)
  BY <1>12 DEF Connect, BufferOK
<1>13. CASE Ats(s)
  <2>1. io'[s] = "idle" /\ text[s] = <<>> /\ pc[s] = "rats" /\ s # Dump
    BY <1>13 DEF Ats, Collected, BufferOK, Sessions, Dump
  <2>2. \/ pc'[s] = "pick" /\ text' = text /\ n'[s] = 1
        \/ pc'[s] = "rats" /\ text' = text
        \/ FallBack(s)
    BY <1>13 DEF Ats
  <2> QED
    BY <2>1, <2>2, FreshBuffer DEF BufferOK, FallBack
<1>14. CASE Picked(s)
  <2>1. io'[s] = "idle" /\ text[s] = <<>> /\ n[s] = 1 /\ UNCHANGED <<n, text>>
    BY <1>14 DEF Picked, Collected, BufferOK
  <2>2. pc'[s] \in {"block", "wtx", "leave"} /\ Blocks \in Nat \ {0}
    BY <1>14, ReaderAssumption DEF Picked
  <2> QED
    BY <2>1, <2>2, FreshBuffer DEF BufferOK
<1>15. CASE Block(s)
  BY <1>15, OwnBlock
<1>16. CASE Leave(s)
  <2>1. /\ pc[s] = "leave" /\ io'[s] = "idle" /\ s # Dump
        /\ s \in alone' => s \in alone
    BY <1>16 DEF Leave, Touches, Sessions, Dump
  <2>2. CASE n[s] > Blocks
    <3>1. Judged(s, text[s])
      BY <1>16, <2>2 DEF Leave
    <3> QED
      BY <2>1, <2>2, <3>1 DEF Judged, Fails, BufferOK
  <2>3. CASE ~(n[s] > Blocks)
    BY <1>16, <2>1, <2>3, FreshBuffer DEF Leave, FallBack
  <2> QED
    BY <2>2, <2>3
<1>17. CASE Page(s)
  BY <1>17, OwnPage
<1>18. CASE Redeem(s)
  BY <1>18 DEF Redeem, BufferOK
<1>19. CASE Close(s)
  BY <1>19 DEF Close, BufferOK, Sessions, Dump
<1> QED
  BY <1>1, <1>2, <1>3, <1>4, <1>5, <1>6, <1>7, <1>8, <1>9, <1>10,
     <1>11, <1>12, <1>13, <1>14, <1>15, <1>16, <1>17, <1>18, <1>19 DEF User

-----------------------------------------------------------------------------

\* The chip starts as rc522_init leaves it, with nobody at it.
LEMMA ReaderInvInit ==
    ASSUME Init
    PROVE  ReaderInv
<1>1. UsersOK /\ CardOK
  BY DEF Init, UsersOK, CardOK, Stages
<1>2. ModesOwed
  BY DEF Init, ModesOwed
<1>3. \A s \in Sessions : BufferOK(s)
  BY DEF Init, BufferOK, Looking, Users
<1> QED
  BY <1>1, <1>2, <1>3 DEF ReaderInv

\* Users, the console's commands and changes of the tag keep the invariant.
LEMMA ReaderInvNext ==
    ASSUME ReaderInv, [Next]_vars
    PROVE  ReaderInv'
<1> USE DEF ReaderInv
<1>1. ASSUME NEW u \in Users, User(u) PROVE ReaderInv'
  BY <1>1, UserTyped, UserOwes, OthersApart, OwnBuffer
<1>2. CASE TagChanges
  <2>1. /\ UNCHANGED <<chipVars, userVars, failed, alone>>
        /\ card' \in {"idle", "off"} /\ tag' \in Tags \cup {NoTag}
        /\ card' = "idle" => tag' # NoTag
    BY <1>2 DEF TagChanges
  <2>2. UsersOK' /\ CardOK' /\ ModesOwed'
    BY <2>1 DEF chipVars, userVars, UsersOK, CardOK, ModesOwed, Idle
  <2>3. ASSUME NEW s \in Sessions PROVE BufferOK(s)'
    <3>1. card' # Live(s)'
      BY <2>1 DEF Live
    <3>2. OneTag(s) => OneTag(s)'
      BY <2>1, <3>1 DEF OneTag, Answered, chipVars, userVars
    <3> QED
      BY <2>1, <3>2 DEF BufferOK, Frame, chipVars, userVars
  <2> QED
    BY <2>2, <2>3
<1>3. ASSUME NEW u \in Users, Idle(u), u \in Sessions => pc[u] = "off", Goto(u, "new"),
             UNCHANGED <<chipVars, cardVars, io, n, text, failed, alone>>
      PROVE  ReaderInv'
  <2>1. UsersOK' /\ CardOK'
    BY <1>3 DEF UsersOK, CardOK, Goto, cardVars, Stages, Exchanges, Idle
  <2>2. ModesOwed'
    BY <1>3 DEF UsersOK, ModesOwed, Goto, chipVars, Idle, IsoDep
  <2>3. ASSUME NEW s \in Sessions PROVE BufferOK(s)'
    <3>1. CASE s = u
      BY <1>3, <3>1 DEF UsersOK, BufferOK, Goto, Looking
    <3>2. CASE s # u
      <4>1. pc'[s] = pc[s]
        BY <1>3, <3>2 DEF UsersOK, Users, Goto
      <4>2. OneTag(s) => OneTag(s)'
        BY <1>3, <4>1 DEF OneTag, Answered, Live, chipVars, cardVars
      <4> QED
        BY <1>3, <4>1, <4>2 DEF BufferOK, Frame, chipVars
    <3> QED
      BY <3>1, <3>2
  <2> QED
    BY <2>1, <2>2, <2>3
<1>4. CASE Start
  BY <1>3, <1>4 DEF Start, Users, Idle
<1>5. CASE NfcDump
  BY <1>3, <1>5 DEF NfcDump, AtPrompt, Users, Sessions, Dump
<1>6. CASE Stop \/ StopAbandons \/ UNCHANGED vars
  <2>1. UNCHANGED <<chipVars, cardVars, userVars, failed, alone>>
    BY <1>6 DEF Stop, StopAbandons, vars
  <2> QED
    BY <2>1 DEF UsersOK, CardOK, ModesOwed, BufferOK, OneTag, Answered, Live, Frame, Idle,
                chipVars, cardVars, userVars
<1> QED
  BY <1>1, <1>2, <1>4, <1>5, <1>6 DEF Next

\* The invariant holds in every reachable state.
LEMMA ReaderInvAlways == Spec => []ReaderInv
<1>1. Init => ReaderInv
  BY ReaderInvInit
<1>2. ReaderInv /\ [Next]_vars => ReaderInv'
  BY ReaderInvNext
<1> QED
  BY <1>1, <1>2, PTL DEF Spec

\* nfc_reader.cpp: what a session redeems is one tag's whole text, however long the
\* text and whatever tags come and go between two of its reads, as long as no other
\* user of the chip comes in between.
THEOREM TagTextsWhole == Spec => []TextsWhole
<1>1. ReaderInv => TextsWhole
  BY DEF ReaderInv, BufferOK, TextsWhole
<1> QED
  BY <1>1, ReaderInvAlways, PTL

\* rc522.c: whichever way the last of any number of users ends, and whatever others
\* did to the chip in between, the antenna is off, the CRC mode restored and the
\* timer that of rc522_init, except after a connect that failed.
THEOREM ChipRestsClean == Spec => []RestsClean
<1>1. ASSUME ReaderInv, \A u \in Users : Idle(u)
      PROVE  \A u \in Users : pc[u] \notin IsoDep
  BY <1>1 DEF Idle, IsoDep
<1>2. ReaderInv => RestsClean
  BY <1>1 DEF ReaderInv, ModesOwed, RestsClean
<1> QED
  BY <1>2, ReaderInvAlways, PTL
=============================================================================
