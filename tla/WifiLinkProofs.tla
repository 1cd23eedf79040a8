----------------------------- MODULE WifiLinkProofs -----------------------------
(***************************************************************************)
(* The cached connections and the link, for every set of origins and       *)
(* tasks and every number of fast retries.                                 *)
(***************************************************************************)
EXTENDS WifiLink, TLAPS

(* What s_mutex holds: nothing, or a request of one task for a real origin.  *)
MutexOK ==
    /\ http \in [task : Requesters \cup {NoTask}, origin : Origins \cup {NoOrigin},
                 slot : SlotIds, attempt : {0, 1}]
    /\ http.task = NoTask => http = NoRequest
    /\ http.task # NoTask => http.origin # NoOrigin

(* The slot a request works on keeps its origin until the request is over.   *)
SlotKept == http.task # NoTask => slots[http.slot].origin = http.origin

(* The second attempt is made with no socket left over from before.          *)
SecondIsFresh == http.attempt = 1 => slots[http.slot].socket = "closed"

(* One origin is served by one slot.                                         *)
OneSlotEach == slots[1].origin = slots[2].origin => slots[1].origin = NoOrigin

HttpInv ==
    HttpTypeOK /\ MutexOK /\ SlotKept /\ SecondIsFresh /\ OneSlotEach /\ StaleNeverFails

LinkInv == TypeOK /\ HttpInv

-------------------------------------------------------------------------------
(* The http client *)

\* With one slot for each origin, the slot a request works on is the only one.
LEMMA OwnSlotIsOnly ==
    ASSUME HttpInv
    PROVE  RequestOwnsClient
<1> SUFFICES ASSUME ~HttpFree PROVE Cached(http.origin) = {http.slot}
  BY DEF RequestOwnsClient
<1>1. http.task # NoTask /\ http.origin # NoOrigin /\ http.slot \in {1, 2}
  BY DEF HttpInv, HttpFree, MutexOK, SlotIds
<1>2. slots[http.slot].origin = http.origin
  BY <1>1 DEF HttpInv, SlotKept
<1>3. \A i \in {1, 2} : i # http.slot => slots[i].origin # http.origin
  BY <1>1, <1>2 DEF HttpInv, OneSlotEach
<1> QED
  BY <1>1, <1>2, <1>3 DEF Cached, SlotIds

\* The client starts with empty slots and a free mutex.
LEMMA HttpInvInit ==
    ASSUME HttpInit
    PROVE  HttpInv
<1>1. slots = [i \in {1, 2} |-> [origin |-> NoOrigin, socket |-> "closed"]]
  BY DEF HttpInit, SlotIds, EmptySlot
<1>2. http = [task |-> NoTask, origin |-> NoOrigin, slot |-> 1, attempt |-> 0]
  BY DEF HttpInit, NoRequest
<1>3. HttpTypeOK
  BY <1>1, <1>2 DEF HttpInit, HttpTypeOK, SlotIds, Outcomes
<1>4. MutexOK /\ SlotKept /\ SecondIsFresh /\ OneSlotEach
  BY <1>1, <1>2 DEF MutexOK, SlotKept, SecondIsFresh, OneSlotEach, NoRequest, SlotIds
<1>5. StaleNeverFails
  BY DEF HttpInit, StaleNeverFails
<1> QED
  BY <1>3, <1>4, <1>5 DEF HttpInv

\* A request takes the slot of its origin, or puts its origin, which no other slot
\* has, in the place of the slot that was not used last.
LEMMA BeginKeeps ==
    ASSUME HttpInv, NEW t \in Requesters, NEW o \in Origins \cup {NoOrigin},
           HttpBegin(t, o)
    PROVE  HttpInv'
<1> USE DEF SlotIds
<1>1. t # NoTask /\ HttpTypeOK /\ OneSlotEach /\ StaleNeverFails
  BY HttpAssumption DEF HttpInv
<1>2. o # NoOrigin /\ o \in Origins
  BY DEF HttpBegin
<1>3. http' = [task |-> t, origin |-> o, slot |-> recent', attempt |-> 0]
  BY DEF HttpBegin, NoRequest
<1>4. outcome' \in [Requesters -> Outcomes] /\ StaleNeverFails'
  BY <1>1 DEF HttpBegin, HttpTypeOK, StaleNeverFails, Outcomes
<1>5. /\ slots' \in [SlotIds -> [origin: Origins \cup {NoOrigin},
                                 socket: {"closed", "open", "dead"}]]
      /\ recent' \in SlotIds
      /\ slots'[recent'].origin = o
      /\ OneSlotEach'
  <2>1. CASE Cached(o) # {}
    BY <1>1, <2>1 DEF HttpBegin, HttpTypeOK, OneSlotEach, Cached
  <2>2. CASE Cached(o) = {}
    <3>1. /\ recent' = Victim
          /\ slots' = [slots EXCEPT ![Victim] = [origin |-> o, socket |-> "closed"]]
      BY <2>2 DEF HttpBegin
    <3>2. Victim \in {1, 2}
      BY <1>1 DEF Victim, HttpTypeOK
    <3>3. slots[1].origin # o /\ slots[2].origin # o
      BY <2>2 DEF Cached
    <3> QED
      BY <1>1, <1>2, <3>1, <3>2, <3>3 DEF HttpTypeOK, OneSlotEach
  <2> QED
    BY <2>1, <2>2
<1>6. HttpTypeOK'
  BY <1>3, <1>4, <1>5 DEF HttpTypeOK
<1>7. MutexOK' /\ SlotKept' /\ SecondIsFresh'
  BY <1>1, <1>2, <1>3, <1>5 DEF MutexOK, SlotKept, SecondIsFresh
<1> QED
  BY <1>4, <1>5, <1>6, <1>7 DEF HttpInv

\* A refused request leaves the mutex free and at most empties a slot.
LEMMA RefusedKeeps ==
    ASSUME HttpInv, NEW t \in Requesters, NEW o \in Origins \cup {NoOrigin},
           HttpRefused(t, o)
    PROVE  HttpInv'
<1> USE DEF SlotIds
<1>1. HttpTypeOK /\ MutexOK /\ OneSlotEach /\ StaleNeverFails /\ http' = http
  BY DEF HttpInv, HttpRefused
<1>2. http = [task |-> NoTask, origin |-> NoOrigin, slot |-> 1, attempt |-> 0]
  BY DEF HttpRefused, HttpFree, NoRequest
<1>3. outcome' \in [Requesters -> Outcomes] /\ StaleNeverFails'
  BY <1>1 DEF HttpRefused, HttpTypeOK, StaleNeverFails, Outcomes
<1>4. /\ slots' \in [SlotIds -> [origin: Origins \cup {NoOrigin},
                                 socket: {"closed", "open", "dead"}]]
      /\ OneSlotEach'
  <2>1. CASE slots' = slots
    BY <1>1, <2>1 DEF HttpTypeOK, OneSlotEach
  <2>2. CASE slots' = [slots EXCEPT ![Victim] = EmptySlot]
    <3>1. Victim \in {1, 2}
      BY <1>1 DEF Victim, HttpTypeOK
    <3> QED
      BY <1>1, <2>2, <3>1 DEF HttpTypeOK, OneSlotEach, EmptySlot
  <2> QED
    BY <2>1, <2>2 DEF HttpRefused
<1>5. HttpTypeOK'
  BY <1>1, <1>3, <1>4 DEF HttpRefused, HttpTypeOK
<1>6. MutexOK' /\ SlotKept' /\ SecondIsFresh'
  BY <1>1, <1>2 DEF MutexOK, SlotKept, SecondIsFresh, NoRequest
<1> QED
  BY <1>3, <1>4, <1>5, <1>6 DEF HttpInv

\* An answer ends the request and leaves its socket open.
LEMMA AnswerKeeps ==
    ASSUME HttpInv, NEW t \in Requesters, HttpAnswer(t)
    PROVE  HttpInv'
<1> USE DEF SlotIds
<1>1. HttpTypeOK /\ MutexOK /\ OneSlotEach /\ StaleNeverFails
  BY DEF HttpInv
<1>2. http' = [task |-> NoTask, origin |-> NoOrigin, slot |-> 1, attempt |-> 0]
  BY DEF HttpAnswer, HttpFinish, NoRequest
<1>3. outcome' \in [Requesters -> Outcomes] /\ StaleNeverFails'
  BY <1>1 DEF HttpAnswer, HttpFinish, HttpTypeOK, StaleNeverFails, Outcomes
<1>4. /\ slots' \in [SlotIds -> [origin: Origins \cup {NoOrigin},
                                 socket: {"closed", "open", "dead"}]]
      /\ OneSlotEach'
  BY <1>1 DEF HttpAnswer, HttpTypeOK, OneSlotEach
<1>5. HttpTypeOK'
  BY <1>1, <1>2, <1>3, <1>4 DEF HttpAnswer, HttpTypeOK
<1>6. MutexOK' /\ SlotKept' /\ SecondIsFresh'
  BY <1>2 DEF MutexOK, SlotKept, SecondIsFresh, NoRequest
<1> QED
  BY <1>3, <1>4, <1>5, <1>6 DEF HttpInv

\* The first error closes the socket before the second attempt, so the second
\* error is never a stale one.
LEMMA ErrorKeeps ==
    ASSUME HttpInv, NEW t \in Requesters, HttpError(t)
    PROVE  HttpInv'
<1> USE DEF SlotIds
<1>1. HttpTypeOK /\ MutexOK /\ SlotKept /\ SecondIsFresh /\ OneSlotEach /\ StaleNeverFails
  BY DEF HttpInv
<1>2. http.task # NoTask /\ http.slot \in {1, 2}
  BY <1>1, HttpAssumption DEF HttpError, MutexOK
<1>3. /\ slots' \in [SlotIds -> [origin: Origins \cup {NoOrigin},
                                 socket: {"closed", "open", "dead"}]]
      /\ slots'[http.slot] = [slots[http.slot] EXCEPT !.socket = "closed"]
      /\ OneSlotEach'
  BY <1>1, <1>2 DEF HttpError, HttpTypeOK, OneSlotEach
<1>4. CASE http.attempt = 0
  <2>1. http' = [http EXCEPT !.attempt = 1] /\ outcome' = outcome /\ recent' = recent
    BY <1>4 DEF HttpError
  <2>2. HttpTypeOK' /\ StaleNeverFails'
    BY <1>1, <1>2, <1>3, <2>1 DEF HttpTypeOK, StaleNeverFails, MutexOK
  <2>3. MutexOK'
    BY <1>1, <1>2, <2>1 DEF MutexOK
  <2>4. SlotKept' /\ SecondIsFresh'
    <3>1. http'.slot = http.slot /\ http'.origin = http.origin
      BY <1>1, <2>1 DEF MutexOK
    <3>2. slots[http.slot].origin = http.origin
      BY <1>1, <1>2 DEF SlotKept
    <3>3. /\ slots'[http.slot].origin = slots[http.slot].origin
          /\ slots'[http.slot].socket = "closed"
      BY <1>1, <1>2, <1>3 DEF HttpTypeOK
    <3> QED
      BY <3>1, <3>2, <3>3 DEF SlotKept, SecondIsFresh
  <2> QED
    BY <1>3, <2>2, <2>3, <2>4 DEF HttpInv
<1>5. CASE http.attempt = 1
  <2>1. slots[http.slot].socket = "closed"
    BY <1>1, <1>5 DEF SecondIsFresh
  <2>2. http' = NoRequest /\ outcome' = [outcome EXCEPT ![t] = "failed"]
        /\ recent' = recent
    BY <1>5, <2>1 DEF HttpError, HttpFinish
  <2>3. HttpTypeOK' /\ StaleNeverFails'
    BY <1>1, <1>3, <2>2 DEF HttpTypeOK, StaleNeverFails, NoRequest, Outcomes
  <2>4. MutexOK' /\ SlotKept' /\ SecondIsFresh'
    BY <2>2 DEF MutexOK, SlotKept, SecondIsFresh, NoRequest
  <2> QED
    BY <1>3, <2>3, <2>4 DEF HttpInv
<1> QED
  BY <1>1, <1>4, <1>5 DEF HttpTypeOK

\* Nobody works on a slot while all are closed.
LEMMA CloseAllKeeps ==
    ASSUME HttpInv, HttpCloseAll
    PROVE  HttpInv'
<1>1. http = NoRequest /\ http' = http /\ outcome' = outcome /\ recent' = recent
  BY DEF HttpCloseAll, HttpFree
<1>2. slots' = [i \in {1, 2} |-> [origin |-> NoOrigin, socket |-> "closed"]]
  BY DEF HttpCloseAll, SlotIds, EmptySlot
<1>3. HttpTypeOK' /\ MutexOK' /\ StaleNeverFails'
  BY <1>1, <1>2 DEF HttpInv, HttpTypeOK, MutexOK, StaleNeverFails, SlotIds, NoRequest
<1>4. SlotKept' /\ SecondIsFresh' /\ OneSlotEach'
  BY <1>1, <1>2 DEF SlotKept, SecondIsFresh, OneSlotEach, NoRequest
<1> QED
  BY <1>3, <1>4 DEF HttpInv

\* Only open sockets die, so the closed one of a second attempt stays closed.
LEMMA SocketsDieKeeps ==
    ASSUME HttpInv, NEW dying \in SUBSET SlotIds, SocketsDie(dying),
           UNCHANGED <<recent, http, outcome>>
    PROVE  HttpInv'
<1> USE DEF SlotIds
<1>1. HttpTypeOK /\ MutexOK /\ SlotKept /\ SecondIsFresh /\ OneSlotEach /\ StaleNeverFails
  BY DEF HttpInv
<1>2. /\ slots' \in [SlotIds -> [origin: Origins \cup {NoOrigin},
                                 socket: {"closed", "open", "dead"}]]
      /\ \A i \in SlotIds : slots'[i].origin = slots[i].origin
  BY <1>1 DEF SocketsDie, HttpTypeOK
<1>3. \A i \in SlotIds : slots[i].socket = "closed" => slots'[i].socket = "closed"
  BY <1>1 DEF SocketsDie, HttpTypeOK
<1>4. HttpTypeOK' /\ MutexOK' /\ StaleNeverFails'
  BY <1>1, <1>2 DEF HttpTypeOK, MutexOK, StaleNeverFails
<1>5. SlotKept' /\ SecondIsFresh' /\ OneSlotEach'
  BY <1>1, <1>2, <1>3 DEF SlotKept, SecondIsFresh, OneSlotEach, HttpTypeOK
<1> QED
  BY <1>2, <1>4, <1>5 DEF HttpInv

-------------------------------------------------------------------------------
(* The link *)

\* A step that leaves the client alone keeps what holds of it.
LEMMA HttpStutters ==
    ASSUME HttpInv, UNCHANGED httpVars
    PROVE  HttpInv'
BY DEF httpVars, HttpInv, HttpTypeOK, MutexOK, SlotKept, SecondIsFresh, OneSlotEach,
       StaleNeverFails, NoRequest

\* The link starts joining, with nothing connected.
LEMMA LinkInvInit ==
    ASSUME Init
    PROVE  LinkInv
<1>1. HttpInv
  BY HttpInvInit DEF Init
<1>2. retries \in 0 .. FastRetryCount
  BY LinkAssumption DEF Init
<1> QED
  BY <1>1, <1>2 DEF Init, LinkInv, TypeOK, HttpInv

\* Every step of the driver, the supervisor and the requesters keeps the
\* invariant.
LEMMA LinkInvNext ==
    ASSUME LinkInv, [Next]_vars
    PROVE  LinkInv'
<1> USE DEF LinkInv
<1>1. TypeOK /\ HttpInv /\ (HttpInv' => HttpTypeOK')
  BY DEF HttpInv
<1>2. CASE ApChanges
  BY <1>1, <1>2, HttpStutters DEF ApChanges, TypeOK
<1>3. CASE Associate
  BY <1>1, <1>3, HttpStutters DEF Associate, TypeOK
<1>4. CASE GotIp
  BY <1>1, <1>4, HttpStutters, LinkAssumption DEF GotIp, TypeOK
<1>5. CASE Disconnected
  <2>1. HttpInv'
    BY <1>1, <1>5, SocketsDieKeeps DEF Disconnected
  <2>2. retries' \in 0 .. FastRetryCount /\ radio' \in {"off", "joining", "associated"}
    BY <1>1, <1>5, LinkAssumption DEF Disconnected, TypeOK
  <2> QED
    BY <1>1, <1>5, <2>1, <2>2 DEF Disconnected, TypeOK
<1>6. CASE ServerHangsUp
  <2>1. PICK i \in SlotIds : SocketsDie({i})
    BY <1>6 DEF ServerHangsUp
  <2>2. HttpInv'
    BY <1>1, <1>6, <2>1, SocketsDieKeeps DEF ServerHangsUp
  <2> QED
    BY <1>1, <1>6, <2>2 DEF ServerHangsUp, linkVars, TypeOK
<1>7. CASE Supervisor
  <2>1. CASE SupWakes
    BY <1>1, <2>1, HttpStutters DEF SupWakes, TypeOK
  <2>2. CASE SupCloses
    BY <1>1, <2>2, CloseAllKeeps DEF SupCloses, TypeOK
  <2>3. CASE SupConnects
    BY <1>1, <2>3, HttpStutters DEF SupConnects, TypeOK
  <2>4. CASE SupNotes
    BY <1>1, <2>4, HttpStutters DEF SupNotes, TypeOK
  <2> QED
    BY <1>7, <2>1, <2>2, <2>3, <2>4 DEF Supervisor
<1>8. ASSUME NEW t \in Requesters, Begin(t) PROVE LinkInv'
  <2>1. PICK o \in Origins \cup {NoOrigin} : HttpBegin(t, o) \/ HttpRefused(t, o)
    BY <1>8 DEF Begin
  <2>2. HttpInv'
    BY <1>1, <2>1, BeginKeeps, RefusedKeeps
  <2> QED
    BY <1>1, <1>8, <2>2 DEF Begin, linkVars, TypeOK
<1>9. ASSUME NEW t \in Requesters, Answer(t) PROVE LinkInv'
  BY <1>1, <1>9, AnswerKeeps DEF Answer, linkVars, TypeOK
<1>10. ASSUME NEW t \in Requesters, Fail(t) PROVE LinkInv'
  BY <1>1, <1>10, ErrorKeeps DEF Fail, linkVars, TypeOK
<1>11. CASE UNCHANGED vars
  BY <1>1, <1>11, HttpStutters DEF vars, linkVars, TypeOK
<1> QED
  BY <1>2, <1>3, <1>4, <1>5, <1>6, <1>7, <1>8, <1>9, <1>10, <1>11 DEF Next

\* The invariant holds in every reachable state.
LEMMA LinkInvAlways == Spec => []LinkInv
<1>1. Init => LinkInv
  BY LinkInvInit
<1>2. LinkInv /\ [Next]_vars => LinkInv'
  BY LinkInvNext
<1> QED
  BY <1>1, <1>2, PTL DEF Spec

-------------------------------------------------------------------------------

\* wifi.c and http_client.c: every variable keeps its type, and the flag that the
\* console and the flows read is up only while the station is associated.
THEOREM LinkTyped == Spec => []TypeOK
<1>1. LinkInv => TypeOK
  BY DEF LinkInv
<1> QED
  BY <1>1, LinkInvAlways, PTL

\* http_client.c: while one task's request is under way no other task's request,
\* eviction or http_close_all touches its client, and no second slot serves the
\* same origin.
THEOREM ClientOwned == Spec => []RequestOwnsClient
<1>1. LinkInv => RequestOwnsClient
  BY OwnSlotIsOnly DEF LinkInv
<1> QED
  BY <1>1, LinkInvAlways, PTL

\* http_client.c: however sockets die between and during requests, a request does
\* not fail only because its cached connection was stale.
THEOREM StaleRetried == Spec => []StaleNeverFails
<1>1. LinkInv => StaleNeverFails
  BY DEF LinkInv, HttpInv
<1> QED
  BY <1>1, LinkInvAlways, PTL
===============================================================================
