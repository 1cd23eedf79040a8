------------------------------- MODULE HttpConns -------------------------------
(***************************************************************************)
(* The http client: two cached keep-alive connections, one per origin, and *)
(* the mutex that serialises every request and the closing of them all.    *)
(*                                                                         *)
(* A slot holds a client handle for an origin; its socket is closed, open, *)
(* or dead (the link or the server dropped it and nobody has noticed).     *)
(***************************************************************************)
EXTENDS Naturals, FiniteSets

CONSTANTS
    Origins,       \* the origins that requests name
    NoOrigin,      \* an empty slot, or a url without an origin
    Requesters,    \* the tasks that make requests
    Closer,        \* the task that calls http_close_all
    NoTask

ASSUME HttpAssumption ==
    /\ NoOrigin \notin Origins
    /\ Closer \notin Requesters
    /\ NoTask \notin Requesters \cup {Closer}

VARIABLES
    slots,     \* s_slots
    recent,    \* the slot with the larger last_used_us
    http,      \* s_mutex, and the request its owner is making
    outcome    \* what perform_with_timeout returned to each task

httpVars == <<slots, recent, http, outcome>>

SlotIds == {1, 2}

EmptySlot == [origin |-> NoOrigin, socket |-> "closed"]

NoRequest == [task |-> NoTask, origin |-> NoOrigin, slot |-> 1, attempt |-> 0]

\* How a request ended: "stale" is a failure whose last attempt used a socket
\* that had been opened for an earlier request.
Outcomes == {"none", "ok", "failed", "stale"}

HttpFree == http = NoRequest

-------------------------------------------------------------------------------
(* Which slot serves an origin *)

Cached(o) == {i \in SlotIds : slots[i].origin = o}

\* An empty slot (the last one, if both are), or the one not used last.
Victim ==
    IF slots[2] = EmptySlot THEN 2
    ELSE IF slots[1] = EmptySlot THEN 1
    ELSE 3 - recent

-------------------------------------------------------------------------------

\* slot_client_for finds the cached client or makes one in the victim's place.
HttpBegin(t, o) ==
    /\ HttpFree
    /\ o # NoOrigin
    /\ IF Cached(o) # {}
       THEN /\ recent' \in Cached(o)
            /\ UNCHANGED slots
       ELSE /\ recent' = Victim
            /\ slots' = [slots EXCEPT ![Victim] = [origin |-> o, socket |-> "closed"]]
    /\ http' = [NoRequest EXCEPT !.task = t, !.origin = o, !.slot = recent']
    /\ outcome' = [outcome EXCEPT ![t] = "none"]

\* A url without an origin touches no slot; a client that cannot be created
\* leaves the victim empty.
HttpRefused(t, o) ==
    /\ HttpFree
    /\ \/ o = NoOrigin /\ UNCHANGED slots
       \/ o # NoOrigin /\ Cached(o) = {} /\ slots' = [slots EXCEPT ![Victim] = EmptySlot]
    /\ outcome' = [outcome EXCEPT ![t] = "failed"]
    /\ UNCHANGED <<recent, http>>

HttpFinish(t, how) ==
    /\ http' = NoRequest
    /\ outcome' = [outcome EXCEPT ![t] = how]

\* An answer of any status, over a socket that lives or is opened now.
HttpAnswer(t) ==
    /\ http.task = t
    /\ slots[http.slot].socket # "dead"
    /\ slots' = [slots EXCEPT ![http.slot].socket = "open"]
    /\ HttpFinish(t, "ok")
    /\ UNCHANGED recent

\* Mutant: the socket stays, so the second attempt goes the same way.
HttpErrorKeeps(t) ==
    /\ http.task = t
    /\ IF http.attempt = 0
       THEN http' = [http EXCEPT !.attempt = 1] /\ UNCHANGED outcome
       ELSE HttpFinish(t, IF slots[http.slot].socket = "dead" THEN "stale" ELSE "failed")
    /\ UNCHANGED <<slots, recent>>

\* A transport error closes the socket and keeps the handle; the first is
\* followed by a second attempt on a new socket.
HttpError(t) ==
    /\ http.task = t
    /\ slots' = [slots EXCEPT ![http.slot].socket = "closed"]
    /\ IF http.attempt = 0
       THEN http' = [http EXCEPT !.attempt = 1] /\ UNCHANGED outcome
       ELSE HttpFinish(t, IF slots[http.slot].socket = "dead" THEN "stale" ELSE "failed")
    /\ UNCHANGED recent

\* Mutant: the mutex is not taken.
CloseWithoutLock ==
    /\ slots' = [i \in SlotIds |-> EmptySlot]
    /\ UNCHANGED <<recent, http, outcome>>

\* http_close_all, under the mutex like a request.
HttpCloseAll ==
    /\ HttpFree
    /\ slots' = [i \in SlotIds |-> EmptySlot]
    /\ UNCHANGED <<recent, http, outcome>>

\* Open sockets die with the link, or one by one at the server's wish.
SocketsDie(dying) ==
    /\ \A i \in dying : slots[i].socket = "open"
    /\ slots' = [i \in SlotIds |->
            IF i \in dying THEN [slots[i] EXCEPT !.socket = "dead"] ELSE slots[i]]

HttpInit ==
    /\ slots = [i \in SlotIds |-> EmptySlot]
    /\ recent = 1
    /\ http = NoRequest
    /\ outcome = [t \in Requesters |-> "none"]

-------------------------------------------------------------------------------
(* Properties *)

HttpTypeOK ==
    /\ slots \in [SlotIds -> [origin: Origins \cup {NoOrigin},
                              socket: {"closed", "open", "dead"}]]
    /\ recent \in SlotIds
    /\ http.task \in Requesters \cup {NoTask}
    /\ http.slot \in SlotIds /\ http.attempt \in {0, 1}
    /\ outcome \in [Requesters -> Outcomes]

\* The client a request works with is its own until it is over: nobody frees it
\* or gives its slot to another origin in the meantime, and no other slot holds a
\* second connection to that origin.
RequestOwnsClient ==
    ~HttpFree => Cached(http.origin) = {http.slot}

\* A request never fails only because a cached connection had died: the last
\* attempt was made over a socket of its own.
StaleNeverFails == \A t \in Requesters : outcome[t] # "stale"
===============================================================================
