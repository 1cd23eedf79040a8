-------------------------------- MODULE WifiLink --------------------------------
(***************************************************************************)
(* The wifi station: the driver and the access point (outside src/), the   *)
(* event handler with its fast retries, and the supervisor task that       *)
(* reconnects for ever and closes the cached connections of a lost link.   *)
(***************************************************************************)
EXTENDS HttpConns

CONSTANT FastRetryCount   \* FAST_RETRY_COUNT

ASSUME LinkAssumption == FastRetryCount \in Nat

VARIABLES
    ap,          \* the access point answers
    radio,       \* the driver: off, joining, or associated
    retries,     \* s_retry_count
    connected,   \* s_connected and WIFI_CONNECTED_BIT
    sup,         \* where the supervisor stands
    was          \* was_connected

linkVars == <<ap, radio, retries, connected, sup, was>>
vars == <<linkVars, httpVars>>

-------------------------------------------------------------------------------

ApChanges ==
    /\ ap' = ~ap
    /\ UNCHANGED <<radio, retries, connected, sup, was, httpVars>>

Associate ==
    /\ radio = "joining"
    /\ ap
    /\ radio' = "associated"
    /\ UNCHANGED <<ap, retries, connected, sup, was, httpVars>>

\* IP_EVENT_STA_GOT_IP; resolvers are filled in when DHCP gave none.
GotIp ==
    /\ radio = "associated"
    /\ ~connected
    /\ retries' = 0
    /\ connected' = TRUE
    /\ UNCHANGED <<ap, radio, sup, was, httpVars>>

\* Mutant: the flag is cleared only when the retries are used up.
ClearWhenSpent ==
    /\ radio # "off"
    /\ IF retries < FastRetryCount
       THEN radio' = "joining" /\ retries' = retries + 1 /\ UNCHANGED connected
       ELSE radio' = "off" /\ connected' = FALSE /\ UNCHANGED retries
    /\ SocketsDie({i \in SlotIds : slots[i].socket = "open"})
    /\ UNCHANGED <<ap, sup, was, recent, http, outcome>>

\* WIFI_EVENT_STA_DISCONNECTED, for a link that was lost or never came up.
Disconnected ==
    /\ radio # "off"
    /\ connected' = FALSE
    /\ IF retries < FastRetryCount
       THEN radio' = "joining" /\ retries' = retries + 1
       ELSE radio' = "off" /\ UNCHANGED retries
    /\ SocketsDie({i \in SlotIds : slots[i].socket = "open"})
    /\ UNCHANGED <<ap, sup, was, recent, http, outcome>>

\* The server closes an idle connection.
ServerHangsUp ==
    /\ \E i \in SlotIds : slots[i].socket = "open" /\ SocketsDie({i})
    /\ UNCHANGED <<linkVars, recent, http, outcome>>

-------------------------------------------------------------------------------
(* wifi_supervisor_task *)

\* Mutant: a link that never came up is left to the fast retries.
WakeAfterFall ==
    /\ sup = "asleep"
    /\ sup' = IF connected \/ ~was THEN "noting" ELSE "closing"
    /\ UNCHANGED <<ap, radio, retries, connected, was, httpVars>>

\* Every 30 s.
SupWakes ==
    /\ sup = "asleep"
    /\ sup' = IF connected THEN "noting" ELSE IF was THEN "closing" ELSE "connecting"
    /\ UNCHANGED <<ap, radio, retries, connected, was, httpVars>>

\* The falling edge.
SupCloses ==
    /\ sup = "closing"
    /\ HttpCloseAll
    /\ sup' = "connecting"
    /\ UNCHANGED <<ap, radio, retries, connected, was>>

\* esp_wifi_connect: nothing new for a driver that is already at it.
SupConnects ==
    /\ sup = "connecting"
    /\ radio' = IF radio = "off" THEN "joining" ELSE radio
    /\ sup' = "noting"
    /\ UNCHANGED <<ap, retries, connected, was, httpVars>>

\* s_connected is read a second time for the next round.
SupNotes ==
    /\ sup = "noting"
    /\ was' = connected
    /\ sup' = "asleep"
    /\ UNCHANGED <<ap, radio, retries, connected, httpVars>>

Supervisor == SupWakes \/ SupCloses \/ SupConnects \/ SupNotes

-------------------------------------------------------------------------------
(* Requests of the other tasks *)

Begin(t) ==
    /\ http.task # t
    /\ \E o \in Origins \cup {NoOrigin} : HttpBegin(t, o) \/ HttpRefused(t, o)
    /\ UNCHANGED linkVars

Answer(t) ==
    /\ connected
    /\ HttpAnswer(t)
    /\ UNCHANGED linkVars

Fail(t) ==
    /\ HttpError(t)
    /\ UNCHANGED linkVars

-------------------------------------------------------------------------------

Init ==
    /\ HttpInit
    /\ ap = FALSE
    /\ radio = "joining"
    /\ retries = 0
    /\ connected = FALSE
    /\ sup = "asleep"
    /\ was = FALSE

Next ==
    \/ ApChanges \/ Associate \/ GotIp \/ Disconnected \/ ServerHangsUp
    \/ Supervisor
    \/ \E t \in Requesters : Begin(t) \/ Answer(t) \/ Fail(t)

\* The tasks run, requests end, and the supervisor gets the mutex in between.  The
\* driver joins an access point that answers, and gets an address, if it may try
\* often enough.
Fairness ==
    /\ WF_vars(SupWakes \/ SupConnects \/ SupNotes)
    /\ SF_vars(SupCloses)
    /\ \A t \in Requesters : WF_vars(Answer(t) \/ Fail(t))
    /\ SF_vars(Associate)
    /\ SF_vars(GotIp)

Spec == Init /\ [][Next]_vars /\ Fairness

-------------------------------------------------------------------------------
(* Properties *)

TypeOK ==
    /\ HttpTypeOK
    /\ ap \in BOOLEAN
    /\ radio \in {"off", "joining", "associated"}
    /\ retries \in 0 .. FastRetryCount
    /\ connected \in BOOLEAN
    /\ connected => radio = "associated"
    /\ sup \in {"asleep", "closing", "connecting", "noting"}
    /\ was \in BOOLEAN

\* wifi.c: the supervisor reconnects on a fixed cadence and never gives up - with
\* an access point that stays, the link is up again and again, however long it
\* was away and however many fast retries were used up.
LinkReturns == <>[]ap => []<>connected
===============================================================================
