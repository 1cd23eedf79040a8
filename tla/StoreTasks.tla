------------------------------- MODULE StoreTasks -------------------------------
(***************************************************************************)
(* The tasks that share the wallet store, the http client and the screen:  *)
(* console, nfc session, drain and keypad.  Three mutexes: the store's and *)
(* the UI's are recursive, the http client's is not.  The prewarm request  *)
(* and the wifi supervisor take the http mutex alone and are left out.     *)
(*                                                                         *)
(* What an operation does to a wallet is left out: it changes what the     *)
(* home screen shows, or it does not.  How a request uses connections, and *)
(* how the link comes and goes, are the subject of WifiLink.               *)
(***************************************************************************)
EXTENDS Naturals

CONSTANTS
    Slots,    \* the slots that have a wallet
    NoTask

Tasks == {"console", "nfc", "drain", "keypad"}

ASSUME StoreAssumption == Slots \subseteq Nat /\ NoTask \notin Tasks

VARIABLES
    connected,  \* wifi_is_connected() and WIFI_CONNECTED_BIT
    store,      \* the owner of the wallet store's mutex
    uiLock,     \* the owner of ui_mutex()
    http,       \* the owner of the http client's mutex
    pc,         \* where each task stands
    pending,    \* the slots whose offline queue holds a token
    round,      \* the slots the drain pass has still to visit
    worked,     \* total_ok or total_fail of the pass is not zero
    frame,      \* what the framebuffer shows
    panel,      \* what the display shows
    debt        \* history: a refresh that was skipped, or never tried

drainVars == <<pending, round, worked>>
screenVars == <<frame, panel, debt>>
vars == <<connected, store, uiLock, http, pc, drainVars, screenVars>>

Goto(t, stage) == pc' = [pc EXCEPT ![t] = stage]

-------------------------------------------------------------------------------
(* The screen *)

\* The balances, the pending count or the list of mints change.
HomeChanges ==
    /\ frame' = IF frame = "fresh" THEN "old" ELSE frame
    /\ panel' = IF panel = "fresh" THEN "old" ELSE panel

\* ui_show_nfc_status and show_amount_entry draw and go, all under the UI lock.
ShowStatus ==
    /\ uiLock = NoTask
    /\ frame' = "status"
    /\ panel' = "status"

\* A task that held the store goes on without a refresh: a frame that was skipped
\* meanwhile stays skipped.
LeavesNoRefresh == debt' = IF debt = "none" THEN "none" ELSE "excused"

\* Where a task goes on after ui_refresh; the console is still in its guard.
AfterRefresh(t) ==
    CASE t = "console" -> "leaving"
      [] t = "drain"   -> "pausing"
      [] OTHER         -> "idle"

\* Mutant: the UI lock first, then wait for the store.
UiLockFirst(t) ==
    /\ pc[t] = "refresh"
    /\ \/ /\ uiLock = NoTask
          /\ uiLock' = t
          /\ UNCHANGED <<store, pc, debt>>
       \/ /\ uiLock = t
          /\ store \in {NoTask, t}
          /\ store' = t
          /\ Goto(t, "compose")
          /\ UNCHANGED <<uiLock, debt>>
    /\ UNCHANGED <<connected, http, drainVars, frame, panel>>

\* Only an operation holds the store for long: drawing a frame takes a fraction
\* of the 100 ms.
Busy == store # NoTask /\ pc[store] \in {"online", "asking", "local"}

\* ui_refresh waits 100 ms for the store, or skips the frame.
TryStore(t) ==
    /\ pc[t] = "refresh"
    /\ \/ /\ store \in {NoTask, t}
          /\ store' = t
          /\ Goto(t, "compose")
          /\ UNCHANGED debt
       \/ /\ Busy
          /\ debt' = IF debt = "none" THEN "skipped" ELSE debt
          /\ Goto(t, AfterRefresh(t))
          /\ UNCHANGED store
    /\ UNCHANGED <<connected, http, uiLock, drainVars, frame, panel>>

\* Mutant: the store is not let go.
ComposeKeepsStore(t) ==
    /\ pc[t] = "compose"
    /\ uiLock \in {NoTask, t}
    /\ uiLock' = t
    /\ frame' = "fresh"
    /\ debt' = "none"
    /\ Goto(t, "update")
    /\ UNCHANGED <<connected, http, store, drainVars, panel>>

\* The frame is drawn with both locks held, the store let go ...
Compose(t) ==
    /\ pc[t] = "compose"
    /\ uiLock \in {NoTask, t}
    /\ uiLock' = t
    /\ frame' = "fresh"
    /\ debt' = "none"
    /\ store' = IF t = "console" THEN t ELSE NoTask
    /\ Goto(t, "update")
    /\ UNCHANGED <<connected, http, drainVars, panel>>

\* ... and the display updated.
Update(t) ==
    /\ pc[t] = "update"
    /\ panel' = frame
    /\ uiLock' = NoTask
    /\ Goto(t, AfterRefresh(t))
    /\ UNCHANGED <<connected, http, store, drainVars, frame, debt>>

Refresh(t) == TryStore(t) \/ Compose(t) \/ Update(t)

-------------------------------------------------------------------------------
(* Requests *)

\* The requests of one operation stand as one: the http mutex is taken ...
Ask(t) ==
    /\ pc[t] = "online"
    /\ http = NoTask
    /\ http' = t
    /\ Goto(t, "asking")
    /\ UNCHANGED <<connected, store, uiLock, drainVars, screenVars>>

\* ... and given back; an answer needs the link, a failure is always possible.
Returned(t, ok) ==
    /\ pc[t] = "asking"
    /\ ok \in {FALSE, connected}
    /\ http' = NoTask
    /\ UNCHANGED <<connected, uiLock>>

-------------------------------------------------------------------------------
(* The console: every command runs inside one guard *)

ConsoleTakes ==
    /\ pc["console"] = "idle"
    /\ store = NoTask
    /\ store' = "console"
    /\ Goto("console", IF connected THEN "online" ELSE "local")
    /\ UNCHANGED <<connected, http, uiLock, drainVars, screenVars>>

ConsoleHears ==
    /\ \E ok \in BOOLEAN : Returned("console", ok)
    /\ Goto("console", "local")
    /\ UNCHANGED <<store, drainVars, screenVars>>

\* A command that succeeds changes what the home screen shows, and refreshes it.
ConsoleChanges ==
    /\ pc["console"] \in {"online", "local"}
    /\ HomeChanges
    /\ Goto("console", "refresh")
    /\ UNCHANGED <<connected, http, store, uiLock, drainVars, debt>>

\* The others return without a refresh: status, invoice, mint info, and every
\* command that fails, even one that had added the mint of a token.
ConsoleQuits ==
    /\ pc["console"] \in {"online", "local"}
    /\ store' = NoTask
    /\ \/ LeavesNoRefresh /\ UNCHANGED <<frame, panel>>
       \/ HomeChanges /\ debt' = "excused"
    /\ Goto("console", "idle")
    /\ UNCHANGED <<connected, http, uiLock, drainVars>>

ConsoleLeaves ==
    /\ pc["console"] = "leaving"
    /\ store' = NoTask
    /\ Goto("console", "idle")
    /\ UNCHANGED <<connected, http, uiLock, drainVars, screenVars>>

-------------------------------------------------------------------------------
(* The nfc session *)

\* A token came in: "redeeming..." is shown, then the store is taken.
NfcTakes ==
    /\ pc["nfc"] = "idle"
    /\ store = NoTask
    /\ ShowStatus
    /\ store' = "nfc"
    /\ Goto("nfc", IF connected THEN "online" ELSE "local")
    /\ UNCHANGED <<connected, http, uiLock, drainVars, debt>>

\* Offline: stashed in the slot of its mint.
NfcStashes ==
    /\ pc["nfc"] = "local"
    /\ \E m \in Slots : pending' = pending \cup {m}
    /\ HomeChanges
    /\ store' = NoTask
    /\ Goto("nfc", "result")
    /\ UNCHANGED <<connected, http, uiLock, round, worked, debt>>

\* Online: swapped.
NfcRedeems ==
    /\ Returned("nfc", TRUE)
    /\ HomeChanges
    /\ store' = NoTask
    /\ Goto("nfc", "result")
    /\ UNCHANGED <<drainVars, debt>>

\* Refused, offline or by the mint, or without an answer; a token online may
\* have added its mint first.
NfcFails ==
    /\ \/ \E ok \in BOOLEAN : Returned("nfc", ok)
       \/ pc["nfc"] = "local" /\ UNCHANGED <<connected, http, uiLock>>
    /\ store' = NoTask
    /\ debt' = "excused"
    /\ Goto("nfc", "failure")
    /\ UNCHANGED <<drainVars, frame, panel>>

\* "paid!" or "queued" is followed by a refresh, "redeem failed" is not.
NfcShows ==
    /\ pc["nfc"] \in {"result", "failure"}
    /\ ShowStatus
    /\ debt' = IF pc["nfc"] = "failure" THEN "excused" ELSE debt
    /\ Goto("nfc", IF pc["nfc"] = "failure" THEN "idle" ELSE "refresh")
    /\ UNCHANGED <<connected, http, store, uiLock, drainVars>>

-------------------------------------------------------------------------------
(* wifi_drain_task *)

DrainWakes ==
    /\ pc["drain"] = "waiting"
    /\ connected
    /\ Goto("drain", "head")
    /\ UNCHANGED <<connected, http, store, uiLock, drainVars, screenVars>>

\* The head of the loop: leave it when the link is down or nothing is pending.
DrainDecides ==
    /\ pc["drain"] = "head"
    /\ connected => store = NoTask
    /\ IF connected /\ pending # {}
       THEN Goto("drain", "pass") /\ round' = Slots /\ worked' = FALSE
       ELSE Goto("drain", "parked") /\ UNCHANGED <<round, worked>>
    /\ UNCHANGED <<connected, http, store, uiLock, pending, screenVars>>

\* The slot the pass is at.
At(m) == m \in round /\ \A n \in round : m <= n

\* The next slot, under a guard of its own; an empty queue is passed over.
DrainVisits(m) ==
    /\ pc["drain"] = "pass"
    /\ At(m)
    /\ store = NoTask
    /\ IF m \in pending
       THEN /\ store' = "drain"
            /\ Goto("drain", "online")
            /\ UNCHANGED round
       ELSE /\ round' = round \ {m}
            /\ UNCHANGED <<store, pc>>
    /\ UNCHANGED <<connected, http, uiLock, pending, worked, screenVars>>

\* Mutant: the slots that redeemed something do not count for the refresh.
DrainForgets(m) ==
    /\ At(m)
    /\ \E ok \in BOOLEAN :
        /\ Returned("drain", ok)
        /\ IF ok
           THEN pending' \in {pending, pending \ {m}} /\ HomeChanges
           ELSE UNCHANGED <<pending, frame, panel>>
    /\ store' = NoTask
    /\ round' = round \ {m}
    /\ Goto("drain", "pass")
    /\ UNCHANGED <<worked, debt>>

\* Of the slot's tokens all or some were redeemed, or all are retained: those
\* count neither as redeemed nor as failed (what fails is a token that does not
\* decode, and every token of the queue was decoded before it was stashed).
DrainFinishes(m) ==
    /\ At(m)
    /\ \E ok \in BOOLEAN :
        /\ Returned("drain", ok)
        /\ IF ok
           THEN pending' \in {pending, pending \ {m}} /\ HomeChanges
           ELSE UNCHANGED <<pending, frame, panel>>
        /\ worked' = (worked \/ ok)
    /\ store' = NoTask
    /\ round' = round \ {m}
    /\ Goto("drain", "pass")
    /\ UNCHANGED debt

\* Only a pass that redeemed something is followed by a refresh.
DrainPassEnds ==
    /\ pc["drain"] = "pass"
    /\ round = {}
    /\ IF worked
       THEN Goto("drain", "refresh") /\ UNCHANGED debt
       ELSE Goto("drain", "pausing") /\ LeavesNoRefresh
    /\ UNCHANGED <<connected, http, store, uiLock, drainVars, frame, panel>>

\* Mutant: one pass per connect.
DrainOnce ==
    /\ pc["drain"] = "pausing"
    /\ Goto("drain", "parked")
    /\ UNCHANGED <<connected, http, store, uiLock, drainVars, screenVars>>

\* The backoff, 5 s to 60 s.
DrainRetries ==
    /\ pc["drain"] = "pausing"
    /\ Goto("drain", "head")
    /\ UNCHANGED <<connected, http, store, uiLock, drainVars, screenVars>>

\* The link is looked at every 5 s until it is down.
DrainUnparks ==
    /\ pc["drain"] = "parked"
    /\ ~connected
    /\ Goto("drain", "waiting")
    /\ UNCHANGED <<connected, http, store, uiLock, drainVars, screenVars>>

-------------------------------------------------------------------------------
(* The keypad *)

\* A digit asks the store how many wallets there are, then the entry is shown.
KeypadStarts ==
    /\ pc["keypad"] = "idle"
    /\ store = NoTask
    /\ ShowStatus
    /\ Goto("keypad", "session")
    /\ UNCHANGED <<connected, http, store, uiLock, drainVars, debt>>

KeypadShows ==
    /\ pc["keypad"] = "session"
    /\ ShowStatus
    /\ UNCHANGED <<connected, http, store, uiLock, pc, drainVars, debt>>

KeypadEnds ==
    /\ pc["keypad"] = "session"
    /\ Goto("keypad", "refresh")
    /\ UNCHANGED <<connected, http, store, uiLock, drainVars, screenVars>>

-------------------------------------------------------------------------------

LinkChanges ==
    /\ connected' = ~connected
    /\ UNCHANGED <<store, uiLock, http, pc, drainVars, screenVars>>

Init ==
    /\ connected = FALSE
    /\ store = NoTask
    /\ uiLock = NoTask
    /\ http = NoTask
    /\ pc = [t \in Tasks |-> IF t = "drain" THEN "waiting" ELSE "idle"]
    /\ pending \in SUBSET Slots
    /\ round = {}
    /\ worked = FALSE
    /\ frame = "fresh"
    /\ panel = "fresh"
    /\ debt = "none"

Console == ConsoleTakes \/ ConsoleHears \/ ConsoleChanges \/ ConsoleQuits \/ ConsoleLeaves

Nfc == NfcTakes \/ NfcStashes \/ NfcRedeems \/ NfcFails \/ NfcShows

Drain ==
    \/ DrainWakes \/ DrainDecides \/ DrainPassEnds \/ DrainRetries \/ DrainUnparks
    \/ \E m \in Slots : DrainVisits(m) \/ DrainFinishes(m)

Keypad == KeypadStarts \/ KeypadShows \/ KeypadEnds

Step(t) ==
    \/ Ask(t) \/ Refresh(t)
    \/ t = "console" /\ Console
    \/ t = "nfc" /\ Nfc
    \/ t = "drain" /\ Drain
    \/ t = "keypad" /\ Keypad

Next ==
    \/ LinkChanges
    \/ \E t \in Tasks : Step(t)

\* What was begun goes on: every request ends, who waits for a mutex that is free
\* again and again gets it.  The mints answer now and then, and no pending token
\* is refused for good.
Fairness ==
    /\ \A t \in Tasks : SF_vars(pc[t] # "idle" /\ Step(t))
    /\ \A m \in Slots : SF_vars(DrainFinishes(m) /\ pending' # pending)

Spec == Init /\ [][Next]_vars

FairSpec == Spec /\ Fairness

-------------------------------------------------------------------------------
(* Properties *)

\* The stages in which a task holds the store; a console command always does.
Holding(t) ==
    \/ pc[t] \in {"online", "asking", "local", "compose"}
    \/ t = "console" /\ pc[t] # "idle"

\* Types; and each mutex belongs to the task that stands between its taking and
\* its giving back (ui_refresh gives the store back by hand, not by a guard).
TypeOK ==
    /\ connected \in BOOLEAN
    /\ {store, uiLock, http} \subseteq Tasks \cup {NoTask}
    /\ pc \in [Tasks -> {"idle", "online", "local", "asking", "refresh", "compose",
                        "update", "leaving", "result", "failure", "session",
                        "waiting", "head", "pass", "pausing", "parked"}]
    /\ pending \subseteq Slots /\ round \subseteq Slots
    /\ worked \in BOOLEAN
    /\ {frame, panel} \subseteq {"fresh", "old", "status"}
    /\ debt \in {"none", "skipped", "excused"}
    /\ \A t \in Tasks :
        /\ store = t <=> Holding(t)
        /\ uiLock = t <=> pc[t] = "update"
        /\ http = t <=> pc[t] = "asking"

\* No task works and none waits to.
Quiet ==
    /\ \A t \in {"console", "nfc", "keypad"} : pc[t] = "idle"
    /\ pc["drain"] \in {"waiting", "head", "pausing", "parked"}

\* ui.cpp: a skipped frame heals, as every wallet operation ends with a refresh.
\* Once all is quiet the home screen is shown and current, unless the last task
\* to leave was one of those that do not refresh: a command that fails or changes
\* nothing, a payment that fails, a drain pass that retained all of its tokens.
FrameHeals == Quiet /\ debt # "excused" => panel = "fresh"

\* The orders in which the tasks take the store's, the UI's and the http client's
\* mutex never end in a circle: of the tasks that hold one, one can go on.
Holders == {store, uiLock, http} \ {NoTask}

NoCircle == Holders # {} => \E t \in Holders : ENABLED Step(t)

\* nucula.cpp: once connected, tokens accepted offline are retried until every
\* one is redeemed or the link drops; and a link that comes back finds the task
\* armed, if it was down when the parked task looked.
DrainRearms ==
    pending # {} /\ connected /\ pc["drain"] # "parked" ~> pending = {} \/ ~connected

\* The same comment, for every reconnect.
DrainAlwaysRearms == pending # {} /\ connected ~> pending = {} \/ ~connected
===============================================================================
