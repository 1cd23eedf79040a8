---------------------------- MODULE StoreTasksProofs ----------------------------
(***************************************************************************)
(* The three mutexes and the frame on the display, for any set of slots.   *)
(***************************************************************************)
EXTENDS StoreTasks, TLAPS

(* A task that will compose a frame, or excuse itself, before it rests: the  *)
(* nfc session and the keypad from the moment they draw over the home        *)
(* screen, a drain pass that has redeemed something, any task about to        *)
(* refresh.  A console command or a pass that redeems nothing goes on without *)
(* a refresh; it is asked for one only when another task has skipped its      *)
(* frame because of it.                                                       *)
Owes(t) ==
    \/ pc[t] \in {"refresh", "compose"}
    \/ t = "nfc" /\ pc[t] \in {"online", "asking", "local", "result", "failure"}
    \/ t = "keypad" /\ pc[t] = "session"
    \/ t = "drain" /\ (worked \/ debt = "skipped") /\ pc[t] \in {"online", "asking", "pass"}
    \/ t = "console" /\ pc[t] \in {"online", "asking", "local"} /\ debt = "skipped"

(* A frame that is not current has somebody who owes a new one, and a panel  *)
(* behind it is being updated.                                               *)
FrameOwed ==
    debt # "excused" =>
        /\ frame # "fresh" => \E t \in Tasks : Owes(t)
        /\ panel # "fresh" => \E t \in Tasks : Owes(t) \/ pc[t] = "update"

(* Only a task of its kind stands at the stages that one of them names.      *)
StagesOwn ==
    /\ pc["console"] \in {"idle", "online", "asking", "local", "refresh", "compose",
                          "update", "leaving"}
    /\ pc["nfc"] \in {"idle", "online", "asking", "local", "result", "failure",
                      "refresh", "compose", "update"}
    /\ pc["drain"] \in {"waiting", "head", "pass", "online", "asking", "refresh",
                        "compose", "update", "pausing", "parked"}
    /\ pc["keypad"] \in {"idle", "session", "refresh", "compose", "update"}

StoreInv == TypeOK /\ StagesOwn /\ FrameOwed

-------------------------------------------------------------------------------
(* The mutexes *)

\* A step of a task keeps the types, and each mutex with the task that stands
\* between its taking and its giving back.
LEMMA StepTyped ==
    ASSUME TypeOK, StagesOwn, NEW t \in Tasks, Step(t)
    PROVE  TypeOK' /\ StagesOwn'
<1> USE DEF Tasks, TypeOK, StagesOwn, Holding, Goto, drainVars, screenVars
<1>1. NoTask \notin Tasks
  BY StoreAssumption
<1>2. CASE Ask(t)
  BY <1>1, <1>2 DEF Ask
<1>3. CASE Refresh(t)
  <2>1. CASE TryStore(t)
    BY <1>1, <1>3, <2>1 DEF TryStore, AfterRefresh, Busy
  <2>2. CASE Compose(t)
    BY <1>1, <1>3, <2>2 DEF Compose
  <2>3. CASE Update(t)
    BY <1>1, <1>3, <2>3 DEF Update, AfterRefresh
  <2> QED
    BY <1>3, <2>1, <2>2, <2>3 DEF Refresh
<1>4. CASE t = "console" /\ Console
  <2>1. CASE ConsoleTakes
    BY <1>1, <1>4, <2>1 DEF ConsoleTakes
  <2>2. CASE ConsoleHears
    BY <1>1, <1>4, <2>2 DEF ConsoleHears, Returned
  <2>3. CASE ConsoleChanges
    BY <1>1, <1>4, <2>3 DEF ConsoleChanges, HomeChanges
  <2>4. CASE ConsoleQuits
    BY <1>1, <1>4, <2>4 DEF ConsoleQuits, HomeChanges, LeavesNoRefresh
  <2>5. CASE ConsoleLeaves
    BY <1>1, <1>4, <2>5 DEF ConsoleLeaves
  <2> QED
    BY <1>4, <2>1, <2>2, <2>3, <2>4, <2>5 DEF Console
<1>5. CASE t = "nfc" /\ Nfc
  <2>1. CASE NfcTakes
    BY <1>1, <1>5, <2>1 DEF NfcTakes, ShowStatus
  <2>2. CASE NfcStashes
    BY <1>1, <1>5, <2>2 DEF NfcStashes, HomeChanges
  <2>3. CASE NfcRedeems
    BY <1>1, <1>5, <2>3 DEF NfcRedeems, Returned, HomeChanges
  <2>4. CASE NfcFails
    BY <1>1, <1>5, <2>4 DEF NfcFails, Returned
  <2>5. CASE NfcShows
    BY <1>1, <1>5, <2>5 DEF NfcShows, ShowStatus
  <2> QED
    BY <1>5, <2>1, <2>2, <2>3, <2>4, <2>5 DEF Nfc
<1>6. CASE t = "drain" /\ Drain
  <2>1. CASE DrainWakes
    BY <1>1, <1>6, <2>1 DEF DrainWakes
  <2>2. CASE DrainDecides
    <3>1. round' \in SUBSET Slots /\ worked' \in BOOLEAN
      BY <2>2 DEF DrainDecides
    <3> QED
      BY <1>1, <1>6, <2>2, <3>1 DEF DrainDecides
  <2>3. CASE DrainPassEnds
    BY <1>1, <1>6, <2>3 DEF DrainPassEnds, LeavesNoRefresh
  <2>4. CASE DrainRetries
    BY <1>1, <1>6, <2>4 DEF DrainRetries
  <2>5. CASE DrainUnparks
    BY <1>1, <1>6, <2>5 DEF DrainUnparks
  <2>6. ASSUME NEW m \in Slots, DrainVisits(m) PROVE TypeOK' /\ StagesOwn'
    BY <1>1, <1>6, <2>6 DEF DrainVisits, At
  <2>7. ASSUME NEW m \in Slots, DrainFinishes(m) PROVE TypeOK' /\ StagesOwn'
    BY <1>1, <1>6, <2>7 DEF DrainFinishes, Returned, HomeChanges
  <2> QED
    BY <1>6, <2>1, <2>2, <2>3, <2>4, <2>5, <2>6, <2>7 DEF Drain
<1>7. CASE t = "keypad" /\ Keypad
  <2>1. CASE KeypadStarts
    BY <1>1, <1>7, <2>1 DEF KeypadStarts, ShowStatus
  <2>2. CASE KeypadShows
    BY <1>1, <1>7, <2>2 DEF KeypadShows, ShowStatus
  <2>3. CASE KeypadEnds
    BY <1>1, <1>7, <2>3 DEF KeypadEnds
  <2> QED
    BY <1>7, <2>1, <2>2, <2>3 DEF Keypad
<1> QED
  BY <1>2, <1>3, <1>4, <1>5, <1>6, <1>7 DEF Step

\* A frame is skipped only while an operation holds the store, and that one owes
\* the next; whatever changes the screen or the wallets has a frame to come.
LEMMA StepOwes ==
    ASSUME StoreInv, NEW t \in Tasks, Step(t)
    PROVE  FrameOwed'
<1> USE DEF StoreInv, Tasks, StagesOwn, Holding, Goto, drainVars, screenVars, FrameOwed, Owes
<1>1. TypeOK /\ NoTask \notin Tasks
  BY StoreAssumption
<1> USE DEF TypeOK
<1>2. CASE Ask(t)
  BY <1>1, <1>2 DEF Ask
<1>3. CASE Refresh(t)
  <2>1. CASE TryStore(t)
    BY <1>1, <1>3, <2>1 DEF TryStore, AfterRefresh, Busy
  <2>2. CASE Compose(t)
    BY <1>1, <1>3, <2>2 DEF Compose
  <2>3. CASE Update(t)
    BY <1>1, <1>3, <2>3 DEF Update, AfterRefresh
  <2> QED
    BY <1>3, <2>1, <2>2, <2>3 DEF Refresh
<1>4. CASE t = "console" /\ Console
  <2>1. CASE ConsoleTakes
    BY <1>1, <1>4, <2>1 DEF ConsoleTakes
  <2>2. CASE ConsoleHears
    BY <1>1, <1>4, <2>2 DEF ConsoleHears, Returned
  <2>3. CASE ConsoleChanges
    BY <1>1, <1>4, <2>3 DEF ConsoleChanges, HomeChanges
  <2>4. CASE ConsoleQuits
    BY <1>1, <1>4, <2>4 DEF ConsoleQuits, HomeChanges, LeavesNoRefresh
  <2>5. CASE ConsoleLeaves
    BY <1>1, <1>4, <2>5 DEF ConsoleLeaves
  <2> QED
    BY <1>4, <2>1, <2>2, <2>3, <2>4, <2>5 DEF Console
<1>5. CASE t = "nfc" /\ Nfc
  <2>1. CASE NfcTakes
    BY <1>1, <1>5, <2>1 DEF NfcTakes, ShowStatus
  <2>2. CASE NfcStashes
    BY <1>1, <1>5, <2>2 DEF NfcStashes, HomeChanges
  <2>3. CASE NfcRedeems
    BY <1>1, <1>5, <2>3 DEF NfcRedeems, Returned, HomeChanges
  <2>4. CASE NfcFails
    BY <1>1, <1>5, <2>4 DEF NfcFails, Returned
  <2>5. CASE NfcShows
    BY <1>1, <1>5, <2>5 DEF NfcShows, ShowStatus
  <2> QED
    BY <1>5, <2>1, <2>2, <2>3, <2>4, <2>5 DEF Nfc
<1>6. CASE t = "drain" /\ Drain
  <2>1. CASE DrainWakes
    BY <1>1, <1>6, <2>1 DEF DrainWakes
  <2>2. CASE DrainDecides
    BY <1>1, <1>6, <2>2 DEF DrainDecides
  <2>3. CASE DrainPassEnds
    BY <1>1, <1>6, <2>3 DEF DrainPassEnds, LeavesNoRefresh
  <2>4. CASE DrainRetries
    BY <1>1, <1>6, <2>4 DEF DrainRetries
  <2>5. CASE DrainUnparks
    BY <1>1, <1>6, <2>5 DEF DrainUnparks
  <2>6. ASSUME NEW m \in Slots, DrainVisits(m) PROVE FrameOwed'
    BY <1>1, <1>6, <2>6 DEF DrainVisits, At
  <2>7. ASSUME NEW m \in Slots, DrainFinishes(m) PROVE FrameOwed'
    BY <1>1, <1>6, <2>7 DEF DrainFinishes, Returned, HomeChanges
  <2> QED
    BY <1>6, <2>1, <2>2, <2>3, <2>4, <2>5, <2>6, <2>7 DEF Drain
<1>7. CASE t = "keypad" /\ Keypad
  <2>1. CASE KeypadStarts
    BY <1>1, <1>7, <2>1 DEF KeypadStarts, ShowStatus
  <2>2. CASE KeypadShows
    BY <1>1, <1>7, <2>2 DEF KeypadShows, ShowStatus
  <2>3. CASE KeypadEnds
    BY <1>1, <1>7, <2>3 DEF KeypadEnds
  <2> QED
    BY <1>7, <2>1, <2>2, <2>3 DEF Keypad
<1> QED
  BY <1>2, <1>3, <1>4, <1>5, <1>6, <1>7 DEF Step

-------------------------------------------------------------------------------

\* Nobody holds a mutex, and the home screen is current.
LEMMA StoreInvInit ==
    ASSUME Init
    PROVE  StoreInv
<1>1. TypeOK /\ StagesOwn
  BY StoreAssumption DEF Init, TypeOK, StagesOwn, Tasks, Holding
<1>2. FrameOwed
  BY DEF Init, FrameOwed
<1> QED
  BY <1>1, <1>2 DEF StoreInv

\* Every step keeps the invariant; the link comes and goes without touching a
\* mutex or the screen.
LEMMA StoreInvNext ==
    ASSUME StoreInv, [Next]_vars
    PROVE  StoreInv'
<1>1. ASSUME NEW t \in Tasks, Step(t) PROVE StoreInv'
  BY <1>1, StepTyped, StepOwes DEF StoreInv
<1>2. CASE LinkChanges
  BY <1>2 DEF LinkChanges, StoreInv, TypeOK, StagesOwn, FrameOwed, Owes, Holding,
              drainVars, screenVars
<1>3. CASE UNCHANGED vars
  BY <1>3 DEF vars, StoreInv, TypeOK, StagesOwn, FrameOwed, Owes, Holding,
              drainVars, screenVars
<1> QED
  BY <1>1, <1>2, <1>3 DEF Next

\* The invariant holds in every reachable state.
LEMMA StoreInvAlways == Spec => []StoreInv
<1>1. Init => StoreInv
  BY StoreInvInit
<1>2. StoreInv /\ [Next]_vars => StoreInv'
  BY StoreInvNext
<1> QED
  BY <1>1, <1>2, PTL DEF Spec

\* wallet_store.cpp, ui.cpp, http_client.c: each mutex belongs to the one task that
\* stands between its taking and its giving back, on every path through the
\* operations, and nobody else.
THEOREM MutexesOwned == Spec => []TypeOK
<1>1. StoreInv => TypeOK
  BY DEF StoreInv
<1> QED
  BY <1>1, StoreInvAlways, PTL

\* ui.cpp: a skipped frame heals.  When every task rests, the home screen is shown
\* and current, unless a task excused itself.
THEOREM FramesHeal == Spec => []FrameHeals
<1>1. ASSUME StoreInv, Quiet PROVE \A t \in Tasks : ~Owes(t) /\ pc[t] # "update"
  BY <1>1 DEF Quiet, Tasks, Owes
<1>2. StoreInv => FrameHeals
  BY <1>1 DEF StoreInv, FrameOwed, FrameHeals
<1> QED
  BY <1>2, StoreInvAlways, PTL

-------------------------------------------------------------------------------
(* The order of the mutexes *)

(* The owner of the mutex that a task must take before it can go on.         *)
WaitsFor(t) ==
    CASE pc[t] = "online"  -> http
      [] pc[t] = "compose" -> uiLock
      [] pc[t] = "refresh" -> store
      [] OTHER             -> NoTask

\* ui.cpp, wallet_store.cpp, http_client.c: of the tasks that hold a mutex, one waits
\* for nobody else, whatever each of them is doing - the reason why no circle can
\* form: store before UI, store before http, and nothing behind those two.
THEOREM NobodyWaitsInACircle ==
    Spec => [](Holders # {} => \E t \in Holders : WaitsFor(t) \in {NoTask, t})
<1>1. ASSUME StoreInv, Holders # {}
      PROVE  \E t \in Holders : WaitsFor(t) \in {NoTask, t}
  <2>1. TypeOK /\ StagesOwn /\ NoTask \notin Tasks
    BY <1>1, StoreAssumption DEF StoreInv
  <2>2. CASE uiLock # NoTask
    <3>1. uiLock \in Tasks /\ pc[uiLock] = "update"
      BY <2>1, <2>2 DEF TypeOK
    <3> QED
      BY <2>2, <3>1 DEF WaitsFor, Holders
  <2>3. CASE http # NoTask
    <3>1. http \in Tasks /\ pc[http] = "asking"
      BY <2>1, <2>3 DEF TypeOK
    <3> QED
      BY <2>3, <3>1 DEF WaitsFor, Holders
  <2>4. CASE uiLock = NoTask /\ http = NoTask
    <3>1. store # NoTask
      BY <1>1, <2>4 DEF Holders
    <3>2. WaitsFor(store) \in {NoTask, store}
      BY <2>4 DEF WaitsFor
    <3> QED
      BY <3>1, <3>2 DEF Holders
  <2> QED
    BY <2>2, <2>3, <2>4
<1> QED
  BY <1>1, StoreInvAlways, PTL
===============================================================================
