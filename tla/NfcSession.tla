------------------------------ MODULE NfcSession ------------------------------
(***************************************************************************)
(* Payment sessions over the emulated tag: the nfc task, the console and   *)
(* the keypad task that start and stop it, the stop flag, task handle and  *)
(* binary semaphore between them, and the state the keypad shows.          *)
(*                                                                         *)
(* One core.  The nfc task and the console run at the same priority, the   *)
(* keypad task below both.                                                 *)
(***************************************************************************)
EXTENDS NdefTag

CONSTANTS
    MaxSessions,   \* bound: sessions ever started
    Callers,       \* who starts and stops sessions
    MaySlow        \* a session may be stuck for longer than a stop waits (5 s)

ASSUME SessionAssumption ==
    /\ MaxSessions \in Nat \ {0}
    /\ Callers \subseteq {"console", "keypad"}
    /\ MaySlow \in BOOLEAN

VARIABLES
    state,       \* s_state
    stopFlag,    \* s_stop_flag
    handle,      \* s_task_handle: a session, 0 for nullptr
    done,        \* s_task_done holds a give
    task,        \* where the task of each session stands
    caller,      \* where the console and the keypad task stand
    ui,          \* the keypad's screen
    lastNfc,     \* last_nfc: the state shown last
    mine,        \* history: the session the keypad started last
    result,      \* history: how each session ended
    owed,        \* history: texts a payer saw accepted and no session has decoded
    wiped        \* history: of these, what another session took from the hand-off

sessionVars == <<state, stopFlag, handle, done, task, caller, ui, lastNfc,
                 mine, result, owed, wiped>>
vars == <<tagVars, sessionVars>>

Sessions == 1 .. MaxSessions

\* A session that may still take or redeem a token.
Running ==
    {t \in Sessions : task[t] \in {"starting", "looping", "polling", "redeeming", "paying"}}

\* A session has a token in s_rx and waits for the store's lock to decode it.
Awaiting == \E t \in Sessions : task[t] = "redeeming"

\* Nobody but a waiting session reads s_rx; what is written over meanwhile is gone.
WrittenOver == IF Awaiting /\ rx' # rx THEN {rx} ELSE {}

Unused == {t \in Sessions : task[t] = "none"}

Goto(t, pc) == task' = [task EXCEPT ![t] = pc]

End(t, how) == result' = [result EXCEPT ![t] = how]

-------------------------------------------------------------------------------
(* nfc_task *)

\* Payment request, NDEF message and callback; the wallet store's lock may keep
\* the task here while a drain holds it.
Prepare(t) ==
    /\ task[t] = "starting"
    /\ SetMessage
    /\ rx' = rx
    /\ state' = "waiting"
    /\ Goto(t, "looping")
    /\ UNCHANGED <<stopFlag, handle, done, caller, ui, lastNfc, mine,
                   result, owed, wiped>>

\* The request cannot be encoded.
PrepareFails(t) ==
    /\ task[t] = "starting"
    /\ state' = "error"
    /\ handle' = 0
    /\ End(t, "refused")
    /\ Goto(t, "giving")
    /\ UNCHANGED <<tagVars, stopFlag, done, caller, ui, lastNfc, mine, owed, wiped>>

\* The head of the loop.
SeeStop(t) ==
    /\ task[t] = "looping"
    /\ stopFlag
    /\ Goto(t, "closing")
    /\ End(t, "stopped")
    /\ UNCHANGED <<tagVars, state, stopFlag, handle, done, caller, ui, lastNfc, mine,
                   owed, wiped>>

\* Mutant: the state stays at waiting.
TimeoutUnseen(t) ==
    /\ task[t] = "looping"
    /\ ~stopFlag
    /\ state' = state
    /\ End(t, "timeout")
    /\ Goto(t, "closing")
    /\ UNCHANGED <<tagVars, stopFlag, handle, done, caller, ui, lastNfc, mine,
                   owed, wiped>>

Timeout(t) ==
    /\ task[t] = "looping"
    /\ ~stopFlag
    /\ state' = "error"
    /\ End(t, "timeout")
    /\ Goto(t, "closing")
    /\ UNCHANGED <<tagVars, stopFlag, handle, done, caller, ui, lastNfc, mine,
                   owed, wiped>>

Poll(t) ==
    /\ task[t] = "looping"
    /\ ~stopFlag
    /\ Goto(t, "polling")
    /\ UNCHANGED <<tagVars, state, stopFlag, handle, done, caller, ui, lastNfc, mine,
                   result, owed, wiped>>

\* 100 ms without a frame, or one that is ignored.
NoFrame(t) ==
    /\ task[t] = "polling"
    /\ Goto(t, "looping")
    /\ UNCHANGED <<tagVars, state, stopFlag, handle, done, caller, ui, lastNfc, mine,
                   result, owed, wiped>>

ReaderComes(t) ==
    /\ task[t] = "polling"
    /\ \E w \in Writers : Activate(w[1], w[2])
    /\ state' = "active"
    /\ Goto(t, "looping")
    /\ UNCHANGED <<stopFlag, handle, done, caller, ui, lastNfc, mine,
                   result, owed, wiped>>

ReaderGoes(t) ==
    /\ task[t] = "polling"
    /\ Deactivate
    /\ state' = IF rx = <<>> THEN "waiting" ELSE state
    /\ Goto(t, "looping")
    /\ UNCHANGED <<stopFlag, handle, done, caller, ui, lastNfc, mine,
                   result, owed, wiped>>

\* Mutant: a stop that came in meanwhile wins over the token.
StopBeforeToken(t) ==
    IF rx' # <<>> /\ ~stopFlag
    THEN state' = "redeeming" /\ Goto(t, "redeeming")
    ELSE UNCHANGED state /\ Goto(t, "looping")

\* After the answer to an APDU went out: has the callback left a token?
CheckToken(t) ==
    IF rx' # <<>>
    THEN state' = "redeeming" /\ Goto(t, "redeeming")
    ELSE UNCHANGED state /\ Goto(t, "looping")

\* The payer has seen its last write accepted.
NewlyAnswered ==
    IF reader'.stage = "done" /\ reader.stage # "done" /\ reader.msg \in Tokens
    THEN {Bytes(reader.msg)} ELSE {}

HandleApdu(t) ==
    /\ task[t] = "polling"
    /\ Command
    /\ CheckToken(t)
    /\ owed' = owed \cup NewlyAnswered
    /\ wiped' = (wiped \cup WrittenOver) \ NewlyAnswered
    /\ UNCHANGED <<stopFlag, handle, done, caller, ui, lastNfc, mine, result>>

\* nfc_redeem_or_stash gets s_rx.token by reference and decodes it once the store's
\* lock is its own: what is there by then, which may be nothing, or no whole token.
Decode(t) ==
    /\ task[t] = "redeeming"
    /\ owed' = owed \ {rx}
    /\ IF \E m \in Tokens : rx = Bytes(m)
       THEN Goto(t, "paying") /\ UNCHANGED <<state, result>>
       ELSE Goto(t, "closing") /\ state' = "error" /\ End(t, "failed")
    /\ UNCHANGED <<tagVars, stopFlag, handle, done, caller, ui, lastNfc, mine, wiped>>

\* ... and swaps the token, or stashes its text, with no wait since it was decoded.
Redeem(t) ==
    /\ task[t] = "paying"
    /\ \E paid \in BOOLEAN :
        /\ state' = IF paid THEN "success" ELSE "error"
        /\ End(t, IF paid THEN "paid" ELSE "failed")
    /\ Goto(t, "closing")
    /\ UNCHANGED <<tagVars, stopFlag, handle, done, caller, ui, lastNfc, mine,
                   owed, wiped>>

\* Mutant: the handle stays behind.
CloseDangling(t) ==
    /\ task[t] = "closing"
    /\ ClearMessage
    /\ Goto(t, "giving")
    /\ UNCHANGED <<state, stopFlag, handle, done, caller, ui, lastNfc, mine,
                   result, owed, wiped>>

\* Behind the loop: callback and message go, then the handle.
Close(t) ==
    /\ task[t] = "closing"
    /\ ClearMessage
    /\ handle' = 0
    /\ Goto(t, "giving")
    /\ UNCHANGED <<state, stopFlag, done, caller, ui, lastNfc, mine, result, owed, wiped>>

Give(t) ==
    /\ task[t] = "giving"
    /\ done' = TRUE
    /\ Goto(t, "gone")
    /\ UNCHANGED <<tagVars, state, stopFlag, handle, caller, ui, lastNfc, mine,
                   result, owed, wiped>>

Task(t) ==
    \/ Prepare(t) \/ PrepareFails(t)
    \/ SeeStop(t) \/ Timeout(t) \/ Poll(t)
    \/ NoFrame(t) \/ ReaderComes(t) \/ ReaderGoes(t) \/ HandleApdu(t)
    \/ Decode(t) \/ Redeem(t) \/ Close(t) \/ Give(t)

-------------------------------------------------------------------------------
(* nfc_request_start and nfc_request_stop *)

\* The keypad task does not run between the two last statements of a task of
\* higher priority.
Scheduled(c) == c = "keypad" => \A t \in Sessions : task[t] # "giving"

At(c, pc) == c \in Callers /\ caller[c] = pc /\ Scheduled(c)

Arrive(c, pc) == caller' = [caller EXCEPT ![c] = pc]

\* No session is running as far as the handle tells.
StartCheck(c) ==
    /\ At(c, "free")
    /\ c = "keypad" => ui = "home"
    /\ Unused # {}
    /\ handle = 0
    /\ Arrive(c, "starting")
    /\ UNCHANGED <<tagVars, state, stopFlag, handle, done, task, ui, lastNfc, mine,
                   result, owed, wiped>>

\* Mutant: the give of a session that ended by itself stays.
KeepGive == UNCHANGED done

DrainGive == done' = FALSE

\* Semaphore, flag and hand-off reset, then the task; there may be no memory for it.
StartCreate(c) ==
    /\ At(c, "starting")
    /\ DrainGive
    /\ stopFlag' = FALSE
    /\ rx' = <<>>
    /\ wiped' = wiped \cup WrittenOver
    /\ Arrive(c, "free")
    /\ \/ UNCHANGED <<handle, task, ui, lastNfc, mine>>
       \/ \E t \in Unused :
            /\ \A u \in Unused : t <= u
            /\ Goto(t, "starting")
            /\ handle' = t
            /\ IF c = "keypad"
               THEN ui' = "session" /\ lastNfc' = "off" /\ mine' = t
               ELSE UNCHANGED <<ui, lastNfc, mine>>
    /\ UNCHANGED <<loaded, selected, body, nlen, expected, reader, state, result, owed>>

\* Mutant: the state of the last session stays.
StoppedStale(c) ==
    /\ handle' = 0
    /\ state' = state
    /\ Arrive(c, "free")
    /\ IF c = "keypad" THEN ui' = "home" /\ lastNfc' = "off" ELSE UNCHANGED <<ui, lastNfc>>

\* The tail of nfc_request_stop, and where its caller goes on.
Stopped(c) ==
    /\ handle' = 0
    /\ state' = "idle"
    /\ Arrive(c, "free")
    /\ IF c = "keypad" THEN ui' = "home" /\ lastNfc' = "off" ELSE UNCHANGED <<ui, lastNfc>>

\* Mutant: a stop never waits.
StopAtOnce(c) ==
    /\ stopFlag' = TRUE
    /\ Stopped(c)

BeginStop(c) ==
    /\ stopFlag' = TRUE
    /\ IF handle = 0
       THEN Stopped(c)
       ELSE Arrive(c, "stopping") /\ UNCHANGED <<handle, state, ui, lastNfc>>

\* `nfc stop`, the * key, or the end of the pause after a result.
Stop(c) ==
    /\ \/ At(c, "free") /\ (c = "keypad" => ui = "session")
       \/ At(c, "pausing")
    /\ BeginStop(c)
    /\ UNCHANGED <<tagVars, done, task, mine, result, owed, wiped>>

StopTaken(c) ==
    /\ At(c, "stopping")
    /\ done
    /\ done' = FALSE
    /\ Stopped(c)
    /\ UNCHANGED <<tagVars, stopFlag, task, mine, result, owed, wiped>>

\* 5 s without a give.  A session that is not stuck sees the flag in time.
StopAbandons(c) ==
    /\ At(c, "stopping")
    /\ ~done
    /\ \/ MaySlow /\ \E t \in Sessions : task[t] \in {"starting", "redeeming", "paying"}
       \/ \A t \in Sessions : task[t] \in {"none", "gone"}
    /\ Stopped(c)
    /\ UNCHANGED <<tagVars, stopFlag, done, task, mine, result, owed, wiped>>

Caller(c) ==
    \/ StartCheck(c) \/ StartCreate(c)
    \/ Stop(c) \/ StopTaken(c) \/ StopAbandons(c)

-------------------------------------------------------------------------------
(* keypad_ui_task in a session *)

\* The keypad looks at the state every 200 ms; a result is shown for 2 s.
Look ==
    /\ At("keypad", "free")
    /\ ui = "session"
    /\ state # lastNfc
    /\ lastNfc' = state
    /\ IF state \in {"success", "error"} THEN Arrive("keypad", "pausing") ELSE UNCHANGED caller
    /\ UNCHANGED <<tagVars, state, stopFlag, handle, done, task, ui, mine,
                   result, owed, wiped>>

-------------------------------------------------------------------------------

Init ==
    /\ TagInit
    /\ state = "idle"
    /\ stopFlag = FALSE
    /\ handle = 0
    /\ done = FALSE
    /\ task = [t \in Sessions |-> "none"]
    /\ caller = [c \in {"console", "keypad"} |-> "free"]
    /\ ui = "home"
    /\ lastNfc = "off"
    /\ mine = 0
    /\ result = [t \in Sessions |-> "none"]
    /\ owed = {}
    /\ wiped = {}

Next ==
    \/ \E t \in Sessions : Task(t)
    \/ \E c \in Callers : Caller(c)
    \/ Look

\* Every task is scheduled; http requests end; the clock passes 120 s, so a loop
\* that keeps coming back to its head leaves there; the keypad polls, and its
\* pause and its wait in a stop end.
Fairness ==
    /\ \A t \in Sessions :
        /\ WF_vars(Task(t))
        /\ SF_vars(SeeStop(t) \/ Timeout(t))
    /\ WF_vars(Look)
    /\ WF_vars(caller["keypad"] = "pausing" /\ Stop("keypad"))
    /\ WF_vars(StopTaken("keypad") \/ StopAbandons("keypad"))

Spec == Init /\ [][Next]_vars /\ Fairness

-------------------------------------------------------------------------------
(* Properties *)

NfcStates == {"idle", "waiting", "active", "redeeming", "success", "error"}

\* Types, and the handle names a session that has not closed yet.
TypeOK ==
    /\ TagTypeOK
    /\ state \in NfcStates
    /\ stopFlag \in BOOLEAN /\ done \in BOOLEAN
    /\ handle \in 0 .. MaxSessions /\ mine \in 0 .. MaxSessions
    /\ task \in [Sessions -> {"none", "starting", "looping", "polling", "redeeming",
                              "paying", "closing", "giving", "gone"}]
    /\ caller \in [{"console", "keypad"} -> {"free", "starting", "stopping", "pausing"}]
    /\ ui \in {"home", "session"}
    /\ lastNfc \in NfcStates \cup {"off"}
    /\ result \in [Sessions -> {"none", "refused", "stopped", "timeout", "paid", "failed"}]
    /\ handle # 0 => task[handle] \notin {"none", "giving", "gone"}

\* One session at a time: two would read frames off the same chip and clear each
\* other's message.
OneSession == \A t, u \in Running : t = u

\* The result on the keypad's screen is the result of the session it started.
ResultIsOwn ==
    caller["keypad"] = "pausing" =>
        \/ lastNfc = "success" /\ result[mine] = "paid"
        \/ lastNfc = "error" /\ result[mine] \in {"refused", "timeout", "failed"}

\* ui.cpp: the task pauses "so the user sees the result" - a payment shown as
\* received was received in this session.
PaidIsOwn ==
    caller["keypad"] = "pausing" /\ lastNfc = "success" => result[mine] = "paid"

\* `nfc: idle`: nobody takes or redeems a token.
IdleIsIdle == state = "idle" => \A t \in Running : task[t] = "starting"

\* A payer that saw its token accepted is not forgotten, stop or no stop, field or
\* no field: the token stays in s_rx, with a session on its way to redeem it, until a
\* session has decoded it.  Only a session that runs beside one that waits for the
\* store's lock can take it from there: a start clears s_rx, another reader's token
\* replaces it.
AnsweredIsRedeemed == \A text \in owed \ wiped : rx = text /\ Awaiting

\* nfc.cpp's hand-off comment: one task sets s_rx and reads it, so a session that set
\* out to redeem still finds the text there.
HandedOff == Awaiting => rx # <<>>

\* The keypad comes back from every session it starts.
KeypadReturns == ui = "session" ~> ui = "home"
===============================================================================
