------------------------------ MODULE SummaryPanel ------------------------------
(****************************************************************************)
(* The summary tab of the dashboard: the polled state (SummaryStats.tsx),   *)
(* the buttons that write (QueueOrder.tsx, ReviewCountdown.tsx,             *)
(* ConfirmDialog.tsx) and the reminder that the scheduler is paused          *)
(* (usePauseNotification.ts), over the dashboard-state route                *)
(* (src/src/routes/getDashboardState.ts).                                    *)
(*                                                                          *)
(* A write is acknowledged, and only then the state fetched again, while    *)
(* polls are under way that were sent before or read in between.  The       *)
(* queries behind one answer (Promise.all) are taken as one read: nothing   *)
(* here relates one half of an answer to the other.                         *)
(****************************************************************************)
EXTENDS DashboardShell

CONSTANTS MaxOpenWrites  \* bound: writes of the panel under way at a time

ASSUME PanelAssumption == MaxOpenWrites \in Nat \ {0}

VARIABLES
    shown,              \* data: the moment it was read, or NoData
    stale,              \* schedulerStale || localStale: the buttons are off
    stateFlights,       \* requests for the state under way
    openWrites,         \* writes of the panel under way
    busy,               \* moving, movingToTopUuid, retriggeringUuid, toggling
    dialog,             \* confirmRetriggerUuid is set
    asking,             \* the config request of the present effect is under way
    strays,             \* config requests of effects that were cleaned up
    alarms,             \* reminders running; the refs hold the last
    acked               \* history: the last write acknowledged to the panel

fetchVars == <<shown, stale, stateFlights>>
writeVars == <<openWrites, busy, dialog, acked>>
reminderVars == <<asking, strays, alarms>>
panelVars == <<fetchVars, writeVars, reminderVars>>

NoData == Unread
Loaded == shown # NoData
ShownPaused == PausedAt(shown)     \* false without data

QueueWrites == {"move", "top", "retrigger"}
Kinds == QueueWrites \cup {"pause", "resume"}
BusyFlags == QueueWrites \cup {"toggle"}
Flag(kind) == IF kind \in QueueWrites THEN kind ELSE "toggle"

StateFlight == [last : BOOLEAN, readAt : Int]
\* at is the place of the write in the history, 0 until the server commits it.
OpenWrite == [kind : Kinds, override : BOOLEAN, at : Nat]

PanelTypeOK ==
    /\ shown \in Instants \cup {NoData}
    /\ stale \in BOOLEAN
    /\ stateFlights \in Seq(StateFlight)
    /\ openWrites \in Seq(OpenWrite)
    /\ busy \subseteq BusyFlags
    /\ dialog \in BOOLEAN
    /\ asking \in BOOLEAN /\ strays \in Nat
    /\ alarms \in Seq({"initial", "repeat"})
    /\ acked \in Nat

NewStateFlight == [last |-> TRUE, readAt |-> Unread]

\* Mounting sends the first request.
PanelInit ==
    /\ shown = NoData /\ stale = FALSE /\ stateFlights = <<NewStateFlight>>
    /\ openWrites = <<>> /\ busy = {} /\ dialog = FALSE
    /\ asking = FALSE /\ strays = 0 /\ alarms = <<>>
    /\ acked = 0

\* clearTimers: the refs know one timer.
Cleared == IF alarms = <<>> THEN alarms ELSE Front(alarms)

\* Leaving the tab runs the cleanups: what is answered later is not looked at
\* (mountedRef), timers end.  A panel mounted anew starts from the same state.
PanelRemounts(flights) ==
    /\ shown' = NoData /\ stale' = FALSE /\ stateFlights' = flights
    /\ openWrites' = <<>> /\ busy' = {} /\ dialog' = FALSE
    /\ asking' = FALSE /\ strays' = 0 /\ alarms' = Cleared
    /\ acked' = 0

-----------------------------------------------------------------------------
(* The state: requested on mounting, every 30 seconds, by the retry button, *)
(* when the duration or the threshold of staleness changes, and after every *)
(* write that succeeded.                                                     *)

FetchState ==
    /\ Len(stateFlights) < MaxFlights
    /\ stateFlights' = Send(stateFlights, NewStateFlight)

PollMutant ==                         \* polls until there is something to show
    /\ tab = "summary" /\ ~Loaded
    /\ FetchState
    /\ UNCHANGED <<history, tab, shown, stale, writeVars, reminderVars>>

Poll ==
    /\ tab = "summary"
    /\ FetchState
    /\ UNCHANGED <<history, tab, shown, stale, writeVars, reminderVars>>

\* getEffectiveOrder, getDashboardSystemState and the other reads of the
\* route.
ReadState(k) ==
    /\ stateFlights[k].readAt = Unread
    /\ stateFlights' = Answered(stateFlights, k, "readAt")
    /\ UNCHANGED <<history, tab, shown, stale, writeVars, reminderVars>>

\* The effect of usePauseNotification on [paused], cleanup first.
RemindOf(paused) ==
    IF paused = ShownPaused THEN UNCHANGED reminderVars
    ELSE IF paused THEN asking' = TRUE /\ UNCHANGED <<strays, alarms>>
    ELSE /\ asking' = FALSE
         /\ strays' = IF asking THEN strays + 1 ELSE strays
         /\ alarms' = Cleared

StateArrivesMutant(k) ==              \* without the comparison of request ids
    LET flight == stateFlights[k]
    IN  /\ flight.readAt # Unread
        /\ stateFlights' = RemoveAt(stateFlights, k)
        /\ shown' = flight.readAt
        /\ stale' \in BOOLEAN
        /\ RemindOf(PausedAt(flight.readAt))
        /\ UNCHANGED <<history, tab, writeVars>>

StateArrives(k) ==
    LET flight == stateFlights[k]
    IN  /\ flight.readAt # Unread
        /\ stateFlights' = RemoveAt(stateFlights, k)
        /\ IF flight.last
           THEN /\ shown' = flight.readAt
                /\ stale' \in BOOLEAN
                /\ RemindOf(PausedAt(flight.readAt))
           ELSE UNCHANGED <<shown, stale, reminderVars>>
        /\ UNCHANGED <<history, tab, writeVars>>

\* What was shown stays; it may have become too old to act on.
StateFails(k) ==
    /\ stateFlights' = RemoveAt(stateFlights, k)
    /\ stale' \in IF ~stateFlights[k].last THEN {stale}
                  ELSE IF Loaded THEN {stale, TRUE} ELSE {TRUE}
    /\ UNCHANGED <<history, tab, shown, writeVars, reminderVars>>

-----------------------------------------------------------------------------
(* The reminder that the scheduler is paused: the delays are requested, then *)
(* a timer starts, then another that repeats.                                *)

ConfigArrivesMutant(present) ==       \* without the cancelled flag
    /\ IF present THEN asking /\ asking' = FALSE /\ UNCHANGED strays
       ELSE strays > 0 /\ strays' = strays - 1 /\ UNCHANGED asking
    /\ alarms' = Append(alarms, "initial")
    /\ UNCHANGED <<history, tab, fetchVars, writeVars>>

ConfigArrives(present) ==
    /\ IF present
       THEN asking /\ asking' = FALSE /\ alarms' = Append(alarms, "initial")
            /\ UNCHANGED strays
       ELSE strays > 0 /\ strays' = strays - 1 /\ UNCHANGED <<asking, alarms>>
    /\ UNCHANGED <<history, tab, fetchVars, writeVars>>

ConfigFails ==
    /\ \/ asking /\ asking' = FALSE /\ UNCHANGED strays
       \/ strays > 0 /\ strays' = strays - 1 /\ UNCHANGED asking
    /\ UNCHANGED <<history, tab, fetchVars, writeVars, alarms>>

FirstReminder ==
    /\ \E k \in DOMAIN alarms :
         alarms[k] = "initial" /\ alarms' = [alarms EXCEPT ![k] = "repeat"]
    /\ UNCHANGED <<history, tab, fetchVars, writeVars, asking, strays>>

-----------------------------------------------------------------------------
(* The buttons.                                                             *)

Begin(kind, override) ==
    /\ Len(openWrites) < MaxOpenWrites
    /\ openWrites' = Append(openWrites,
                            [kind |-> kind, override |-> override, at |-> 0])
    /\ busy' = busy \cup {Flag(kind)}

Enabled == Loaded /\ ~stale /\ busy \cap QueueWrites = {}

Move ==
    /\ Enabled
    /\ Begin("move", FALSE)
    /\ UNCHANGED <<history, tab, fetchVars, dialog, acked, reminderVars>>

MoveToTop ==
    /\ Enabled
    /\ Begin("top", FALSE)
    /\ UNCHANGED <<history, tab, fetchVars, dialog, acked, reminderVars>>

RetriggerNow ==
    /\ Enabled
    /\ IF ShownPaused THEN dialog' = TRUE /\ UNCHANGED <<openWrites, busy>>
       ELSE Begin("retrigger", FALSE) /\ UNCHANGED dialog
    /\ UNCHANGED <<history, tab, fetchVars, acked, reminderVars>>

\* The dialog closes whether or not the retrigger is sent, which only depends
\* on what is shown by now.
Confirm ==
    /\ dialog /\ dialog' = FALSE
    /\ IF stale THEN UNCHANGED <<openWrites, busy>> ELSE Begin("retrigger", ShownPaused)
    /\ UNCHANGED <<history, tab, fetchVars, acked, reminderVars>>

Cancel ==
    /\ dialog /\ dialog' = FALSE
    /\ UNCHANGED <<history, tab, fetchVars, openWrites, busy, acked, reminderVars>>

TogglePaused ==
    /\ Loaded /\ ~stale /\ "toggle" \notin busy
    /\ Begin(IF ShownPaused THEN "resume" ELSE "pause", FALSE)
    /\ UNCHANGED <<history, tab, fetchVars, dialog, acked, reminderVars>>

\* A retrigger without override is refused while the scheduler is paused.
ServerCommits(k) ==
    LET write == openWrites[k]
    IN  /\ write.at = 0
        /\ CASE write.kind \in {"move", "top"} -> Commit("order")
             [] write.kind = "retrigger" ->
                  /\ PausedAt(Now) => write.override
                  /\ \E run \in Runs : Commit(run)
             [] OTHER -> Commit(write.kind)
        /\ openWrites' = [openWrites EXCEPT ![k].at = Now + 1]
        /\ UNCHANGED <<tab, fetchVars, busy, dialog, acked, reminderVars>>

WriteAnsweredMutant(k) ==             \* the next poll will show it
    /\ openWrites[k].at # 0
    /\ openWrites' = RemoveAt(openWrites, k)
    /\ busy' = busy \ {Flag(openWrites[k].kind)}
    /\ acked' = IF openWrites[k].at > acked THEN openWrites[k].at ELSE acked
    /\ UNCHANGED <<history, tab, fetchVars, dialog, reminderVars>>

WriteAnswered(k) ==
    /\ openWrites[k].at # 0
    /\ openWrites' = RemoveAt(openWrites, k)
    /\ busy' = busy \ {Flag(openWrites[k].kind)}
    /\ acked' = IF openWrites[k].at > acked THEN openWrites[k].at ELSE acked
    /\ FetchState
    /\ UNCHANGED <<history, tab, shown, stale, dialog, reminderVars>>

WriteFailsMutant(k) ==                \* the flag is only reset on success
    /\ openWrites' = RemoveAt(openWrites, k)
    /\ UNCHANGED <<history, tab, fetchVars, busy, dialog, acked, reminderVars>>

\* Refused, an answer that is no list of rows, or a lost one: the server may
\* have committed the write.
WriteFails(k) ==
    /\ openWrites' = RemoveAt(openWrites, k)
    /\ busy' = busy \ {Flag(openWrites[k].kind)}
    /\ UNCHANGED <<history, tab, fetchVars, dialog, acked, reminderVars>>

PanelNext ==
    \/ Poll \/ Move \/ MoveToTop \/ RetriggerNow \/ Confirm \/ Cancel \/ TogglePaused
    \/ \E k \in DOMAIN stateFlights :
         ReadState(k) \/ StateArrives(k) \/ StateFails(k)
    \/ \E k \in DOMAIN openWrites :
         ServerCommits(k) \/ WriteAnswered(k) \/ WriteFails(k)
    \/ \E present \in BOOLEAN : ConfigArrives(present)
    \/ ConfigFails \/ FirstReminder

-----------------------------------------------------------------------------
(* Properties *)

\* What is shown never goes back in time, whatever the order in which the
\* answers to polls, retries and refetches arrive (SummaryStats.tsx:64).
NeverGoesBack ==
    [][Loaded /\ Loaded' => shown' >= shown]_shown

\* Once a write of this panel was acknowledged, no answer that was read
\* before it is shown any more: the user never sees his move or his pause
\* undone by a poll that was under way (SummaryStats.tsx:106,
\* QueueOrder.tsx:100,121,142).
AckedIsShown ==
    [][Loaded' => shown' >= acked]_shown

\* A button stays off no longer than a write it waits for is under way,
\* however the write ends and whatever else was begun meanwhile
\* (QueueOrder.tsx:96-112,117-128,143-153, SummaryStats.tsx:102-114).
BusyMeansUnderWay == busy \subseteq {Flag(openWrites[k].kind) : k \in DOMAIN openWrites}

\* At most one reminder runs, and only while what is shown says paused, with
\* the requests for its delays answered in any order across resuming, pausing
\* again and leaving the tab (usePauseNotification.ts).
RemindsWhilePaused ==
    Len(alarms) + (IF asking THEN 1 ELSE 0) <= IF Loaded /\ ShownPaused THEN 1 ELSE 0
=============================================================================
