----------------------------- MODULE DashboardShell -----------------------------
(****************************************************************************)
(* What the panels of the dashboard share: the server behind the API        *)
(* (src/src/routes, src/src/db) and the tab that is shown (dashboard         *)
(* App.tsx).                                                                *)
(*                                                                          *)
(* Everything the panels read is a function of the writes the server has    *)
(* committed, so the server is the sequence of these writes and an answer   *)
(* is the number of writes its query saw.  A write is an event of the event *)
(* table, identified by its place in the sequence and carrying the run it   *)
(* belongs to, a change of the queue order or of the pause flag, or a       *)
(* change of a queue item.                                                  *)
(*                                                                          *)
(* The panels share nothing else, so that one of them is followed at a time *)
(* (a bound): the requests of the others stay unanswered.                   *)
(****************************************************************************)
EXTENDS Integers, FiniteSets, SequencesExt

CONSTANTS
    Items,              \* queue items
    Runs,               \* run ids events are recorded with
    NoRun,              \* the run_id of an event outside any run
    NoFilter,           \* runFilter = null
    Malformed,          \* a run filter that is no uuid
    PageSize,           \* PAGE_SIZE of the event history
    MaxWrites,          \* bound: writes the server commits, and those it
    MaxEvents,          \* commits while the event history is followed
    MaxFlights          \* bound: requests of a panel under way at a time

ASSUME ShellAssumption ==
    /\ NoRun \notin Runs /\ NoFilter \notin Runs /\ Malformed \notin Runs
    /\ NoFilter # NoRun /\ NoFilter # Malformed
    /\ {"order", "pause", "resume"} \cap (Runs \cup {NoRun}) = {}
    /\ Items \cap (Runs \cup {NoRun, "order", "pause", "resume"}) = {}
    /\ PageSize \in Nat \ {0} /\ MaxFlights \in Nat \ {0}
    /\ MaxWrites \in Nat /\ MaxEvents \in Nat

VARIABLES
    history,            \* the writes the server has committed
    tab,                \* activeTab: only its panels are mounted
    followed            \* bound: the panel that is followed

Events == Runs \cup {NoRun}
Writes == Events \cup {"order", "pause", "resume"} \cup Items
Tabs == {"summary", "events"}
Panels == {"summary", "activity", "events"}

Now == Len(history)
Instants == 0..Now

ShellTypeOK ==
    /\ history \in Seq(Writes)
    /\ tab \in Tabs
    /\ followed \in Panels

ShellInit ==
    /\ history = <<>>
    /\ tab = "summary"
    /\ followed \in Panels

Commit(w) ==
    /\ Now < IF followed = "events" THEN MaxEvents ELSE MaxWrites
    /\ history' = Append(history, w)

\* The writes the panel followed can tell apart, and one it cannot.
Told ==
    CASE followed = "summary" -> {"order", "pause", "resume"}
      [] followed = "activity" -> Items
      [] followed = "events" -> Events \cup {"order"}

\* Services and other browsers write too.
OthersWrite == \E w \in Told : Commit(w)

-----------------------------------------------------------------------------
(* Requests under way.  A panel numbers its requests and looks only at the  *)
(* answer of the last one (requestIdRef), so that a request is last or not. *)

Unread == -1                      \* a query of the request has yet to run

Superseded(flights) == [k \in DOMAIN flights |-> [flights[k] EXCEPT !.last = FALSE]]

Send(flights, request) == Append(Superseded(flights), request)

\* One of the queries behind a request runs.
Answered(flights, k, query) == [flights EXCEPT ![k][query] = Now]

-----------------------------------------------------------------------------
(* What a query sees in the first v writes.                                 *)

PausedAt(v) ==
    \E i \in 1..v : /\ history[i] = "pause"
                    /\ \A j \in (i + 1)..v : history[j] # "resume"

\* Rows ordered by time, the newest first; the places of writes are their times.
Newest(S) ==
    [k \in 1..Cardinality(S) |->
        CHOOSE i \in S : Cardinality({j \in S : i < j}) = k - 1]

\* The events recorded; a filter is a run or NoFilter.
EventsAt(v, filter) ==
    Newest({i \in 1..v : history[i] \in Events /\ filter \in {NoFilter, history[i]}})

-----------------------------------------------------------------------------
(* What a panel filters out of a list it shows, or is about to.             *)

Without(s, X) ==
    LET kept == {k \in DOMAIN s : s[k] \notin X}
    IN  [n \in 1..Cardinality(kept) |->
            s[CHOOSE k \in kept : Cardinality({j \in kept : j < k}) = n - 1]]
=============================================================================
