------------------------------- MODULE Dashboard -------------------------------
(****************************************************************************)
(* The dashboard in one browser: App.tsx mounts the summary with its        *)
(* activity list or the event history, never both, over the server and its  *)
(* other writers.                                                            *)
(****************************************************************************)
EXTENDS SummaryPanel, ActivityFeed, EventTimeline

vars == <<history, tab, followed, panelVars, feedVars, timelineVars>>

TypeOK == ShellTypeOK /\ PanelTypeOK /\ FeedTypeOK /\ TimelineTypeOK

Init ==
    /\ ShellInit
    /\ PanelInit
    /\ FeedInit
    /\ TimelineInit

\* A panel is left as it will be mounted again.
SelectTab(t) ==
    /\ tab # t /\ tab' = t
    /\ PanelRemounts(IF t = "summary" THEN <<NewStateFlight>> ELSE <<>>)
    /\ FeedRemounts(IF t = "summary" THEN <<NewFeedFlight(1, FALSE)>> ELSE <<>>)
    /\ TimelineRemounts(IF t = "events" THEN <<NewEventFlight(1, FALSE, NoFilter)>> ELSE <<>>)
    /\ UNCHANGED history

Others ==
    /\ OthersWrite
    /\ UNCHANGED <<tab, panelVars, feedVars, timelineVars>>

Next ==
    /\ \/ followed = "summary" /\ PanelNext /\ UNCHANGED <<feedVars, timelineVars>>
       \/ followed = "activity" /\ FeedNext /\ UNCHANGED <<panelVars, timelineVars>>
       \/ followed = "events" /\ TimelineNext /\ UNCHANGED <<panelVars, feedVars>>
       \/ \E t \in Tabs : SelectTab(t)
       \/ Others
    /\ UNCHANGED followed

Spec == Init /\ [][Next]_vars

-----------------------------------------------------------------------------
(* Fairness: the interval of a panel fires, and a request is answered or    *)
(* fails.  That the last request is read, and its answer seen, infinitely   *)
(* often is the 30 seconds between two polls: the next one does not always  *)
(* come first.  Only one panel is followed, so that the fairness of two is  *)
(* the fairness of either.                                                  *)

ReadLast == \E k \in DOMAIN stateFlights : stateFlights[k].last /\ ReadState(k)
SeeLast == \E k \in DOMAIN stateFlights : stateFlights[k].last /\ StateArrives(k)

DropOld ==
    \E k \in DOMAIN stateFlights :
        ~stateFlights[k].last /\ (StateArrives(k) \/ StateFails(k))

Summary(A) ==
    followed = "summary" /\ A /\ UNCHANGED <<feedVars, timelineVars, followed>>

\* A request for the first page, of a poll as a rule.
Polled(k) == feedFlights[k].last /\ ~feedFlights[k].append

ReadPolled == \E k \in DOMAIN feedFlights : Polled(k) /\ ReadFeed(k)
SeePolled == \E k \in DOMAIN feedFlights : Polled(k) /\ FeedArrives(k)

DropOldPages ==
    \E k \in DOMAIN feedFlights :
        ~feedFlights[k].last /\ (FeedArrives(k) \/ FeedFails(k))

Activity(A) ==
    followed = "activity" /\ A /\ UNCHANGED <<panelVars, timelineVars, followed>>

Fairness ==
    /\ WF_vars(Summary(Poll) \/ Activity(PollFeed))
    /\ WF_vars(Summary(DropOld) \/ Activity(DropOldPages))
    /\ SF_vars(Summary(ReadLast) \/ Activity(ReadPolled))
    /\ SF_vars(Summary(SeeLast) \/ Activity(SeePolled))

FairSpec == Spec /\ Fairness

-----------------------------------------------------------------------------
(* Properties *)

\* A summary left open comes to show what the server has, for good, whatever
\* fails and whatever overtakes what on the way.
ShownConverges ==
    <>[](tab = "summary" /\ followed = "summary") => <>[](shown = Now)

\* The activity list comes back to the first page of what the server has,
\* again and again, whatever was marked, loaded or lost before.
ListCatchesUp ==
    <>[](tab = "summary" /\ followed = "activity")
    => []<>IsPrefix(FeedPage(Now, 1), listed)
=============================================================================
