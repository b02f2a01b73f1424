------------------------------ MODULE EventTimeline ------------------------------
(****************************************************************************)
(* The event history of the dashboard (dashboard EventHistory.tsx) over the *)
(* events route (src/src/routes/getEvents.ts, EventRepository.listRecent).   *)
(*                                                                          *)
(* The list is loaded page by page, newest first, by offset, while events   *)
(* are added in front: the pages shift under the reader.  The rows and the  *)
(* total of a page are two queries (Promise.all), with writes in between.   *)
(****************************************************************************)
EXTENDS DashboardShell

CONSTANTS MaxPage       \* bound: the last page asked for

ASSUME TimelineAssumption == MaxPage \in Nat \ {0}

VARIABLES
    items,              \* the events loaded, as shown
    page,               \* the last page appended
    total,              \* the total of the last answer, or NoTotal
    runFilter,          \* the run filter applied
    loading,            \* a request was sent and not yet answered
    eventFlights,       \* requests under way
    asOf                \* history: when the queries of the last answer ran

timelineVars == <<items, page, total, runFilter, loading, eventFlights, asOf>>

NoTotal == -1
Filters == Runs \cup {NoFilter, Malformed}

EventFlight ==
    [page : Nat \ {0}, append : BOOLEAN, filter : Filters, last : BOOLEAN,
     rowsAt : Int, countAt : Int]

TimelineTypeOK ==
    /\ items \in Seq(1..Now)
    /\ page \in Nat \ {0}
    /\ total \in Nat \cup {NoTotal}
    /\ runFilter \in Filters
    /\ loading \in BOOLEAN
    /\ eventFlights \in Seq(EventFlight)
    /\ asOf \in [rowsAt : Nat, countAt : Nat]

NewEventFlight(n, append, filter) ==
    [page |-> n, append |-> append, filter |-> filter, last |-> TRUE,
     rowsAt |-> Unread, countAt |-> Unread]

\* The state of a panel that is not mounted is gone; a new one starts with
\* this, and a first request.
TimelineInit ==
    /\ items = <<>> /\ page = 1 /\ total = NoTotal
    /\ runFilter = NoFilter /\ loading = TRUE /\ eventFlights = <<>>
    /\ asOf = [rowsAt |-> 0, countAt |-> 0]

TimelineRemounts(flights) ==
    /\ items' = <<>> /\ page' = 1 /\ total' = NoTotal
    /\ runFilter' = NoFilter /\ loading' = TRUE /\ eventFlights' = flights
    /\ asOf' = [rowsAt |-> 0, countAt |-> 0]

-----------------------------------------------------------------------------
(* The route. *)

ListRecentMutant(v, filter, n) ==     \* the filter reaches the count alone
    LET all == EventsAt(v, NoFilter)
        upTo == IF n * PageSize < Len(all) THEN n * PageSize ELSE Len(all)
    IN  SubSeq(all, (n - 1) * PageSize + 1, upTo)

\* findMany with orderBy, skip and take.
ListRecent(v, filter, n) ==
    LET all == EventsAt(v, filter)
        upTo == IF n * PageSize < Len(all) THEN n * PageSize ELSE Len(all)
    IN  SubSeq(all, (n - 1) * PageSize + 1, upTo)

Count(v, filter) == Len(EventsAt(v, filter))

\* A filter that is no uuid is answered with 400 before any query.
ReadEvents(k) ==
    /\ k \in DOMAIN eventFlights
    /\ eventFlights[k].filter # Malformed
    /\ \E query \in {"rowsAt", "countAt"} :
         /\ eventFlights[k][query] = Unread
         /\ eventFlights' = Answered(eventFlights, k, query)
    /\ UNCHANGED <<history, tab, items, page, total, runFilter, loading, asOf>>

-----------------------------------------------------------------------------
(* The panel. *)

FetchEvents(n, append, filter) ==
    /\ Len(eventFlights) < MaxFlights
    /\ eventFlights' = Send(eventFlights, NewEventFlight(n, append, filter))
    /\ loading' = TRUE

\* The effect of the first rendering and of every change of the filter.
Reload(filter) ==
    /\ page' = 1 /\ items' = <<>> /\ total' = NoTotal
    /\ runFilter' = filter
    /\ FetchEvents(1, FALSE, filter)
    /\ UNCHANGED asOf

\* Without a filter the panel has no form before it has an event.
ApplyRunFilter(filter) ==
    /\ tab = "events"
    /\ items # <<>> \/ runFilter # NoFilter
    /\ filter # runFilter
    /\ Reload(filter)
    /\ UNCHANGED <<history, tab>>

HasMore == total # NoTotal /\ Len(items) < total

LoadMoreMutant ==                     \* off by one: page 0
    /\ tab = "events"
    /\ HasMore /\ ~loading
    /\ FetchEvents(page - 1, TRUE, runFilter)
    /\ UNCHANGED <<history, tab, items, page, total, runFilter, asOf>>

LoadMore ==
    /\ tab = "events"
    /\ items # <<>> \/ runFilter # NoFilter
    /\ HasMore /\ ~loading /\ page < MaxPage
    /\ FetchEvents(page + 1, TRUE, runFilter)
    /\ UNCHANGED <<history, tab, items, page, total, runFilter, asOf>>

AppendedMutant(loaded, rows) == loaded \o rows        \* loaded twice, shown twice

\* An event written between two loads can shift onto both pages.
Appended(loaded, rows) ==
    loaded \o Without(rows, ToSet(loaded))

EventsArrive(k) ==
    LET flight == eventFlights[k]
        rows == ListRecent(flight.rowsAt, flight.filter, flight.page)
    IN  /\ flight.rowsAt # Unread /\ flight.countAt # Unread
        /\ eventFlights' = RemoveAt(eventFlights, k)
        /\ IF flight.last
           THEN /\ total' = Count(flight.countAt, flight.filter)
                /\ items' = IF flight.append THEN Appended(items, rows) ELSE rows
                /\ page' = IF flight.append THEN flight.page ELSE page
                /\ loading' = FALSE
                /\ asOf' = [rowsAt |-> flight.rowsAt, countAt |-> flight.countAt]
           ELSE UNCHANGED <<total, items, page, loading, asOf>>
        /\ UNCHANGED <<history, tab, runFilter>>

EventsFail(k) ==
    /\ k \in DOMAIN eventFlights
    /\ eventFlights' = RemoveAt(eventFlights, k)
    /\ loading' = (loading /\ ~eventFlights[k].last)
    /\ UNCHANGED <<history, tab, items, page, total, runFilter, asOf>>

TimelineNext ==
    \/ LoadMore
    \/ \E filter \in Filters : ApplyRunFilter(filter)
    \/ \E k \in DOMAIN eventFlights : ReadEvents(k) \/ EventsArrive(k) \/ EventsFail(k)

-----------------------------------------------------------------------------
(* Properties *)

Matching == EventsAt(Now, runFilter)

Newer == {e \in ToSet(Matching) : e > Head(items)}

\* Whatever is written while pages are loaded, fail or cross a change of the
\* filter, the events shown are those of the filter, newest first, none twice
\* and none left out in between (EventHistory.tsx:62-66): as long as no more
\* events than a page holds were written since the list was begun.  After
\* more, the next page lies before the list it is appended to.
TimelineIsSegment ==
    items # <<>> /\ Cardinality(Newer) <= PageSize
    => items = Newest({e \in ToSet(Matching) : Last(items) <= e /\ e <= Head(items)})

\* When nothing earlier is on offer nothing earlier exists: offsets never
\* leave an event out of reach.  Only a count that is older than its rows
\* can hide one.
EndMeansAll ==
    total # NoTotal /\ ~HasMore /\ asOf.countAt >= asOf.rowsAt
    => \A e \in ToSet(EventsAt(asOf.rowsAt, runFilter)) : e \in ToSet(items)
=============================================================================
