------------------------------- MODULE ActivityFeed -------------------------------
(****************************************************************************)
(* The activity list of the summary tab (dashboard ActivityList.tsx) over   *)
(* the activity-list route (src/src/routes/getActivityList.ts,               *)
(* QueueRepository.getActivityList).                                         *)
(*                                                                          *)
(* Queue items, the last touched first, page by page by offset; a poll puts *)
(* the first page in the place of everything loaded.  Marking an item takes *)
(* it off the list before the server knows.  The time window is taken as    *)
(* long enough for every item, the rows and the total of an answer as one   *)
(* read; whether the scheduler is stale, which disables the marks, is left  *)
(* open.                                                                     *)
(****************************************************************************)
EXTENDS DashboardShell

CONSTANTS
    MaxFeedPage,        \* bound: the last page asked for
    MaxMarks            \* bound: marks under way at a time

ASSUME FeedAssumption == MaxFeedPage \in Nat \ {0} /\ MaxMarks \in Nat

VARIABLES
    listed,             \* items, as shown
    feedPage,           \* page
    feedTotal,          \* total; 0 for null, which is never read
    feedLoading,        \* loading
    feedFlights,        \* requests for a page under way
    marks,              \* mark-reviewed requests under way
    listedAt            \* history: when the rows of the last answer were read

feedVars == <<listed, feedPage, feedTotal, feedLoading, feedFlights, marks, listedAt>>

FeedFlight ==
    [page : Nat \ {0}, append : BOOLEAN, last : BOOLEAN, readAt : Int]
Mark == [item : Items, committed : BOOLEAN]

\* Rows loaded twice are taken off together and counted down once.
FeedTypeOK ==
    /\ listed \in Seq(Items)
    /\ feedPage \in Nat \ {0}
    /\ feedTotal \in Int
    /\ feedLoading \in BOOLEAN
    /\ feedFlights \in Seq(FeedFlight)
    /\ marks \in Seq(Mark)
    /\ listedAt \in Instants

NewFeedFlight(n, append) ==
    [page |-> n, append |-> append, last |-> TRUE, readAt |-> Unread]

\* Mounting starts from this state, and from the first request.
FeedInit ==
    /\ listed = <<>> /\ feedPage = 1 /\ feedTotal = 0
    /\ feedLoading = TRUE /\ feedFlights = <<NewFeedFlight(1, FALSE)>>
    /\ marks = <<>> /\ listedAt = 0

FeedRemounts(flights) ==
    /\ listed' = <<>> /\ feedPage' = 1 /\ feedTotal' = 0
    /\ feedLoading' = TRUE /\ feedFlights' = flights
    /\ marks' = <<>> /\ listedAt' = 0

-----------------------------------------------------------------------------
(* The route. *)

LastTouched(v) ==
    Newest({n \in 1..v : /\ history[n] \in Items
                         /\ \A later \in (n + 1)..v : history[later] # history[n]})

\* Every row ordered by updated_at, newest first.
FeedAt(v) == LET touches == LastTouched(v) IN [k \in DOMAIN touches |-> history[touches[k]]]

FeedPageMutant(v, n) ==               \* skips to the last row of the page before
    LET all == FeedAt(v)
        skip == IF n = 1 THEN 0 ELSE (n - 1) * PageSize - 1
        upTo == IF n * PageSize < Len(all) THEN n * PageSize ELSE Len(all)
    IN  SubSeq(all, skip + 1, upTo)

\* The rows of one page: skip and take.
FeedPage(v, n) ==
    LET all == FeedAt(v)
        upTo == IF n * PageSize < Len(all) THEN n * PageSize ELSE Len(all)
    IN  SubSeq(all, (n - 1) * PageSize + 1, upTo)

ReadFeed(k) ==
    /\ feedFlights[k].readAt = Unread
    /\ feedFlights' = Answered(feedFlights, k, "readAt")
    /\ UNCHANGED <<history, tab, listed, feedPage, feedTotal, feedLoading, marks, listedAt>>

-----------------------------------------------------------------------------
(* The list. *)

FetchFeed(n, append) ==
    /\ Len(feedFlights) < MaxFlights
    /\ feedFlights' = Send(feedFlights, NewFeedFlight(n, append))
    /\ feedLoading' = TRUE

PollFeedMutant ==                     \* polls the page that was loaded last
    /\ tab = "summary"
    /\ FetchFeed(feedPage, FALSE)
    /\ UNCHANGED <<history, tab, listed, feedPage, feedTotal, marks, listedAt>>

PollFeed ==
    /\ tab = "summary"
    /\ FetchFeed(1, FALSE)
    /\ UNCHANGED <<history, tab, listed, feedPage, feedTotal, marks, listedAt>>

\* The total of the other window stays until the answer.
SelectDuration ==
    /\ tab = "summary"
    /\ feedPage' = 1 /\ listed' = <<>>
    /\ FetchFeed(1, FALSE)
    /\ UNCHANGED <<history, tab, feedTotal, marks, listedAt>>

FeedHasMore == Len(listed) < feedTotal

\* The page is counted when it is asked for; a poll, a failure or a mark does
\* not count it back.
LoadMoreFeed ==
    /\ tab = "summary"
    /\ listed # <<>> /\ FeedHasMore /\ ~feedLoading
    /\ feedPage < MaxFeedPage
    /\ feedPage' = feedPage + 1
    /\ FetchFeed(feedPage + 1, TRUE)
    /\ UNCHANGED <<history, tab, listed, feedTotal, marks, listedAt>>

FeedArrives(k) ==
    LET flight == feedFlights[k]
        rows == FeedPage(flight.readAt, flight.page)
    IN  /\ flight.readAt # Unread
        /\ feedFlights' = RemoveAt(feedFlights, k)
        /\ IF flight.last
           THEN /\ feedTotal' = Len(FeedAt(flight.readAt))
                /\ listed' = IF flight.append THEN listed \o rows ELSE rows
                /\ feedLoading' = FALSE
                /\ listedAt' = flight.readAt
           ELSE UNCHANGED <<feedTotal, listed, feedLoading, listedAt>>
        /\ UNCHANGED <<history, tab, feedPage, marks>>

FeedFails(k) ==
    /\ feedFlights' = RemoveAt(feedFlights, k)
    /\ feedLoading' = (feedLoading /\ ~feedFlights[k].last)
    /\ UNCHANGED <<history, tab, listed, feedPage, feedTotal, marks, listedAt>>

-----------------------------------------------------------------------------
(* Marking an item as reviewed: off the list at once, on the server later.  *)

MarkResolved(item) ==
    /\ Len(marks) < MaxMarks
    /\ item \in ToSet(listed)
    /\ listed' = Without(listed, {item})
    /\ feedTotal' = feedTotal - 1
    /\ marks' = Append(marks, [item |-> item, committed |-> FALSE])
    /\ UNCHANGED <<history, tab, feedPage, feedLoading, feedFlights, listedAt>>

\* markResolvedByUuid writes the row whatever its status is by now.
ServerMarks(k) ==
    /\ ~marks[k].committed
    /\ Commit(marks[k].item)
    /\ marks' = [marks EXCEPT ![k].committed = TRUE]
    /\ UNCHANGED <<tab, listed, feedPage, feedTotal, feedLoading, feedFlights, listedAt>>

MarkAnswered(k) ==
    /\ marks[k].committed
    /\ marks' = RemoveAt(marks, k)
    /\ UNCHANGED <<history, tab, listed, feedPage, feedTotal, feedLoading, feedFlights, listedAt>>

\* What was taken off comes back with the first page.
MarkFails(k) ==
    /\ marks' = RemoveAt(marks, k)
    /\ FetchFeed(1, FALSE)
    /\ UNCHANGED <<history, tab, listed, feedPage, feedTotal, listedAt>>

FeedNext ==
    \/ PollFeed \/ SelectDuration \/ LoadMoreFeed
    \/ \E item \in ToSet(listed) : MarkResolved(item)
    \/ \E k \in DOMAIN feedFlights : ReadFeed(k) \/ FeedArrives(k) \/ FeedFails(k)
    \/ \E k \in DOMAIN marks : ServerMarks(k) \/ MarkAnswered(k) \/ MarkFails(k)

-----------------------------------------------------------------------------
(* Properties *)

\* Loading more appends what comes next (ActivityList.test.tsx:192): a list of
\* all pages before the one that arrives agrees with the server as well with
\* it as without it, if the page was read now.  The list need not hold these
\* pages: a page is counted when it is asked for, a poll drops all but the
\* first without counting back, and the page after a gap leaves it open.
NextPageContinues ==
    [][/\ listed # <<>> /\ IsStrictPrefix(listed, listed')
       /\ Len(listed) = (feedPage - 1) * PageSize
       /\ IsPrefix(listed, FeedAt(Now)) /\ listedAt' = Now
       => IsPrefix(listed', FeedAt(Now))]_feedVars
=============================================================================
