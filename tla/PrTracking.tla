----------------------------- MODULE PrTracking -----------------------------
(****************************************************************************)
(* What the poll loop keeps of every pull request: the pull_request rows    *)
(* written by PrScanner (src/prScanner.ts), the recovery of requests that   *)
(* nobody answered (StalePrRecoverer), the walkthroughs recorded by         *)
(* DirectCommentChecker and the acknowledgement of the oldest request       *)
(* (PollDetector.executeTick), await by await, over a GitHub that changes   *)
(* in between and whose search index lags behind.                           *)
(*                                                                          *)
(* A pull request is a number: a larger one was created later and comes     *)
(* first in every search.  Head commits and walkthrough revisions are       *)
(* numbers too.  Of its queue items only the latest one's status is kept;   *)
(* how it gets from one status to the next is the subject of                *)
(* TriggerPipeline and ReviewDetection and is summed up in four actions.    *)
(****************************************************************************)
EXTENDS Integers, FiniteSets

CONSTANTS
    Prs,            \* the pull requests of the filtered repositories
    SearchCap,      \* OPEN_PR_SEARCH_PER_PAGE * OPEN_PR_SEARCH_MAX_PAGES
    CheckCap,       \* MAX_DIRECT_CHECK_PRS
    MaxEvents       \* a bound: pushes, closures, new comments, faults, crashes

ASSUME TrackingAssumption ==
    /\ Prs \subseteq Nat \ {0}
    /\ IsFiniteSet(Prs)
    /\ SearchCap \in Nat \ {0}
    /\ CheckCap \in Nat \ {0}
    /\ MaxEvents \in Nat

VARIABLES
    github,         \* every pull request as GitHub has it
    index,          \* those that the search index holds for open
    reply,          \* those with an acknowledgement since their last request
    row,            \* the pull_request table
    item,           \* status of the latest queue item of every pull request
    spent,          \* those with a spent comment that was edited since
    recent,         \* those with an item resolved since midnight UTC
    asked,          \* those with a last_review_requested_at
    before,         \* of each of them, those with an earlier one
    due,            \* the scan interval has run out
    poll,           \* the tick under way
    left            \* events left of MaxEvents

world == <<github, index, reply>>
queue == <<item, spent, recent, asked, before>>
vars == <<github, index, reply, row, item, spent, recent, asked, before, due,
          poll, left>>

NoPr == 0
NoRevision == 0
Revisions == Nat
PrStates == {"open", "merged", "closed"}
Active == {"pending", "retriggered"}

\* reopened: closed and opened again since it was created.
GitHubPr == [state    : PrStates,
             reopened : BOOLEAN,
             head     : Revisions,
             walk     : Revisions]

\* mergedAt, closedAt: not null.  commit is the head whose commit time is
\* stored, seen the walkthrough latched in coderabbit_comment, reviewed the
\* one whose time is in last_coderabbit_review_at, answered and acked whether
\* review and acknowledgement are not before the last request.
Row == [state    : PrStates \cup {"absent"},
        mergedAt : BOOLEAN,
        closedAt : BOOLEAN,
        head     : Revisions,
        commit   : Revisions,
        shas     : SUBSET Revisions,
        seen     : Revisions,
        reviewed : Revisions,
        answered : BOOLEAN,
        acked    : BOOLEAN]

Absent == [state |-> "absent", mergedAt |-> FALSE, closedAt |-> FALSE,
           head |-> NoRevision, commit |-> NoRevision, shas |-> {},
           seen |-> NoRevision, reviewed |-> NoRevision,
           answered |-> FALSE, acked |-> FALSE]

Idle == [pc |-> "idle", todo |-> {}, found |-> {}, scanned |-> {},
         cur |-> NoPr, rev |-> NoRevision, word |-> "open"]

Poll == [pc      : {"idle", "scan", "register", "closures", "mark", "stale",
                    "recover", "check", "walk", "record", "search", "ack"},
         todo    : SUBSET Prs,
         found   : SUBSET Prs,      \* discoveredPRs, later the stale ones
         scanned : SUBSET Prs,      \* scannedPRs
         cur     : Prs \cup {NoPr},
         rev     : Revisions,       \* head or walkthrough as read
         word    : PrStates]        \* state as read by getPRState

TypeOK ==
    /\ github \in [Prs -> GitHubPr]
    /\ index \subseteq Prs
    /\ reply \subseteq Prs
    /\ row \in [Prs -> Row]
    /\ item \in [Prs -> Active \cup {"none", "resolved"}]
    /\ spent \subseteq Prs
    /\ recent \subseteq Prs
    /\ asked \subseteq Prs
    /\ before \in [Prs -> SUBSET Prs]
    /\ due \in BOOLEAN
    /\ poll \in Poll
    /\ left \in 0 .. MaxEvents

Init ==
    /\ github = [p \in Prs |-> [state |-> "open", reopened |-> FALSE,
                                head |-> 1, walk |-> NoRevision]]
    /\ index = {}
    /\ reply = {}
    /\ row = [p \in Prs |-> Absent]
    /\ item = [p \in Prs |-> "none"]
    /\ spent = {}
    /\ recent = {}
    /\ asked = {}
    /\ before = [p \in Prs |-> {}]
    /\ due = TRUE
    /\ poll = Idle
    /\ left = MaxEvents

Event == left > 0 /\ left' = left - 1

-----------------------------------------------------------------------------
(* GitHub and its users *)

Push(p) ==
    /\ Event
    /\ github[p].state = "open"
    /\ github' = [github EXCEPT ![p].head = @ + 1]
    /\ UNCHANGED <<index, reply, row, queue, due, poll>>

Close(p, state) ==
    /\ Event
    /\ github[p].state = "open"
    /\ github' = [github EXCEPT ![p].state = state]
    /\ UNCHANGED <<index, reply, row, queue, due, poll>>

Reopen(p) ==
    /\ Event
    /\ github[p].state = "closed"
    /\ github' = [github EXCEPT ![p].state = "open", ![p].reopened = TRUE]
    /\ UNCHANGED <<index, reply, row, queue, due, poll>>

EditWalkthrough(p) ==
    /\ Event
    /\ github' = [github EXCEPT ![p].walk = @ + 1]
    /\ UNCHANGED <<index, reply, row, queue, due, poll>>

\* A spent comment asks for a retrigger again.  It is one that no enqueue
\* reopens: its item left for good and without a verdict, as all dropped items
\* do but the swept ones.
EditSpent(p) ==
    /\ Event
    /\ item[p] = "resolved"
    /\ ~row[p].answered
    /\ spent' = spent \cup {p}
    /\ UNCHANGED <<world, row, item, recent, asked, before, due, poll>>

Indexed(p) == IF github[p].state = "open" THEN index \cup {p} ELSE index \ {p}

Reindex(p) ==
    /\ index # Indexed(p)
    /\ index' = Indexed(p)
    /\ UNCHANGED <<github, reply, row, queue, due, poll, left>>

Acknowledge(p) ==
    /\ p \in asked \ reply
    /\ reply' = reply \cup {p}
    /\ UNCHANGED <<github, index, row, queue, due, poll, left>>

-----------------------------------------------------------------------------
(* The queue, as far as the poll loop depends on it *)

\* A request was posted and recorded, by the scheduler or from the dashboard.
\* The item may have been resolved while the post was on its way.
Request(p) ==
    /\ \/ item[p] = "pending"
       \/ item[p] = "resolved" /\ p \in recent
    /\ item' = [item EXCEPT ![p] = "retriggered"]
    /\ asked' = asked \cup {p}
    /\ before' = [q \in Prs |-> IF q = p THEN asked \ {p} ELSE before[q] \ {p}]
    /\ row' = [row EXCEPT ![p].answered = FALSE, ![p].acked = FALSE]
    /\ reply' = reply \ {p}
    /\ UNCHANGED <<github, index, spent, recent, due, poll, left>>

Leave(p) ==
    /\ item[p] \in Active
    /\ item' = [item EXCEPT ![p] = "resolved"]
    /\ recent' = recent \cup {p}
    /\ UNCHANGED <<world, spent, asked, before, due, poll, left>>

\* The review detector closes the item with a verdict.
Answer(p) ==
    /\ item[p] = "retriggered"
    /\ Leave(p)
    /\ row' = [row EXCEPT ![p].answered = TRUE]

\* It leaves without one: swept, pruned, stale comment, marked by hand.
Drop(p) == Leave(p) /\ UNCHANGED row

\* resolved_at, an ISO text, stays above datetime('now', '-5 minutes') until
\* the date of the latter has moved on.
NextDay ==
    /\ recent # {}
    /\ recent' = {}
    /\ UNCHANGED <<world, row, item, spent, asked, before, due, poll, left>>

-----------------------------------------------------------------------------
(* PrScanner.scan *)

StaysExceptPoll == UNCHANGED <<world, row, queue, due>>

IntervalElapses ==
    /\ ~due
    /\ due' = TRUE
    /\ UNCHANGED <<world, row, queue, poll, left>>

ScanNotDue ==
    /\ poll.pc = "idle"
    /\ ~due
    /\ poll' = [Idle EXCEPT !.pc = "stale"]
    /\ StaysExceptPoll /\ UNCHANGED left

Newest(s, n) == {p \in s : Cardinality({q \in s : q > p}) < n}

ListOpenPRs ==
    /\ poll.pc = "idle"
    /\ due
    /\ LET found == Newest(index, SearchCap)
       IN  poll' = [Idle EXCEPT !.pc = "scan", !.todo = found, !.found = found]
    /\ StaysExceptPoll /\ UNCHANGED left

\* Reading the state, the search or the list of open rows threw: the scan
\* returns no pull request, whatever it has registered.
ScanFails ==
    /\ Event
    /\ \/ poll.pc = "idle"
       \/ poll.pc = "scan" /\ poll.todo = {}
    /\ poll' = [Idle EXCEPT !.pc = "stale"]
    /\ StaysExceptPoll

GetHead(p) ==
    /\ poll.pc = "scan"
    /\ p \in poll.todo
    /\ \A q \in poll.todo : q <= p
    /\ poll' = [poll EXCEPT !.pc = "register", !.cur = p, !.rev = github[p].head]
    /\ StaysExceptPoll /\ UNCHANGED left

\* The next pull request of the loop that runs in pc.
Done(pc) ==
    [poll EXCEPT !.pc = pc, !.todo = @ \ {poll.cur}, !.cur = Idle.cur,
                 !.rev = Idle.rev, !.word = Idle.word]

\* The commit time fetched once per pull request, not once per head.
UpsertOpenMutant(r, head) ==
    [r EXCEPT !.state = "open", !.head = head,
              !.commit = IF r.head = NoRevision THEN head ELSE @,
              !.shas = @ \cup {head}]

\* upsert of an open pull request; merged_at and closed_at are not written.
UpsertOpen(r, head) ==
    [r EXCEPT !.state = "open", !.head = head,
              !.commit = IF r.head # head THEN head ELSE @,
              !.shas = @ \cup {head}]

Register ==
    /\ poll.pc = "register"
    /\ row' = [row EXCEPT ![poll.cur] = UpsertOpen(@, poll.rev)]
    /\ poll' = [Done("scan") EXCEPT !.scanned = @ \cup {poll.cur}]
    /\ UNCHANGED <<world, queue, due, left>>

RegisterFails ==
    /\ Event
    /\ poll.pc = "register"
    /\ poll' = Done("scan")
    /\ StaysExceptPoll

Open == {p \in Prs : row[p].state = "open"}

FindByPrState ==
    /\ poll.pc = "scan"
    /\ poll.todo = {}
    /\ poll' = [poll EXCEPT !.pc = "closures", !.todo = Open \ poll.found,
                         !.found = {}]
    /\ StaysExceptPoll /\ UNCHANGED left

GetPRState(p) ==
    /\ poll.pc = "closures"
    /\ p \in poll.todo
    /\ poll' = [poll EXCEPT !.pc = "mark", !.cur = p, !.word = github[p].state]
    /\ StaysExceptPoll /\ UNCHANGED left

\* Missing from the search is as good as closed.
UpsertClosedMutant(r, word) == [r EXCEPT !.state = "closed", !.closedAt = TRUE]

\* Only merges are looked for.
UpsertMergedMutant(r, word) ==
    IF word = "merged" /\ ~r.closedAt
    THEN [r EXCEPT !.state = "merged", !.mergedAt = TRUE] ELSE r

\* upsert of a closed pull request.  A row may not have both times: CHECK
\* makes the statement throw, and the row stays as it was.
UpsertClosed(r, word) ==
    CASE word = "merged" /\ ~r.closedAt ->
            [r EXCEPT !.state = "merged", !.mergedAt = TRUE]
      [] word = "closed" /\ ~r.mergedAt ->
            [r EXCEPT !.state = "closed", !.closedAt = TRUE]
      [] OTHER -> r

MarkClosed ==
    /\ poll.pc = "mark"
    /\ row' = [row EXCEPT ![poll.cur] = UpsertClosed(@, poll.word)]
    /\ poll' = Done("closures")
    /\ UNCHANGED <<world, queue, due, left>>

MarkFails ==
    /\ Event
    /\ poll.pc = "mark"
    /\ poll' = Done("closures")
    /\ StaysExceptPoll

ScanCompletes ==
    /\ poll.pc = "closures"
    /\ poll.todo = {}
    /\ \/ due' = FALSE /\ UNCHANGED left
       \/ Event /\ UNCHANGED due        \* setLastScanCompletedAt failed
    /\ poll' = [poll EXCEPT !.pc = "stale"]
    /\ UNCHANGED <<world, row, queue>>

-----------------------------------------------------------------------------
(* StalePrRecoverer.recover *)

Stale == {p \in Open : /\ p \in asked
                       /\ ~row[p].answered
                       /\ item[p] \notin Active
                       /\ p \notin recent}

\* Without the clause on active items.
FindStaleMutant ==
    /\ poll.pc = "stale"
    /\ LET stale == {p \in Open : p \in asked /\ ~row[p].answered /\ p \notin recent}
       IN  poll' = [poll EXCEPT !.pc = "recover", !.todo = stale, !.found = stale]
    /\ StaysExceptPoll /\ UNCHANGED left


FindStaleOpenPRs ==
    /\ poll.pc = "stale"
    /\ poll' = [poll EXCEPT !.pc = "recover", !.todo = Stale, !.found = Stale]
    /\ StaysExceptPoll /\ UNCHANGED left

\* Put back under a status that no query asks for.
EnqueuedMutant(p) == [item EXCEPT ![p] = "queued"]

\* enqueue of a rate-limit comment that no row carries yet: a retriggered
\* item takes it over, a pending one absorbs it.
Enqueued(p) ==
    [item EXCEPT ![p] = IF @ = "retriggered" THEN @ ELSE "pending"]

Recover(p) ==
    /\ poll.pc = "recover"
    /\ p \in poll.todo
    /\ item' = Enqueued(p)
    /\ poll' = [poll EXCEPT !.todo = @ \ {p}]
    /\ UNCHANGED <<world, row, spent, recent, asked, before, due, left>>

\* The transaction failed, or two synthetic comments of one millisecond had
\* the same id and the insert of the second threw.
RecoverFails(p) ==
    /\ Event
    /\ poll.pc = "recover"
    /\ p \in poll.todo
    /\ poll' = [poll EXCEPT !.todo = @ \ {p}]
    /\ StaysExceptPoll

-----------------------------------------------------------------------------
(* DirectCommentChecker.check over the merged lists, cut off at CheckCap *)

\* Scanned ones come first and newest first; the stale ones in any order.
DirectLists ==
    LET both == poll.scanned \cup poll.found
        rest == poll.found \ poll.scanned
        first == Newest(poll.scanned, CheckCap)
    IN  {s \in SUBSET both :
            /\ first \subseteq s
            /\ s \subseteq first \cup rest
            /\ Cardinality(s) = IF Cardinality(both) > CheckCap
                                THEN CheckCap ELSE Cardinality(both)}

StartCheck ==
    /\ poll.pc = "recover"
    /\ poll.todo = {}
    /\ \E s \in DirectLists : poll' = [Idle EXCEPT !.pc = "check", !.todo = s]
    /\ StaysExceptPoll /\ UNCHANGED left

ReadComments(p) ==
    /\ poll.pc = "check"
    /\ p \in poll.todo
    /\ poll' = [poll EXCEPT !.pc = "walk", !.cur = p, !.rev = github[p].walk]
    /\ StaysExceptPoll /\ UNCHANGED left

\* A walkthrough counts only on a pull request that never had an item.
LatchWalkthrough ==
    /\ poll.pc = "walk"
    /\ IF item[poll.cur] = "none" /\ poll.rev > row[poll.cur].seen
       THEN /\ row' = [row EXCEPT ![poll.cur].seen = poll.rev]
            /\ poll' = [poll EXCEPT !.pc = "record"]
       ELSE /\ poll' = Done("check")
            /\ UNCHANGED row
    /\ UNCHANGED <<world, queue, due, left>>

RecordWalkthroughReview ==
    /\ poll.pc = "record"
    /\ row' = [row EXCEPT ![poll.cur].reviewed = poll.rev]
    /\ poll' = Done("check")
    /\ UNCHANGED <<world, queue, due, left>>

CheckFails ==
    /\ Event
    /\ poll.pc \in {"walk", "record"}
    /\ poll' = Done("check")
    /\ StaysExceptPoll

\* A spent comment throws on the unique index and leaves its pull request, or
\* is latched: a pending item absorbs it, a guard of enqueue or the dismissal
\* passes it over.
LatchSpent(p) ==
    /\ p \in spent
    /\ spent' = spent \ {p}
    /\ UNCHANGED <<world, row, item, recent, asked, before, due, poll, left>>

CheckLatches(p) == poll.pc = "check" /\ p \in poll.todo /\ LatchSpent(p)

\* Any other comment with a rate limit or a skip, met here or by the search.
DetectLimit(p) ==
    /\ Event
    /\ poll.pc \in {"check", "search"}
    /\ row[p].state # "absent"
    /\ item' = Enqueued(p)
    /\ UNCHANGED <<world, row, spent, recent, asked, before, due, poll>>

\* A comment with a verdict: the review is recorded, the item is not touched.
DetectVerdict(p) ==
    /\ poll.pc \in {"check", "search"}
    /\ p \in asked
    /\ ~row[p].answered
    /\ row' = [row EXCEPT ![p].answered = TRUE]
    /\ UNCHANGED <<world, queue, due, poll, left>>

-----------------------------------------------------------------------------
(* The search for rate-limit comments and the loop over what it returns     *)

SearchComments ==
    /\ poll.pc = "check"
    /\ poll.todo = {}
    /\ poll' = [Idle EXCEPT !.pc = "search"]
    /\ StaysExceptPoll /\ UNCHANGED left

\* The loop meets a spent comment that the index has; the search may miss it.
SearchLatches(p) == poll.pc = "search" /\ p \in index /\ LatchSpent(p)

\* Without a pending item enqueue throws, and nothing catches it but the tick.
SearchThrows(p) ==
    /\ poll.pc = "search"
    /\ p \in index \cap spent
    /\ item[p] # "pending"
    /\ poll' = Idle
    /\ StaysExceptPoll /\ UNCHANGED left

-----------------------------------------------------------------------------
(* The acknowledgement check that ends the tick *)

Unacknowledged == {p \in asked : ~row[p].acked}

\* One pull request, or none when no request waits for its reply.
OldestPending == {p \in Unacknowledged : before[p] \cap Unacknowledged = {}}

\* Asked only of requests whose item has not left the queue yet.
FindAcknowledgementMutant ==
    /\ poll.pc = "search"
    /\ LET waiting == {p \in OldestPending \cap reply : item[p] = "retriggered"}
       IN  IF waiting = {}
           THEN poll' = Idle
           ELSE \E p \in waiting : poll' = [Idle EXCEPT !.pc = "ack", !.cur = p]
    /\ StaysExceptPoll /\ UNCHANGED left

FindAcknowledgement ==
    /\ poll.pc = "search"
    /\ IF OldestPending \cap reply = {}
       THEN poll' = Idle
       ELSE \E p \in OldestPending :
                poll' = [Idle EXCEPT !.pc = "ack", !.cur = p]
    /\ StaysExceptPoll /\ UNCHANGED left

\* Stamped with the time of writing.
RecordAcknowledgement ==
    /\ poll.pc = "ack"
    /\ row' = [row EXCEPT ![poll.cur].acked = TRUE]
    /\ poll' = Idle
    /\ UNCHANGED <<world, queue, due, left>>

\* What is not caught inside a loop ends the tick, as a crash does.
TickEnds ==
    /\ Event
    /\ poll.pc # "idle"
    /\ poll' = Idle
    /\ StaysExceptPoll

-----------------------------------------------------------------------------
PollStep ==
    \/ ScanNotDue \/ ListOpenPRs
    \/ \E p \in Prs : GetHead(p)
    \/ Register \/ FindByPrState
    \/ \E p \in Prs : GetPRState(p)
    \/ MarkClosed \/ ScanCompletes
    \/ FindStaleOpenPRs
    \/ \E p \in Prs : Recover(p)
    \/ StartCheck
    \/ \E p \in Prs : ReadComments(p)
    \/ LatchWalkthrough \/ RecordWalkthroughReview
    \/ SearchComments
    \/ \E p \in Prs : SearchLatches(p) \/ SearchThrows(p)
    \/ FindAcknowledgement \/ RecordAcknowledgement

Failure ==
    \/ ScanFails \/ RegisterFails \/ MarkFails
    \/ \E p \in Prs : RecoverFails(p)
    \/ CheckFails \/ TickEnds

Environment ==
    \/ \E p \in Prs :
          \/ Push(p)
          \/ \E state \in {"merged", "closed"} : Close(p, state)
          \/ Reopen(p) \/ EditWalkthrough(p) \/ EditSpent(p) \/ Reindex(p)
          \/ Acknowledge(p) \/ Request(p) \/ Answer(p) \/ Drop(p)
          \/ CheckLatches(p) \/ DetectLimit(p) \/ DetectVerdict(p)
    \/ NextDay \/ IntervalElapses

Next == PollStep \/ Failure \/ Environment

Spec == Init /\ [][Next]_vars

\* The interval keeps ticking: in every state a step of the tick is enabled, so
\* that its weak fairness says no more than []<>, which is cheaper to check.
\* The timers run out; GitHub's index catches up; midnight comes.
FairSpec ==
    /\ Spec
    /\ []<><<PollStep>>_vars
    /\ WF_vars(IntervalElapses)
    /\ WF_vars(NextDay)
    /\ \A p \in Prs : WF_vars(Reindex(p))

-----------------------------------------------------------------------------
(* Properties *)

\* Absence from the search is not taken for a closure, neither for a lagging
\* index nor beyond the cap: a row is merged only when GitHub merged the pull
\* request, and closed only when GitHub closed it, be it reopened since
\* (business rule 2-1).
ClosedOnlyOnWord ==
    \A p \in Prs :
        /\ row[p].state = "merged" => github[p].state = "merged"
        /\ row[p].state = "closed" =>
               (github[p].state = "closed" \/ github[p].reopened)

\* The commit time belongs to the stored head, although it is fetched only
\* when the head has changed and any of the calls in between may fail; and the
\* head is in the history that reviews are matched against.
CommitOfHead ==
    \A p \in Prs :
        /\ row[p].commit = row[p].head
        /\ row[p].state # "absent" => row[p].head \in row[p].shas

\* The list of stale pull requests is read once, and the queue moves while its
\* members are enqueued one by one: none may have become active, answered or
\* resolved by the time its turn comes, or its request is posted again.
StaleWhenRecovered ==
    [][\A p \in Prs : Recover(p) => p \in Stale]_vars

\* A pull request closed on GitHub leaves the open rows, whatever fails in
\* between, and the recovery with it, unless it is opened again (business rule
\* 2-1): the claim for every pull request.
ClosedLeaves ==
    \A p \in Prs :
        github[p].state # "open" ~>
            row[p].state # "open" \/ github[p].state = "open"

\* The same of a pull request that is closed for the first time.
FirstClosureLeaves ==
    \A p \in Prs :
        github[p].state # "open" /\ ~github[p].reopened ~>
            row[p].state # "open" \/ github[p].state = "open"


\* The reply to the oldest request is recorded, unless the request is repeated
\* (business rule 2-6).  The check comes last in the tick, so that this holds
\* only while the loop before it does not throw again and again: one spent
\* comment without a pending item is enough to lose every reply.
OldestAcknowledged ==
    \/ []<><<\E p \in Prs : SearchThrows(p)>>_vars
    \/ \A p \in Prs :
           p \in OldestPending \cap reply ~>
               row[p].acked \/ p \notin reply
=============================================================================
