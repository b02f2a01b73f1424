---------------------------- MODULE ReviewDetection ----------------------------
(****************************************************************************)
(* How a comment or a review of CodeRabbit reaches the queue of one pull    *)
(* request.  Two interval services read GitHub side by side: the poll loop  *)
(* (src/detectorPoll.ts, src/DirectCommentChecker.ts, src/EnqueueService.ts)*)
(* and the review detector (src/ReviewDetector.ts, src/EditDetector.ts).    *)
(* They share the stored comments (src/db/coderabbitCommentRepository.ts),  *)
(* the pull_request row and the queue.                                      *)
(*                                                                          *)
(* An action is what runs between two awaits; what a service keeps across   *)
(* one is in poll or detect.  CodeRabbit edits its comments in place: GitHub*)
(* shows one revision of a comment at a time, and its update time.  The     *)
(* scheduler appears by the writes to the queue that matter here.           *)
(****************************************************************************)
EXTENDS QueueRows

CONSTANTS
    Pr,                 \* the pull request
    Edits,              \* bound: what CodeRabbit may turn a comment into
    MaxReviews,         \* bound: reviews CodeRabbit submits
    Wait,               \* the wait a rate-limit comment states
    MaxAge,             \* SCHEDULER_MAX_RETRIGGER_AGE_SEC
    PrOutcomes,         \* what may become of the pull request
    Faults,             \* whether calls and transactions may fail
    MaxHead,            \* bound: pushes
    MaxTime             \* bound: the clock stops here

Kinds == {"review_limited", "review_skipped", "verdict", "unknown"}

ASSUME DetectionAssumption ==
    /\ ItemIds # {} /\ Comments # {}
    /\ PullRequests = {Pr}
    /\ Comments \subseteq Nat         \* GitHub ids grow with creation
    /\ Edits \subseteq Kinds
    /\ Wait \in Nat /\ MaxAge \in Nat
    /\ MaxReviews \in Nat /\ MaxHead \in Nat /\ MaxTime \in Nat
    /\ PrOutcomes \subseteq {"merged", "closed"}
    /\ Faults \in BOOLEAN

VARIABLES
    now,                \* Date.now()
    queue,              \* review_queue
    stored,             \* coderabbit_comment
    pr,                 \* the pull_request row
    comment,            \* GitHub: the revision each comment shows
    reviews,            \* GitHub: the reviews submitted
    branch,             \* GitHub: head and state of the pull request
    poll,               \* locals of the poll tick in flight
    detect,             \* locals of the detector tick in flight
    opened              \* history: the revision the poll last opened a row on

vars == <<now, queue, stored, pr, comment, reviews, branch, poll, detect, opened>>
github == <<comment, reviews, branch>>

NoHead == -1
None == [type |-> "none", run |-> NoRun, updatedAt |-> NoTime]
NoRow == [type |-> "none", run |-> NoRun, updatedAt |-> NoTime, seenAt |-> NoTime]

Revision == [type : Kinds \cup {"none"}, run : Runs \cup {NoRun},
             updatedAt : TimeOrNull]
Listed == [comment : Comments, type : Kinds, run : Runs \cup {NoRun},
           updatedAt : Time]
StoredComment == [type : Kinds \cup {"none"}, run : Runs \cup {NoRun},
                  updatedAt : TimeOrNull, seenAt : TimeOrNull]
PrStates == {"open", "merged", "closed"}
PrRow == [head : Nat, reviewedHead : Nat \cup {NoHead},
          lastReviewAt : TimeOrNull, state : PrStates]
Review == [run : Runs, commit : Nat, at : Time]

PollPhases == {"idle", "list", "direct", "search", "fetch", "compare",
               "dismissal", "dismiss", "enqueue"}
DetectPhases == {"idle", "columns", "closed", "stored", "fetch", "latch",
                 "resolve", "skip", "adopt", "reviews", "accept", "lastReview"}

NoListed == [comment |-> CHOOSE c \in Comments : TRUE, type |-> "unknown",
             run |-> NoRun, updatedAt |-> 0]
IdlePoll == [pc |-> "idle", searching |-> FALSE, todo |-> {}, cur |-> NoListed]
NewPr == [head |-> 0, reviewedHead |-> NoHead, lastReviewAt |-> NoTime,
          state |-> "open"]
IdleDetect == [pc |-> "idle", id |-> CHOOSE i \in ItemIds : TRUE,
               comment |-> NoListed.comment, run |-> NoRun, retriggeredAt |-> 0,
               pr |-> NewPr, was |-> NoRow, fresh |-> None, commit |-> 0]

TypeOK ==
    /\ now \in Nat
    /\ queue \in Tables
    /\ stored \in [Comments -> StoredComment]
    /\ pr \in PrRow
    /\ comment \in [Comments -> Revision]
    /\ reviews \subseteq Review
    /\ branch \in [head : Nat, state : PrStates]
    /\ poll \in [pc : PollPhases, searching : BOOLEAN, todo : SUBSET Listed,
                 cur : Listed]
    /\ detect \in [pc : DetectPhases, id : ItemIds, comment : Comments,
                   run : Runs \cup {NoRun}, retriggeredAt : Time, pr : PrRow,
                   was : StoredComment, fresh : Revision, commit : Nat]
    /\ opened \in [Comments -> TimeOrNull]

AbsentRow ==
    [status |-> "absent", resolution |-> "none", pr |-> Pr,
     comment |-> NoListed.comment, run |-> NoRun, attempts |-> 0,
     skipped |-> FALSE, createdAt |-> NoTime, retriggeredAt |-> NoTime,
     resolvedAt |-> NoTime, cooldownUntil |-> NoTime]

Init ==
    /\ now = 0
    /\ queue = [i \in ItemIds |-> AbsentRow]
    /\ stored = [c \in Comments |-> NoRow]
    /\ pr = NewPr
    /\ comment = [c \in Comments |-> None]
    /\ reviews = {}
    /\ branch = [head |-> 0, state |-> "open"]
    /\ poll = IdlePoll
    /\ detect = IdleDetect
    /\ opened = [c \in Comments |-> NoTime]

-----------------------------------------------------------------------------
(* The stored comments and the pull_request row.                            *)

UpsertMutant(s, c, revision, t) ==     \* without the guard
    [s EXCEPT ![c] = [type |-> revision.type, run |-> revision.run,
                      updatedAt |-> revision.updatedAt, seenAt |-> t]]

\* A delivery older than the stored revision is rejected; the seen marker is
\* the time of writing.
Upsert(s, c, revision, t) ==
    IF s[c].updatedAt <= revision.updatedAt
    THEN [s EXCEPT ![c] = [type |-> revision.type, run |-> revision.run,
                           updatedAt |-> revision.updatedAt, seenAt |-> t]]
    ELSE s

Seen(c, updatedAt) ==
    stored[c].type # "none" /\ updatedAt <= stored[c].seenAt

\* findCompletedReview: the latest comment stored as a verdict.
StoredVerdict ==
    {c \in Comments :
        /\ stored[c].type = "verdict"
        /\ \A d \in Comments : stored[d].type = "verdict" => d <= c}

\* A verdict read from a comment names no commit: the known head counts.
RecordReview(commit) ==
    pr' = [pr EXCEPT !.lastReviewAt = now,
                     !.reviewedHead = IF commit = NoHead THEN pr.head ELSE commit]

-----------------------------------------------------------------------------
(* The poll loop: the comments of the pull request one by one, then the     *)
(* result of the search.                                                    *)

Posted == {c \in Comments : comment[c].type # "none"}
Asks(c) == comment[c].type \in {"review_limited", "review_skipped"}
ListedAs(c) == [comment |-> c, type |-> comment[c].type, run |-> comment[c].run,
                updatedAt |-> comment[c].updatedAt]

\* PrScanner: only the comments of an open pull request are listed, and only
\* in a tick that scans.
ScanPr ==
    /\ poll.pc = "idle"
    /\ pr' = [pr EXCEPT !.state = branch.state,
                        !.head = IF branch.state = "open" THEN branch.head ELSE @]
    /\ poll' = [IdlePoll EXCEPT !.pc = IF branch.state = "open" THEN "list"
                                       ELSE "direct"]
    /\ UNCHANGED <<now, queue, stored, github, detect, opened>>

ScanNotDue ==
    /\ poll.pc = "idle"
    /\ poll' = [IdlePoll EXCEPT !.pc = "direct"]
    /\ UNCHANGED <<now, queue, stored, pr, github, detect, opened>>

ListComments ==
    /\ poll.pc = "list"
    /\ poll' = [IdlePoll EXCEPT
                    !.pc = "direct",
                    !.todo = {ListedAs(c) : c \in {d \in Posted :
                                                comment[d].type # "unknown"}}]
    /\ UNCHANGED <<now, queue, stored, pr, github, detect, opened>>

\* One comment with a rate-limit or skip marker, if the index, which lags
\* behind the state of the pull request too, has it.
SearchComments ==
    /\ poll.pc = "direct" /\ poll.todo = {}
    /\ LET marked == {c \in Posted : Asks(c)}
       IN  \E found \in {{}} \cup {{ListedAs(c)} : c \in marked} :
             poll' = [poll EXCEPT !.pc = "search", !.searching = TRUE,
                                  !.todo = found]
    /\ UNCHANGED <<now, queue, stored, pr, github, detect, opened>>

EndPoll ==
    /\ poll.pc = "search" /\ poll.todo = {}
    /\ poll' = IdlePoll
    /\ UNCHANGED <<now, queue, stored, pr, github, detect, opened>>

TakeComment ==
    /\ poll.pc \in {"direct", "search"}
    /\ \E r \in poll.todo :
         /\ \A other \in poll.todo : r.comment <= other.comment
         /\ poll' = [poll EXCEPT
                        !.pc = IF poll.searching THEN "fetch" ELSE "compare",
                        !.cur = r, !.todo = @ \ {r}]
    /\ UNCHANGED <<now, queue, stored, pr, github, detect, opened>>

NextComment ==
    poll' = [poll EXCEPT !.pc = IF poll.searching THEN "search" ELSE "direct"]

\* The search gives the update time; the body is fetched after it.
FetchBody ==
    /\ poll.pc = "fetch"
    /\ LET shown == comment[poll.cur.comment]
       IN  IF shown.type = "unknown" THEN NextComment
           ELSE poll' = [poll EXCEPT !.pc = "compare", !.cur.type = shown.type,
                                     !.cur.run = shown.run]
    /\ UNCHANGED <<now, queue, stored, pr, github, detect, opened>>

CompareSeen ==
    /\ poll.pc = "compare"
    /\ IF Seen(poll.cur.comment, poll.cur.updatedAt) THEN NextComment
       ELSE poll' = [poll EXCEPT !.pc = "dismissal"]
    /\ UNCHANGED <<now, queue, stored, pr, github, detect, opened>>

AlreadyReviewed(r) ==
    \E c \in StoredVerdict : r.updatedAt <= stored[c].updatedAt

CheckDismissal ==
    /\ poll.pc = "dismissal"
    /\ poll' = [poll EXCEPT !.pc = IF AlreadyReviewed(poll.cur) THEN "dismiss"
                                   ELSE "enqueue"]
    /\ UNCHANGED <<now, queue, stored, pr, github, detect, opened>>

Latched == Upsert(stored, poll.cur.comment, poll.cur, now)

DismissMutant ==                       \* without the latch
    /\ poll.pc = "dismiss"
    /\ NextComment
    /\ UNCHANGED <<now, queue, stored, pr, github, detect, opened>>

Dismiss ==
    /\ poll.pc = "dismiss"
    /\ stored' = Latched
    /\ NextComment
    /\ UNCHANGED <<now, queue, pr, github, detect, opened>>

DetectionOf(r) ==
    [pr |-> Pr, comment |-> r.comment, type |-> r.type, run |-> r.run,
     updatedAt |-> r.updatedAt,
     cooldownUntil |-> IF r.type = "review_limited" THEN r.updatedAt + Wait
                       ELSE NoTime,
     headUnreviewed |-> pr.head # pr.reviewedHead]

\* A throw leaves the rest of the pull request's comments, or of the tick.
Abandon == poll' = IF poll.searching THEN IdlePoll
                   ELSE [poll EXCEPT !.pc = "direct", !.todo = {}]

RecordVerdict ==
    /\ poll.pc = "enqueue" /\ poll.cur.type = "verdict"
    /\ stored' = Latched
    /\ RecordReview(NoHead)
    /\ NextComment
    /\ UNCHANGED <<now, queue, github, detect, opened>>

EnqueueCommentMutant ==                \* latches nothing
    /\ poll.pc = "enqueue" /\ poll.cur.type # "verdict"
    /\ \E outcome \in Enqueue(queue, DetectionOf(poll.cur), now) :
         /\ queue' = outcome.queue
         /\ IF outcome.threw THEN Abandon ELSE NextComment
         /\ opened' = IF Pending(outcome.queue) \subseteq Pending(queue) THEN opened
                      ELSE [opened EXCEPT ![poll.cur.comment] = poll.cur.updatedAt]
    /\ UNCHANGED <<now, stored, pr, github, detect>>

\* One transaction: when enqueue throws, the marker is rolled back with it.
EnqueueComment ==
    /\ poll.pc = "enqueue" /\ poll.cur.type # "verdict"
    /\ \E outcome \in Enqueue(queue, DetectionOf(poll.cur), now) :
         /\ queue' = outcome.queue
         /\ stored' = IF outcome.threw THEN stored ELSE Latched
         /\ IF outcome.threw THEN Abandon ELSE NextComment
         /\ opened' = IF Pending(outcome.queue) \subseteq Pending(queue) THEN opened
                      ELSE [opened EXCEPT ![poll.cur.comment] = poll.cur.updatedAt]
    /\ UNCHANGED <<now, pr, github, detect>>

PollFails ==
    /\ Faults /\ poll.pc # "idle"
    /\ Abandon
    /\ UNCHANGED <<now, queue, stored, pr, github, detect, opened>>

PollStep ==
    \/ ScanPr \/ ScanNotDue \/ ListComments \/ SearchComments
    \/ EndPoll \/ TakeComment \/ FetchBody \/ CompareSeen \/ CheckDismissal
    \/ Dismiss \/ RecordVerdict \/ EnqueueComment \/ PollFails

-----------------------------------------------------------------------------
(* ReviewDetector.executeTick for one retriggered item: a pull request has  *)
(* no second one.  The item and the columns of its pull request are read    *)
(* first; every write is guarded by the status of the live row.             *)

Done == detect' = IdleDetect
Proceed(phase) == detect' = [detect EXCEPT !.pc = phase]

StartDetect(i) ==
    /\ detect.pc = "idle"
    /\ i \in Retriggered(queue) /\ queue[i].retriggeredAt # NoTime
    /\ detect' = [IdleDetect EXCEPT
                    !.pc = "columns", !.id = i,
                    !.comment = queue[i].comment, !.run = queue[i].run,
                    !.retriggeredAt = queue[i].retriggeredAt]
    /\ UNCHANGED <<now, queue, stored, pr, github, poll, opened>>

ReadColumns ==
    /\ detect.pc = "columns"
    /\ detect' = [detect EXCEPT !.pc = IF pr.state = "open" THEN "stored"
                                       ELSE "closed",
                                !.pr = pr]
    /\ UNCHANGED <<now, queue, stored, pr, github, poll, opened>>

Resolve(resolution) ==
    queue' = MarkResolvedIfStillRetriggered(queue, detect.id, resolution, now)
StillRetriggered == queue[detect.id].status = "retriggered"

ResolveClosedMutant ==                 \* the state taken for a resolution
    /\ detect.pc = "closed"
    /\ Resolve(detect.pr.state)
    /\ Done
    /\ UNCHANGED <<now, stored, pr, github, poll, opened>>

ResolveClosed ==
    /\ detect.pc = "closed"
    /\ Resolve(IF detect.pr.state = "merged" THEN "pr_merged"
               ELSE "pr_closed_without_merge")
    /\ Done
    /\ UNCHANGED <<now, stored, pr, github, poll, opened>>

ReadStored ==
    /\ detect.pc = "stored"
    /\ detect' = [detect EXCEPT !.was = stored[detect.comment],
                                !.pc = IF stored[detect.comment].type = "none"
                                       THEN "reviews" ELSE "fetch"]
    /\ UNCHANGED <<now, queue, stored, pr, github, poll, opened>>

FetchSourceMutant ==                   \* not edited: try again next tick
    /\ detect.pc = "fetch"
    /\ LET shown == comment[detect.comment]
       IN  IF shown.updatedAt <= detect.was.seenAt THEN Done
           ELSE detect' = [detect EXCEPT !.pc = "latch", !.fresh = shown]
    /\ UNCHANGED <<now, queue, stored, pr, github, poll, opened>>

\* fresh is what the source comment is taken for from here on.
FetchSource ==
    /\ detect.pc = "fetch"
    /\ LET shown == comment[detect.comment]
       IN  detect' = IF shown.updatedAt <= detect.was.seenAt
                     THEN [detect EXCEPT !.pc = "reviews",
                                         !.fresh.type = detect.was.type]
                     ELSE [detect EXCEPT !.pc = "latch", !.fresh = shown]
    /\ UNCHANGED <<now, queue, stored, pr, github, poll, opened>>

NewRun == detect.fresh.run \notin {NoRun, detect.was.run}

LatchEditMutant ==                     \* to be latched by the next poll
    /\ detect.pc = "latch"
    /\ Proceed(CASE detect.fresh.type = "verdict" -> "resolve"
                 [] detect.fresh.type = "review_skipped" ->
                        IF NewRun THEN "adopt" ELSE "skip"
                 [] OTHER -> "reviews")
    /\ UNCHANGED <<now, queue, stored, pr, github, poll, opened>>

LatchEdit ==
    /\ detect.pc = "latch"
    /\ stored' = Upsert(stored, detect.comment, detect.fresh, now)
    /\ Proceed(CASE detect.fresh.type = "verdict" -> "resolve"
                 [] detect.fresh.type = "review_skipped" ->
                        IF NewRun THEN "adopt" ELSE "skip"
                 [] OTHER -> "reviews")
    /\ UNCHANGED <<now, queue, pr, github, poll, opened>>

CloseReviewed(commit) ==
    /\ Resolve("review_completed")
    /\ IF StillRetriggered THEN RecordReview(commit) ELSE UNCHANGED pr
    /\ Done

ResolveEdited ==
    /\ detect.pc = "resolve"
    /\ CloseReviewed(NoHead)
    /\ UNCHANGED <<now, stored, github, poll, opened>>

ResolveSkipped ==
    /\ detect.pc = "skip"
    /\ Resolve("skipped")
    /\ Done
    /\ UNCHANGED <<now, stored, pr, github, poll, opened>>

ReopenOrAdopt ==
    /\ detect.pc = "adopt"
    /\ queue' = IF ShouldReopenStale(detect, detect.pr.head # detect.pr.reviewedHead,
                                     now)
                THEN Attempt(queue, ReopenStaleRetriggered(
                                queue, detect.id, detect.fresh.run, NoTime)).queue
                ELSE AdoptRunIfStillRetriggered(
                        queue, detect.id, detect.run, detect.fresh.run, now)
    /\ Done
    /\ UNCHANGED <<now, stored, pr, github, poll, opened>>

\* isReviewForRun, with a head expected only of a skipped comment.
ReviewForRun(review) ==
    \/ detect.fresh.type = "review_skipped" /\ review.commit = detect.pr.head
    \/ detect.run # NoRun /\ review.run = detect.run
    \/ detect.run = NoRun /\ detect.fresh.type # "review_skipped"

Since == detect.retriggeredAt - Lookback
Accepted == {r \in reviews : r.at > Since /\ ReviewForRun(r)}

FindReview ==
    /\ detect.pc = "reviews"
    /\ \/ /\ Accepted = {}
          /\ IF /\ detect.run = NoRun
                /\ detect.pr.lastReviewAt # NoTime
                /\ detect.pr.lastReviewAt >= Since
             THEN Proceed("lastReview") ELSE Done
       \/ \E r \in Accepted :
            /\ \A other \in Accepted : other.at <= r.at
            /\ detect' = [detect EXCEPT !.pc = "accept", !.commit = r.commit]
    /\ UNCHANGED <<now, queue, stored, pr, github, poll, opened>>

ResolveReviewed ==
    /\ detect.pc = "accept"
    /\ CloseReviewed(detect.commit)
    /\ UNCHANGED <<now, stored, github, poll, opened>>

ResolveByLastReview ==
    /\ detect.pc = "lastReview"
    /\ Resolve("review_completed")
    /\ Done
    /\ UNCHANGED <<now, stored, pr, github, poll, opened>>

DetectFails ==
    /\ Faults /\ detect.pc # "idle"
    /\ Done
    /\ UNCHANGED <<now, queue, stored, pr, github, poll, opened>>

DetectStep ==
    \/ \E i \in ItemIds : StartDetect(i)
    \/ ReadColumns \/ ResolveClosed \/ ReadStored \/ FetchSource \/ LatchEdit
    \/ ResolveEdited \/ ResolveSkipped \/ ReopenOrAdopt \/ FindReview
    \/ ResolveReviewed \/ ResolveByLastReview \/ DetectFails

-----------------------------------------------------------------------------
(* The scheduler, by its writes: a request for an item whose comment asks   *)
(* for one; of an item whose comment no longer does, the end, or the move   *)
(* to a rate-limit comment that does; the sweep.                            *)

Limited == {c \in Posted : comment[c].type = "review_limited"}

Retrigger ==
    /\ \E i \in Pending(queue) :
         /\ Asks(queue[i].comment)
         /\ queue' = MarkRetriggered(queue, i, queue[i].cooldownUntil,
                                     comment[queue[i].comment].run, now)
    /\ UNCHANGED <<now, stored, pr, github, poll, detect, opened>>

ResolveStale ==
    /\ Limited = {}
    /\ \E i \in Pending(queue) :
         /\ ~Asks(queue[i].comment)
         /\ queue' = MarkResolved(queue, i, "stale_comment", now)
    /\ UNCHANGED <<now, stored, pr, github, poll, detect, opened>>

RescheduleItem ==
    /\ \E i \in Pending(queue), c \in Limited :
         /\ ~Asks(queue[i].comment)
         /\ queue' = Reschedule(queue, i, c, comment[c].run, now).queue
    /\ UNCHANGED <<now, stored, pr, github, poll, detect, opened>>

Sweep ==
    /\ queue' = ResolveStaleRetriggered(queue, MaxAge, now)
    /\ UNCHANGED <<now, stored, pr, github, poll, detect, opened>>

-----------------------------------------------------------------------------
(* CodeRabbit, the author, the clock.  GitHub's update times tell the       *)
(* revisions of a comment apart.                                            *)

EditComment ==
    /\ \E c \in Comments, type \in Edits, run \in Runs \cup {NoRun} :
         /\ comment[c].updatedAt < now
         /\ \A d \in Comments : d < c => d \in Posted
         /\ comment' = [comment EXCEPT ![c] = [type |-> type, run |-> run,
                                               updatedAt |-> now]]
    /\ UNCHANGED <<now, queue, stored, pr, reviews, branch, poll, detect, opened>>

SubmitReview ==
    /\ Cardinality(reviews) < MaxReviews
    /\ \E run \in Runs, commit \in 0..branch.head :
         reviews' = reviews \cup {[run |-> run, commit |-> commit, at |-> now]}
    /\ UNCHANGED <<now, queue, stored, pr, comment, branch, poll, detect, opened>>

Push ==
    /\ branch.head < MaxHead
    /\ branch' = [branch EXCEPT !.head = @ + 1]
    /\ UNCHANGED <<now, queue, stored, pr, comment, reviews, poll, detect, opened>>

ChangePr ==
    /\ \E s \in IF branch.state = "open" THEN PrOutcomes ELSE {"open"} :
         /\ branch.state # "merged"
         /\ branch' = [branch EXCEPT !.state = s]
    /\ UNCHANGED <<now, queue, stored, pr, comment, reviews, poll, detect, opened>>

Tick ==
    /\ now < MaxTime
    /\ now' = now + 1
    /\ UNCHANGED <<queue, stored, pr, github, poll, detect, opened>>

Next ==
    \/ PollStep \/ DetectStep
    \/ Retrigger \/ ResolveStale \/ RescheduleItem \/ Sweep
    \/ EditComment \/ SubmitReview \/ Push \/ ChangePr \/ Tick

Spec == Init /\ [][Next]_vars

\* Both intervals go on and each of their awaits ends; the scan interval
\* passes again and again while the pull request is open, and the detector's
\* loop reaches every retriggered item.
FairSpec ==
    /\ Spec
    /\ WF_vars(PollStep) /\ WF_vars(DetectStep)
    /\ SF_vars(ScanPr /\ branch.state = "open")
    /\ \A i \in ItemIds : SF_vars(StartDetect(i))

-----------------------------------------------------------------------------
(* Properties *)

\* A stored comment never goes back to an earlier revision or an earlier
\* sighting, although two services and two listings deliver revisions late
\* (business rule 2-4).
LatchOnlyAdvances ==
    [][\A c \in Comments : /\ stored'[c].updatedAt >= stored[c].updatedAt
                           /\ stored'[c].seenAt >= stored[c].seenAt]_vars

\* An edit the detector is about to act on is already covered by the seen
\* marker, so that no poll after the resolution takes it for a new request
\* (business rules 2-4 and 12-4).
ActedOnIsSeen ==
    detect.pc \in {"resolve", "skip", "adopt"}
    => Seen(detect.comment, detect.fresh.updatedAt)

\* The poll loop opens a row at most once for one revision of a comment, in
\* whichever listing, tick or life of the process it meets it (business rule
\* 12-4).
OpensOncePerRevision ==
    [][/\ poll.pc = "enqueue" /\ poll'.pc # "enqueue"
       /\ ~ (Pending(queue') \subseteq Pending(queue))
       => poll.cur.updatedAt > opened[poll.cur.comment]]_vars

\* The comment's row cannot be opened again, and enqueue throws.
Unopenable(c) ==
    \E i \in OfComment(queue, c, {"resolved"}) : queue[i].resolution \notin Reopenable

Unseen(c) ==
    /\ comment[c].type \notin {"none", "unknown"} /\ branch.state = "open"
    /\ ~Seen(c, comment[c].updatedAt)

\* Every revision of a comment on an open pull request is eventually covered
\* by its seen marker, dismissed or not (business rule 2-4): the scan comes to
\* rest.
SeenIsLatched == \A c \in Comments : Unseen(c) ~> ~Unseen(c)

\* The same, as far as the code goes: unless some row of the pull request was
\* resolved for good and its comment asks again.
SeenIsLatchedOrThrows ==
    \A c \in Comments :
        Unseen(c) ~> ~Unseen(c) \/ \E d \in Comments : Unopenable(d)

ReviewArrived(i) ==
    /\ queue[i].status = "retriggered" /\ queue[i].run # NoRun
    /\ \E r \in reviews : r.run = queue[i].run /\ r.at > queue[i].retriggeredAt - Lookback

\* Once the review of an item's run is submitted, the item does not stay
\* retriggered on that run, whatever the poll loop makes of the comment
\* meanwhile (business rule 6-2).
ReviewEndsItem == \A i \in ItemIds : ReviewArrived(i) ~> ~ReviewArrived(i)
=============================================================================
