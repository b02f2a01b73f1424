------------------------------ MODULE QueueRows ------------------------------
(****************************************************************************)
(* The rows of the review_queue table and what every write of               *)
(* QueueRepository (src/db/queueRepository.ts) does to them.                *)
(*                                                                          *)
(* The module has no variables: a table is a function from row ids to rows, *)
(* and each repository method is an operator from a table to the table its  *)
(* statement leaves.  The modules that own a queue variable (TriggerPipeline*)
(* first) apply them inside the transactions of the code.  A database row   *)
(* that has not been inserted yet has status "absent".                      *)
(*                                                                          *)
(* Left out of a row: the title, the URLs, our own run id, and the          *)
(* bookkeeping columns that no write path reads back.  The                  *)
(* skip counter is kept as one bit (skipped: some skip since the last open).*)
(****************************************************************************)
EXTENDS Integers, FiniteSets

CONSTANTS
    ItemIds,            \* ids of review_queue rows (a bound: rows ever inserted)
    PullRequests,       \* (repo_full_name, pr_number) pairs
    Comments,           \* GitHub comment ids
    Runs,               \* CodeRabbit run ids
    NoRun,              \* source_comment_run_id IS NULL
    Lookback,           \* REVIEW_DETECTION_LOOKBACK_SEC
    ResolvedGuard       \* COMPLETED_GUARD_WINDOW_MS

ASSUME RowAssumption ==
    /\ NoRun \notin Runs
    /\ Lookback \in Nat
    /\ ResolvedGuard \in Nat

NoTime == -1                      \* a DateTime column that IS NULL
Time == Nat
TimeOrNull == Time \cup {NoTime}

Reopenable == {"review_completed", "failed", "skipped"}
Resolutions == Reopenable \cup
    {"stale_comment", "pr_merged", "pr_closed_without_merge", "manual_review"}
ActiveStatuses == {"pending", "retriggered"}

Row == [status        : ActiveStatuses \cup {"resolved", "absent"},
        resolution    : Resolutions \cup {"none"},
        pr            : PullRequests,
        comment       : Comments,
        run           : Runs \cup {NoRun},
        attempts      : Nat,
        skipped       : BOOLEAN,
        createdAt     : TimeOrNull,
        retriggeredAt : TimeOrNull,
        resolvedAt    : TimeOrNull,
        cooldownUntil : TimeOrNull]

Tables == [ItemIds -> Row]

\* What EnqueueService hands to enqueue.  headUnreviewed stands for the
\* comparison of head_sha with reviewed_head_sha on the pull_request row.
Detection == [pr             : PullRequests,
              comment        : Comments,
              type           : {"review_limited", "review_skipped"},
              run            : Runs \cup {NoRun},
              cooldownUntil  : TimeOrNull,
              updatedAt      : Time,
              headUnreviewed : BOOLEAN]

-----------------------------------------------------------------------------
(* The two unique indexes of the table.  A statement that would break one   *)
(* of them throws and its transaction rolls back.                           *)

PendingUnique(q) ==
    \A i, j \in ItemIds :
        /\ q[i].status = "pending"
        /\ q[j].status = "pending"
        /\ q[i].pr = q[j].pr
        => i = j

CommentUnique(q) ==
    \A i, j \in ItemIds :
        /\ q[i].status # "absent"
        /\ q[j].status # "absent"
        /\ q[i].comment = q[j].comment
        => i = j

IndexesHold(q) == PendingUnique(q) /\ CommentUnique(q)

Rows(q) == {i \in ItemIds : q[i].status # "absent"}
Active(q) == {i \in ItemIds : q[i].status \in ActiveStatuses}
Pending(q) == {i \in ItemIds : q[i].status = "pending"}
Retriggered(q) == {i \in ItemIds : q[i].status = "retriggered"}

-----------------------------------------------------------------------------
(* Updates by id.  The unguarded ones write whatever status the row has.    *)

MarkRetriggered(q, i, cooldownUntil, run, t) ==
    [q EXCEPT ![i] = [q[i] EXCEPT
        !.status = "retriggered", !.retriggeredAt = t,
        !.cooldownUntil = cooldownUntil,
        !.run = IF run = NoRun THEN q[i].run ELSE run]]

MarkRetriggerSkipped(q, i) ==
    IF q[i].status = "pending" THEN [q EXCEPT ![i].skipped = TRUE] ELSE q

MarkResolved(q, i, resolution, t) ==
    [q EXCEPT ![i] = [q[i] EXCEPT
        !.status = "resolved", !.resolution = resolution, !.resolvedAt = t]]

\* Without the status guard.
MarkResolvedMutant(q, i, resolution, t) == MarkResolved(q, i, resolution, t)

MarkResolvedIfStillRetriggered(q, i, resolution, t) ==
    IF q[i].status = "retriggered" THEN MarkResolved(q, i, resolution, t) ELSE q

AdoptRunIfStillRetriggered(q, i, expected, run, t) ==
    IF q[i].status = "retriggered" /\ q[i].run = expected
    THEN [q EXCEPT ![i] = [q[i] EXCEPT !.run = run, !.retriggeredAt = t]]
    ELSE q

Backoff(q, i, t) ==
    [q EXCEPT ![i] = [q[i] EXCEPT
        !.status = "retriggered", !.retriggeredAt = t, !.attempts = q[i].attempts + 1]]

IncrementAttempts(q, i, attempts) == [q EXCEPT ![i].attempts = attempts]

ResolveStaleRetriggered(q, maxAge, t) ==
    [i \in ItemIds |->
        IF /\ q[i].status = "retriggered"
           /\ q[i].retriggeredAt # NoTime
           /\ q[i].retriggeredAt < t - maxAge
        THEN [q[i] EXCEPT !.status = "resolved", !.resolution = "failed",
                          !.resolvedAt = t]
        ELSE q[i]]

\* Back to pending, as written by enqueue for a resolved row and by
\* reopenStaleRetriggered for a retriggered one; attempts is not written.
Reopen(q, i, run, cooldownUntil) ==
    [q EXCEPT ![i] = [q[i] EXCEPT
        !.status = "pending", !.resolution = "none", !.resolvedAt = NoTime,
        !.run = run, !.cooldownUntil = cooldownUntil, !.skipped = FALSE]]

ReopenStaleRetriggered(q, i, run, cooldownUntil) ==
    IF q[i].status = "retriggered" THEN Reopen(q, i, run, cooldownUntil) ELSE q

ShouldReopenStale(row, headUnreviewed, t) ==
    /\ headUnreviewed
    /\ row.retriggeredAt # NoTime
    /\ row.retriggeredAt < t - Lookback

-----------------------------------------------------------------------------
(* Methods with more than one outcome: each yields a set of outcomes, a     *)
(* table and whether the call threw (the transaction then keeps the table). *)

Wrote(q) == [queue |-> q, threw |-> FALSE]
Threw(q) == [queue |-> q, threw |-> TRUE]
Attempt(q, next) == IF IndexesHold(next) THEN Wrote(next) ELSE Threw(q)

\* reschedule: the replacement comment may belong to another row already.
Rescheduled(q, i, comment, run, t) ==
    [q EXCEPT ![i] = [q[i] EXCEPT
        !.attempts = q[i].attempts + 1, !.comment = comment, !.run = run,
        !.retriggeredAt = t]]

Reschedule(q, i, comment, run, t) ==
    LET holders == {j \in ItemIds \ {i} : /\ q[j].status # "absent"
                                          /\ q[j].comment = comment}
    IN  IF holders = {} THEN Wrote(Rescheduled(q, i, comment, run, t))
        ELSE IF \E j \in holders : q[j].status = "resolved"
             THEN Wrote(MarkResolved(q, i, "review_completed", t))
             ELSE Threw(q)

-----------------------------------------------------------------------------
(* enqueue: four attempts in order, the first that applies decides.         *)

OfComment(q, c, statuses) ==
    {i \in ItemIds : q[i].status \in statuses /\ q[i].comment = c}

ReopenableRows(q, c) ==
    {i \in OfComment(q, c, {"resolved"}) : q[i].resolution \in Reopenable}

\* A skip comment edited again after the head of the PR moved on.
ReopensStale(q, r, d, t) ==
    d.type = "review_skipped" /\ ShouldReopenStale(q[r], d.headUnreviewed, t)

\* A retriggered row of the PR with the detected comment.
OntoSameComment(q, r, d, t) ==
    IF ReopensStale(q, r, d, t)
    THEN Attempt(q, ReopenStaleRetriggered(q, r, d.run, d.cooldownUntil))
    ELSE IF d.run \notin {NoRun, q[r].run}
         THEN Wrote([q EXCEPT ![r] = [q[r] EXCEPT !.run = d.run, !.retriggeredAt = t]])
         ELSE Wrote(q)

TakeOverMutant(q, j, r, d, t) == Reopen(q, j, d.run, d.cooldownUntil)

TakeOver(q, j, r, d, t) ==
    MarkResolved(Reopen(q, j, d.run, d.cooldownUntil), r, "skipped", t)

\* A retriggered row of the PR with another comment: a reopenable resolved
\* row of the detected comment takes over, or the row recycles in place.
OntoOtherComment(q, r, d, t) ==
    LET conflicting == ReopenableRows(q, d.comment) \ {r}
    IN  IF conflicting = {}
        THEN Attempt(q, [q EXCEPT ![r] = [q[r] EXCEPT
                !.comment = d.comment, !.run = d.run, !.retriggeredAt = t]])
        ELSE LET j == CHOOSE x \in conflicting : TRUE
             IN  IF d.updatedAt > q[j].resolvedAt
                 THEN Attempt(q, TakeOver(q, j, r, d, t))
                 ELSE Wrote(q)

RecentlyResolved(q, d, t) ==
    \E i \in OfComment(q, d.comment, {"resolved"}) :
        /\ q[i].pr = d.pr
        /\ \/ d.cooldownUntil # NoTime /\ t < d.cooldownUntil
           \/ q[i].resolvedAt >= t - ResolvedGuard

NewRow(d, t) ==
    [status |-> "pending", resolution |-> "none", pr |-> d.pr,
     comment |-> d.comment, run |-> d.run, attempts |-> 0, skipped |-> FALSE,
     createdAt |-> t, retriggeredAt |-> NoTime, resolvedAt |-> NoTime,
     cooldownUntil |-> d.cooldownUntil]

InsertConflicts(q, d) ==
    \/ OfComment(q, d.comment, ActiveStatuses \cup {"resolved"}) # {}
    \/ \E i \in Pending(q) : q[i].pr = d.pr

\* The insert failed on a unique index.
OnConflict(q, d) ==
    IF \E i \in Pending(q) : q[i].pr = d.pr THEN Wrote(q)
    ELSE IF ReopenableRows(q, d.comment) = {} THEN Threw(q)
    ELSE LET j == CHOOSE x \in ReopenableRows(q, d.comment) : TRUE
         IN  IF d.updatedAt > q[j].resolvedAt
             THEN Attempt(q, Reopen(q, j, d.run, d.cooldownUntil))
             ELSE Wrote(q)

Inserted(q, d, t) ==
    {Wrote([q EXCEPT ![i] = NewRow(d, t)]) : i \in ItemIds \ Rows(q)}

Enqueue(q, d, t) ==
    LET onPr == {r \in Retriggered(q) : q[r].pr = d.pr}
    IN  IF onPr # {}
        THEN {IF q[r].comment = d.comment THEN OntoSameComment(q, r, d, t)
                                          ELSE OntoOtherComment(q, r, d, t)
              : r \in onPr}
        ELSE IF RecentlyResolved(q, d, t) THEN {Wrote(q)}
        ELSE IF InsertConflicts(q, d) THEN {OnConflict(q, d)}
        ELSE Inserted(q, d, t)
=============================================================================
