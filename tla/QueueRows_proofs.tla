--------------------------- MODULE QueueRows_proofs ---------------------------
(****************************************************************************)
(* What the writes of QueueRepository return, for every table and every     *)
(* value of the constants: the lemmas the proofs about the modules that own *)
(* a queue rest on.                                                         *)
(****************************************************************************)
EXTENDS QueueRows, TLAPS

RunOrNull == Runs \cup {NoRun}

\* Writing a row over one of a table leaves a table.
LEMMA PutRow ==
    ASSUME NEW q \in Tables, NEW i \in ItemIds, NEW r \in Row
    PROVE  [q EXCEPT ![i] = r] \in Tables
BY DEF Tables

\* The fields of a row have the types of their columns.
LEMMA RowOf ==
    ASSUME NEW q \in Tables, NEW i \in ItemIds
    PROVE  q[i] \in Row
BY DEF Tables

\* A null or a moment is a time column.
LEMMA TimeColumns ==
    /\ NoTime \in TimeOrNull
    /\ \A t \in Time : t \in TimeOrNull
BY DEF TimeOrNull

\* A row made pending again is a row of the same comment.
LEMMA PendingRow ==
    ASSUME NEW r \in Row, NEW run \in RunOrNull, NEW cd \in TimeOrNull
    PROVE  [r EXCEPT !.status = "pending", !.resolution = "none",
                     !.resolvedAt = NoTime, !.run = run,
                     !.cooldownUntil = cd, !.skipped = FALSE] \in
           {x \in Row : x.status = "pending" /\ x.pr = r.pr /\ x.comment = r.comment}
<1>1. NoTime \in TimeOrNull /\ "pending" \in ActiveStatuses
  BY TimeColumns DEF ActiveStatuses
<1> DEFINE back == [r EXCEPT !.status = "pending", !.resolution = "none",
                             !.resolvedAt = NoTime, !.run = run,
                             !.cooldownUntil = cd, !.skipped = FALSE]
<1>2. back \in Row
  BY <1>1, ZenonT(30) DEF Row, RunOrNull
<1>3. back.status = "pending" /\ back.pr = r.pr /\ back.comment = r.comment
  BY SMTT(30) DEF Row
<1> QED  BY <1>1, <1>2, <1>3

\* A row that takes over a run is a row, with the status and comment it had.
LEMMA AdoptedRow ==
    ASSUME NEW r \in Row, NEW run \in RunOrNull, NEW t \in Time
    PROVE  [r EXCEPT !.run = run, !.retriggeredAt = t] \in
           {x \in Row : x.status = r.status /\ x.pr = r.pr /\ x.comment = r.comment}
<1>1. t \in TimeOrNull
  BY TimeColumns
<1> DEFINE same == [r EXCEPT !.run = run, !.retriggeredAt = t]
<1>2. same \in Row
  BY <1>1, ZenonT(30) DEF Row, RunOrNull
<1>3. same.status = r.status /\ same.pr = r.pr /\ same.comment = r.comment
  BY SMTT(30) DEF Row
<1> QED  BY <1>2, <1>3

\* A row that takes over a run and a comment is a row.
LEMMA MovedRow ==
    ASSUME NEW r \in Row, NEW comment \in Comments, NEW run \in RunOrNull,
           NEW t \in Time
    PROVE  [r EXCEPT !.comment = comment, !.run = run, !.retriggeredAt = t] \in Row
<1>1. t \in TimeOrNull
  BY TimeColumns
<1> QED  BY <1>1, ZenonT(30) DEF Row, RunOrNull

\* markRetriggered (src/db/queueRepository.ts) returns a table.
LEMMA MarkRetriggeredType ==
    ASSUME NEW q \in Tables, NEW i \in ItemIds, NEW cd \in TimeOrNull,
           NEW run \in RunOrNull, NEW t \in Time
    PROVE  MarkRetriggered(q, i, cd, run, t) \in Tables
<1>1. "retriggered" \in ActiveStatuses
  BY DEF ActiveStatuses
<1>2. q[i] \in Row /\ t \in TimeOrNull
  BY RowOf, TimeColumns
<1> DEFINE kept == IF run = NoRun THEN q[i].run ELSE run
<1>3. kept \in RunOrNull
  BY <1>2 DEF Row, RunOrNull
<1> HIDE DEF kept
<1>4. [q[i] EXCEPT !.status = "retriggered", !.retriggeredAt = t,
                   !.cooldownUntil = cd, !.run = kept] \in Row
  BY <1>1, <1>2, <1>3, ZenonT(30) DEF Row, RunOrNull
<1> QED  BY <1>4, PutRow DEF MarkRetriggered, kept

\* markRetriggerSkipped returns a table.
LEMMA MarkRetriggerSkippedType ==
    ASSUME NEW q \in Tables, NEW i \in ItemIds
    PROVE  MarkRetriggerSkipped(q, i) \in Tables
<1>1. [q[i] EXCEPT !.skipped = TRUE] \in Row
  <2>1. q[i] \in Row
    BY RowOf
  <2> QED  BY <2>1, ZenonT(30) DEF Row
<1>2. [q EXCEPT ![i] = [q[i] EXCEPT !.skipped = TRUE]] \in Tables
  BY <1>1, PutRow
<1> QED  BY <1>2 DEF MarkRetriggerSkipped

\* markResolved returns a table.
LEMMA MarkResolvedType ==
    ASSUME NEW q \in Tables, NEW i \in ItemIds, NEW r \in Resolutions,
           NEW t \in Time
    PROVE  MarkResolved(q, i, r, t) \in Tables
<1>1. [q[i] EXCEPT !.status = "resolved", !.resolution = r,
                   !.resolvedAt = t] \in Row
  <2>1. q[i] \in Row /\ t \in TimeOrNull
    BY RowOf, TimeColumns
  <2> QED  BY <2>1, ZenonT(30) DEF Row
<1> QED  BY <1>1, PutRow DEF MarkResolved

\* The guarded writes of the review detector return a table.
LEMMA MarkResolvedIfStillRetriggeredType ==
    ASSUME NEW q \in Tables, NEW i \in ItemIds, NEW r \in Resolutions,
           NEW t \in Time
    PROVE  MarkResolvedIfStillRetriggered(q, i, r, t) \in Tables
BY MarkResolvedType DEF MarkResolvedIfStillRetriggered

\* Adopting a run leaves a table (adoptRunIfStillRetriggered).
LEMMA AdoptRunType ==
    ASSUME NEW q \in Tables, NEW i \in ItemIds, NEW expected,
           NEW run \in RunOrNull, NEW t \in Time
    PROVE  AdoptRunIfStillRetriggered(q, i, expected, run, t) \in Tables
<1>1. [q[i] EXCEPT !.run = run, !.retriggeredAt = t] \in Row
  BY RowOf, AdoptedRow
<1> QED  BY <1>1, PutRow DEF AdoptRunIfStillRetriggered

\* Reopening a row as pending leaves a table (createQueueRow, tryAdoptRetriggered).
LEMMA ReopenType ==
    ASSUME NEW q \in Tables, NEW i \in ItemIds, NEW run \in RunOrNull,
           NEW cd \in TimeOrNull
    PROVE  Reopen(q, i, run, cd) \in Tables
<1>1. [q[i] EXCEPT !.status = "pending", !.resolution = "none",
                   !.resolvedAt = NoTime, !.run = run,
                   !.cooldownUntil = cd, !.skipped = FALSE] \in Row
  BY RowOf, PendingRow
<1> QED  BY <1>1, PutRow DEF Reopen

\* Reopening a stale retriggered row leaves a table (reopenStaleRetriggered).
LEMMA ReopenStaleType ==
    ASSUME NEW q \in Tables, NEW i \in ItemIds, NEW run \in RunOrNull,
           NEW cd \in TimeOrNull
    PROVE  ReopenStaleRetriggered(q, i, run, cd) \in Tables
BY ReopenType DEF ReopenStaleRetriggered

\* backoff and incrementAttempts return a table.
LEMMA BackoffType ==
    ASSUME NEW q \in Tables, NEW i \in ItemIds, NEW t \in Time
    PROVE  Backoff(q, i, t) \in Tables
<1>1. "retriggered" \in ActiveStatuses
  BY DEF ActiveStatuses
<1>2. q[i].attempts + 1 \in Nat
  BY RowOf DEF Row
<1>3. [q[i] EXCEPT !.status = "retriggered", !.retriggeredAt = t,
                   !.attempts = q[i].attempts + 1] \in Row
  <2>1. q[i] \in Row /\ t \in TimeOrNull
    BY RowOf, TimeColumns
  <2> QED  BY <1>1, <1>2, <2>1, ZenonT(30) DEF Row
<1> QED  BY <1>3, PutRow DEF Backoff

\* Writing a count of attempts leaves a table (incrementAttempts).
LEMMA IncrementAttemptsType ==
    ASSUME NEW q \in Tables, NEW i \in ItemIds, NEW n \in Nat
    PROVE  IncrementAttempts(q, i, n) \in Tables
<1>1. [q EXCEPT ![i] = [q[i] EXCEPT !.attempts = n]] \in Tables
  <2>1. [q[i] EXCEPT !.attempts = n] \in Row
    <3>1. q[i] \in Row
      BY RowOf
    <3> QED  BY <3>1, ZenonT(30) DEF Row
  <2> QED  BY <2>1, PutRow
<1> QED  BY <1>1 DEF IncrementAttempts

\* resolveStaleRetriggered returns a table.
LEMMA ResolveStaleRetriggeredType ==
    ASSUME NEW q \in Tables, NEW age \in Nat, NEW t \in Time
    PROVE  ResolveStaleRetriggered(q, age, t) \in Tables
<1>1. "failed" \in Resolutions
  BY DEF Resolutions, Reopenable
<1>2. ASSUME NEW i \in ItemIds
      PROVE  [q[i] EXCEPT !.status = "resolved", !.resolution = "failed",
                          !.resolvedAt = t] \in Row
  <2>1. q[i] \in Row /\ t \in TimeOrNull
    BY <1>2, RowOf, TimeColumns
  <2> QED  BY <1>1, <2>1, ZenonT(30) DEF Row
<1> QED  BY <1>2, RowOf DEF ResolveStaleRetriggered, Tables

\* An attempt returns one of the two tables it is given.
LEMMA AttemptType ==
    ASSUME NEW q \in Tables, NEW next \in Tables
    PROVE  Attempt(q, next).queue \in Tables
BY DEF Attempt, Wrote, Threw

\* reschedule returns a table, thrown or not.
LEMMA RescheduleType ==
    ASSUME NEW q \in Tables, NEW i \in ItemIds, NEW comment \in Comments,
           NEW run \in RunOrNull, NEW t \in Time
    PROVE  Reschedule(q, i, comment, run, t).queue \in Tables
<1>1. Rescheduled(q, i, comment, run, t) \in Tables
  <2>1. q[i].attempts + 1 \in Nat
    BY RowOf DEF Row
  <2>2. [q[i] EXCEPT !.attempts = q[i].attempts + 1, !.comment = comment,
                     !.run = run, !.retriggeredAt = t] \in Row
    <3>1. q[i] \in Row /\ t \in TimeOrNull
      BY RowOf, TimeColumns
    <3> QED  BY <2>1, <3>1, ZenonT(30) DEF Row, RunOrNull
  <2> QED  BY <2>2, PutRow DEF Rescheduled
<1>2. MarkResolved(q, i, "review_completed", t) \in Tables
  BY MarkResolvedType DEF Resolutions, Reopenable
<1> QED  BY <1>1, <1>2 DEF Reschedule, Wrote, Threw

\* A retriggered row met by its own comment again: reopened, adopted or kept.
LEMMA OntoSameCommentType ==
    ASSUME NEW q \in Tables, NEW r \in ItemIds, NEW d \in Detection,
           NEW t \in Time
    PROVE  OntoSameComment(q, r, d, t).queue \in Tables
<1> d.run \in RunOrNull /\ d.cooldownUntil \in TimeOrNull
  BY DEF Detection, RunOrNull
<1>1. Attempt(q, ReopenStaleRetriggered(q, r, d.run, d.cooldownUntil)).queue
        \in Tables
  BY ReopenStaleType, AttemptType
<1>2. [q EXCEPT ![r] = [q[r] EXCEPT !.run = d.run, !.retriggeredAt = t]]
        \in Tables
  <2>1. [q[r] EXCEPT !.run = d.run, !.retriggeredAt = t] \in Row
    <3>1. q[r] \in Row
      BY RowOf
    <3> QED  BY <3>1, AdoptedRow
  <2> QED  BY <2>1, PutRow
<1> QED  BY <1>1, <1>2 DEF OntoSameComment, Wrote

\* A retriggered row met by another comment: taken over, recycled or kept.
LEMMA OntoOtherCommentType ==
    ASSUME NEW q \in Tables, NEW r \in ItemIds, NEW d \in Detection,
           NEW t \in Time
    PROVE  OntoOtherComment(q, r, d, t).queue \in Tables
<1> DEFINE conflicting == ReopenableRows(q, d.comment) \ {r}
           j == CHOOSE x \in conflicting : TRUE
<1> d.run \in RunOrNull /\ d.cooldownUntil \in TimeOrNull /\ d.comment \in Comments
  BY DEF Detection, RunOrNull
<1>1. CASE conflicting = {}
  <2>1. [q[r] EXCEPT !.comment = d.comment, !.run = d.run,
                     !.retriggeredAt = t] \in Row
    <3>1. q[r] \in Row
      BY RowOf
    <3> QED  BY <3>1, MovedRow
  <2> QED  BY <1>1, <2>1, PutRow, AttemptType DEF OntoOtherComment
<1>2. CASE conflicting # {}
  <2>1. j \in ItemIds
    BY <1>2 DEF ReopenableRows, OfComment
  <2>2. TakeOver(q, j, r, d, t) \in Tables
    BY <2>1, ReopenType, MarkResolvedType DEF TakeOver, Resolutions, Reopenable
  <2>3. Attempt(q, TakeOver(q, j, r, d, t)).queue \in Tables
    BY <2>2, AttemptType
  <2> QED  BY <1>2, <2>3 DEF OntoOtherComment, Wrote
<1> QED  BY <1>1, <1>2

\* enqueue returns a table whichever of its attempts decides.
LEMMA EnqueueType ==
    ASSUME NEW q \in Tables, NEW d \in Detection, NEW t \in Time,
           NEW outcome \in Enqueue(q, d, t)
    PROVE  outcome.queue \in Tables
<1> d.run \in RunOrNull /\ d.cooldownUntil \in TimeOrNull
      /\ d.comment \in Comments /\ d.pr \in PullRequests
  BY DEF Detection, RunOrNull
<1> DEFINE onPr == {r \in Retriggered(q) : q[r].pr = d.pr}
<1>1. CASE onPr # {}
  <2>1. PICK r \in onPr :
            outcome = IF q[r].comment = d.comment
                      THEN OntoSameComment(q, r, d, t)
                      ELSE OntoOtherComment(q, r, d, t)
    BY <1>1 DEF Enqueue
  <2>2. r \in ItemIds
    BY DEF Retriggered
  <2> QED  BY <2>1, <2>2, OntoSameCommentType, OntoOtherCommentType
<1>2. CASE onPr = {} /\ RecentlyResolved(q, d, t)
  BY <1>2 DEF Enqueue, Wrote
<1>3. CASE onPr = {} /\ ~RecentlyResolved(q, d, t) /\ InsertConflicts(q, d)
  <2>1. outcome = OnConflict(q, d)
    BY <1>3 DEF Enqueue
  <2> DEFINE j == CHOOSE x \in ReopenableRows(q, d.comment) : TRUE
  <2>2. ASSUME ReopenableRows(q, d.comment) # {}
        PROVE  Attempt(q, Reopen(q, j, d.run, d.cooldownUntil)).queue \in Tables
    <3>1. j \in ItemIds
      BY <2>2 DEF ReopenableRows, OfComment
    <3> QED  BY <3>1, ReopenType, AttemptType
  <2> QED  BY <2>1, <2>2 DEF OnConflict, Wrote, Threw
<1>4. CASE onPr = {} /\ ~RecentlyResolved(q, d, t) /\ ~InsertConflicts(q, d)
  <2>1. PICK i \in ItemIds \ Rows(q) :
            outcome = Wrote([q EXCEPT ![i] = NewRow(d, t)])
    BY <1>4 DEF Enqueue, Inserted
  <2>2. NewRow(d, t) \in Row
    BY TimeColumns DEF NewRow, Row, RunOrNull, ActiveStatuses
  <2> QED  BY <2>1, <2>2, PutRow DEF Wrote
<1> QED  BY <1>1, <1>2, <1>3, <1>4

-----------------------------------------------------------------------------
(* One active item per pull request, and what a write may do to the rows    *)
(* of others.                                                               *)

OneActive(q) == \A i, j \in Active(q) : q[i].pr = q[j].pr => i = j

\* A row belongs to the pull request its comment was written on.
Belongs(q, prOf) == \A i \in Rows(q) : q[i].pr = prOf[q[i].comment]

\* A row stays with its pull request, and once resolved it is not retriggered.
MayBecome(old, new) ==
    old.status # "absent" =>
        /\ new.status # "absent" /\ new.pr = old.pr
        /\ old.status = "resolved" => new.status # "retriggered"

Orderly(q, n) == \A i \in ItemIds : MayBecome(q[i], n[i])

\* A write that knows nothing of the scheduler leaves its candidates alone.
KeepsPending(q, n) == \A i \in ItemIds : q[i].status = "pending" => n[i].status = "pending"

\* A row written that was active, or whose pull request has no other active
\* row, leaves one active row per pull request.
LEMMA PutOneActive ==
    ASSUME NEW q \in Tables, NEW i \in ItemIds, NEW r \in Row, OneActive(q),
           r.status \in ActiveStatuses =>
               \/ i \in Active(q) /\ r.pr = q[i].pr
               \/ \A j \in Active(q) \ {i} : q[j].pr # r.pr
    PROVE  OneActive([q EXCEPT ![i] = r])
<1> DEFINE n == [q EXCEPT ![i] = r]
<1>1. \A k \in ItemIds : n[k] = IF k = i THEN r ELSE q[k]
  BY DEF Tables
<1> HIDE DEF n
<1>2. ASSUME NEW j \in Active(n), NEW k \in Active(n), n[j].pr = n[k].pr PROVE j = k
  <2>1. j \in ItemIds /\ k \in ItemIds /\ n[j].status \in ActiveStatuses
          /\ n[k].status \in ActiveStatuses
    BY DEF Active
  <2>2. CASE j # i /\ k # i
    BY <1>1, <1>2, <2>1, <2>2 DEF OneActive, Active
  <2>3. CASE j = i /\ k # i
    BY <1>1, <1>2, <2>1, <2>3 DEF OneActive, Active
  <2>4. CASE j # i /\ k = i
    BY <1>1, <1>2, <2>1, <2>4 DEF OneActive, Active
  <2> QED  BY <2>2, <2>3, <2>4
<1>3. OneActive(n)
  BY <1>2 DEF OneActive
<1> QED  BY <1>3 DEF n

\* Every other fact about a write of one row.
LEMMA PutRest ==
    ASSUME NEW q \in Tables, NEW i \in ItemIds, NEW r \in Row, NEW prOf,
           Belongs(q, prOf), r.pr = prOf[r.comment], MayBecome(q[i], r),
           q[i].status = "pending" => r.status = "pending"
    PROVE  LET n == [q EXCEPT ![i] = r]
           IN  Belongs(n, prOf) /\ Orderly(q, n) /\ KeepsPending(q, n)
<1> DEFINE n == [q EXCEPT ![i] = r]
<1>1. \A k \in ItemIds : n[k] = IF k = i THEN r ELSE q[k]
  BY DEF Tables
<1> HIDE DEF n
<1>2. Belongs(n, prOf)
  BY <1>1 DEF Belongs, Rows
<1>3. Orderly(q, n)
  BY <1>1 DEF Orderly, MayBecome
<1>4. KeepsPending(q, n)
  BY <1>1 DEF KeepsPending
<1> QED  BY <1>2, <1>3, <1>4 DEF n

\* A table left as it is.
LEMMA KeepSteady ==
    ASSUME NEW q \in Tables
    PROVE  Orderly(q, q) /\ KeepsPending(q, q)
BY DEF Orderly, MayBecome, KeepsPending

\* Rewriting an active row as an active row, be it reopened, recycled for
\* another comment of the pull request or given another run.
LEMMA Recycled ==
    ASSUME NEW q \in Tables, NEW i \in Active(q), NEW r \in Row, NEW prOf,
           OneActive(q), Belongs(q, prOf), r.status \in ActiveStatuses,
           r.pr = q[i].pr, r.pr = prOf[r.comment],
           q[i].status = "pending" => r.status = "pending"
    PROVE  LET n == [q EXCEPT ![i] = r]
           IN  OneActive(n) /\ Belongs(n, prOf) /\ Orderly(q, n) /\ KeepsPending(q, n)
<1>1. i \in ItemIds /\ MayBecome(q[i], r)
  BY DEF Active, ActiveStatuses, MayBecome
<1> QED  BY <1>1, PutOneActive, PutRest

\* Putting a row back, or inserting one, where its pull request has none active.
LEMMA Opened ==
    ASSUME NEW q \in Tables, NEW i \in ItemIds \ Active(q), NEW r \in Row, NEW prOf,
           OneActive(q), Belongs(q, prOf), r.status = "pending",
           r.pr = prOf[r.comment], i \in Rows(q) => r.pr = q[i].pr,
           \A j \in Active(q) : q[j].pr # r.pr
    PROVE  LET n == [q EXCEPT ![i] = r]
           IN  OneActive(n) /\ Belongs(n, prOf) /\ Orderly(q, n) /\ KeepsPending(q, n)
<1>1. MayBecome(q[i], r)
  BY DEF Rows, MayBecome
<1> QED  BY <1>1, PutOneActive, PutRest

\* A conflicting row takes over from the retriggered one (tryAdoptRetriggered):
\* one leaves in the statement after the other has come back, and both are of
\* one pull request, since they are of its comments.
LEMMA TakeOverSteady ==
    ASSUME NEW q \in Tables, NEW d \in Detection, NEW t \in Time, NEW prOf,
           NEW r \in ItemIds, NEW j \in ItemIds, j # r,
           OneActive(q), Belongs(q, prOf), q[r].status = "retriggered", q[r].pr = d.pr,
           q[j].status = "resolved", q[j].comment = d.comment, d.pr = prOf[d.comment]
    PROVE  LET n == TakeOver(q, j, r, d, t)
           IN  OneActive(n) /\ Belongs(n, prOf) /\ Orderly(q, n) /\ KeepsPending(q, n)
<1> DEFINE left == [q[r] EXCEPT !.status = "resolved", !.resolution = "skipped", !.resolvedAt = t]
           back == [q[j] EXCEPT !.status = "pending", !.resolution = "none", !.resolvedAt = NoTime,
                                !.run = d.run, !.cooldownUntil = d.cooldownUntil, !.skipped = FALSE]
           n == TakeOver(q, j, r, d, t)
<1>1. n \in Tables
  BY ReopenType, MarkResolvedType DEF TakeOver, Resolutions, Reopenable, Detection, RunOrNull
<1>2. \A k \in ItemIds : n[k] = IF k = r THEN left ELSE IF k = j THEN back ELSE q[k]
  BY DEF TakeOver, Reopen, MarkResolved, Tables
<1>3. /\ left.status = "resolved" /\ left.pr = q[r].pr /\ left.comment = q[r].comment
      /\ back.status = "pending" /\ back.pr = q[j].pr /\ back.comment = q[j].comment
  BY RowOf DEF Row
<1>4. q[j].pr = q[r].pr
  BY DEF Belongs, Rows
<1> HIDE DEF n, left, back
<1>5. OneActive(n)
  <2> SUFFICES ASSUME NEW k \in Active(n), NEW m \in Active(n), n[k].pr = n[m].pr PROVE k = m
    BY DEF OneActive
  <2>1. k \in ItemIds /\ m \in ItemIds /\ k # r /\ m # r
    BY <1>2, <1>3 DEF Active, ActiveStatuses
  <2>2. r \in Active(q)
    BY DEF Active, ActiveStatuses
  <2>3. \A x \in ItemIds \ {r, j} : x \in Active(n) => x \in Active(q) /\ n[x].pr = q[x].pr
    BY <1>2 DEF Active
  <2> QED  BY <1>2, <1>3, <1>4, <2>1, <2>2, <2>3 DEF OneActive
<1>6. Belongs(n, prOf)
  BY <1>2, <1>3 DEF Belongs, Rows
<1>7. Orderly(q, n) /\ KeepsPending(q, n)
  BY <1>2, <1>3 DEF Orderly, KeepsPending, MayBecome
<1> QED  BY <1>5, <1>6, <1>7 DEF n

\* A statement that throws leaves the table as it was.
LEMMA AttemptSteady ==
    ASSUME NEW q \in Tables, NEW n, NEW prOf, OneActive(q), Belongs(q, prOf),
           OneActive(n) /\ Belongs(n, prOf) /\ Orderly(q, n) /\ KeepsPending(q, n)
    PROVE  LET a == Attempt(q, n).queue
           IN  OneActive(a) /\ Belongs(a, prOf) /\ Orderly(q, a) /\ KeepsPending(q, a)
BY KeepSteady DEF Attempt, Wrote, Threw

\* Whichever of its attempts decides, enqueue leaves one active row per pull
\* request, and neither retriggers a resolved row nor touches a pending one.
LEMMA EnqueueSteady ==
    ASSUME NEW q \in Tables, NEW d \in Detection, NEW t \in Time, NEW prOf,
           OneActive(q), Belongs(q, prOf), d.pr = prOf[d.comment],
           NEW outcome \in Enqueue(q, d, t)
    PROVE  LET n == outcome.queue
           IN  OneActive(n) /\ Belongs(n, prOf) /\ Orderly(q, n) /\ KeepsPending(q, n)
<1> DEFINE Steady(n) == OneActive(n) /\ Belongs(n, prOf) /\ Orderly(q, n) /\ KeepsPending(q, n)
           onPr == {r \in Retriggered(q) : q[r].pr = d.pr}
<1>0. /\ d.run \in RunOrNull /\ d.cooldownUntil \in TimeOrNull
      /\ d.comment \in Comments /\ d.pr \in PullRequests
  BY DEF Detection, RunOrNull
<1>1. Steady(q)
  BY KeepSteady
<1>2. ASSUME NEW n, Steady(n) PROVE Steady(Attempt(q, n).queue)
  BY <1>2, AttemptSteady
<1>3. ASSUME NEW r \in onPr PROVE Steady(OntoSameComment(q, r, d, t).queue)
  <2>1. /\ r \in Active(q) /\ r \in ItemIds /\ q[r].status = "retriggered"
        /\ q[r].pr = prOf[q[r].comment]
    BY DEF Retriggered, Active, ActiveStatuses, Belongs, Rows
  <2>2. Steady(ReopenStaleRetriggered(q, r, d.run, d.cooldownUntil))
    <3> DEFINE back == [q[r] EXCEPT !.status = "pending", !.resolution = "none",
                            !.resolvedAt = NoTime, !.run = d.run,
                            !.cooldownUntil = d.cooldownUntil, !.skipped = FALSE]
    <3>1. /\ back \in Row /\ back.status \in ActiveStatuses
          /\ back.pr = q[r].pr /\ back.comment = q[r].comment
      <4>1. q[r] \in Row
        BY <2>1, RowOf
      <4>2. back \in {x \in Row : x.status = "pending" /\ x.pr = q[r].pr
                                  /\ x.comment = q[r].comment}
        BY <1>0, <4>1, PendingRow
      <4> HIDE DEF back
      <4> QED  BY <4>2 DEF ActiveStatuses
    <3>2. ReopenStaleRetriggered(q, r, d.run, d.cooldownUntil) = [q EXCEPT ![r] = back]
      BY <2>1 DEF ReopenStaleRetriggered, Reopen
    <3> HIDE DEF back
    <3> QED  BY <2>1, <3>1, <3>2, Recycled
  <2>3. Steady([q EXCEPT ![r] = [q[r] EXCEPT !.run = d.run, !.retriggeredAt = t]])
    <3> DEFINE same == [q[r] EXCEPT !.run = d.run, !.retriggeredAt = t]
    <3>1. /\ same \in Row /\ same.status = q[r].status
          /\ same.pr = q[r].pr /\ same.comment = q[r].comment
      <4>1. q[r] \in Row
        BY <2>1, RowOf
      <4>2. same \in {x \in Row : x.status = q[r].status /\ x.pr = q[r].pr
                                  /\ x.comment = q[r].comment}
        BY <1>0, <4>1, AdoptedRow
      <4> HIDE DEF same
      <4> QED  BY <4>2
    <3>2. same.status \in ActiveStatuses
      BY <2>1, <3>1 DEF ActiveStatuses
    <3> HIDE DEF same
    <3>3. Steady([q EXCEPT ![r] = same])
      BY <2>1, <3>1, <3>2, Recycled
    <3> QED  BY <3>3 DEF same
  <2>4. Steady(Attempt(q, ReopenStaleRetriggered(q, r, d.run, d.cooldownUntil)).queue)
    BY <1>2, <2>2
  <2> HIDE DEF Steady
  <2> QED  BY <1>1, <2>3, <2>4 DEF OntoSameComment, Wrote
<1>4. ASSUME NEW r \in onPr PROVE Steady(OntoOtherComment(q, r, d, t).queue)
  <2> DEFINE conflicting == ReopenableRows(q, d.comment) \ {r}
             j == CHOOSE x \in conflicting : TRUE
  <2>1. r \in Active(q) /\ r \in ItemIds /\ q[r].status = "retriggered" /\ q[r].pr = d.pr
    BY DEF Retriggered, Active, ActiveStatuses
  <2>2. CASE conflicting = {}
    <3> DEFINE moved == [q[r] EXCEPT !.comment = d.comment, !.run = d.run, !.retriggeredAt = t]
    <3>1. /\ moved \in Row /\ moved.status = q[r].status
          /\ moved.pr = q[r].pr /\ moved.comment = d.comment
      <4>1. q[r] \in Row
        BY <2>1, RowOf
      <4>2. moved \in Row
        BY <1>0, <4>1, MovedRow
      <4>3. moved.status = q[r].status /\ moved.pr = q[r].pr /\ moved.comment = d.comment
        BY <4>1 DEF Row
      <4> QED  BY <4>2, <4>3
    <3>2. moved.status \in ActiveStatuses
      BY <2>1, <3>1 DEF ActiveStatuses
    <3> HIDE DEF moved
    <3>3. Steady([q EXCEPT ![r] = moved])
      BY <2>1, <3>1, <3>2, Recycled
    <3>4. OntoOtherComment(q, r, d, t) = Attempt(q, [q EXCEPT ![r] = moved])
      BY <2>2 DEF OntoOtherComment, moved
    <3> HIDE DEF Steady
    <3> QED  BY <1>2, <3>3, <3>4
  <2>3. CASE conflicting # {}
    <3>1. j \in ItemIds /\ j # r /\ q[j].status = "resolved" /\ q[j].comment = d.comment
      BY <2>3 DEF ReopenableRows, OfComment
    <3>2. OntoOtherComment(q, r, d, t) = IF d.updatedAt > q[j].resolvedAt
                                         THEN Attempt(q, TakeOver(q, j, r, d, t))
                                         ELSE Wrote(q)
      BY <2>3 DEF OntoOtherComment
    <3> HIDE DEF conflicting, j
    <3>3. Steady(TakeOver(q, j, r, d, t))
      BY <2>1, <3>1, TakeOverSteady
    <3>4. Steady(Attempt(q, TakeOver(q, j, r, d, t)).queue)
      BY <1>2, <3>3
    <3> HIDE DEF Steady
    <3> QED  BY <1>1, <3>2, <3>4 DEF Wrote
  <2> QED  BY <2>2, <2>3
<1>5. ASSUME onPr = {}, ~ \E i \in Pending(q) : q[i].pr = d.pr
      PROVE  \A j \in Active(q) : q[j].pr # d.pr
  BY <1>5 DEF Active, ActiveStatuses, Pending, Retriggered
<1>6. ASSUME onPr = {} PROVE Steady(OnConflict(q, d).queue)
  <2> DEFINE j == CHOOSE x \in ReopenableRows(q, d.comment) : TRUE
             back == [q[j] EXCEPT !.status = "pending", !.resolution = "none",
                          !.resolvedAt = NoTime, !.run = d.run,
                          !.cooldownUntil = d.cooldownUntil, !.skipped = FALSE]
  <2>1. ASSUME ReopenableRows(q, d.comment) # {}, ~ \E i \in Pending(q) : q[i].pr = d.pr
        PROVE  Steady(Attempt(q, Reopen(q, j, d.run, d.cooldownUntil)).queue)
    <3>1. j \in ItemIds /\ q[j].status = "resolved" /\ q[j].comment = d.comment
      BY <2>1 DEF ReopenableRows, OfComment
    <3>2. j \in ItemIds \ Active(q) /\ q[j].pr = d.pr
      BY <3>1 DEF Active, ActiveStatuses, Belongs, Rows
    <3> HIDE DEF j
    <3>3. /\ back \in Row /\ back.status = "pending"
          /\ back.pr = q[j].pr /\ back.comment = q[j].comment
      <4>1. q[j] \in Row
        BY <3>1, RowOf
      <4>2. back \in {x \in Row : x.status = "pending" /\ x.pr = q[j].pr
                                  /\ x.comment = q[j].comment}
        BY <1>0, <4>1, PendingRow
      <4> HIDE DEF back
      <4> QED  BY <4>2
    <3>4. Reopen(q, j, d.run, d.cooldownUntil) = [q EXCEPT ![j] = back]
      BY DEF Reopen
    <3> HIDE DEF back
    <3>5. Steady(Reopen(q, j, d.run, d.cooldownUntil))
      BY <1>5, <1>6, <2>1, <3>1, <3>2, <3>3, <3>4, Opened
    <3> HIDE DEF Steady
    <3> QED  BY <1>2, <3>5
  <2> HIDE DEF Steady, j
  <2>2. \/ OnConflict(q, d).queue = q
        \/ /\ ReopenableRows(q, d.comment) # {} /\ ~ \E i \in Pending(q) : q[i].pr = d.pr
           /\ OnConflict(q, d) = Attempt(q, Reopen(q, j, d.run, d.cooldownUntil))
    BY DEF OnConflict, Wrote, Threw, j
  <2> QED  BY <1>1, <2>1, <2>2
<1>7. ASSUME onPr = {}, ~InsertConflicts(q, d), outcome \in Inserted(q, d, t)
      PROVE  Steady(outcome.queue)
  <2>1. PICK i \in ItemIds \ Rows(q) : outcome = Wrote([q EXCEPT ![i] = NewRow(d, t)])
    BY <1>7 DEF Inserted
  <2>2. i \in ItemIds \ Active(q)
    BY <2>1 DEF Active, ActiveStatuses, Rows
  <2>3. NewRow(d, t) \in Row
    BY <1>0, TimeColumns DEF NewRow, Row, RunOrNull, ActiveStatuses
  <2>4. /\ NewRow(d, t).status = "pending" /\ NewRow(d, t).pr = d.pr
        /\ NewRow(d, t).comment = d.comment
    BY DEF NewRow
  <2>5. ~ \E k \in Pending(q) : q[k].pr = d.pr
    BY <1>7 DEF InsertConflicts
  <2>6. Steady([q EXCEPT ![i] = NewRow(d, t)])
    BY <1>5, <1>7, <2>2, <2>3, <2>4, <2>5, Opened
  <2> HIDE DEF Steady
  <2> QED  BY <2>1, <2>6 DEF Wrote
<1> HIDE DEF Steady
<1>8. \/ \E r \in onPr : \/ outcome = OntoSameComment(q, r, d, t)
                         \/ outcome = OntoOtherComment(q, r, d, t)
      \/ outcome.queue = q
      \/ onPr = {} /\ outcome = OnConflict(q, d)
      \/ onPr = {} /\ ~InsertConflicts(q, d) /\ outcome \in Inserted(q, d, t)
  BY DEF Enqueue, Wrote
<1>9. Steady(outcome.queue)
  BY <1>1, <1>3, <1>4, <1>6, <1>7, <1>8
<1> QED  BY <1>9 DEF Steady

\* Resolving a row leaves the others alone.
LEMMA MarkResolvedSteady ==
    ASSUME NEW q \in Tables, NEW i \in Rows(q), NEW resolution \in Resolutions,
           NEW t \in Time, NEW prOf, OneActive(q), Belongs(q, prOf)
    PROVE  LET n == MarkResolved(q, i, resolution, t)
           IN  /\ OneActive(n) /\ Belongs(n, prOf) /\ Orderly(q, n)
               /\ \A k \in ItemIds \ {i} : n[k] = q[k]
<1> DEFINE r == [q[i] EXCEPT !.status = "resolved", !.resolution = resolution, !.resolvedAt = t]
           n == [q EXCEPT ![i] = r]
<1>1. i \in ItemIds /\ q[i].status # "absent" /\ q[i] \in Row
  BY RowOf DEF Rows
<1>2. /\ r \in Row /\ r.status = "resolved"
      /\ r.pr = q[i].pr /\ r.comment = q[i].comment
  BY <1>1, TimeColumns DEF Row
<1>3. n = MarkResolved(q, i, resolution, t)
  BY DEF MarkResolved
<1> HIDE DEF r
<1>4. OneActive(n)
  BY <1>1, <1>2, PutOneActive DEF ActiveStatuses
<1>5. \A k \in ItemIds : n[k] = IF k = i THEN r ELSE q[k]
  BY DEF Tables
<1> HIDE DEF n
<1>6. Belongs(n, prOf)
  BY <1>1, <1>2, <1>5 DEF Belongs, Rows
<1>7. Orderly(q, n)
  BY <1>1, <1>2, <1>5 DEF Orderly, MayBecome
<1> QED  BY <1>3, <1>4, <1>5, <1>6, <1>7

\* A pending row becomes a retriggered one and leaves the others alone.
LEMMA RetriggeredSteady ==
    ASSUME NEW q \in Tables, NEW i \in Pending(q), NEW r \in Row, NEW prOf,
           OneActive(q), Belongs(q, prOf), r.status = "retriggered",
           r.pr = q[i].pr, r.comment = q[i].comment
    PROVE  LET n == [q EXCEPT ![i] = r]
           IN  OneActive(n) /\ Belongs(n, prOf) /\ Orderly(q, n)
<1> DEFINE n == [q EXCEPT ![i] = r]
<1>1. i \in ItemIds /\ i \in Active(q) /\ q[i].status = "pending"
  BY DEF Pending, Active, ActiveStatuses
<1>2. OneActive(n)
  BY <1>1, PutOneActive
<1>3. \A k \in ItemIds : n[k] = IF k = i THEN r ELSE q[k]
  BY DEF Tables
<1> HIDE DEF n
<1>4. Belongs(n, prOf) /\ Orderly(q, n)
  BY <1>1, <1>3 DEF Belongs, Rows, Orderly, MayBecome
<1> QED  BY <1>2, <1>4 DEF n

\* A write that changes neither status, resolution, comment nor pull request.
LEMMA TouchSteady ==
    ASSUME NEW q \in Tables, NEW i \in Rows(q), NEW r \in Row, NEW prOf,
           OneActive(q), Belongs(q, prOf), r.status = q[i].status,
           r.pr = q[i].pr, r.comment = q[i].comment
    PROVE  LET n == [q EXCEPT ![i] = r]
           IN  OneActive(n) /\ Belongs(n, prOf) /\ Orderly(q, n) /\ KeepsPending(q, n)
<1>1. i \in ItemIds /\ r.pr = prOf[r.comment]
  BY DEF Rows, Belongs
<1>2. MayBecome(q[i], r)
  BY <1>1 DEF Rows, MayBecome
<1>3. r.status \in ActiveStatuses => i \in Active(q)
  BY <1>1 DEF Active
<1> QED  BY <1>1, <1>2, <1>3, PutOneActive, PutRest

\* The sweep resolves retriggered rows only.
LEMMA SweepSteady ==
    ASSUME NEW q \in Tables, NEW age, NEW t, NEW prOf, OneActive(q), Belongs(q, prOf)
    PROVE  LET n == ResolveStaleRetriggered(q, age, t)
           IN  OneActive(n) /\ Belongs(n, prOf) /\ Orderly(q, n)
<1> DEFINE n == ResolveStaleRetriggered(q, age, t)
<1>1. \A i \in ItemIds :
        /\ n[i].pr = q[i].pr /\ n[i].comment = q[i].comment
        /\ n[i] = q[i] \/ (q[i].status = "retriggered" /\ n[i].status = "resolved")
  <2> SUFFICES ASSUME NEW i \in ItemIds
               PROVE  /\ n[i].pr = q[i].pr /\ n[i].comment = q[i].comment
                      /\ n[i] = q[i] \/ (q[i].status = "retriggered" /\ n[i].status = "resolved")
    OBVIOUS
  <2> DEFINE swept == [q[i] EXCEPT !.status = "resolved", !.resolution = "failed", !.resolvedAt = t]
  <2>1. n[i] = q[i] \/ (q[i].status = "retriggered" /\ n[i] = swept)
    BY DEF ResolveStaleRetriggered
  <2>2. swept.pr = q[i].pr /\ swept.comment = q[i].comment /\ swept.status = "resolved"
    BY RowOf DEF Row
  <2> HIDE DEF n, swept
  <2> QED  BY <2>1, <2>2
<1> HIDE DEF n
<1>2. \A i \in Active(n) : i \in Active(q) /\ n[i].pr = q[i].pr
  BY <1>1 DEF Active, ActiveStatuses
<1>3. OneActive(n)
  BY <1>2 DEF OneActive
<1>4. Belongs(n, prOf)
  BY <1>1 DEF Belongs, Rows
<1>5. Orderly(q, n)
  BY <1>1 DEF Orderly, MayBecome
<1> QED  BY <1>3, <1>4, <1>5 DEF n

\* A reschedule of a pending row onto another comment of its pull request: the
\* row stays pending, or leaves when a resolved row has the comment.
LEMMA RescheduleSteady ==
    ASSUME NEW q \in Tables, NEW i \in Pending(q), NEW comment \in Comments,
           NEW run \in RunOrNull, NEW t \in Time, NEW prOf,
           OneActive(q), Belongs(q, prOf), prOf[comment] = q[i].pr
    PROVE  LET n == Reschedule(q, i, comment, run, t).queue
           IN  OneActive(n) /\ Belongs(n, prOf) /\ Orderly(q, n)
<1>1. i \in ItemIds /\ i \in Rows(q) /\ i \in Active(q) /\ q[i].status = "pending"
  BY DEF Pending, Rows, Active, ActiveStatuses
<1> DEFINE r == [q[i] EXCEPT !.attempts = q[i].attempts + 1, !.comment = comment,
                             !.run = run, !.retriggeredAt = t]
           Fine(n) == OneActive(n) /\ Belongs(n, prOf) /\ Orderly(q, n)
<1>2. Fine(Rescheduled(q, i, comment, run, t))
  <2>1. q[i] \in Row /\ q[i].attempts + 1 \in Nat
    BY <1>1, RowOf DEF Row
  <2>2. /\ r \in Row /\ r.status = q[i].status /\ r.pr = q[i].pr /\ r.comment = comment
    BY <2>1, TimeColumns DEF Row, RunOrNull
  <2>3. Rescheduled(q, i, comment, run, t) = [q EXCEPT ![i] = r]
    BY DEF Rescheduled
  <2> HIDE DEF r
  <2>4. Fine([q EXCEPT ![i] = r])
    BY <1>1, <2>2, Recycled DEF ActiveStatuses
  <2> QED  BY <2>3, <2>4
<1>3. Fine(MarkResolved(q, i, "review_completed", t))
  BY <1>1, MarkResolvedSteady DEF Resolutions, Reopenable
<1>4. Fine(q)
  BY KeepSteady
<1> HIDE DEF Fine
<1>5. Fine(Reschedule(q, i, comment, run, t).queue)
  BY <1>2, <1>3, <1>4 DEF Reschedule, Wrote, Threw
<1> QED  BY <1>5 DEF Fine

-----------------------------------------------------------------------------
(* The unique indexes, whoever writes and whatever else is in the table.     *)

\* A write that keeps to the indexes and deletes no row.
Indexed(q, n) == IndexesHold(n) /\ Rows(q) \subseteq Rows(n)

\* A row whose comment no other row has, and whose pull request no other
\* pending row has if it is pending, breaks no index.
LEMMA PutIndexed ==
    ASSUME NEW q \in Tables, NEW i \in ItemIds, NEW r \in Row, IndexesHold(q),
           r.status # "absent",
           \/ i \in Rows(q) /\ r.comment = q[i].comment
           \/ \A j \in Rows(q) \ {i} : q[j].comment # r.comment,
           r.status = "pending" =>
               \/ i \in Pending(q) /\ r.pr = q[i].pr
               \/ \A j \in Pending(q) \ {i} : q[j].pr # r.pr
    PROVE  Indexed(q, [q EXCEPT ![i] = r])
<1> DEFINE n == [q EXCEPT ![i] = r]
<1>1. \A k \in ItemIds : n[k] = IF k = i THEN r ELSE q[k]
  BY DEF Tables
<1>2. \A j, k \in ItemIds :
        q[j].status # "absent" /\ q[k].status # "absent" /\ q[j].comment = q[k].comment
        => j = k
  BY DEF IndexesHold, CommentUnique
<1>3. \A j, k \in ItemIds :
        q[j].status = "pending" /\ q[k].status = "pending" /\ q[j].pr = q[k].pr => j = k
  BY DEF IndexesHold, PendingUnique
<1> HIDE DEF n
<1>4. \A k \in ItemIds \ {i} : n[k].status # "absent" => n[k].comment # r.comment
  BY <1>1, <1>2 DEF Rows
<1>5. r.status = "pending"
      => \A k \in ItemIds \ {i} : n[k].status = "pending" => n[k].pr # r.pr
  BY <1>1, <1>3 DEF Pending
<1>6. CommentUnique(n)
  <2> SUFFICES ASSUME NEW j \in ItemIds, NEW k \in ItemIds, n[j].status # "absent",
                      n[k].status # "absent", n[j].comment = n[k].comment
               PROVE  j = k
    BY DEF CommentUnique
  <2>1. CASE j # i /\ k # i
    BY <1>1, <1>2, <2>1
  <2>2. CASE j = i \/ k = i
    BY <1>1, <1>4, <2>2
  <2> QED  BY <2>1, <2>2
<1>7. PendingUnique(n)
  <2> SUFFICES ASSUME NEW j \in ItemIds, NEW k \in ItemIds, n[j].status = "pending",
                      n[k].status = "pending", n[j].pr = n[k].pr
               PROVE  j = k
    BY DEF PendingUnique
  <2>1. CASE j # i /\ k # i
    BY <1>1, <1>3, <2>1
  <2>2. CASE j = i \/ k = i
    BY <1>1, <1>5, <2>2
  <2> QED  BY <2>1, <2>2
<1>8. Rows(q) \subseteq Rows(n)
  BY <1>1 DEF Rows
<1> QED  BY <1>6, <1>7, <1>8 DEF Indexed, IndexesHold, n

\* A row rewritten without another comment or a new claim to be pending.
LEMMA RewrittenIndexed ==
    ASSUME NEW q \in Tables, NEW i \in Rows(q), NEW r \in Row, IndexesHold(q),
           r.status # "absent", r.comment = q[i].comment,
           r.status = "pending" => q[i].status = "pending" /\ r.pr = q[i].pr
    PROVE  Indexed(q, [q EXCEPT ![i] = r])
<1>1. i \in ItemIds /\ (r.status = "pending" => i \in Pending(q) /\ r.pr = q[i].pr)
  BY DEF Rows, Pending
<1> QED  BY <1>1, PutIndexed

\* No write at all.
LEMMA KeepIndexed == ASSUME NEW q, IndexesHold(q) PROVE Indexed(q, q)
BY DEF Indexed

\* A statement that would break an index throws; one that is tried must not
\* delete.
LEMMA AttemptIndexed ==
    ASSUME NEW q, NEW n, IndexesHold(q), Rows(q) \subseteq Rows(n)
    PROVE  Indexed(q, Attempt(q, n).queue)
BY DEF Indexed, Attempt, Wrote, Threw

\* The writes by id that the pipeline makes without looking at the indexes.
LEMMA WritesIndexed ==
    ASSUME NEW q \in Tables, NEW i \in Rows(q), IndexesHold(q), NEW t \in Time
    PROVE  /\ \A cd \in TimeOrNull, run \in RunOrNull :
                 Indexed(q, MarkRetriggered(q, i, cd, run, t))
           /\ \A resolution \in Resolutions :
                 /\ Indexed(q, MarkResolved(q, i, resolution, t))
                 /\ Indexed(q, MarkResolvedIfStillRetriggered(q, i, resolution, t))
           /\ \A expected \in RunOrNull, run \in RunOrNull :
                 Indexed(q, AdoptRunIfStillRetriggered(q, i, expected, run, t))
           /\ Indexed(q, Backoff(q, i, t))
           /\ Indexed(q, MarkRetriggerSkipped(q, i))
           /\ \A attempts \in Nat : Indexed(q, IncrementAttempts(q, i, attempts))
<1>1. i \in ItemIds /\ q[i] \in Row /\ q[i].status # "absent" /\ t \in TimeOrNull
  BY RowOf, TimeColumns DEF Rows
<1>2. Indexed(q, q)
  BY KeepIndexed
<1>3. ASSUME NEW n \in Tables, NEW r \in Row, n = [q EXCEPT ![i] = r], r.status # "absent",
             r.comment = q[i].comment,
             r.status = "pending" => q[i].status = "pending" /\ r.pr = q[i].pr
      PROVE  Indexed(q, n)
  BY <1>3, RewrittenIndexed
<1>4. ASSUME NEW cd \in TimeOrNull, NEW run \in RunOrNull
      PROVE  Indexed(q, MarkRetriggered(q, i, cd, run, t))
  <2> DEFINE n == MarkRetriggered(q, i, cd, run, t)
             r == [q[i] EXCEPT !.status = "retriggered", !.retriggeredAt = t,
                      !.cooldownUntil = cd, !.run = IF run = NoRun THEN q[i].run ELSE run]
  <2>1. n \in Tables
    BY <1>1, MarkRetriggeredType
  <2>2. n = [q EXCEPT ![i] = r]
    BY DEF MarkRetriggered
  <2>3. r = n[i] /\ n[i] \in Row
    BY <1>1, <2>1, <2>2 DEF Tables
  <2>4. r.status = "retriggered" /\ r.comment = q[i].comment
    BY <1>1 DEF Row
  <2> HIDE DEF n, r
  <2>5. Indexed(q, n)
    BY <1>3, <2>1, <2>2, <2>3, <2>4
  <2> QED  BY <2>5 DEF n
<1>5. ASSUME NEW resolution \in Resolutions
      PROVE  Indexed(q, MarkResolved(q, i, resolution, t))
  <2> DEFINE n == MarkResolved(q, i, resolution, t)
             r == [q[i] EXCEPT !.status = "resolved", !.resolution = resolution,
                               !.resolvedAt = t]
  <2>1. n \in Tables
    BY <1>1, MarkResolvedType
  <2>2. n = [q EXCEPT ![i] = r]
    BY DEF MarkResolved
  <2>3. r = n[i] /\ n[i] \in Row
    BY <1>1, <2>1, <2>2 DEF Tables
  <2>4. r.status = "resolved" /\ r.comment = q[i].comment
    BY <1>1 DEF Row
  <2> HIDE DEF n, r
  <2>5. Indexed(q, n)
    BY <1>3, <2>1, <2>2, <2>3, <2>4
  <2> QED  BY <2>5 DEF n
<1>6. ASSUME NEW resolution \in Resolutions
      PROVE  Indexed(q, MarkResolvedIfStillRetriggered(q, i, resolution, t))
  BY <1>2, <1>5 DEF MarkResolvedIfStillRetriggered
<1>7. ASSUME NEW expected \in RunOrNull, NEW run \in RunOrNull
      PROVE  Indexed(q, AdoptRunIfStillRetriggered(q, i, expected, run, t))
  <2> DEFINE r == [q[i] EXCEPT !.run = run, !.retriggeredAt = t]
  <2>1. r \in {x \in Row : x.status = q[i].status /\ x.pr = q[i].pr
                           /\ x.comment = q[i].comment}
    <3>1. q[i] \in Row
      BY <1>1
    <3> QED  BY <3>1, AdoptedRow
  <2> HIDE DEF r
  <2>2. Indexed(q, [q EXCEPT ![i] = r])
    BY <1>1, <2>1, RewrittenIndexed
  <2> QED  BY <1>2, <2>2 DEF AdoptRunIfStillRetriggered, r
<1>8. Indexed(q, Backoff(q, i, t))
  <2> DEFINE n == Backoff(q, i, t)
             r == [q[i] EXCEPT !.status = "retriggered", !.retriggeredAt = t,
                               !.attempts = q[i].attempts + 1]
  <2>1. n \in Tables
    BY <1>1, BackoffType
  <2>2. n = [q EXCEPT ![i] = r]
    BY DEF Backoff
  <2>3. r = n[i] /\ n[i] \in Row
    BY <1>1, <2>1, <2>2 DEF Tables
  <2>4. r.status = "retriggered" /\ r.comment = q[i].comment
    BY <1>1 DEF Row
  <2> HIDE DEF n, r
  <2>5. Indexed(q, n)
    BY <1>3, <2>1, <2>2, <2>3, <2>4
  <2> QED  BY <2>5 DEF n
<1>9. Indexed(q, MarkRetriggerSkipped(q, i))
  <2> DEFINE r == [q[i] EXCEPT !.skipped = TRUE]
  <2>1. r \in Row
    BY <1>1, ZenonT(30) DEF Row
  <2>2. r.status = q[i].status /\ r.comment = q[i].comment /\ r.pr = q[i].pr
    BY <1>1 DEF Row
  <2>3. [q EXCEPT ![i].skipped = TRUE] = [q EXCEPT ![i] = r]
    BY <1>1 DEF Tables
  <2> HIDE DEF r
  <2>4. Indexed(q, [q EXCEPT ![i] = r])
    BY <1>1, <2>1, <2>2, RewrittenIndexed
  <2> QED  BY <1>2, <2>3, <2>4 DEF MarkRetriggerSkipped
<1>10. ASSUME NEW attempts \in Nat PROVE Indexed(q, IncrementAttempts(q, i, attempts))
  <2> DEFINE r == [q[i] EXCEPT !.attempts = attempts]
  <2>1. r \in Row
    BY <1>1, ZenonT(30) DEF Row
  <2>2. r.status = q[i].status /\ r.comment = q[i].comment /\ r.pr = q[i].pr
    BY <1>1 DEF Row
  <2>3. IncrementAttempts(q, i, attempts) = [q EXCEPT ![i] = r]
    BY <1>1 DEF IncrementAttempts, Tables
  <2> HIDE DEF r
  <2> QED  BY <1>1, <2>1, <2>2, <2>3, RewrittenIndexed
<1> QED  BY <1>4, <1>5, <1>6, <1>7, <1>8, <1>9, <1>10

\* The sweep.
LEMMA SweepIndexed ==
    ASSUME NEW q \in Tables, IndexesHold(q), NEW age, NEW t
    PROVE  Indexed(q, ResolveStaleRetriggered(q, age, t))
<1> DEFINE n == ResolveStaleRetriggered(q, age, t)
<1>1. ASSUME NEW i \in ItemIds
      PROVE  /\ n[i].comment = q[i].comment
             /\ n[i] = q[i] \/ (q[i].status = "retriggered" /\ n[i].status = "resolved")
  <2> DEFINE swept == [q[i] EXCEPT !.status = "resolved", !.resolution = "failed",
                                   !.resolvedAt = t]
  <2>1. n[i] = q[i] \/ (q[i].status = "retriggered" /\ n[i] = swept)
    BY DEF ResolveStaleRetriggered
  <2>2. swept.comment = q[i].comment /\ swept.status = "resolved"
    BY RowOf DEF Row
  <2> HIDE DEF n, swept
  <2> QED  BY <2>1, <2>2
<1> HIDE DEF n
<1>2. Rows(q) \subseteq Rows(n)
  BY <1>1 DEF Rows
<1>3. \A i \in ItemIds : n[i].status # "absent" => q[i].status # "absent"
  BY <1>1
<1>4. CommentUnique(n)
  BY <1>1, <1>3 DEF IndexesHold, CommentUnique
<1>5. \A i \in ItemIds : n[i].status = "pending" => n[i] = q[i]
  BY <1>1
<1>6. PendingUnique(n)
  BY <1>5 DEF IndexesHold, PendingUnique
<1> QED  BY <1>2, <1>4, <1>6 DEF Indexed, IndexesHold, n

\* reschedule looks for the comment before it takes it.
LEMMA RescheduleIndexed ==
    ASSUME NEW q \in Tables, NEW i \in Rows(q), NEW comment \in Comments,
           NEW run \in RunOrNull, NEW t \in Time, IndexesHold(q)
    PROVE  Indexed(q, Reschedule(q, i, comment, run, t).queue)
<1> DEFINE r == [q[i] EXCEPT !.attempts = q[i].attempts + 1, !.comment = comment,
                             !.run = run, !.retriggeredAt = t]
<1>1. i \in ItemIds /\ q[i] \in Row /\ q[i].attempts + 1 \in Nat /\ q[i].status # "absent"
  BY RowOf DEF Rows, Row
<1>2. r \in Row /\ r.status = q[i].status /\ r.pr = q[i].pr /\ r.comment = comment
  BY <1>1, TimeColumns DEF Row, RunOrNull
<1>3. Rescheduled(q, i, comment, run, t) = [q EXCEPT ![i] = r]
  BY DEF Rescheduled
<1> HIDE DEF r
<1>4. ASSUME \A j \in ItemIds \ {i} : ~(q[j].status # "absent" /\ q[j].comment = comment)
      PROVE  Indexed(q, Rescheduled(q, i, comment, run, t))
  <2>1. \A j \in Rows(q) \ {i} : q[j].comment # r.comment
    BY <1>2, <1>4 DEF Rows
  <2>2. r.status = "pending" => i \in Pending(q) /\ r.pr = q[i].pr
    BY <1>1, <1>2 DEF Pending
  <2> QED  BY <1>1, <1>2, <1>3, <2>1, <2>2, PutIndexed
<1>5. Indexed(q, MarkResolved(q, i, "review_completed", t))
  BY WritesIndexed DEF Resolutions, Reopenable
<1>6. Indexed(q, q)
  BY KeepIndexed
<1> QED  BY <1>4, <1>5, <1>6 DEF Reschedule, Wrote, Threw

\* A row reopened stays a row.
LEMMA ReopenKeepsRows ==
    ASSUME NEW q \in Tables, NEW i \in ItemIds, NEW run, NEW cd
    PROVE  Rows(q) \subseteq Rows(Reopen(q, i, run, cd))
<1> DEFINE r == [q[i] EXCEPT !.status = "pending", !.resolution = "none",
                     !.resolvedAt = NoTime, !.run = run,
                     !.cooldownUntil = cd, !.skipped = FALSE]
           n == [q EXCEPT ![i] = r]
<1>1. r.status = "pending"
  BY RowOf DEF Row
<1> HIDE DEF r
<1>2. \A k \in ItemIds : n[k] = IF k = i THEN r ELSE q[k]
  BY DEF Tables
<1>3. n = Reopen(q, i, run, cd)
  BY DEF Reopen, r
<1> HIDE DEF n
<1> QED  BY <1>1, <1>2, <1>3 DEF Rows

\* Whichever of its attempts decides: enqueue writes without a check only
\* where no index is concerned.
LEMMA EnqueueIndexed ==
    ASSUME NEW q \in Tables, NEW d \in Detection, NEW t \in Time, IndexesHold(q),
           NEW outcome \in Enqueue(q, d, t)
    PROVE  Indexed(q, outcome.queue)
<1> DEFINE onPr == {r \in Retriggered(q) : q[r].pr = d.pr}
<1>1. /\ d.run \in RunOrNull /\ d.cooldownUntil \in TimeOrNull
      /\ d.comment \in Comments /\ d.pr \in PullRequests
  BY DEF Detection, RunOrNull
<1>2. Indexed(q, q)
  BY KeepIndexed
<1>3. ASSUME NEW r \in onPr
      PROVE  r \in Rows(q) /\ r \in ItemIds /\ q[r] \in Row /\ q[r].status = "retriggered"
  BY RowOf DEF Retriggered, Rows
<1>4. ASSUME NEW r \in onPr PROVE Indexed(q, OntoSameComment(q, r, d, t).queue)
  <2>1. Rows(q) \subseteq Rows(ReopenStaleRetriggered(q, r, d.run, d.cooldownUntil))
    BY <1>3, ReopenKeepsRows DEF ReopenStaleRetriggered
  <2>2. Indexed(q, [q EXCEPT ![r] = [q[r] EXCEPT !.run = d.run, !.retriggeredAt = t]])
    <3> DEFINE same == [q[r] EXCEPT !.run = d.run, !.retriggeredAt = t]
    <3>1. same \in {x \in Row : x.status = q[r].status /\ x.pr = q[r].pr
                                /\ x.comment = q[r].comment}
      <4>1. q[r] \in Row
        BY <1>3
      <4> QED  BY <1>1, <4>1, AdoptedRow
    <3> HIDE DEF same
    <3>2. Indexed(q, [q EXCEPT ![r] = same])
      BY <1>3, <3>1, RewrittenIndexed
    <3> QED  BY <3>2 DEF same
  <2>3. Indexed(q, Attempt(q, ReopenStaleRetriggered(q, r, d.run, d.cooldownUntil)).queue)
    BY <2>1, AttemptIndexed
  <2> QED  BY <1>2, <2>2, <2>3 DEF OntoSameComment, Wrote
<1>5. ASSUME NEW r \in onPr PROVE Indexed(q, OntoOtherComment(q, r, d, t).queue)
  <2> DEFINE conflicting == ReopenableRows(q, d.comment) \ {r}
             j == CHOOSE x \in conflicting : TRUE
  <2>1. CASE conflicting = {}
    <3> DEFINE moved == [q[r] EXCEPT !.comment = d.comment, !.run = d.run,
                                     !.retriggeredAt = t]
    <3>1. moved.status = "retriggered"
      BY <1>3 DEF Row
    <3> HIDE DEF moved
    <3>2. Rows(q) \subseteq Rows([q EXCEPT ![r] = moved])
      BY <1>3, <3>1 DEF Rows, Tables
    <3>3. OntoOtherComment(q, r, d, t) = Attempt(q, [q EXCEPT ![r] = moved])
      BY <2>1 DEF OntoOtherComment, moved
    <3> QED  BY <3>2, <3>3, AttemptIndexed
  <2>2. CASE conflicting # {}
    <3>1. j \in ItemIds
      BY <2>2 DEF ReopenableRows, OfComment
    <3>2. OntoOtherComment(q, r, d, t) = IF d.updatedAt > q[j].resolvedAt
                                         THEN Attempt(q, TakeOver(q, j, r, d, t))
                                         ELSE Wrote(q)
      BY <2>2 DEF OntoOtherComment
    <3> HIDE DEF conflicting, j
    <3> DEFINE back == Reopen(q, j, d.run, d.cooldownUntil)
    <3>3. back \in Tables /\ Rows(q) \subseteq Rows(back)
      BY <1>1, <3>1, ReopenType, ReopenKeepsRows
    <3>4. TakeOver(q, j, r, d, t) = MarkResolved(back, r, "skipped", t)
      BY DEF TakeOver
    <3> HIDE DEF back
    <3>5. Rows(back) \subseteq Rows(MarkResolved(back, r, "skipped", t))
      <4> DEFINE left == [back[r] EXCEPT !.status = "resolved", !.resolution = "skipped",
                                         !.resolvedAt = t]
      <4>1. left.status = "resolved"
        BY <1>3, <3>3, RowOf DEF Row
      <4> HIDE DEF left
      <4>2. Rows(back) \subseteq Rows([back EXCEPT ![r] = left])
        BY <1>3, <3>3, <4>1 DEF Rows, Tables
      <4> QED  BY <4>2 DEF MarkResolved, left
    <3>6. Indexed(q, Attempt(q, TakeOver(q, j, r, d, t)).queue)
      BY <3>3, <3>4, <3>5, AttemptIndexed
    <3> QED  BY <1>2, <3>2, <3>6 DEF Wrote
  <2> QED  BY <2>1, <2>2
<1>6. Indexed(q, OnConflict(q, d).queue)
  <2> DEFINE j == CHOOSE x \in ReopenableRows(q, d.comment) : TRUE
  <2>1. \/ OnConflict(q, d).queue = q
        \/ /\ ReopenableRows(q, d.comment) # {}
           /\ OnConflict(q, d) = Attempt(q, Reopen(q, j, d.run, d.cooldownUntil))
    BY DEF OnConflict, Wrote, Threw
  <2>2. ReopenableRows(q, d.comment) # {} => j \in ItemIds
    BY DEF ReopenableRows, OfComment
  <2> HIDE DEF j
  <2>3. ASSUME ReopenableRows(q, d.comment) # {}
        PROVE  Indexed(q, Attempt(q, Reopen(q, j, d.run, d.cooldownUntil)).queue)
    BY <2>2, <2>3, ReopenKeepsRows, AttemptIndexed
  <2> QED  BY <1>2, <2>1, <2>3
<1>7. ASSUME ~InsertConflicts(q, d), outcome \in Inserted(q, d, t)
      PROVE  Indexed(q, outcome.queue)
  <2>1. PICK i \in ItemIds \ Rows(q) : outcome = Wrote([q EXCEPT ![i] = NewRow(d, t)])
    BY <1>7 DEF Inserted
  <2>2. NewRow(d, t) \in Row
    BY <1>1, TimeColumns DEF NewRow, Row, RunOrNull, ActiveStatuses
  <2>3. /\ NewRow(d, t).status = "pending" /\ NewRow(d, t).pr = d.pr
        /\ NewRow(d, t).comment = d.comment
    BY DEF NewRow
  <2>4. \A k \in Pending(q) \ {i} : q[k].pr # d.pr
    BY <1>7 DEF InsertConflicts
  <2>5. \A k \in Rows(q) \ {i} : q[k].comment # d.comment
    <3> SUFFICES ASSUME NEW k \in Rows(q), q[k].comment = d.comment PROVE FALSE
      OBVIOUS
    <3>1. k \in ItemIds /\ q[k].status \in ActiveStatuses \cup {"resolved"}
      BY RowOf DEF Rows, Row
    <3> QED  BY <1>7, <3>1 DEF InsertConflicts, OfComment
  <2>6. Indexed(q, [q EXCEPT ![i] = NewRow(d, t)])
    BY <2>2, <2>3, <2>4, <2>5, PutIndexed
  <2> QED  BY <2>1, <2>6 DEF Wrote
<1>8. \/ \E r \in onPr : \/ outcome = OntoSameComment(q, r, d, t)
                         \/ outcome = OntoOtherComment(q, r, d, t)
      \/ outcome.queue = q
      \/ outcome = OnConflict(q, d)
      \/ ~InsertConflicts(q, d) /\ outcome \in Inserted(q, d, t)
  BY DEF Enqueue, Wrote
<1> QED  BY <1>2, <1>4, <1>5, <1>6, <1>7, <1>8

-----------------------------------------------------------------------------
(* What the writers beside a tick leave alone, whatever the table holds.    *)

\* A pending row stays pending, and a resolved one stays as it is unless it is
\* opened again.
Spares(q, n) ==
    \A i \in ItemIds :
        /\ q[i].status = "pending" => n[i].status = "pending"
        /\ q[i].status = "resolved" => n[i] = q[i] \/ n[i].status = "pending"

LEMMA KeepSpares == ASSUME NEW q PROVE Spares(q, q)
BY DEF Spares

LEMMA PutSpares ==
    ASSUME NEW q \in Tables, NEW i \in ItemIds, NEW r,
           q[i].status \in {"retriggered", "absent"} \/ r.status = "pending"
    PROVE  Spares(q, [q EXCEPT ![i] = r])
BY DEF Spares, Tables

LEMMA AttemptSpares ==
    ASSUME NEW q, NEW n, Spares(q, n)
    PROVE  Spares(q, Attempt(q, n).queue)
BY KeepSpares DEF Attempt, Wrote, Threw

LEMMA ReopenSpares ==
    ASSUME NEW q \in Tables, NEW i \in ItemIds, NEW run \in RunOrNull,
           NEW cd \in TimeOrNull
    PROVE  Spares(q, Reopen(q, i, run, cd))
<1> DEFINE r == [q[i] EXCEPT !.status = "pending", !.resolution = "none",
                     !.resolvedAt = NoTime, !.run = run,
                     !.cooldownUntil = cd, !.skipped = FALSE]
<1>1. r.status = "pending"
  BY RowOf DEF Row
<1>2. Reopen(q, i, run, cd) = [q EXCEPT ![i] = r]
  BY DEF Reopen
<1> HIDE DEF r
<1>3. Spares(q, [q EXCEPT ![i] = r])
  BY <1>1, PutSpares
<1> QED  BY <1>2, <1>3

LEMMA ReopenStaleSpares ==
    ASSUME NEW q \in Tables, NEW i \in ItemIds, NEW run \in RunOrNull,
           NEW cd \in TimeOrNull
    PROVE  Spares(q, ReopenStaleRetriggered(q, i, run, cd))
BY ReopenSpares, KeepSpares DEF ReopenStaleRetriggered

\* A row that takes over from a retriggered one was resolved: it is opened, and
\* the row it replaces is not among the resolved ones yet.
LEMMA TakeOverSpares ==
    ASSUME NEW q \in Tables, NEW d \in Detection, NEW t \in Time,
           NEW r \in ItemIds, NEW j \in ItemIds, j # r, q[r].status = "retriggered"
    PROVE  Spares(q, TakeOver(q, j, r, d, t))
<1> DEFINE back == Reopen(q, j, d.run, d.cooldownUntil)
           left == [back[r] EXCEPT !.status = "resolved", !.resolution = "skipped",
                                   !.resolvedAt = t]
<1>1. d.run \in RunOrNull /\ d.cooldownUntil \in TimeOrNull
  BY DEF Detection, RunOrNull
<1>2. back \in Tables /\ Spares(q, back)
  BY <1>1, ReopenType, ReopenSpares
<1>3. TakeOver(q, j, r, d, t) = [back EXCEPT ![r] = left]
  BY DEF TakeOver, MarkResolved
<1> HIDE DEF back, left
<1> QED  BY <1>2, <1>3 DEF Spares, Tables

LEMMA EnqueueSpares ==
    ASSUME NEW q \in Tables, NEW d \in Detection, NEW t \in Time,
           NEW outcome \in Enqueue(q, d, t)
    PROVE  Spares(q, outcome.queue)
<1> DEFINE onPr == {r \in Retriggered(q) : q[r].pr = d.pr}
<1>1. d.run \in RunOrNull /\ d.cooldownUntil \in TimeOrNull
  BY DEF Detection, RunOrNull
<1>2. Spares(q, q)
  BY KeepSpares
<1>3. ASSUME NEW r \in onPr PROVE r \in ItemIds /\ q[r].status = "retriggered"
  BY DEF Retriggered
<1>4. ASSUME NEW r \in onPr PROVE Spares(q, OntoSameComment(q, r, d, t).queue)
  <2>1. Spares(q, Attempt(q, ReopenStaleRetriggered(q, r, d.run, d.cooldownUntil)).queue)
    BY <1>1, <1>3, ReopenStaleSpares, AttemptSpares
  <2>2. Spares(q, [q EXCEPT ![r] = [q[r] EXCEPT !.run = d.run, !.retriggeredAt = t]])
    BY <1>3, PutSpares
  <2> QED  BY <1>2, <2>1, <2>2 DEF OntoSameComment, Wrote
<1>5. ASSUME NEW r \in onPr PROVE Spares(q, OntoOtherComment(q, r, d, t).queue)
  <2> DEFINE conflicting == ReopenableRows(q, d.comment) \ {r}
             j == CHOOSE x \in conflicting : TRUE
             moved == [q[r] EXCEPT !.comment = d.comment, !.run = d.run,
                                   !.retriggeredAt = t]
  <2>1. CASE conflicting = {}
    <3>1. OntoOtherComment(q, r, d, t) = Attempt(q, [q EXCEPT ![r] = moved])
      BY <2>1 DEF OntoOtherComment
    <3> HIDE DEF moved
    <3>2. Spares(q, [q EXCEPT ![r] = moved])
      BY <1>3, PutSpares
    <3> QED  BY <3>1, <3>2, AttemptSpares
  <2>2. CASE conflicting # {}
    <3>1. j \in ItemIds /\ j # r
      BY <2>2 DEF ReopenableRows, OfComment
    <3>2. OntoOtherComment(q, r, d, t) = IF d.updatedAt > q[j].resolvedAt
                                         THEN Attempt(q, TakeOver(q, j, r, d, t))
                                         ELSE Wrote(q)
      BY <2>2 DEF OntoOtherComment
    <3> HIDE DEF conflicting, j
    <3>3. Spares(q, Attempt(q, TakeOver(q, j, r, d, t)).queue)
      BY <1>3, <3>1, TakeOverSpares, AttemptSpares
    <3> QED  BY <1>2, <3>2, <3>3 DEF Wrote
  <2> QED  BY <2>1, <2>2
<1>6. Spares(q, OnConflict(q, d).queue)
  <2> DEFINE j == CHOOSE x \in ReopenableRows(q, d.comment) : TRUE
  <2>1. \/ OnConflict(q, d).queue = q
        \/ /\ ReopenableRows(q, d.comment) # {}
           /\ OnConflict(q, d) = Attempt(q, Reopen(q, j, d.run, d.cooldownUntil))
    BY DEF OnConflict, Wrote, Threw
  <2>2. ReopenableRows(q, d.comment) # {} => j \in ItemIds
    BY DEF ReopenableRows, OfComment
  <2> HIDE DEF j
  <2>3. ASSUME ReopenableRows(q, d.comment) # {}
        PROVE  Spares(q, Attempt(q, Reopen(q, j, d.run, d.cooldownUntil)).queue)
    BY <1>1, <2>2, <2>3, ReopenSpares, AttemptSpares
  <2> QED  BY <1>2, <2>1, <2>3
<1>7. ASSUME outcome \in Inserted(q, d, t) PROVE Spares(q, outcome.queue)
  <2>1. PICK i \in ItemIds \ Rows(q) : outcome = Wrote([q EXCEPT ![i] = NewRow(d, t)])
    BY <1>7 DEF Inserted
  <2>2. Spares(q, [q EXCEPT ![i] = NewRow(d, t)])
    BY PutSpares DEF Rows
  <2> QED  BY <2>1, <2>2 DEF Wrote
<1>8. \/ \E r \in onPr : \/ outcome = OntoSameComment(q, r, d, t)
                         \/ outcome = OntoOtherComment(q, r, d, t)
      \/ outcome.queue = q
      \/ outcome = OnConflict(q, d)
      \/ outcome \in Inserted(q, d, t)
  BY DEF Enqueue, Wrote
<1> QED  BY <1>2, <1>4, <1>5, <1>6, <1>7, <1>8
===============================================================================
