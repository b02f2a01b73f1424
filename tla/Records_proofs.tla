------------------------------ MODULE Records_proofs ------------------------------
(****************************************************************************)
(* Theorems about the two modules without variables.  Of EventLog:          *)
(* everything the services record can be read back, whatever the ids, dates *)
(* and names in it, and what the history says of it.  Of QueueViews: what   *)
(* the dashboard can show of a row, whatever a writer of the queue has made *)
(* of it.                                                                   *)
(****************************************************************************)
EXTENDS EventLog, QueueViews, QueueRows_proofs, FiniteSetTheorems

-----------------------------------------------------------------------------------
(* The events (EventLog).                                                         *)

LEMMA UrlsFit ==
    /\ ItemUrls \subseteq Urls \cap Positive
    /\ CommentUrls \subseteq Urls \cap Positive
    /\ GitHubUrls \subseteq Urls \cap Positive
<1>1. \A r \in 1..RepoMax, p \in Digits, i \in Digits : CommentUrl(r, p, i) \in 1..300
  BY DEF CommentUrl, RepoMax, Digits
<1>2. \A u \in CommentUrls : u \in 1..300
  BY <1>1 DEF CommentUrls
<1>3. ASSUME NEW u \in GitHubUrls PROVE u \in 1..320
  <2>1. PICK url \in CommentUrls, shift \in 0..20 : u = url + shift
    BY <1>3 DEF GitHubUrls
  <2>2. url \in 1..300
    BY <1>2
  <2> QED  BY <2>1, <2>2
<1>. QED  BY <1>2, <1>3 DEF ItemUrls, Urls, UrlMax, Positive

LEMMA RunIdsFit ==
    /\ \A run \in FoundRunIds : run \in RunIds /\ run > 0
    /\ \A run \in MaybeRunIds : run \in RunIds
BY DEF FoundRunIds, MaybeRunIds, NoRunId, Extracted, RunIds, RunIdMax, Positive

\* What parseEventRow asks of an event of each type.
LEMMA SchemaOf ==
    /\ EventTypes = {"detected", "enqueued", "retriggered", "dismissed",
                     "coderabbit_review_approved", "coderabbit_review_changes_suggested",
                     "coderabbit_review_skipped", "coderabbit_run_id_changed",
                     "coderabbit_run_id_cleared", "coderabbit_run_id_first_seen", "failed"}
    /\ Schema.detected = [source_ts |-> Nat, source_comment_url |-> Urls,
                          coderabbit_run_id |-> RunIds, detected_via |-> CommentVias]
    /\ Schema.coderabbit_review_approved = ReviewSchema
    /\ Schema.coderabbit_review_changes_suggested = ReviewSchema
    /\ Required.detected = {} /\ Required.enqueued = {}
    /\ Required.coderabbit_review_approved = {}
    /\ Required.coderabbit_review_changes_suggested = {}
BY DEF EventTypes, Schema, Required

\* A run id fits wherever the schema has one.
LEMMA WithRunFits ==
    ASSUME NEW payload, NEW schema, NEW run \in MaybeRunIds,
           schema.coderabbit_run_id = RunIds,
           \A f \in DOMAIN payload \cap DOMAIN schema : payload[f] \in schema[f]
    PROVE  /\ \A f \in DOMAIN WithRun(payload, run) \cap DOMAIN schema :
                  WithRun(payload, run)[f] \in schema[f]
           /\ DOMAIN payload \subseteq DOMAIN WithRun(payload, run)
BY RunIdsFit DEF WithRun

LEMMA DetectedFits ==
    ASSUME NEW at \in Nat, NEW url \in ItemUrls, NEW run \in MaybeRunIds, NEW via \in CommentVias
    PROVE  Readable(Detected(at, url, run, via))
<1>. DEFINE payload == [source_ts |-> at, source_comment_url |-> url, detected_via |-> via]
<1>1. \A f \in DOMAIN payload \cap DOMAIN Schema.detected : payload[f] \in Schema.detected[f]
  BY SchemaOf, UrlsFit
<1>2. Schema.detected.coderabbit_run_id = RunIds
  BY SchemaOf
<1>3. \A f \in DOMAIN WithRun(payload, run) \cap DOMAIN Schema.detected :
          WithRun(payload, run)[f] \in Schema.detected[f]
  BY <1>1, <1>2, WithRunFits, Zenon
<1>. QED  BY <1>3, SchemaOf DEF Readable, Detected, Event

LEMMA SkippedFits ==
    ASSUME NEW at \in Nat, NEW url \in CommentUrls, NEW run \in MaybeRunIds
    PROVE  Readable(Skipped(at, url, run))
<1>. DEFINE payload == [source_ts |-> at, comment_url |-> url, skip_reason |-> 41]
            schema == Schema["coderabbit_review_skipped"]
<1>1. /\ schema = [source_ts |-> Nat, comment_url |-> Urls,
                   skip_reason |-> Nat, coderabbit_run_id |-> RunIds]
      /\ Required["coderabbit_review_skipped"] = {"source_ts", "comment_url", "skip_reason"}
  BY DEF Schema, Required, Texts
<1>2. \A f \in DOMAIN payload \cap DOMAIN schema : payload[f] \in schema[f]
  BY <1>1, UrlsFit
<1>3. /\ \A f \in DOMAIN WithRun(payload, run) \cap DOMAIN schema :
            WithRun(payload, run)[f] \in schema[f]
      /\ DOMAIN payload \subseteq DOMAIN WithRun(payload, run)
  <2>1. schema.coderabbit_run_id = RunIds
    BY <1>1
  <2>. HIDE DEF payload, schema
  <2>. QED  BY <1>2, <2>1, WithRunFits
<1>4. DOMAIN payload = {"source_ts", "comment_url", "skip_reason"}
  OBVIOUS
<1>. QED  BY <1>1, <1>3, <1>4, SchemaOf DEF Readable, Skipped, Event

LEMMA VerdictFits ==
    ASSUME NEW at \in Nat, NEW url \in CommentUrls, NEW run \in MaybeRunIds, NEW verdict \in Verdicts
    PROVE  Readable(VerdictResolved(url, at, verdict, run))
<1>. DEFINE payload == [coderabbit_comment_url |-> url, source_ts |-> at, verdict_state |-> verdict]
<1>1. \A f \in DOMAIN payload \cap DOMAIN ReviewSchema : payload[f] \in ReviewSchema[f]
  BY UrlsFit DEF ReviewSchema
<1>2. ReviewSchema.coderabbit_run_id = RunIds
  BY DEF ReviewSchema
<1>3. \A f \in DOMAIN WithRun(payload, run) \cap DOMAIN ReviewSchema :
          WithRun(payload, run)[f] \in ReviewSchema[f]
  BY <1>1, <1>2, WithRunFits, Zenon
<1>. QED  BY <1>3, SchemaOf DEF Readable, VerdictResolved, Event, ToReviewEventType, Verdicts

LEMMA ReviewFits ==
    /\ Readable(ReviewedViaFallback)
    /\ \A url \in GitHubUrls, verdict \in Verdicts, via \in {"edit_detection", "github_reviews_api"} :
          Readable(Reviewed(url, verdict, via))
<1>1. Readable(ReviewedViaFallback)
  BY SchemaOf DEF Readable, ReviewedViaFallback, Event, ReviewSchema, ReviewVias
<1>2. ASSUME NEW url \in GitHubUrls, NEW verdict \in Verdicts,
             NEW via \in {"edit_detection", "github_reviews_api"}
      PROVE  Readable(Reviewed(url, verdict, via))
  BY SchemaOf, UrlsFit
     DEF Readable, Reviewed, Event, ReviewSchema, ReviewVias, ToReviewEventType, Verdicts
<1>. QED  BY <1>1, <1>2

\* The bookkeeping of run ids and the posts, whose fields are all required.
LEMMA BookkeepingFits ==
    /\ \A source \in ItemUrls, posted \in GitHubUrls : Readable(ReviewRetriggered(source, posted))
    /\ \A comment \in Positive, url \in CommentUrls, run \in FoundRunIds :
          Readable(RunIdFirstSeen(comment, url, run))
    /\ \A comment \in Positive, url \in CommentUrls, previous \in FoundRunIds, run \in FoundRunIds :
          Readable(RunIdChanged(comment, url, previous, run))
    /\ \A comment \in Positive, url \in CommentUrls, previous \in FoundRunIds :
          Readable(RunIdCleared(comment, url, previous))
<1>1. /\ Schema["retriggered"] = [source_comment_url |-> Urls, retriggered_comment_url |-> Urls]
      /\ Required["retriggered"] = {"source_comment_url", "retriggered_comment_url"}
      /\ Schema["coderabbit_run_id_first_seen"] =
            [comment_id |-> Int, comment_url |-> Urls, coderabbit_run_id |-> RunIds]
      /\ Required["coderabbit_run_id_first_seen"] = {"comment_id", "comment_url", "coderabbit_run_id"}
  BY DEF Schema, Required
<1>2. /\ Schema["coderabbit_run_id_changed"] =
            [comment_id |-> Int, comment_url |-> Urls,
             previous_coderabbit_run_id |-> RunIds, coderabbit_run_id |-> RunIds]
      /\ Required["coderabbit_run_id_changed"] =
            {"comment_id", "comment_url", "previous_coderabbit_run_id", "coderabbit_run_id"}
      /\ Schema["coderabbit_run_id_cleared"] =
            [comment_id |-> Int, comment_url |-> Urls, previous_coderabbit_run_id |-> RunIds]
      /\ Required["coderabbit_run_id_cleared"] = {"comment_id", "comment_url", "previous_coderabbit_run_id"}
  BY DEF Schema, Required
<1>. USE SchemaOf, UrlsFit, RunIdsFit DEF Readable, Event, Positive
<1>3. ASSUME NEW source \in ItemUrls, NEW posted \in GitHubUrls
      PROVE  Readable(ReviewRetriggered(source, posted))
  BY <1>1 DEF ReviewRetriggered
<1>4. ASSUME NEW comment \in Positive, NEW url \in CommentUrls, NEW run \in FoundRunIds
      PROVE  Readable(RunIdFirstSeen(comment, url, run))
  BY <1>1 DEF RunIdFirstSeen
<1>5. ASSUME NEW comment \in Positive, NEW url \in CommentUrls,
             NEW previous \in FoundRunIds, NEW run \in FoundRunIds
      PROVE  Readable(RunIdChanged(comment, url, previous, run))
  BY <1>2 DEF RunIdChanged
<1>6. ASSUME NEW comment \in Positive, NEW url \in CommentUrls, NEW previous \in FoundRunIds
      PROVE  Readable(RunIdCleared(comment, url, previous))
  BY <1>2 DEF RunIdCleared
<1>. QED  BY <1>3, <1>4, <1>5, <1>6, Zenon

LEMMA EndingFits ==
    /\ Readable(Enqueued)
    /\ \A reason \in DismissalReasons : Readable(Dismissed(reason))
    /\ \A attempts \in Positive, max \in Positive : Readable(MaxRetriggersExceeded(attempts, max))
<1>1. /\ Schema["dismissed"] = [reason |-> DismissalReasons] /\ Required["dismissed"] = {"reason"}
      /\ Schema["failed"] = [reason |-> 0..1024, retrigger_count |-> Positive, max |-> Positive]
      /\ Required["failed"] = {"reason"}
  BY DEF Schema, Required, ReasonMax
<1>2. Readable(Enqueued)
  BY SchemaOf DEF Readable, Enqueued, Event
<1>3. ASSUME NEW reason \in DismissalReasons
      PROVE  Readable(Dismissed(reason))
  BY <1>1, SchemaOf DEF Readable, Dismissed, Event
<1>4. ASSUME NEW attempts \in Positive, NEW max \in Positive
      PROVE  Readable(MaxRetriggersExceeded(attempts, max))
  BY <1>1, SchemaOf DEF Readable, MaxRetriggersExceeded, Event
<1>. QED  BY <1>2, <1>3, <1>4

\* Every event a probe records fits the schema of its type, for every limit on
\* the attempts that the configuration accepts.
THEOREM RecordedIsReadable ==
    ASSUME NEW max \in Positive, NEW event, Recorded(event, max)
    PROVE  Readable(event)
<1>1. Readable(PrDeleted)
  BY EndingFits DEF PrDeleted, DismissalReasons
<1>2. \A prState : DismissalReasonFromPrState(prState) \in DismissalReasons
  BY DEF DismissalReasonFromPrState, DismissalReasons
<1>3. ASSUME NEW attempts \in Nat, attempts >= max
      PROVE  Readable(MaxRetriggersExceeded(attempts, max))
  BY <1>3, EndingFits DEF Positive
<1>. QED
  BY <1>1, <1>2, <1>3, DetectedFits, SkippedFits, VerdictFits, ReviewFits, BookkeepingFits,
     EndingFits, ZenonT(30) DEF Recorded

\* record takes no change back for the sake of its event, and a log whose
\* events can all be read stays one: no page of it fails (parseEventRow called
\* in eventRepository.ts:72 and 106).
THEOREM RecordKeepsLogReadable ==
    ASSUME NEW max \in Positive, NEW S, NEW log \in Seq(S),
           \A i \in 1..Len(log) : Readable(log[i]),
           NEW event \in S, Recorded(event, max)
    PROVE  /\ ~Record(log, event).threw
           /\ \A i \in 1..Len(Record(log, event).log) : Readable(Record(log, event).log[i])
<1>1. Readable(event)
  BY RecordedIsReadable
<1>2. Record(log, event) = [log |-> Append(log, event), threw |-> FALSE]
  BY <1>1 DEF Record
<1>3. \A i \in 1..Len(Append(log, event)) :
          Append(log, event)[i] = IF i <= Len(log) THEN log[i] ELSE event
  OBVIOUS
<1>4. \A i \in 1..Len(Append(log, event)) : i \in 1..Len(log) \/ ~(i <= Len(log))
  OBVIOUS
<1>. QED  BY <1>1, <1>2, <1>3, <1>4

\* A recorded event is counted once, under its own type, and no other figure
\* of the summary moves (eventRepository.ts:106-133).
THEOREM RecordCountsOnce ==
    ASSUME NEW max \in Positive, NEW S, NEW log \in Seq(S),
           NEW event \in S, Recorded(event, max), NEW type \in EventTypes
    PROVE  CountByType(Record(log, event).log)[type] =
              CountByType(log)[type] + IF type = event.type THEN 1 ELSE 0
<1>. DEFINE Of(l) == {i \in 1..Len(l) : l[i].type = type}
            next == Append(log, event)
<1>1. Record(log, event).log = next
  BY RecordedIsReadable DEF Record
<1>2. /\ Len(log) \in Nat /\ Len(next) = Len(log) + 1
      /\ \A i \in 1..Len(log) : next[i] = log[i]
      /\ next[Len(log) + 1] = event
  OBVIOUS
<1>3. Of(next) = IF type = event.type THEN Of(log) \cup {Len(log) + 1} ELSE Of(log)
  <2>. HIDE DEF next
  <2>. QED  BY <1>2
<1>4. IsFiniteSet(Of(log)) /\ Len(log) + 1 \notin Of(log)
  <2>1. IsFiniteSet(1..Len(log))
    BY <1>2, FS_Interval
  <2>2. Of(log) \in SUBSET (1..Len(log))
    OBVIOUS
  <2>3. IsFiniteSet(Of(log))
    <3>. HIDE DEF Of
    <3>. QED  BY <2>1, <2>2, FS_Subset
  <2>. QED  BY <1>2, <2>3
<1>5. Cardinality(Of(log)) \in Nat
  BY <1>4, FS_CardinalityType
<1>6. CountByType(log)[type] = Cardinality(Of(log)) /\ CountByType(next)[type] = Cardinality(Of(next))
  BY DEF CountByType
<1>. HIDE DEF Of, next
<1>7. CASE type = event.type
  <2>1. Cardinality(Of(log) \cup {Len(log) + 1}) = Cardinality(Of(log)) + 1
    BY <1>4, FS_AddElement
  <2>. QED  BY <1>1, <1>3, <1>5, <1>6, <1>7, <2>1
<1>8. CASE type # event.type
  BY <1>1, <1>3, <1>5, <1>6, <1>8
<1>. QED  BY <1>7, <1>8

-----------------------------------------------------------------------------

LEMMA DetectedReads ==
    ASSUME NEW at \in Nat, NEW url \in ItemUrls, NEW run \in MaybeRunIds, NEW via \in CommentVias
    PROVE  Reading(Detected(at, url, run, via)) # {}
BY DEF Reading, Detected, Event, DetectedReading, WithRun

LEMMA SkippedReads ==
    ASSUME NEW at \in Nat, NEW url \in CommentUrls, NEW run \in MaybeRunIds
    PROVE  Reading(Skipped(at, url, run)) # {}
<1>. DEFINE e == Skipped(at, url, run)
<1>1. /\ e.type = "coderabbit_review_skipped"
      /\ e.payload = WithRun([source_ts |-> at, comment_url |-> url, skip_reason |-> 41], run)
  BY DEF Skipped, Event
<1>2. "skip_reason" \in DOMAIN e.payload /\ e.payload["skip_reason"] = 41
  BY <1>1 DEF WithRun
<1>3. SkippedReading(e) = {"skip_reason"}
  BY <1>2 DEF SkippedReading, Says
<1>4. Reading(e) = SkippedReading(e)
  BY <1>1 DEF Reading
<1>. QED  BY <1>3, <1>4

LEMMA VerdictReads ==
    ASSUME NEW at \in Nat, NEW url \in CommentUrls, NEW run \in MaybeRunIds, NEW verdict \in Verdicts
    PROVE  Reading(VerdictResolved(url, at, verdict, run)) # {}
<1>. DEFINE e == VerdictResolved(url, at, verdict, run)
<1>1. /\ e.type \in {"coderabbit_review_approved", "coderabbit_review_changes_suggested"}
      /\ e.payload = WithRun([coderabbit_comment_url |-> url, source_ts |-> at,
                              verdict_state |-> verdict], run)
  BY DEF VerdictResolved, Event, ToReviewEventType
<1>2. "coderabbit_comment_url" \in DOMAIN e.payload /\ e.payload["coderabbit_comment_url"] = url
  BY <1>1 DEF WithRun
<1>3. Says(e, "coderabbit_comment_url")
  BY <1>2, UrlsFit DEF Says, Positive
<1>4. Reading(e) = Saying(e, {"coderabbit_comment_url", "coderabbit_run_id"})
  BY <1>1 DEF Reading
<1>. QED  BY <1>3, <1>4 DEF Saying

LEMMA OthersRead ==
    /\ \A url \in GitHubUrls, verdict \in Verdicts, via \in ReviewVias :
          Reading(Reviewed(url, verdict, via)) # {}
    /\ \A source \in ItemUrls, posted \in GitHubUrls : Reading(ReviewRetriggered(source, posted)) # {}
    /\ \A comment \in Positive, url \in CommentUrls, run \in FoundRunIds :
          Reading(RunIdFirstSeen(comment, url, run)) # {}
    /\ \A comment \in Positive, url \in CommentUrls, previous \in FoundRunIds, run \in FoundRunIds :
          Reading(RunIdChanged(comment, url, previous, run)) # {}
    /\ \A comment \in Positive, url \in CommentUrls, previous \in FoundRunIds :
          Reading(RunIdCleared(comment, url, previous)) # {}
    /\ \A reason \in DismissalReasons \ {"other"} : Reading(Dismissed(reason)) # {}
    /\ \A attempts, max : Reading(MaxRetriggersExceeded(attempts, max)) = {"reason"}
<1>. USE UrlsFit DEF Reading, Event, Saying, Says, Positive
<1>1. ASSUME NEW url \in GitHubUrls, NEW verdict \in Verdicts, NEW via \in ReviewVias
      PROVE  Reading(Reviewed(url, verdict, via)) # {}
  BY DEF Reviewed, ToReviewEventType
<1>2. ASSUME NEW source \in ItemUrls, NEW posted \in GitHubUrls
      PROVE  Reading(ReviewRetriggered(source, posted)) # {}
  BY DEF ReviewRetriggered
<1>3. ASSUME NEW comment \in Positive, NEW url \in CommentUrls, NEW run \in FoundRunIds
      PROVE  Reading(RunIdFirstSeen(comment, url, run)) # {}
  BY DEF RunIdFirstSeen
<1>4. ASSUME NEW comment \in Positive, NEW url \in CommentUrls,
             NEW previous \in FoundRunIds, NEW run \in FoundRunIds
      PROVE  Reading(RunIdChanged(comment, url, previous, run)) # {}
  BY DEF RunIdChanged
<1>5. ASSUME NEW comment \in Positive, NEW url \in CommentUrls, NEW previous \in FoundRunIds
      PROVE  Reading(RunIdCleared(comment, url, previous)) # {}
  BY DEF RunIdCleared
<1>6. ASSUME NEW reason \in DismissalReasons \ {"other"}
      PROVE  Reading(Dismissed(reason)) # {}
  BY DEF Dismissed, DismissedReading
<1>7. ASSUME NEW attempts, NEW max
      PROVE  Reading(MaxRetriggersExceeded(attempts, max)) = {"reason"}
  BY DEF MaxRetriggersExceeded, FailedReading
<1>. QED  BY <1>1, <1>2, <1>3, <1>4, <1>5, <1>6, <1>7, Zenon

LEMMA SilentOnes == Reading(Enqueued) = {} /\ Reading(ReviewedViaFallback) = {}
BY DEF Reading, Enqueued, ReviewedViaFallback, Event, Saying, Says

\* Below its label, the history has something to say of every recorded event but
\* two: enqueued, which carries nothing, and the approval concluded from the
\* date of CodeRabbit's last review, which carries only detected_via and that
\* is never read (summarizeEvent.ts:130-148).
THEOREM OnlyTwoReadAsNothing ==
    ASSUME NEW max \in Positive, NEW event, Recorded(event, max)
    PROVE  Reading(event) = {} <=> event \in {Enqueued, ReviewedViaFallback}
<1>1. CASE event \in {Enqueued, ReviewedViaFallback}
  BY <1>1, SilentOnes
<1>2. CASE event \notin {Enqueued, ReviewedViaFallback}
  <2>1. \A via \in {"edit_detection", "github_reviews_api"} : via \in ReviewVias
    BY DEF ReviewVias
  <2>2. Reading(PrDeleted) # {}
    BY OthersRead DEF PrDeleted, DismissalReasons
  <2>3. \A prState : DismissalReasonFromPrState(prState) \in DismissalReasons \ {"other"}
    BY DEF DismissalReasonFromPrState, DismissalReasons
  <2>4. \A attempts : Reading(MaxRetriggersExceeded(attempts, max)) # {}
    BY OthersRead
  <2>5. Reading(event) # {}
    BY <1>2, <2>1, <2>2, <2>3, <2>4, DetectedReads, SkippedReads, VerdictReads, OthersRead,
       ZenonT(30) DEF Recorded
  <2>. QED  BY <1>2, <2>5
<1>. QED  BY <1>1, <1>2

\* The reading of a failed event that names the attempts and their limit is
\* never reached: the schema requires a reason, the only one recorded is not
\* empty, and the counts come after it (summarizeEvent.ts:112-119).
THEOREM CountsAreNeverShown ==
    ASSUME NEW max \in Positive, NEW event, Recorded(event, max), event.type = "failed"
    PROVE  Reading(event) = {"reason"}
<1>1. /\ \A at, url, run, via : Detected(at, url, run, via).type # "failed"
      /\ \A at, url, run : Skipped(at, url, run).type # "failed"
      /\ \A at, url, run, verdict : VerdictResolved(url, at, verdict, run).type # "failed"
      /\ \A url, verdict, via : Reviewed(url, verdict, via).type # "failed"
  BY DEF Event, Detected, Skipped, VerdictResolved, Reviewed, ToReviewEventType
<1>2. /\ ReviewedViaFallback.type # "failed" /\ Enqueued.type # "failed" /\ PrDeleted.type # "failed"
      /\ \A source, posted : ReviewRetriggered(source, posted).type # "failed"
      /\ \A comment, url, run : RunIdFirstSeen(comment, url, run).type # "failed"
      /\ \A comment, url, previous, run : RunIdChanged(comment, url, previous, run).type # "failed"
      /\ \A comment, url, previous : RunIdCleared(comment, url, previous).type # "failed"
      /\ \A reason : Dismissed(reason).type # "failed"
  BY DEF Event, ReviewedViaFallback, Enqueued, PrDeleted, ReviewRetriggered, RunIdFirstSeen,
         RunIdChanged, RunIdCleared, Dismissed
<1>3. \E attempts \in Nat : event = MaxRetriggersExceeded(attempts, max)
  BY <1>1, <1>2, ZenonT(30) DEF Recorded
<1>. QED  BY <1>3, OthersRead

-----------------------------------------------------------------------------------
(* The rows (QueueViews).                                                         *)

LEMMA EnrichedItem ==
    ASSUME NEW q \in Tables, NEW i \in Rows(q),
           NEW columns \in Columns \cup {NoColumns}, NEW posted \in BOOLEAN
    PROVE  LET item == Enriched(q[i], columns, posted)
           IN  /\ item.status = q[i].status
               /\ item.status \in {"pending", "retriggered", "resolved"}
               /\ item.resolution = q[i].resolution
               /\ item.resolution \in Resolutions \cup {"none"}
               /\ item.prState = columns.prState
               /\ item.sourceUrl = "source"
               /\ item.reviewState \in ReviewVerdicts => item.reviewUrl = "review"
<1>1. q[i] \in Row /\ q[i].status # "absent"
  BY RowOf DEF Rows
<1>. QED  BY <1>1 DEF Enriched, Row, ActiveStatuses, ReviewVerdicts

\* Whatever the queue and the columns hold, the pill has a status of its own:
\* deriveActivityStatus does not throw, so "Unknown" is never shown; an item
\* reads as review-limited exactly as long as it is active, so "pending",
\* "awaiting review" and "review in progress" are never shown either
\* (deriveActivityStatus.ts:78-104 asks for the source comment first, and that
\* column is never empty); and a resolved item of a merged pull request reads
\* as merged, whatever it was resolved with.
THEOREM EveryRowReads ==
    ASSUME NEW q \in Tables, NEW i \in Rows(q),
           NEW columns \in Columns \cup {NoColumns}, NEW posted \in BOOLEAN
    PROVE  LET shown == ActivityStatus(Enriched(q[i], columns, posted))
           IN  /\ shown.state \notin {"unknown", "pending", "awaiting_review", "review_in_progress"}
               /\ shown.state = "review_limited" <=> q[i].status \in ActiveStatuses
               /\ shown.state = "pr_merged" <=>
                     /\ q[i].status = "resolved"
                     /\ columns.prState = "merged" \/ q[i].resolution = "pr_merged"
<1>. DEFINE item == Enriched(q[i], columns, posted)
            shown == ActivityStatus(item)
<1>0. /\ item.status = q[i].status /\ item.status \in {"pending", "retriggered", "resolved"}
      /\ item.resolution = q[i].resolution /\ item.resolution \in Resolutions \cup {"none"}
      /\ item.prState = columns.prState /\ item.sourceUrl = "source"
  BY EnrichedItem
<1>. SUFFICES
        /\ shown.state \notin {"unknown", "pending", "awaiting_review", "review_in_progress"}
        /\ shown.state = "review_limited" <=> q[i].status \in ActiveStatuses
        /\ shown.state = "pr_merged" <=>
              /\ q[i].status = "resolved"
              /\ columns.prState = "merged" \/ q[i].resolution = "pr_merged"
  OBVIOUS
<1>. HIDE DEF item
<1>1. CASE item.status = "pending"
  BY <1>0, <1>1 DEF ActivityStatus, PendingStatus, Shown, ActiveStatuses
<1>2. CASE item.status = "retriggered"
  BY <1>0, <1>2 DEF ActivityStatus, RetriggeredStatus, Shown, ActiveStatuses
<1>3. CASE item.status = "resolved"
  <2>1. shown = ResolvedStatus(item) /\ item.status \notin ActiveStatuses
    BY <1>3 DEF ActivityStatus, ActiveStatuses
  <2>2. ResolutionStatus(item).state \in
            {"review_completed", "failed", "pr_merged", "pr_closed", "skipped", "stale_comment", "manual_review"}
    BY <1>0 DEF ResolutionStatus, ReviewedStatus, Shown, Resolutions, Reopenable
  <2>3. ResolutionStatus(item).state = "pr_merged" <=> item.resolution = "pr_merged"
    BY <1>0 DEF ResolutionStatus, ReviewedStatus, Shown, Resolutions, Reopenable
  <2>. QED  BY <1>0, <1>3, <2>1, <2>2, <2>3 DEF ResolvedStatus, Shown
<1>. QED  BY <1>0, <1>1, <1>2, <1>3

\* A pill that names a verdict links to the review it is of: the enricher hands
\* out the state of a review only with its URL (QueueItemEnricher.ts:78).
THEOREM VerdictHasItsLink ==
    ASSUME NEW q \in Tables, NEW i \in Rows(q),
           NEW columns \in Columns \cup {NoColumns}, NEW posted \in BOOLEAN,
           ActivityStatus(Enriched(q[i], columns, posted)).subState # "none"
    PROVE  /\ ActivityStatus(Enriched(q[i], columns, posted)).link = "review"
           /\ q[i].resolution = "review_completed"
<1>. DEFINE item == Enriched(q[i], columns, posted)
<1>0. /\ item.status \in {"pending", "retriggered", "resolved"}
      /\ item.resolution = q[i].resolution /\ item.resolution \in Resolutions \cup {"none"}
      /\ item.sourceUrl = "source"
      /\ item.reviewState \in ReviewVerdicts => item.reviewUrl = "review"
  BY EnrichedItem
<1>1. ActivityStatus(item).subState # "none"
  OBVIOUS
<1>. SUFFICES ActivityStatus(item).link = "review" /\ item.resolution = "review_completed"
  BY <1>0
<1>. HIDE DEF item
<1>2. item.status = "resolved" /\ item.prState # "merged"
  BY <1>0, <1>1 DEF ActivityStatus, PendingStatus, RetriggeredStatus, ResolvedStatus, Shown
<1>3. ActivityStatus(item) = ResolutionStatus(item)
  BY <1>2 DEF ActivityStatus, ResolvedStatus
<1>4. item.resolution = "review_completed"
  BY <1>0, <1>1, <1>3 DEF ResolutionStatus, Shown, Resolutions, Reopenable
<1>5. ActivityStatus(item) = ReviewedStatus(item)
  BY <1>3, <1>4 DEF ResolutionStatus
<1>6. item.reviewState \in ReviewVerdicts
  BY <1>1, <1>5 DEF ReviewedStatus, Shown
<1>. QED  BY <1>0, <1>4, <1>5, <1>6 DEF ReviewedStatus, Shown

-----------------------------------------------------------------------------

\* The last activity of a row in the table is one of its dates and none is later.
LEMMA LastActivityIsLatest ==
    ASSUME NEW row, row.createdAt \in Time, row.retriggeredAt \in TimeOrNull,
           row.resolvedAt \in TimeOrNull
    PROVE  /\ LastActivity(row) \in Dates(row)
           /\ \A d \in Dates(row) : d <= LastActivity(row)
           /\ Dates(row) \subseteq Time
<1>1. /\ row.createdAt \in Dates(row) /\ Dates(row) \subseteq Time
      /\ Dates(row) \subseteq {row.resolvedAt, row.retriggeredAt, row.createdAt}
  BY DEF Dates, Time, TimeOrNull, NoTime
<1>2. \E d \in Dates(row) : \A e \in Dates(row) : e <= d
  BY <1>1 DEF Time
<1>. QED  BY <1>1, <1>2 DEF LastActivity

\* A post and a resolution are the last activity of their row: the clock that
\* stamps them is not behind any date already there.
THEOREM MarksAreLastActivity ==
    ASSUME NEW q \in Tables, NEW i \in ItemIds, NEW t \in Time, q[i].createdAt # NoTime,
           \A d \in Dates(q[i]) : d <= t,
           NEW cooldown, NEW run, NEW resolution
    PROVE  /\ LastActivity(MarkRetriggered(q, i, cooldown, run, t)[i]) = t
           /\ LastActivity(MarkResolved(q, i, resolution, t)[i]) = t
<1>0. /\ q[i] \in Row /\ q \in [ItemIds -> Row] /\ t # NoTime /\ t \in TimeOrNull
      /\ q[i].createdAt \in Time
      /\ q[i].retriggeredAt \in TimeOrNull /\ q[i].resolvedAt \in TimeOrNull
  BY RowOf DEF Tables, Row, TimeOrNull, Time, NoTime
<1>1. LastActivity(MarkRetriggered(q, i, cooldown, run, t)[i]) = t
  <2>. DEFINE r == MarkRetriggered(q, i, cooldown, run, t)[i]
  <2>1. r.createdAt = q[i].createdAt /\ r.resolvedAt = q[i].resolvedAt /\ r.retriggeredAt = t
    BY <1>0 DEF MarkRetriggered, Row
  <2>2. t \in Dates(r) /\ \A d \in Dates(r) : d <= t
    BY <1>0, <2>1 DEF Dates, Time
  <2>3. LastActivity(r) \in Time /\ LastActivity(r) \in Dates(r) /\ t <= LastActivity(r)
    BY <1>0, <2>1, <2>2, LastActivityIsLatest
  <2>. QED  BY <2>2, <2>3 DEF Time
<1>2. LastActivity(MarkResolved(q, i, resolution, t)[i]) = t
  <2>. DEFINE r == MarkResolved(q, i, resolution, t)[i]
  <2>1. r.createdAt = q[i].createdAt /\ r.resolvedAt = t /\ r.retriggeredAt = q[i].retriggeredAt
    BY <1>0 DEF MarkResolved, Row
  <2>2. t \in Dates(r) /\ \A d \in Dates(r) : d <= t
    BY <1>0, <2>1 DEF Dates, Time
  <2>3. LastActivity(r) \in Time /\ LastActivity(r) \in Dates(r) /\ t <= LastActivity(r)
    BY <1>0, <2>1, <2>2, LastActivityIsLatest
  <2>. QED  BY <2>2, <2>3 DEF Time
<1>. QED  BY <1>1, <1>2

\* A row that is reopened leaves no date of it: its last activity goes back to
\* the post or the insertion before the resolution it forgets
\* (queueRepository.ts:116-119, 325-331, 440-444 write no date).
THEOREM ReopeningMovesActivityBack ==
    ASSUME NEW q \in Tables, NEW i \in ItemIds, q[i].createdAt # NoTime,
           q[i].resolvedAt # NoTime,
           \A d \in Dates(q[i]) \ {q[i].resolvedAt} : d < q[i].resolvedAt,
           q[i].resolvedAt \notin {q[i].createdAt, q[i].retriggeredAt},
           NEW run, NEW cooldown
    PROVE  LastActivity(Reopen(q, i, run, cooldown)[i]) < LastActivity(q[i])
<1>. DEFINE r == Reopen(q, i, run, cooldown)[i]
<1>0. /\ q[i] \in Row /\ q \in [ItemIds -> Row]
      /\ q[i].createdAt \in Time
      /\ q[i].retriggeredAt \in TimeOrNull /\ q[i].resolvedAt \in Time
      /\ NoTime \in TimeOrNull /\ q[i].resolvedAt \in TimeOrNull
  BY RowOf DEF Tables, Row, TimeOrNull
<1>1. r.createdAt = q[i].createdAt /\ r.resolvedAt = NoTime /\ r.retriggeredAt = q[i].retriggeredAt
  BY <1>0 DEF Reopen, Row
<1>2. LastActivity(r) \in Dates(r) /\ Dates(r) \subseteq Time
  BY <1>0, <1>1, LastActivityIsLatest
<1>3. Dates(r) = Dates(q[i]) \ {q[i].resolvedAt}
  BY <1>0, <1>1 DEF Dates
<1>4. LastActivity(r) < q[i].resolvedAt
  BY <1>2, <1>3
<1>5. q[i].resolvedAt <= LastActivity(q[i]) /\ LastActivity(q[i]) \in Time
  BY <1>0, LastActivityIsLatest DEF Dates
<1>. QED  BY <1>0, <1>2, <1>4, <1>5 DEF Time
===================================================================================
