--------------------------------- MODULE EventLog ---------------------------------
(****************************************************************************)
(* The events the services record, the schemas they are read back with and  *)
(* what the dashboard makes of them.                                        *)
(*                                                                          *)
(* EventRepository.record parses the row it has just inserted (parseEventRow *)
(* of src/src/schemas/events.ts) inside the transaction of the change the    *)
(* event tells of.  An event that did not fit its schema would throw there   *)
(* and take the change back with it, the note of a request that is already   *)
(* on GitHub included; one that got in would fail every page it is on.       *)
(*                                                                          *)
(* The module has no variables.  A text is its length, a date or a comment   *)
(* id a number, a value of an enumeration its name; a field that is          *)
(* undefined is not in the payload, as JSON.stringify leaves it out.         *)
(****************************************************************************)
EXTENDS Integers, Sequences, FiniteSets

\* Limits of src/src/schemas/lengths.ts.
UrlMax == 512
RunIdMax == 75
ReasonMax == 1024
RepoMax == 140

Texts == Nat
Urls == 0..UrlMax
RunIds == 0..RunIdMax
Positive == Nat \ {0}

CommentVias == {"search", "direct_scan", "stale_recovery"}
ReviewVias == {"edit_detection", "github_reviews_api", "last_coderabbit_review_at_fallback"}
Verdicts == {"review_approved", "review_changes_suggested"}
DismissalReasons == {"other", "prClosedWithoutMerge", "prDeleted", "prMerged",
                     "prNotRegistered", "staleComment"}

ReviewSchema ==
    [coderabbit_comment_url |-> Urls, source_ts |-> Nat, verdict_state |-> Verdicts,
     detected_via |-> ReviewVias, coderabbit_run_id |-> RunIds]

\* What each field of a payload may be, by the type of the event.
Schema ==
    [detected |-> [source_ts |-> Nat, source_comment_url |-> Urls,
                   coderabbit_run_id |-> RunIds, detected_via |-> CommentVias],
     enqueued |-> [none |-> {}],
     retriggered |-> [source_comment_url |-> Urls, retriggered_comment_url |-> Urls],
     dismissed |-> [reason |-> DismissalReasons],
     coderabbit_review_approved |-> ReviewSchema,
     coderabbit_review_changes_suggested |-> ReviewSchema,
     coderabbit_review_skipped |-> [source_ts |-> Nat, comment_url |-> Urls,
                                    skip_reason |-> Texts, coderabbit_run_id |-> RunIds],
     coderabbit_run_id_changed |-> [comment_id |-> Int, comment_url |-> Urls,
                                    previous_coderabbit_run_id |-> RunIds,
                                    coderabbit_run_id |-> RunIds],
     coderabbit_run_id_cleared |-> [comment_id |-> Int, comment_url |-> Urls,
                                    previous_coderabbit_run_id |-> RunIds],
     coderabbit_run_id_first_seen |-> [comment_id |-> Int, comment_url |-> Urls,
                                       coderabbit_run_id |-> RunIds],
     failed |-> [reason |-> 0..ReasonMax, retrigger_count |-> Positive, max |-> Positive]]

EventTypes == DOMAIN Schema

\* The fields no schema marks as optional.
Required ==
    [detected |-> {}, enqueued |-> {},
     retriggered |-> {"source_comment_url", "retriggered_comment_url"},
     dismissed |-> {"reason"},
     coderabbit_review_approved |-> {}, coderabbit_review_changes_suggested |-> {},
     coderabbit_review_skipped |-> {"source_ts", "comment_url", "skip_reason"},
     coderabbit_run_id_changed |-> {"comment_id", "comment_url",
                                    "previous_coderabbit_run_id", "coderabbit_run_id"},
     coderabbit_run_id_cleared |-> {"comment_id", "comment_url", "previous_coderabbit_run_id"},
     coderabbit_run_id_first_seen |-> {"comment_id", "comment_url", "coderabbit_run_id"},
     failed |-> {"reason"}]

\* parseEventRow does not throw.
Readable(event) ==
    /\ event.type \in EventTypes
    /\ Required[event.type] \subseteq DOMAIN event.payload
    /\ \A f \in DOMAIN event.payload \cap DOMAIN Schema[event.type] :
          event.payload[f] \in Schema[event.type][f]

\* record, as part of a transaction.
Record(log, event) ==
    IF Readable(event) THEN [log |-> Append(log, event), threw |-> FALSE]
    ELSE [log |-> log, threw |-> TRUE]

\* countByType, of the events of its window.
CountByType(log) ==
    [type \in EventTypes |-> Cardinality({i \in 1..Len(log) : log[i].type = type})]

\* The four figures the summary hands out.
EventCounts(log) ==
    [type \in {"detected", "enqueued", "retriggered", "failed"} |-> CountByType(log)[type]]

-----------------------------------------------------------------------------
(* What the probes record.                                                  *)

Event(type, payload) == [type |-> type, payload |-> payload]

\* extractCoderabbitRunId: what stands between the backquotes, cut; 0 is none.
NoRunId == 0
Extracted(written) == IF written > RunIdMax THEN RunIdMax ELSE written

WithRun(payload, run) ==
    [f \in DOMAIN payload \cup (IF run = NoRunId THEN {} ELSE {"coderabbit_run_id"}) |->
        IF f = "coderabbit_run_id" THEN run ELSE payload[f]]

\* "https://github.com/", "/pull/" and "#issuecomment-" around what is given.
CommentUrl(repo, prDigits, idDigits) == 19 + repo + 6 + prDigits + 14 + idDigits

Detected(sourceTs, url, run, via) ==
    Event("detected", WithRun([source_ts |-> sourceTs, source_comment_url |-> url,
                               detected_via |-> via], run))

\* The reason is a text of 41 characters.
Skipped(sourceTs, url, run) ==
    Event("coderabbit_review_skipped",
          WithRun([source_ts |-> sourceTs, comment_url |-> url, skip_reason |-> 41], run))

ToReviewEventType(verdict) ==
    IF verdict = "review_approved" THEN "coderabbit_review_approved"
    ELSE "coderabbit_review_changes_suggested"

VerdictResolved(url, sourceTs, verdict, run) ==
    Event(ToReviewEventType(verdict),
          WithRun([coderabbit_comment_url |-> url, source_ts |-> sourceTs,
                   verdict_state |-> verdict], run))

Reviewed(url, verdict, via) ==
    Event(ToReviewEventType(verdict),
          [coderabbit_comment_url |-> url, verdict_state |-> verdict, detected_via |-> via])

ReviewedViaFallback ==
    Event("coderabbit_review_approved",
          [detected_via |-> "last_coderabbit_review_at_fallback"])

Enqueued == Event("enqueued", <<>>)

ReviewRetriggered(source, retriggered) ==
    Event("retriggered", [source_comment_url |-> source, retriggered_comment_url |-> retriggered])

RunIdFirstSeen(comment, url, run) ==
    Event("coderabbit_run_id_first_seen",
          [comment_id |-> comment, comment_url |-> url, coderabbit_run_id |-> run])

RunIdChanged(comment, url, previous, run) ==
    Event("coderabbit_run_id_changed",
          [comment_id |-> comment, comment_url |-> url,
           previous_coderabbit_run_id |-> previous, coderabbit_run_id |-> run])

RunIdCleared(comment, url, previous) ==
    Event("coderabbit_run_id_cleared",
          [comment_id |-> comment, comment_url |-> url, previous_coderabbit_run_id |-> previous])

DismissalReasonFromPrState(prState) ==
    IF prState = "merged" THEN "prMerged" ELSE "prClosedWithoutMerge"

Dismissed(reason) == Event("dismissed", [reason |-> reason])

PrDeleted == Dismissed("prDeleted")

\* The reason is a text of 31 characters.
MaxRetriggersExceeded(attempts, max) ==
    Event("failed", [reason |-> 31, retrigger_count |-> attempts, max |-> max])

-----------------------------------------------------------------------------
(* What is recorded, with everything that may stand in it.  Comments come   *)
(* from listings and searches, which build their URL, or from a pull        *)
(* request whose comment is gone, by the URL of the pull request.           *)

Digits == 1..16                   \* of a number JavaScript can count with
CommentUrls ==
    {u \in Nat : \E r \in 1..RepoMax, p \in Digits, i \in Digits : u = CommentUrl(r, p, i)}

\* The column of review_queue holds no longer URL.
ItemUrls == 1..UrlMax
\* GitHub's own URL of a review or of a comment just posted.
GitHubUrls == {u \in Nat : \E url \in CommentUrls, shift \in 0..20 : u = url + shift}

FoundRunIds == {run \in Nat : \E written \in Positive : run = Extracted(written)}
MaybeRunIds == FoundRunIds \cup {NoRunId}

Recorded(event, max) ==
    \/ \E at \in Nat, url \in ItemUrls, run \in MaybeRunIds, via \in CommentVias :
          event = Detected(at, url, run, via)
    \/ \E at \in Nat, url \in CommentUrls, run \in MaybeRunIds : event = Skipped(at, url, run)
    \/ \E at \in Nat, url \in CommentUrls, run \in MaybeRunIds, verdict \in Verdicts :
          event = VerdictResolved(url, at, verdict, run)
    \/ \E url \in GitHubUrls, verdict \in Verdicts, via \in {"edit_detection", "github_reviews_api"} :
          event = Reviewed(url, verdict, via)
    \/ event \in {ReviewedViaFallback, Enqueued, PrDeleted}
    \/ \E source \in ItemUrls, posted \in GitHubUrls : event = ReviewRetriggered(source, posted)
    \/ \E comment \in Positive, url \in CommentUrls, run \in FoundRunIds :
          event = RunIdFirstSeen(comment, url, run)
    \/ \E comment \in Positive, url \in CommentUrls, previous \in FoundRunIds, run \in FoundRunIds :
          event = RunIdChanged(comment, url, previous, run)
    \/ \E comment \in Positive, url \in CommentUrls, previous \in FoundRunIds :
          event = RunIdCleared(comment, url, previous)
    \/ \E prState \in {"merged", "closed"} : event = Dismissed(DismissalReasonFromPrState(prState))
    \/ \E attempts \in Nat : attempts >= max /\ event = MaxRetriggersExceeded(attempts, max)

-----------------------------------------------------------------------------
(* summarizeEvent: the fields the history puts into words, below the label. *)

\* readString and the URL tokens: absent and empty say nothing.  Every URL
\* recorded ends in the digits a token takes its id from.
Says(event, f) == f \in DOMAIN event.payload /\ event.payload[f] > 0

Saying(event, fields) == {f \in fields : Says(event, f)}

\* Both or neither.
Together(event, fields) == IF Saying(event, fields) = fields THEN fields ELSE {}

DetectedReading(event) ==
    IF "detected_via" \in DOMAIN event.payload
    THEN {"detected_via"} \cup
         IF event.payload.detected_via = "stale_recovery" THEN {}
         ELSE Saying(event, {"coderabbit_run_id", "source_comment_url"})
    ELSE Saying(event, {"coderabbit_run_id", "source_comment_url"})

SkippedReading(event) ==
    IF Says(event, "skip_reason") THEN {"skip_reason"} ELSE Saying(event, {"comment_url"})

DismissedReading(event) ==
    IF event.payload.reason = "other" THEN {} ELSE {"reason"}

\* The counts are looked at only if there is no reason.
FailedReading(event) ==
    IF Says(event, "reason") THEN {"reason"} ELSE Together(event, {"retrigger_count", "max"})

Reading(event) ==
    CASE event.type = "detected" -> DetectedReading(event)
      [] event.type = "retriggered" ->
            Saying(event, {"source_comment_url", "retriggered_comment_url"})
      [] event.type \in {"coderabbit_review_approved", "coderabbit_review_changes_suggested"} ->
            Saying(event, {"coderabbit_comment_url", "coderabbit_run_id"})
      [] event.type = "coderabbit_review_skipped" -> SkippedReading(event)
      [] event.type = "coderabbit_run_id_first_seen" ->
            Saying(event, {"comment_id", "coderabbit_run_id"})
      [] event.type = "coderabbit_run_id_changed" ->
            Saying(event, {"comment_id"})
            \cup Together(event, {"previous_coderabbit_run_id", "coderabbit_run_id"})
      [] event.type = "coderabbit_run_id_cleared" ->
            Saying(event, {"comment_id", "previous_coderabbit_run_id"})
      [] event.type = "dismissed" -> DismissedReading(event)
      [] event.type = "failed" -> FailedReading(event)
      [] OTHER -> {}
=============================================================================
