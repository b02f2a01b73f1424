-------------------------------- MODULE QueueViews --------------------------------
(****************************************************************************)
(* What the read routes and the dashboard make of the rows of review_queue: *)
(* the enrichment of an item with the columns of its pull request, the      *)
(* status and the link of its pill and the moment of its last activity.     *)
(*                                                                          *)
(* The module has no variables.  A pull request is the record of the columns *)
(* the enricher fetches, an item without one has NoColumns.  The URLs are   *)
(* named for the column they come from, "none" being undefined.             *)
(****************************************************************************)
EXTENDS QueueRows

ReviewVerdicts == {"review_approved", "review_changes_suggested"}

\* pull_request as getColumnMaps returns it; "null" is a column that is null,
\* hasReviewUrl whether last_review_url is set.
Columns == [prState      : {"open", "merged", "closed"},
            acknowledged : BOOLEAN,
            reviewState  : ReviewVerdicts \cup {"null"},
            hasReviewUrl : BOOLEAN]

NoColumns == [prState |-> "null", acknowledged |-> FALSE,
              reviewState |-> "null", hasReviewUrl |-> FALSE]

\* enrich and fromEnriched: the verdict counts only together with its URL.
\* posted tells whether retrigger_comment_url is set; source_comment_url always
\* is, the column being NOT NULL and written from the comment found.
Enriched(row, columns, posted) ==
    LET verdict == columns.hasReviewUrl /\ columns.reviewState \in ReviewVerdicts
    IN  [status       |-> row.status,
         resolution   |-> row.resolution,
         prState      |-> columns.prState,
         acknowledged |-> columns.acknowledged,
         reviewState  |-> IF verdict THEN columns.reviewState ELSE "null",
         reviewUrl    |-> IF verdict THEN "review" ELSE "none",
         retriggerUrl |-> IF posted THEN "retrigger" ELSE "none",
         sourceUrl    |-> "source"]

-----------------------------------------------------------------------------
(* deriveActivityStatus, and the fallback of the dashboard when it throws.  *)

Shown(state, link) == [state |-> state, link |-> link, subState |-> "none"]

Unhandled == Shown("unknown", "none")

ReviewedStatus(item) ==
    [Shown("review_completed", item.reviewUrl) EXCEPT
        !.subState = IF item.reviewState \in ReviewVerdicts THEN item.reviewState ELSE "none"]

ResolutionStatus(item) ==
    CASE item.resolution = "none" -> Shown("review_completed", "none")
      [] item.resolution = "review_completed" -> ReviewedStatus(item)
      [] item.resolution = "failed" -> Shown("failed", "none")
      [] item.resolution = "pr_merged" -> Shown("pr_merged", "none")
      [] item.resolution = "pr_closed_without_merge" -> Shown("pr_closed", "none")
      [] item.resolution = "skipped" -> Shown("skipped", item.sourceUrl)
      [] item.resolution = "stale_comment" -> Shown("stale_comment", item.sourceUrl)
      [] item.resolution = "manual_review" -> Shown("manual_review", "none")
      [] OTHER -> Unhandled

ResolvedStatus(item) ==
    IF item.prState = "merged" THEN Shown("pr_merged", "none") ELSE ResolutionStatus(item)

RetriggeredStatus(item) ==
    IF item.sourceUrl # "none" THEN Shown("review_limited", item.sourceUrl)
    ELSE IF item.acknowledged THEN Shown("review_in_progress", item.retriggerUrl)
    ELSE Shown("awaiting_review", item.retriggerUrl)

PendingStatus(item) ==
    IF item.sourceUrl # "none" THEN Shown("review_limited", item.sourceUrl)
    ELSE Shown("pending", "none")

ActivityStatus(item) ==
    CASE item.status = "resolved" -> ResolvedStatus(item)
      [] item.status = "retriggered" -> RetriggeredStatus(item)
      [] item.status = "pending" -> PendingStatus(item)
      [] OTHER -> Unhandled

-----------------------------------------------------------------------------
(* computeLastActivity.  failed_at is among its dates too, but no write of  *)
(* the repository sets that column.                                         *)

Dates(row) == {row.resolvedAt, row.retriggeredAt, row.createdAt} \ {NoTime}

LastActivity(row) == CHOOSE d \in Dates(row) : \A e \in Dates(row) : e <= d
=============================================================================
