---------------------------- MODULE TriggerPipeline ----------------------------
(****************************************************************************)
(* How a review request gets posted: one scheduler tick at a time           *)
(* (src/scheduler.ts), any number of dashboard requests beside it           *)
(* (src/routes/queueOrderRoutes.ts), both through ReviewTrigger             *)
(* (src/ReviewTrigger.ts), over the queue table, the global availability    *)
(* gate, the pause flag and GitHub.                                         *)
(*                                                                          *)
(* Node runs one callback at a time, and Prisma's SQLite adapter one        *)
(* transaction at a time, so an action is what runs between two awaits: a   *)
(* transaction, a read, or a GitHub call.  Everything an actor keeps in     *)
(* local variables across an await (the selected item, its attempts) is in  *)
(* tick or trig, and may be stale by the time it is used.                   *)
(*                                                                          *)
(* Time is counted in the unit of the constants; steps take no time and     *)
(* Tick may happen between any two of them.                                 *)
(****************************************************************************)
EXTENDS QueueRows

CONSTANTS
    CommentPr,          \* the pull request a GitHub comment belongs to
    Dashboards,         \* concurrent retrigger-now requests
    Scheduler,          \* the scheduler as an actor of ReviewTrigger
    NoItem,             \* no queue item selected
    Cooldown,           \* CODERABBIT_ACCOUNT_COOLDOWN_SEC
    Spacing,            \* SCHEDULER_RETRIGGER_SPACING_SEC
    MaxAge,             \* SCHEDULER_MAX_RETRIGGER_AGE_SEC
    MaxAttempts,        \* MAX_RETRIGGER_ATTEMPTS
    MaxFetches,         \* SCHEDULER_MAX_PR_STATE_FETCHES_PER_TICK
    Waits,              \* waits a rate-limit comment may state
    CommentAges,        \* bound: how old a comment may be when detected
    PrOutcomes,         \* what may become of an open pull request
    Faults,             \* which faults may happen
    MaxTime             \* bound: the clock stops here

FaultKinds == {"lostResponse", "dbError", "crash"}

ASSUME PipelineAssumption ==
    /\ Comments # {} /\ CommentPr \in [Comments -> PullRequests]
    /\ Scheduler \notin Dashboards
    /\ NoItem \notin ItemIds
    /\ Cooldown \in Nat /\ Spacing \in Nat /\ Spacing < Cooldown
    /\ MaxAge \in Nat /\ MaxTime \in Nat
    /\ MaxAttempts \in Nat \ {0} /\ MaxFetches \in Nat \ {0}
    /\ Waits \subseteq Nat /\ CommentAges \subseteq Nat
    /\ PrOutcomes \subseteq {"merged", "closed", "gone"}
    /\ Faults \subseteq FaultKinds

Actors == Dashboards \cup {Scheduler}

VARIABLES
    now,                \* Date.now()
    queue,              \* review_queue
    paused,             \* system_state.schedulerStatus = paused
    nextAvailable,      \* system_state.nextReviewAvailableAt
    requestedAt,        \* pull_request.last_review_requested_at
    awaiting,           \* PRs whose last request has no acknowledgement
    prState,            \* the state GitHub reports for a PR
    tick,               \* locals of the scheduler tick in flight
    trig,               \* locals of each ReviewTrigger.trigger call in flight
    posted,             \* history: when requests landed on GitHub
    recorded            \* history: those whose transaction committed

vars == <<now, queue, paused, nextAvailable, requestedAt, awaiting, prState,
          tick, trig, posted, recorded>>
gates == <<paused, nextAvailable, requestedAt, awaiting>>
history == <<posted, recorded>>

LaterMutant(a, b) == b            \* writes the gate without reading it
Later(a, b) == IF a > b THEN a ELSE b

Candidate == [id : ItemIds, attempts : Nat, cooldownUntil : TimeOrNull]
Verdict == [id : ItemIds, resolution : {"pr_merged", "pr_closed_without_merge"}]

TickPhases == {"idle", "prune", "doomed", "sweep", "pause", "ack", "gate",
               "select", "scan", "trigger"}
Outcomes == {"posted", "stale", "rescheduled", "failed", "terminal"}
TriggerPhases == {"none", "decide", "post", "record"} \cup Outcomes

\* passed is history: the recorded requests by the time the gate was passed.
IdleTick == [pc |-> "idle", active |-> {}, doomed |-> {}, todo |-> {},
             fetches |-> 0, passed |-> {}]
NoTrigger == [pc |-> "none", item |-> NoItem, attempts |-> 0,
              postedAt |-> NoTime]

TypeOK ==
    /\ now \in Nat
    /\ queue \in Tables
    /\ paused \in BOOLEAN
    /\ nextAvailable \in TimeOrNull
    /\ requestedAt \in [PullRequests -> TimeOrNull]
    /\ awaiting \subseteq PullRequests
    /\ prState \in [PullRequests -> {"open", "merged", "closed", "gone"}]
    /\ tick \in [pc : TickPhases, active : SUBSET ItemIds,
                 doomed : SUBSET Verdict, todo : SUBSET Candidate,
                 fetches : Nat, passed : SUBSET Nat]
    /\ trig \in [Actors -> [pc : TriggerPhases, item : ItemIds \cup {NoItem},
                            attempts : Nat, postedAt : TimeOrNull]]
    /\ posted \subseteq Nat
    /\ recorded \subseteq Nat

AbsentRow ==
    [status |-> "absent", resolution |-> "none",
     pr |-> CHOOSE p \in PullRequests : TRUE,
     comment |-> CHOOSE c \in Comments : TRUE,
     run |-> NoRun, attempts |-> 0, skipped |-> FALSE, createdAt |-> NoTime,
     retriggeredAt |-> NoTime, resolvedAt |-> NoTime, cooldownUntil |-> NoTime]

Init ==
    /\ now = 0
    /\ queue = [i \in ItemIds |-> AbsentRow]
    /\ paused = FALSE
    /\ nextAvailable = NoTime
    /\ requestedAt = [p \in PullRequests |-> NoTime]
    /\ awaiting = {}
    /\ prState = [p \in PullRequests |-> "open"]
    /\ tick = IdleTick
    /\ trig = [a \in Actors |-> NoTrigger]
    /\ posted = {}
    /\ recorded = {}

-----------------------------------------------------------------------------
(* ReviewTrigger.trigger, shared by the scheduler and the dashboard.        *)

\* The response of a dashboard request ends its handler; the scheduler has
\* the result to act on.
Return(a, outcome) ==
    trig' = [trig EXCEPT ![a] =
                IF a = Scheduler THEN [trig[a] EXCEPT !.pc = outcome]
                ELSE NoTrigger]

\* The source comment is fetched, and when it no longer asks for a retrigger
\* the latest rate-limit comment of the PR: what GitHub answers is arbitrary,
\* but only a deleted PR makes it answer 404 or 410.
\* The status guard at the top reads the caller's snapshot, which is always
\* pending.
DecideOnComment(a) ==
    /\ trig[a].pc = "decide"
    /\ \/ trig' = [trig EXCEPT ![a].pc = "post"]
       \/ \E outcome \in Outcomes \ {"posted"} :
            /\ outcome = "terminal" => prState[queue[trig[a].item].pr] = "gone"
            /\ Return(a, outcome)
    /\ UNCHANGED <<now, queue, gates, prState, tick, history>>

\* GitHub accepts the comment.
PostRetrigger(a) ==
    /\ trig[a].pc = "post"
    /\ prState[queue[trig[a].item].pr] # "gone"
    /\ posted' = posted \cup {now}
    /\ trig' = [trig EXCEPT ![a].pc = "record", ![a].postedAt = now]
    /\ UNCHANGED <<now, queue, gates, prState, tick, recorded>>

\* GitHub refuses it (404 or 410 is terminal), or only its answer is lost.
PostFails(a) ==
    /\ trig[a].pc = "post"
    /\ \/ Return(a, "failed") /\ UNCHANGED posted
       \/ /\ prState[queue[trig[a].item].pr] = "gone"
          /\ Return(a, "terminal")
          /\ UNCHANGED posted
       \/ /\ "lostResponse" \in Faults
          /\ Return(a, "failed")
          /\ posted' = posted \cup {now}
    /\ UNCHANGED <<now, queue, gates, prState, tick, recorded>>

CooldownEnd(readAt) == readAt + Cooldown

\* The transaction after the post.  Date.now() is read for the cooldown
\* somewhere between GitHub accepting the comment and the commit.
RecordRetrigger(a) ==
    /\ trig[a].pc = "record"
    /\ \E readAt \in trig[a].postedAt..now, run \in Runs \cup {NoRun} :
         /\ queue' = MarkRetriggered(queue, trig[a].item, CooldownEnd(readAt),
                                     run, now)
         /\ nextAvailable' = Later(nextAvailable, CooldownEnd(readAt))
    /\ LET pr == queue[trig[a].item].pr
       IN  /\ requestedAt' = [requestedAt EXCEPT ![pr] = now]
           /\ awaiting' = awaiting \cup {pr}
    /\ recorded' = recorded \cup {trig[a].postedAt}
    /\ Return(a, "posted")
    /\ UNCHANGED <<now, paused, prState, tick, posted>>

\* A transaction of the actor fails: the trigger call, or the scheduler's
\* bookkeeping after it, throws.
TransactionFails(a) ==
    /\ "dbError" \in Faults
    /\ trig[a].pc \in {"record", "posted", "stale", "rescheduled"}
    /\ Return(a, "failed")
    /\ UNCHANGED <<now, queue, gates, prState, tick, history>>

-----------------------------------------------------------------------------
(* Scheduler.executeTick, in the order of its awaits.                       *)

Goto(phase) == tick' = [tick EXCEPT !.pc = phase]
EndTick == tick' = IdleTick

\* Prunes the pending items only.
StartTickMutant ==
    /\ tick.pc = "idle"
    /\ tick' = [tick EXCEPT !.pc = "prune", !.active = Pending(queue)]
    /\ UNCHANGED <<now, queue, gates, prState, trig, history>>

StartTick ==
    /\ tick.pc = "idle"
    /\ tick' = [tick EXCEPT !.pc = "prune", !.active = Active(queue)]
    /\ UNCHANGED <<now, queue, gates, prState, trig, history>>

PruneVerdictMutant(i) ==          \* the PR state taken for a resolution
    [id |-> i, resolution |-> prState[queue[i].pr]]

PruneVerdict(i) ==
    [id |-> i, resolution |-> IF prState[queue[i].pr] = "merged"
                              THEN "pr_merged" ELSE "pr_closed_without_merge"]

\* PruneEvaluator: the PRs whose state could be fetched and is terminal.
PruneEvaluate ==
    /\ tick.pc = "prune"
    /\ \E fetched \in SUBSET {i \in tick.active :
                                prState[queue[i].pr] \in {"merged", "closed"}} :
         tick' = [tick EXCEPT !.pc = "doomed", !.active = {},
                              !.doomed = {PruneVerdict(i) : i \in fetched}]
    /\ UNCHANGED <<now, queue, gates, prState, trig, history>>

PruneResolve ==
    /\ tick.pc = "doomed"
    /\ \E v \in tick.doomed :
         /\ queue' = MarkResolved(queue, v.id, v.resolution, now)
         /\ tick' = [tick EXCEPT !.doomed = @ \ {v}]
    /\ UNCHANGED <<now, gates, prState, trig, history>>

PruneDone ==
    /\ tick.pc = "doomed" /\ tick.doomed = {}
    /\ Goto("sweep")
    /\ UNCHANGED <<now, queue, gates, prState, trig, history>>

SweepStale ==
    /\ tick.pc = "sweep"
    /\ queue' = ResolveStaleRetriggered(queue, MaxAge, now)
    /\ Goto("pause")
    /\ UNCHANGED <<now, gates, prState, trig, history>>

CheckPause ==
    /\ tick.pc = "pause"
    /\ IF paused THEN EndTick ELSE Goto("ack")
    /\ UNCHANGED <<now, queue, gates, prState, trig, history>>

\* Only the oldest request without an acknowledgement is looked at.
PendingAcks ==
    {p \in awaiting : \A other \in awaiting : requestedAt[p] <= requestedAt[other]}

CheckAcknowledgement ==
    /\ tick.pc = "ack"
    /\ IF \E p \in PendingAcks : now - requestedAt[p] < Spacing
       THEN EndTick ELSE Goto("gate")
    /\ UNCHANGED <<now, queue, gates, prState, trig, history>>

CheckAvailability ==
    /\ tick.pc = "gate"
    /\ IF nextAvailable # NoTime /\ nextAvailable > now
       THEN EndTick
       ELSE tick' = [tick EXCEPT !.pc = "select", !.passed = recorded]
    /\ UNCHANGED <<now, queue, gates, prState, trig, history>>

Snapshot(i) == [id |-> i, attempts |-> queue[i].attempts,
                cooldownUntil |-> queue[i].cooldownUntil]

SnapshotPending ==
    /\ tick.pc = "select"
    /\ tick' = [tick EXCEPT !.pc = "scan",
                            !.todo = {Snapshot(i) : i \in Pending(queue)}]
    /\ UNCHANGED <<now, queue, gates, prState, trig, history>>

\* The effective order is the user's to change, so any candidate may be next.
Cooling(c) == c.cooldownUntil # NoTime /\ c.cooldownUntil > now
Settling(c) == now - queue[c.id].createdAt < Spacing

SkipCandidate ==
    /\ tick.pc = "scan"
    /\ \E c \in tick.todo :
         /\ Cooling(c) \/ Settling(c)
         /\ queue' = MarkRetriggerSkipped(queue, c.id)
         /\ tick' = [tick EXCEPT !.todo = @ \ {c}]
    /\ UNCHANGED <<now, gates, prState, trig, history>>

\* A fetch that selected nothing counts against the budget of the tick.
SpendFetch(c) ==
    IF tick.fetches + 1 >= MaxFetches THEN EndTick
    ELSE tick' = [tick EXCEPT !.todo = @ \ {c}, !.fetches = @ + 1]

FetchFails ==
    /\ tick.pc = "scan"
    /\ \E c \in tick.todo : ~Cooling(c) /\ ~Settling(c) /\ SpendFetch(c)
    /\ UNCHANGED <<now, queue, gates, prState, trig, history>>

ResolveTerminalCandidate ==
    /\ tick.pc = "scan"
    /\ \E c \in tick.todo :
         /\ ~Cooling(c) /\ ~Settling(c)
         /\ prState[queue[c.id].pr] \in {"merged", "closed"}
         /\ queue' = MarkResolved(queue, c.id, PruneVerdict(c.id).resolution, now)
         /\ SpendFetch(c)
    /\ UNCHANGED <<now, gates, prState, trig, history>>

SelectCandidate ==
    /\ tick.pc = "scan"
    /\ \E c \in tick.todo :
         /\ ~Cooling(c) /\ ~Settling(c)
         /\ prState[queue[c.id].pr] = "open"
         /\ trig' = [trig EXCEPT ![Scheduler] =
                        [pc |-> "decide", item |-> c.id,
                         attempts |-> c.attempts, postedAt |-> NoTime]]
    /\ tick' = [IdleTick EXCEPT !.pc = "trigger", !.passed = tick.passed]
    /\ UNCHANGED <<now, queue, gates, prState, history>>

NothingDue ==
    /\ tick.pc = "scan" /\ tick.todo = {}
    /\ EndTick
    /\ UNCHANGED <<now, queue, gates, prState, trig, history>>

-----------------------------------------------------------------------------
(* What the tick does with the outcome of its trigger call.                 *)

Finish(outcome) ==
    /\ tick.pc = "trigger" /\ trig[Scheduler].pc = outcome
    /\ EndTick
    /\ trig' = [trig EXCEPT ![Scheduler] = NoTrigger]

\* The count is the snapshot's; at the cap it is not written any more.
AfterPosted ==
    /\ Finish("posted")
    /\ LET mine == trig[Scheduler]
       IN  queue' = IF mine.attempts + 1 >= MaxAttempts
                    THEN MarkResolved(queue, mine.item, "failed", now)
                    ELSE IncrementAttempts(queue, mine.item, mine.attempts + 1)
    /\ UNCHANGED <<now, gates, prState, history>>

AfterStale ==
    /\ Finish("stale")
    /\ queue' = MarkResolved(queue, trig[Scheduler].item, "stale_comment", now)
    /\ UNCHANGED <<now, gates, prState, history>>

\* The latest rate-limit comment of the PR, and the time it states: the update
\* time of a comment plus its wait.
StatedTimes ==
    {now - age + wait : age \in CommentAges \cap 0..now, wait \in Waits}

AfterRescheduled ==
    /\ tick.pc = "trigger" /\ trig[Scheduler].pc = "rescheduled"
    /\ \E comment \in {c \in Comments :
                       CommentPr[c] = queue[trig[Scheduler].item].pr},
          run \in Runs \cup {NoRun}, earliest \in StatedTimes :
         LET outcome == Reschedule(queue, trig[Scheduler].item, comment, run, now)
         IN  \/ /\ ~outcome.threw
                /\ Finish("rescheduled")
                /\ queue' = outcome.queue
                /\ nextAvailable' = Later(nextAvailable, earliest)
             \/ /\ outcome.threw
                /\ Return(Scheduler, "failed")
                /\ UNCHANGED <<queue, nextAvailable, tick>>
    /\ UNCHANGED <<now, paused, requestedAt, awaiting, prState, history>>

AfterTerminal ==
    /\ Finish("terminal")
    /\ queue' = MarkResolved(queue, trig[Scheduler].item, "failed", now)
    /\ UNCHANGED <<now, gates, prState, history>>

AfterFailed ==
    /\ Finish("failed")
    /\ LET mine == trig[Scheduler]
       IN  queue' = IF mine.attempts >= MaxAttempts
                    THEN MarkResolved(queue, mine.item, "failed", now)
                    ELSE Backoff(queue, mine.item, now)
    /\ UNCHANGED <<now, gates, prState, history>>

\* A statement throws before an item is selected, or in the last transaction
\* of the error path: the tick is over.
TickFails ==
    /\ "dbError" \in Faults
    /\ \/ tick.pc \notin {"idle", "trigger"}
       \/ tick.pc = "trigger" /\ trig[Scheduler].pc \in {"failed", "terminal"}
    /\ EndTick
    /\ trig' = [trig EXCEPT ![Scheduler] = NoTrigger]
    /\ UNCHANGED <<now, queue, gates, prState, history>>

SchedulerStep ==
    \/ StartTick \/ PruneEvaluate \/ PruneResolve \/ PruneDone \/ SweepStale
    \/ CheckPause \/ CheckAcknowledgement \/ CheckAvailability
    \/ SnapshotPending \/ SkipCandidate \/ FetchFails
    \/ ResolveTerminalCandidate \/ SelectCandidate \/ NothingDue
    \/ AfterPosted \/ AfterStale \/ AfterRescheduled \/ AfterTerminal
    \/ AfterFailed \/ TickFails

TriggerStep(a) ==
    \/ DecideOnComment(a) \/ PostRetrigger(a) \/ PostFails(a)
    \/ RecordRetrigger(a) \/ TransactionFails(a)

-----------------------------------------------------------------------------
(* The dashboard: retrigger now, mark reviewed, pause and resume.           *)

\* The handler reads the pause flag (or is told to override it) and then the
\* item; any later change of either goes unnoticed.
RetriggerNow(d) ==
    /\ trig[d].pc = "none"
    /\ \E i \in Pending(queue) :
         trig' = [trig EXCEPT ![d] = [pc |-> "decide", item |-> i,
                                      attempts |-> queue[i].attempts,
                                      postedAt |-> NoTime]]
    /\ UNCHANGED <<now, queue, gates, prState, tick, history>>

MarkReviewed ==
    /\ Dashboards # {}
    /\ \E i \in Rows(queue) : queue' = MarkResolved(queue, i, "manual_review", now)
    /\ UNCHANGED <<now, gates, prState, tick, trig, history>>

SetPaused ==
    /\ paused' = ~paused
    /\ UNCHANGED <<now, queue, nextAvailable, requestedAt, awaiting, prState,
                   tick, trig, history>>

-----------------------------------------------------------------------------
(* The poll loop and the review detector, by the writes they make here.     *)

\* EnqueueService: one transaction per detected comment.  An update time and
\* a stated wait come with it; a skip comment carries no cooldown.
DetectionsOf(c) ==
        {[pr |-> CommentPr[c], comment |-> c, type |-> "review_limited",
          run |-> run, updatedAt |-> now - age,
          cooldownUntil |-> now - age + wait, headUnreviewed |-> FALSE] :
            run \in Runs \cup {NoRun}, age \in CommentAges \cap 0..now,
            wait \in Waits}
        \cup
        {[pr |-> CommentPr[c], comment |-> c, type |-> "review_skipped",
          run |-> run, updatedAt |-> now - age,
          cooldownUntil |-> NoTime, headUnreviewed |-> unreviewed] :
            run \in Runs \cup {NoRun}, age \in CommentAges \cap 0..now,
            unreviewed \in BOOLEAN}

DetectComment ==
    /\ \E c \in Comments : \E d \in DetectionsOf(c) :
         \E outcome \in Enqueue(queue, d, now) : queue' = outcome.queue
    /\ UNCHANGED <<now, gates, prState, tick, trig, history>>

ExtendGateMutant ==               \* a plain write
    /\ nextAvailable' \in StatedTimes
    /\ UNCHANGED <<now, queue, paused, requestedAt, awaiting, prState, tick,
                   trig, history>>

\* The last statement of a poll tick.
ExtendGate ==
    /\ \E earliest \in StatedTimes : nextAvailable' = Later(nextAvailable, earliest)
    /\ UNCHANGED <<now, queue, paused, requestedAt, awaiting, prState, tick,
                   trig, history>>

\* The oldest request was looked up before GitHub was asked for the reply.
Acknowledge ==
    /\ \E p \in awaiting : awaiting' = awaiting \ {p}
    /\ UNCHANGED <<now, queue, paused, nextAvailable, requestedAt, prState,
                   tick, trig, history>>

\* The detector decides on a snapshot, so the row it writes may be in any
\* state by then: only the guard of the statement protects it.
DetectorVerdicts(i) ==
    {"review_completed", "skipped"} \cup
    IF prState[queue[i].pr] \in {"merged", "closed"}
    THEN {PruneVerdict(i).resolution} ELSE {}

DetectorResolves ==
    /\ \E i \in Rows(queue) : \E resolution \in DetectorVerdicts(i) :
         queue' = MarkResolvedIfStillRetriggered(queue, i, resolution, now)
    /\ UNCHANGED <<now, gates, prState, tick, trig, history>>

DetectorReopens ==
    /\ \E i \in Rows(queue), run \in Runs :
         queue' = Attempt(queue, ReopenStaleRetriggered(queue, i, run, NoTime)).queue
    /\ UNCHANGED <<now, gates, prState, tick, trig, history>>

DetectorAdopts ==
    /\ \E i \in Rows(queue), expected \in Runs \cup {NoRun}, run \in Runs :
         queue' = AdoptRunIfStillRetriggered(queue, i, expected, run, now)
    /\ UNCHANGED <<now, gates, prState, tick, trig, history>>

-----------------------------------------------------------------------------
(* GitHub, the clock, and the process.                                      *)

ChangePr ==
    /\ \E p \in PullRequests :
         \/ /\ prState[p] = "open"
            /\ \E s \in PrOutcomes : prState' = [prState EXCEPT ![p] = s]
         \/ /\ prState[p] = "closed"
            /\ prState' = [prState EXCEPT ![p] = "open"]
    /\ UNCHANGED <<now, queue, gates, tick, trig, history>>

Tick ==
    /\ now < MaxTime
    /\ now' = now + 1
    /\ UNCHANGED <<queue, gates, prState, tick, trig, history>>

\* The process dies and is started again: the locals are gone.
Crash ==
    /\ "crash" \in Faults
    /\ tick' = IdleTick
    /\ trig' = [a \in Actors |-> NoTrigger]
    /\ UNCHANGED <<now, queue, gates, prState, history>>

Next ==
    \/ SchedulerStep
    \/ \E a \in Actors : TriggerStep(a)
    \/ \E d \in Dashboards : RetriggerNow(d)
    \/ MarkReviewed \/ SetPaused
    \/ DetectComment \/ ExtendGate \/ Acknowledge
    \/ DetectorResolves \/ DetectorReopens \/ DetectorAdopts
    \/ ChangePr \/ Tick \/ Crash

Spec == Init /\ [][Next]_vars

\* A prune in which the state of every merged PR could be fetched.
FullPrune ==
    /\ PruneEvaluate
    /\ \A i \in tick.active :
         prState[queue[i].pr] = "merged" => PruneVerdict(i) \in tick'.doomed

\* The interval service starts tick after tick and awaits each to its end, and
\* GitHub is not unreachable for ever.
FairSpec ==
    /\ Spec
    /\ WF_vars(SchedulerStep) /\ WF_vars(TriggerStep(Scheduler))
    /\ SF_vars(FullPrune)

-----------------------------------------------------------------------------
(* Properties *)

\* A request of the scheduler landed on GitHub, be its answer lost or not.
SchedulerPosts ==
    /\ trig[Scheduler].pc = "post"
    /\ trig'[Scheduler].pc \in {"record", "failed"}
    /\ now \in posted'

\* Every request whose transaction committed holds the gate for a full account
\* cooldown after the moment it landed on GitHub, whatever else wrote the gate
\* in between (business rule 5-3).
GateCoversRecorded ==
    \A t \in recorded : nextAvailable >= t + Cooldown

\* No writer ever moves the availability time back (business rule 9-2).
GateNeverMovesBack == [][nextAvailable' >= nextAvailable]_vars

\* What is left of business rule 12-3 beside dashboards and under every fault:
\* the scheduler posts inside the account cooldown of no request, its own or
\* another's, that was recorded when its tick read the gate.  A post inside a
\* cooldown takes a request recorded since then, or one never recorded.
SchedulerOutsideCooldown ==
    [][SchedulerPosts => \A t \in tick.passed : t + Cooldown <= now]_vars

\* A pull request never has two active items (business rule 3-3: a detection
\* for a PR with an active item recycles that item).
OneActiveItemPerPr ==
    \A i, j \in Active(queue) : queue[i].pr = queue[j].pr => i = j

\* An item leaves resolved only by being enqueued again: no trigger, late
\* record or backoff brings it back (business rule 12-12).
ResolvedNeverRetriggered ==
    [][\A i \in ItemIds : queue[i].status = "resolved"
                          => queue'[i].status # "retriggered"]_vars

Reresolved(i) ==
    /\ queue[i].status = "resolved" /\ queue'[i].status = "resolved"
    /\ queue'[i].resolution # queue[i].resolution

\* A review verdict that arrives late never replaces the resolution another
\* writer gave the item meanwhile (business rule 6-3, the lost race).
VerdictNeverOverwrites ==
    [][\A i \in ItemIds :
         Reresolved(i)
         => queue'[i].resolution \notin {"review_completed", "skipped"}]_vars

\* A tick prunes even while the scheduler is paused or gated, so the item of a
\* merged pull request always leaves the queue.
MergedItemLeaves ==
    \A i \in ItemIds :
        i \in Active(queue) /\ prState[queue[i].pr] = "merged"
        ~> i \notin Active(queue)
=============================================================================
