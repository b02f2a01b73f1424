------------------------ MODULE TriggerPipeline_proofs ------------------------
(****************************************************************************)
(* Theorems about TriggerPipeline for every value of its constants: any     *)
(* number of items, pull requests and dashboard requests, every fault.      *)
(****************************************************************************)
EXTENDS TriggerPipeline, QueueRows_proofs

TickType == [pc : TickPhases, active : SUBSET ItemIds,
             doomed : SUBSET Verdict, todo : SUBSET Candidate, fetches : Nat,
             passed : SUBSET Nat]
CallType == [pc : TriggerPhases, item : ItemIds \cup {NoItem},
             attempts : Nat, postedAt : TimeOrNull]

\* A trigger call in flight has an item, and between its post and its
\* transaction a post that is not in the future.
InFlight ==
    \A a \in Actors :
        /\ trig[a].pc # "none" => trig[a].item \in ItemIds
        /\ trig[a].pc = "record" => trig[a].postedAt \in Nat
                                    /\ trig[a].postedAt <= now

TypeInv == TypeOK /\ InFlight

-----------------------------------------------------------------------------
(* Lemmas about the pieces the actions are built from.                      *)

\* The later of two times is one of them.
LEMMA LaterFacts ==
    ASSUME NEW a \in TimeOrNull, NEW b \in TimeOrNull
    PROVE  /\ Later(a, b) \in TimeOrNull
           /\ Later(a, b) >= a
           /\ Later(a, b) >= b
BY DEF Later, TimeOrNull, Time, NoTime

\* The locals of a tick that has not begun are well typed.
LEMMA IdleTickType == IdleTick \in TickType
BY DEF IdleTick, TickType, TickPhases

\* The locals of an actor without a trigger call are well typed.
LEMMA NoTriggerType == NoTrigger \in CallType
BY TimeColumns DEF NoTrigger, CallType, TriggerPhases

\* Moving the tick to another phase, or ending it, keeps its type.
LEMMA GotoType ==
    ASSUME TypeOK, NEW phase \in TickPhases, Goto(phase) \/ EndTick
    PROVE  tick' \in TickType
BY IdleTickType DEF TypeOK, TickType, Goto, EndTick

\* The gate check ends the tick or lets it pass, and notes what it passed.
LEMMA GateCheckTick ==
    ASSUME TypeOK, CheckAvailability
    PROVE  /\ tick.pc = "gate" /\ UNCHANGED <<now, queue, trig>>
           /\ tick' \in TickType
           /\ \/ EndTick
              \/ /\ ~(nextAvailable # NoTime /\ nextAvailable > now)
                 /\ tick'.pc = "select" /\ tick'.passed = recorded
                 /\ tick'.active = tick.active /\ tick'.doomed = tick.doomed
                 /\ tick'.todo = tick.todo
<1>1. tick \in TickType /\ recorded \subseteq Nat
  BY DEF TypeOK, TickType
<1>2. tick.pc = "gate" /\ UNCHANGED <<now, queue, trig>>
  BY DEF CheckAvailability
<1>3. CASE EndTick
  BY <1>2, <1>3, IdleTickType DEF EndTick
<1>4. CASE /\ ~(nextAvailable # NoTime /\ nextAvailable > now)
           /\ tick' = [tick EXCEPT !.pc = "select", !.passed = recorded]
  <2>1. tick' \in TickType
    BY <1>1, <1>4 DEF TickType, TickPhases
  <2>2. /\ tick'.pc = "select" /\ tick'.passed = recorded
        /\ tick'.active = tick.active /\ tick'.doomed = tick.doomed
        /\ tick'.todo = tick.todo
    BY <1>1, <1>4 DEF TickType
  <2> QED  BY <1>2, <1>4, <2>1, <2>2
<1> QED  BY <1>3, <1>4 DEF CheckAvailability

\* The end of a trigger call keeps the calls well formed.
LEMMA ReturnType ==
    ASSUME TypeInv, NEW a \in Actors, NEW outcome \in Outcomes,
           Return(a, outcome), now' = now, trig[a].pc # "none"
    PROVE  trig' \in [Actors -> CallType] /\ InFlight'
<1>1. [trig[a] EXCEPT !.pc = outcome] \in CallType
  BY DEF TypeInv, TypeOK, CallType, TriggerPhases
<1>2. trig' \in [Actors -> CallType]
  BY <1>1, NoTriggerType DEF Return, TypeInv, TypeOK, CallType
<1>3. ASSUME NEW b \in Actors
      PROVE  /\ trig'[b].pc # "none" => trig'[b].item \in ItemIds
             /\ trig'[b].pc = "record" => trig'[b].postedAt \in Nat
                                          /\ trig'[b].postedAt <= now'
  <2>1. CASE b # a
    BY <2>1, <1>2 DEF Return, TypeInv, TypeOK, InFlight
  <2>2. CASE b = a /\ a = Scheduler
    <3>1. trig'[b] = [trig[a] EXCEPT !.pc = outcome]
      BY <2>2 DEF Return, TypeInv, TypeOK
    <3>2. trig'[b].pc = outcome /\ trig'[b].item = trig[a].item
      BY <3>1 DEF TypeInv, TypeOK
    <3> QED  BY <3>2, <2>2 DEF TypeInv, InFlight, Outcomes
  <2>3. CASE b = a /\ a # Scheduler
    <3>1. trig'[b] = NoTrigger
      BY <2>3 DEF Return, TypeInv, TypeOK
    <3> QED  BY <3>1 DEF NoTrigger
  <2> QED  BY <2>1, <2>2, <2>3
<1> QED  BY <1>2, <1>3 DEF InFlight

\* The scheduler is done with its call.
LEMMA FinishType ==
    ASSUME TypeInv, now' = now, EndTick,
           trig' = [trig EXCEPT ![Scheduler] = NoTrigger]
    PROVE  tick' \in TickType /\ trig' \in [Actors -> CallType] /\ InFlight'
<1>1. tick' \in TickType
  BY IdleTickType DEF EndTick
<1>2. trig' \in [Actors -> CallType]
  BY NoTriggerType DEF TypeInv, TypeOK, CallType
<1>3. InFlight'
  BY DEF TypeInv, TypeOK, InFlight, NoTrigger
<1> QED  BY <1>1, <1>2, <1>3

\* The verdict of a pull request that was found merged or closed.
LEMMA VerdictType ==
    ASSUME NEW i \in ItemIds
    PROVE  PruneVerdict(i) \in Verdict /\ PruneVerdict(i).resolution \in Resolutions
BY DEF PruneVerdict, Verdict, Resolutions

\* Every resolution the tick or a detector writes is one of the schema's.
LEMMA OutcomeResolutions ==
    {"failed", "stale_comment", "review_completed", "skipped", "manual_review",
     "pr_merged", "pr_closed_without_merge"} \subseteq Resolutions
BY DEF Resolutions, Reopenable

\* What the poll loop hands to enqueue is a detection.
LEMMA DetectionType ==
    ASSUME TypeOK, NEW c \in Comments, NEW d \in DetectionsOf(c)
    PROVE  d \in Detection
<1>1. CommentPr[c] \in PullRequests
  BY PipelineAssumption
<1>2. ASSUME NEW age \in CommentAges \cap 0..now, NEW wait \in Waits
      PROVE  now - age \in Time /\ now - age + wait \in TimeOrNull
  BY PipelineAssumption DEF TypeOK, Time, TimeOrNull
<1>3. CASE d.type = "review_limited"
  <2>1. PICK run \in Runs \cup {NoRun}, age \in CommentAges \cap 0..now,
             wait \in Waits :
          d = [pr |-> CommentPr[c], comment |-> c, type |-> "review_limited",
               run |-> run, updatedAt |-> now - age,
               cooldownUntil |-> now - age + wait, headUnreviewed |-> FALSE]
    BY <1>3 DEF DetectionsOf
  <2> QED  BY <1>1, <1>2, <2>1 DEF Detection
<1>4. CASE d.type # "review_limited"
  <2>1. PICK run \in Runs \cup {NoRun}, age \in CommentAges \cap 0..now,
             unreviewed \in BOOLEAN :
          d = [pr |-> CommentPr[c], comment |-> c, type |-> "review_skipped",
               run |-> run, updatedAt |-> now - age,
               cooldownUntil |-> NoTime, headUnreviewed |-> unreviewed]
    BY <1>4 DEF DetectionsOf
  <2>2. now - age \in Time
    BY DEF TypeOK, Time
  <2> QED  BY <1>1, <2>1, <2>2, TimeColumns DEF Detection
<1> QED  BY <1>3, <1>4

\* A comment states a time that is not before the start of the clock.
LEMMA StatedTimesType ==
    ASSUME TypeOK, NEW earliest \in StatedTimes
    PROVE  earliest \in TimeOrNull
BY PipelineAssumption DEF TypeOK, StatedTimes, Time, TimeOrNull

-----------------------------------------------------------------------------
(* Type correctness.                                                        *)

\* Most actions write the queue, the tick and the calls, and nothing else.
LEMMA Frame ==
    ASSUME TypeInv, UNCHANGED <<now, gates, prState, history>>,
           queue' \in Tables, tick' \in TickType,
           trig' \in [Actors -> CallType], InFlight'
    PROVE  TypeInv'
BY DEF TypeInv, TypeOK, gates, history, TickType, CallType

\* A step of the tick that starts no call and ends none.
LEMMA TickFrame ==
    ASSUME TypeInv, UNCHANGED <<now, gates, prState, trig, history>>,
           queue' \in Tables, tick' \in TickType
    PROVE  TypeInv'
<1>1. trig' \in [Actors -> CallType] /\ InFlight'
  BY DEF TypeInv, TypeOK, InFlight, CallType
<1> QED  BY <1>1, Frame

\* A write to the queue by another component.
LEMMA QueueFrame ==
    ASSUME TypeInv, UNCHANGED <<now, gates, prState, tick, trig, history>>,
           queue' \in Tables
    PROVE  TypeInv'
<1>1. tick' \in TickType
  BY DEF TypeInv, TypeOK, TickType
<1> QED  BY <1>1, TickFrame

\* The initial state is well typed.
LEMMA TypeInit == Init => TypeInv
<1> SUFFICES ASSUME Init PROVE TypeInv
  OBVIOUS
<1>1. AbsentRow \in Row
  <2>1. PullRequests # {} /\ Comments # {}
    BY PipelineAssumption
  <2> QED  BY <2>1, TimeColumns DEF AbsentRow, Row
<1>2. queue \in Tables
  BY <1>1 DEF Init, Tables
<1>3. tick \in TickType /\ trig \in [Actors -> CallType]
  BY IdleTickType, NoTriggerType DEF Init
<1>4. InFlight
  BY DEF Init, InFlight, NoTrigger
<1> QED
  BY <1>2, <1>3, <1>4, TimeColumns DEF Init, TypeInv, TypeOK, TickType, CallType

\* A step of a trigger call keeps the types.
LEMMA TypeTriggerStep ==
    ASSUME TypeInv, NEW a \in Actors, TriggerStep(a)
    PROVE  TypeInv'
<1> queue \in Tables /\ tick \in TickType /\ trig \in [Actors -> CallType]
  BY DEF TypeInv, TypeOK, TickType, CallType
<1>1. CASE DecideOnComment(a)
  <2>1. CASE trig' = [trig EXCEPT ![a].pc = "post"]
    <3>1. trig' \in [Actors -> CallType]
      BY <2>1 DEF CallType, TriggerPhases
    <3>2. InFlight'
      BY <1>1, <2>1 DEF DecideOnComment, TypeInv, InFlight, CallType
    <3> QED  BY <1>1, <3>1, <3>2, Frame DEF DecideOnComment
  <2>2. ASSUME NEW outcome \in Outcomes, Return(a, outcome)
        PROVE  TypeInv'
    BY <1>1, <2>2, ReturnType, Frame DEF DecideOnComment
  <2> QED  BY <1>1, <2>1, <2>2 DEF DecideOnComment
<1>2. CASE PostRetrigger(a)
  <2>1. now \in TimeOrNull /\ now \in Nat
    BY DEF TypeInv, TypeOK, TimeOrNull, Time
  <2>2. trig' \in [Actors -> CallType]
    BY <1>2, <2>1 DEF PostRetrigger, CallType, TriggerPhases
  <2>3. InFlight'
    BY <1>2, <2>1 DEF PostRetrigger, TypeInv, InFlight, CallType
  <2> QED  BY <1>2, <2>1, <2>2, <2>3
           DEF PostRetrigger, TypeInv, TypeOK, gates, TickType, CallType
<1>3. CASE PostFails(a)
  <2>1. \E outcome \in Outcomes : Return(a, outcome)
    BY <1>3 DEF PostFails, Outcomes
  <2>2. trig' \in [Actors -> CallType] /\ InFlight'
    BY <1>3, <2>1, ReturnType DEF PostFails
  <2>3. posted' \subseteq Nat
    BY <1>3 DEF PostFails, TypeInv, TypeOK
  <2> QED  BY <1>3, <2>2, <2>3
           DEF PostFails, TypeInv, TypeOK, gates, TickType, CallType
<1>4. CASE RecordRetrigger(a)
  <2>1. /\ trig[a].item \in ItemIds
        /\ trig[a].postedAt \in Nat
    BY <1>4 DEF RecordRetrigger, TypeInv, InFlight
  <2>2. PICK readAt \in trig[a].postedAt..now, run \in Runs \cup {NoRun} :
          /\ queue' = MarkRetriggered(queue, trig[a].item, CooldownEnd(readAt),
                                      run, now)
          /\ nextAvailable' = Later(nextAvailable, CooldownEnd(readAt))
    BY <1>4 DEF RecordRetrigger
  <2>3. CooldownEnd(readAt) \in TimeOrNull
    BY <2>1, PipelineAssumption DEF TypeInv, TypeOK, CooldownEnd, TimeOrNull, Time
  <2>4. queue' \in Tables
    BY <2>1, <2>2, <2>3, MarkRetriggeredType
       DEF TypeInv, TypeOK, RunOrNull, Time
  <2>5. nextAvailable' \in TimeOrNull
    BY <2>2, <2>3, LaterFacts DEF TypeInv, TypeOK
  <2>6. queue[trig[a].item].pr \in PullRequests
    BY <2>1, RowOf DEF Row
  <2>7. requestedAt' \in [PullRequests -> TimeOrNull] /\ awaiting' \subseteq PullRequests
    BY <1>4, <2>6 DEF RecordRetrigger, TypeInv, TypeOK, TimeOrNull, Time
  <2>8. trig' \in [Actors -> CallType] /\ InFlight'
    BY <1>4, ReturnType DEF RecordRetrigger, Outcomes
  <2>9. recorded' \subseteq Nat
    BY <1>4, <2>1 DEF RecordRetrigger, TypeInv, TypeOK
  <2> QED  BY <1>4, <2>4, <2>5, <2>7, <2>8, <2>9
           DEF RecordRetrigger, TypeInv, TypeOK, TickType, CallType
<1>5. CASE TransactionFails(a)
  <2>1. trig' \in [Actors -> CallType] /\ InFlight'
    BY <1>5, ReturnType DEF TransactionFails, Outcomes
  <2> QED  BY <1>5, <2>1, Frame DEF TransactionFails
<1> QED  BY <1>1, <1>2, <1>3, <1>4, <1>5 DEF TriggerStep

\* A step of the scheduler's tick keeps the types.
LEMMA TypeSchedulerStep ==
    ASSUME TypeInv, SchedulerStep
    PROVE  TypeInv'
<1> /\ queue \in Tables /\ tick \in TickType /\ trig \in [Actors -> CallType]
    /\ now \in Time /\ now \in Nat /\ Scheduler \in Actors
  BY DEF TypeInv, TypeOK, TickType, CallType, Time, Actors
<1>1. CASE StartTick
  <2>1. tick' \in TickType
    BY <1>1 DEF StartTick, TickType, TickPhases, Active
  <2> QED  BY <1>1, <2>1, TickFrame DEF StartTick
<1>2. CASE PruneEvaluate
  <2>1. PICK fetched \in SUBSET tick.active :
          tick' = [tick EXCEPT !.pc = "doomed", !.active = {},
                               !.doomed = {PruneVerdict(i) : i \in fetched}]
    BY <1>2 DEF PruneEvaluate
  <2>2. {PruneVerdict(i) : i \in fetched} \subseteq Verdict
    BY VerdictType DEF TickType
  <2>3. tick' \in TickType
    BY <2>1, <2>2 DEF TickType, TickPhases
  <2> QED  BY <1>2, <2>3, TickFrame DEF PruneEvaluate
<1>3. CASE PruneResolve
  <2>1. PICK v \in tick.doomed :
          /\ queue' = MarkResolved(queue, v.id, v.resolution, now)
          /\ tick' = [tick EXCEPT !.doomed = @ \ {v}]
    BY <1>3 DEF PruneResolve
  <2>2. v.id \in ItemIds /\ v.resolution \in Resolutions
    BY OutcomeResolutions DEF TickType, Verdict
  <2>3. queue' \in Tables
    BY <2>1, <2>2, MarkResolvedType
  <2>4. tick' \in TickType
    BY <2>1 DEF TickType
  <2> QED  BY <1>3, <2>3, <2>4, TickFrame DEF PruneResolve
<1>4. CASE PruneDone
  BY <1>4, GotoType, TickFrame DEF PruneDone, TickPhases, TypeInv
<1>5. CASE SweepStale
  <2>1. queue' \in Tables
    BY <1>5, ResolveStaleRetriggeredType, PipelineAssumption DEF SweepStale
  <2> QED  BY <1>5, <2>1, GotoType, TickFrame DEF SweepStale, TickPhases, TypeInv
<1>6. CASE CheckPause
  BY <1>6, GotoType, TickFrame DEF CheckPause, TickPhases, TypeInv
<1>7. CASE CheckAcknowledgement
  BY <1>7, GotoType, TickFrame DEF CheckAcknowledgement, TickPhases, TypeInv
<1>8. CASE CheckAvailability
  BY <1>8, GateCheckTick, TickFrame DEF CheckAvailability, TypeInv
<1>9. CASE SnapshotPending
  <2>1. ASSUME NEW i \in ItemIds PROVE Snapshot(i) \in Candidate
    BY RowOf DEF Snapshot, Candidate, Row
  <2>2. {Snapshot(i) : i \in Pending(queue)} \subseteq Candidate
    BY <2>1 DEF Pending
  <2>3. tick' \in TickType
    BY <1>9, <2>2 DEF SnapshotPending, TickType, TickPhases
  <2> QED  BY <1>9, <2>3, TickFrame DEF SnapshotPending
<1>10. CASE SkipCandidate
  <2>1. PICK c \in tick.todo :
          /\ queue' = MarkRetriggerSkipped(queue, c.id)
          /\ tick' = [tick EXCEPT !.todo = @ \ {c}]
    BY <1>10 DEF SkipCandidate
  <2>2. queue' \in Tables
    BY <2>1, MarkRetriggerSkippedType DEF TickType, Candidate
  <2>3. tick' \in TickType
    BY <2>1 DEF TickType
  <2> QED  BY <1>10, <2>2, <2>3, TickFrame DEF SkipCandidate
<1>11. ASSUME NEW c \in tick.todo, SpendFetch(c)
       PROVE  tick' \in TickType
  <2>1. CASE EndTick
    BY <2>1, IdleTickType DEF EndTick
  <2>2. CASE tick' = [tick EXCEPT !.todo = @ \ {c}, !.fetches = @ + 1]
    <3>1. tick.todo \ {c} \in SUBSET Candidate /\ tick.fetches + 1 \in Nat
      BY DEF TickType
    <3> QED  BY <2>2, <3>1 DEF TickType
  <2> QED  BY <1>11, <2>1, <2>2 DEF SpendFetch
<1>12. CASE FetchFails
  <2>1. tick' \in TickType
    BY <1>12, <1>11 DEF FetchFails
  <2> QED  BY <1>12, <2>1, TickFrame DEF FetchFails
<1>13. CASE ResolveTerminalCandidate
  <2>1. PICK c \in tick.todo :
          /\ queue' = MarkResolved(queue, c.id, PruneVerdict(c.id).resolution, now)
          /\ SpendFetch(c)
    BY <1>13 DEF ResolveTerminalCandidate
  <2>2. c.id \in ItemIds
    BY DEF TickType, Candidate
  <2>3. queue' \in Tables
    BY <2>1, <2>2, VerdictType, MarkResolvedType
  <2> QED  BY <1>13, <2>1, <2>3, <1>11, TickFrame DEF ResolveTerminalCandidate
<1>14. CASE SelectCandidate
  <2>1. PICK c \in tick.todo :
          trig' = [trig EXCEPT ![Scheduler] =
                     [pc |-> "decide", item |-> c.id, attempts |-> c.attempts,
                      postedAt |-> NoTime]]
    BY <1>14 DEF SelectCandidate
  <2>2. c.id \in ItemIds /\ c.attempts \in Nat
    BY DEF TickType, Candidate
  <2>3. trig' \in [Actors -> CallType]
    BY <2>1, <2>2, TimeColumns DEF CallType, TriggerPhases
  <2>4. InFlight'
    BY <1>14, <2>1, <2>2 DEF SelectCandidate, TypeInv, InFlight, CallType
  <2>5. tick' \in TickType
    BY <1>14, IdleTickType DEF SelectCandidate, TickType, TickPhases
  <2> QED  BY <1>14, <2>3, <2>4, <2>5, Frame DEF SelectCandidate
<1>15. CASE NothingDue
  BY <1>15, IdleTickType, TickFrame DEF NothingDue, EndTick
<1>16. ASSUME NEW outcome \in Outcomes, Finish(outcome), now' = now
       PROVE  /\ trig[Scheduler].item \in ItemIds
              /\ trig[Scheduler].attempts \in Nat
              /\ tick' \in TickType /\ trig' \in [Actors -> CallType] /\ InFlight'
  <2>1. trig[Scheduler].pc # "none"
    BY <1>16 DEF Finish, Outcomes
  <2>2. trig[Scheduler].item \in ItemIds /\ trig[Scheduler].attempts \in Nat
    BY <2>1 DEF TypeInv, InFlight, CallType
  <2> QED  BY <1>16, <2>2, FinishType DEF Finish
<1>17. CASE AfterPosted
  <2>1. queue' \in Tables
    BY <1>17, <1>16, MarkResolvedType, IncrementAttemptsType, OutcomeResolutions
       DEF AfterPosted, Outcomes
  <2> QED  BY <1>17, <2>1, <1>16, Frame DEF AfterPosted, Outcomes
<1>18. CASE AfterStale
  <2>1. queue' \in Tables
    BY <1>18, <1>16, MarkResolvedType, OutcomeResolutions DEF AfterStale, Outcomes
  <2> QED  BY <1>18, <2>1, <1>16, Frame DEF AfterStale, Outcomes
<1>19. CASE AfterRescheduled
  <2>1. PICK comment \in Comments, run \in Runs \cup {NoRun},
             earliest \in StatedTimes :
          LET outcome == Reschedule(queue, trig[Scheduler].item, comment, run, now)
          IN  \/ /\ Finish("rescheduled")
                 /\ queue' = outcome.queue
                 /\ nextAvailable' = Later(nextAvailable, earliest)
              \/ /\ Return(Scheduler, "failed")
                 /\ UNCHANGED <<queue, nextAvailable, tick>>
    BY <1>19 DEF AfterRescheduled
  <2>2. UNCHANGED <<now, paused, requestedAt, awaiting, prState, history>>
    BY <1>19 DEF AfterRescheduled
  <2>3. trig[Scheduler].pc = "rescheduled" /\ trig[Scheduler].item \in ItemIds
    BY <1>19 DEF AfterRescheduled, TypeInv, InFlight
  <2>4. CASE /\ Finish("rescheduled")
             /\ queue' = Reschedule(queue, trig[Scheduler].item, comment, run,
                                    now).queue
             /\ nextAvailable' = Later(nextAvailable, earliest)
    <3>1. queue' \in Tables
      BY <2>3, <2>4, RescheduleType DEF RunOrNull
    <3>2. nextAvailable' \in TimeOrNull
      BY <2>4, StatedTimesType, LaterFacts DEF TypeInv, TypeOK
    <3>3. tick' \in TickType /\ trig' \in [Actors -> CallType] /\ InFlight'
      BY <2>2, <2>4, <1>16 DEF Outcomes
    <3> QED  BY <2>2, <3>1, <3>2, <3>3
             DEF TypeInv, TypeOK, history, TickType, CallType
  <2>5. CASE /\ Return(Scheduler, "failed")
             /\ UNCHANGED <<queue, nextAvailable, tick>>
    <3>1. trig' \in [Actors -> CallType] /\ InFlight'
      BY <2>2, <2>3, <2>5, ReturnType DEF Outcomes
    <3> QED  BY <2>2, <2>5, <3>1, Frame DEF gates
  <2> QED  BY <2>1, <2>4, <2>5
<1>20. CASE AfterTerminal
  <2>1. queue' \in Tables
    BY <1>20, <1>16, MarkResolvedType, OutcomeResolutions DEF AfterTerminal, Outcomes
  <2> QED  BY <1>20, <2>1, <1>16, Frame DEF AfterTerminal, Outcomes
<1>21. CASE AfterFailed
  <2>1. queue' \in Tables
    BY <1>21, <1>16, MarkResolvedType, BackoffType, OutcomeResolutions
       DEF AfterFailed, Outcomes
  <2> QED  BY <1>21, <2>1, <1>16, Frame DEF AfterFailed, Outcomes
<1>22. CASE TickFails
  <2>1. tick' \in TickType /\ trig' \in [Actors -> CallType] /\ InFlight'
    BY <1>22, FinishType DEF TickFails
  <2> QED  BY <1>22, <2>1, Frame DEF TickFails
<1> QED
  BY <1>1, <1>2, <1>3, <1>4, <1>5, <1>6, <1>7, <1>8, <1>9, <1>10, <1>12, <1>13,
     <1>14, <1>15, <1>17, <1>18, <1>19, <1>20, <1>21, <1>22 DEF SchedulerStep

\* A step of the dashboard, the detectors, GitHub or the clock keeps the types.
LEMMA TypeOtherStep ==
    ASSUME TypeInv,
           \/ \E d \in Dashboards : RetriggerNow(d)
           \/ MarkReviewed \/ SetPaused \/ DetectComment \/ ExtendGate
           \/ Acknowledge \/ DetectorResolves \/ DetectorReopens \/ DetectorAdopts
           \/ ChangePr \/ Tick \/ Crash
    PROVE  TypeInv'
<1> /\ queue \in Tables /\ tick \in TickType /\ trig \in [Actors -> CallType]
    /\ now \in Time /\ now \in Nat
  BY DEF TypeInv, TypeOK, TickType, CallType, Time
<1> USE DEF TypeInv
<1>1. ASSUME NEW d \in Dashboards, RetriggerNow(d) PROVE TypeInv'
  <2>1. PICK i \in Pending(queue) :
          trig' = [trig EXCEPT ![d] = [pc |-> "decide", item |-> i,
                                       attempts |-> queue[i].attempts,
                                       postedAt |-> NoTime]]
    BY <1>1 DEF RetriggerNow
  <2>2. i \in ItemIds /\ queue[i].attempts \in Nat
    BY RowOf DEF Pending, Row
  <2>3. trig' \in [Actors -> CallType]
    BY <2>1, <2>2, TimeColumns DEF CallType, TriggerPhases
  <2>4. InFlight'
    BY <1>1, <2>1, <2>2 DEF RetriggerNow, InFlight, CallType, Actors
  <2> QED  BY <1>1, <2>3, <2>4, Frame DEF RetriggerNow
<1>2. CASE MarkReviewed
  <2>1. queue' \in Tables
    BY <1>2, MarkResolvedType, OutcomeResolutions DEF MarkReviewed, Rows
  <2> QED  BY <1>2, <2>1, QueueFrame DEF MarkReviewed
<1>3. CASE SetPaused
  BY <1>3 DEF SetPaused, TypeOK, InFlight, history
<1>4. CASE DetectComment
  <2>1. PICK c \in Comments :
          \E d \in DetectionsOf(c) : \E outcome \in Enqueue(queue, d, now) :
            queue' = outcome.queue
    BY <1>4 DEF DetectComment
  <2>2. queue' \in Tables
    BY <2>1, DetectionType, EnqueueType
  <2> QED  BY <1>4, <2>2, QueueFrame DEF DetectComment
<1>5. CASE ExtendGate
  <2>1. nextAvailable' \in TimeOrNull
    BY <1>5, StatedTimesType, LaterFacts DEF ExtendGate, TypeOK
  <2> QED  BY <1>5, <2>1 DEF ExtendGate, TypeOK, InFlight, history
<1>6. CASE Acknowledge
  BY <1>6 DEF Acknowledge, TypeOK, InFlight, history
<1>7. CASE DetectorResolves
  <2>1. PICK i \in Rows(queue) : \E resolution \in DetectorVerdicts(i) :
          queue' = MarkResolvedIfStillRetriggered(queue, i, resolution, now)
    BY <1>7 DEF DetectorResolves
  <2>2. i \in ItemIds
    BY DEF Rows
  <2>3. DetectorVerdicts(i) \subseteq Resolutions
    BY <2>2, VerdictType, OutcomeResolutions DEF DetectorVerdicts
  <2>4. queue' \in Tables
    BY <2>1, <2>2, <2>3, MarkResolvedIfStillRetriggeredType
  <2> QED  BY <1>7, <2>4, QueueFrame DEF DetectorResolves
<1>8. CASE DetectorReopens
  <2>1. PICK i \in Rows(queue), run \in Runs :
          queue' = Attempt(queue, ReopenStaleRetriggered(queue, i, run, NoTime)).queue
    BY <1>8 DEF DetectorReopens
  <2>2. ReopenStaleRetriggered(queue, i, run, NoTime) \in Tables
    BY ReopenStaleType, TimeColumns DEF Rows, RunOrNull
  <2>3. queue' \in Tables
    BY <2>1, <2>2, AttemptType
  <2> QED  BY <1>8, <2>3, QueueFrame DEF DetectorReopens
<1>9. CASE DetectorAdopts
  <2>1. queue' \in Tables
    BY <1>9, AdoptRunType DEF DetectorAdopts, Rows, RunOrNull
  <2> QED  BY <1>9, <2>1, QueueFrame DEF DetectorAdopts
<1>10. CASE ChangePr
  BY <1>10, PipelineAssumption DEF ChangePr, TypeOK, InFlight, gates, history
<1>11. CASE Tick
  <2>1. InFlight'
    BY <1>11 DEF Tick, InFlight
  <2> QED  BY <1>11, <2>1 DEF Tick, TypeOK, gates, history
<1>12. CASE Crash
  <2>1. tick' \in TickType /\ trig' \in [Actors -> CallType]
    BY <1>12, IdleTickType, NoTriggerType DEF Crash
  <2>2. InFlight'
    BY <1>12 DEF Crash, InFlight, NoTrigger
  <2> QED  BY <1>12, <2>1, <2>2, Frame DEF Crash
<1> QED
  BY <1>1, <1>2, <1>3, <1>4, <1>5, <1>6, <1>7, <1>8, <1>9, <1>10, <1>11, <1>12

\* Every step of scheduler, dashboard, detectors and world preserves the types.
LEMMA TypeStep == TypeInv /\ [Next]_vars => TypeInv'
<1>1. ASSUME TypeInv, UNCHANGED vars PROVE TypeInv'
  BY <1>1 DEF TypeInv, TypeOK, InFlight, vars, gates, history
<1> QED
  BY <1>1, TypeTriggerStep, TypeSchedulerStep, TypeOtherStep DEF Next

\* Every reachable state is well typed, and a trigger call in flight always has
\* the item it was started for.
THEOREM TypeCorrect == Spec => []TypeOK
<1>1. Spec => []TypeInv
  BY TypeInit, TypeStep, PTL DEF Spec
<1>2. TypeInv => TypeOK
  BY DEF TypeInv
<1> QED  BY <1>1, <1>2, PTL

-----------------------------------------------------------------------------
(* The availability gate.                                                   *)

\* What a step does to the gate: nothing, an extension, or the record of a
\* posted request, which holds it for a cooldown after the post.
LEMMA GateStep ==
    ASSUME TypeInv, [Next]_vars
    PROVE  /\ nextAvailable' >= nextAvailable
           /\ \A t \in recorded' \ recorded : nextAvailable' >= t + Cooldown
<1> nextAvailable \in TimeOrNull /\ nextAvailable >= nextAvailable
  BY DEF TypeInv, TypeOK, TimeOrNull, Time, NoTime
<1>1. ASSUME NEW a \in Actors, RecordRetrigger(a)
      PROVE  /\ nextAvailable' >= nextAvailable
             /\ \A t \in recorded' \ recorded : nextAvailable' >= t + Cooldown
  <2>1. trig[a].postedAt \in Nat
    BY <1>1 DEF RecordRetrigger, TypeInv, InFlight
  <2>2. PICK readAt \in trig[a].postedAt..now :
          nextAvailable' = Later(nextAvailable, CooldownEnd(readAt))
    BY <1>1 DEF RecordRetrigger
  <2>3. /\ CooldownEnd(readAt) \in TimeOrNull
        /\ CooldownEnd(readAt) >= trig[a].postedAt + Cooldown
    BY <2>1, PipelineAssumption DEF TypeInv, TypeOK, CooldownEnd, TimeOrNull, Time
  <2>4. /\ nextAvailable' \in TimeOrNull
        /\ nextAvailable' >= nextAvailable
        /\ nextAvailable' >= CooldownEnd(readAt)
    BY <2>2, <2>3, LaterFacts
  <2>5. nextAvailable' >= trig[a].postedAt + Cooldown
    BY <2>1, <2>3, <2>4, PipelineAssumption DEF TimeOrNull, Time, NoTime
  <2>6. recorded' \ recorded \subseteq {trig[a].postedAt}
    BY <1>1 DEF RecordRetrigger
  <2> QED  BY <2>4, <2>5, <2>6
<1>2. ASSUME NEW earliest \in StatedTimes,
             nextAvailable' = Later(nextAvailable, earliest)
      PROVE  nextAvailable' >= nextAvailable
  BY <1>2, StatedTimesType, LaterFacts DEF TypeInv
<1>3. CASE AfterRescheduled
  <2>1. recorded' = recorded
    BY <1>3 DEF AfterRescheduled, history
  <2>2. \/ UNCHANGED nextAvailable
        \/ \E earliest \in StatedTimes :
             nextAvailable' = Later(nextAvailable, earliest)
    BY <1>3 DEF AfterRescheduled
  <2> QED  BY <2>1, <2>2, <1>2
<1>4. CASE ExtendGate
  <2>1. recorded' = recorded
    BY <1>4 DEF ExtendGate, history
  <2> QED  BY <1>4, <2>1, <1>2 DEF ExtendGate
<1>5. ASSUME NEW a \in Actors, TriggerStep(a), ~RecordRetrigger(a)
      PROVE  UNCHANGED <<nextAvailable, recorded>>
  BY <1>5 DEF TriggerStep, DecideOnComment, PostRetrigger, PostFails,
              TransactionFails, gates, history
<1>6. ASSUME SchedulerStep, ~AfterRescheduled
      PROVE  UNCHANGED <<nextAvailable, recorded>>
  BY <1>6 DEF SchedulerStep, StartTick, PruneEvaluate, PruneResolve, PruneDone,
              SweepStale, CheckPause, CheckAcknowledgement, CheckAvailability,
              SnapshotPending, SkipCandidate, FetchFails,
              ResolveTerminalCandidate, SelectCandidate, NothingDue,
              AfterPosted, AfterStale, AfterTerminal, AfterFailed, TickFails,
              gates, history
<1>7. ASSUME \/ \E d \in Dashboards : RetriggerNow(d)
             \/ MarkReviewed \/ SetPaused \/ DetectComment
             \/ Acknowledge \/ DetectorResolves \/ DetectorReopens
             \/ DetectorAdopts \/ ChangePr \/ Tick \/ Crash
             \/ UNCHANGED vars
      PROVE  UNCHANGED <<nextAvailable, recorded>>
  BY <1>7 DEF RetriggerNow, MarkReviewed, SetPaused, DetectComment, Acknowledge,
              DetectorResolves, DetectorReopens, DetectorAdopts, ChangePr, Tick,
              Crash, gates, history, vars
<1>8. ASSUME UNCHANGED <<nextAvailable, recorded>>
      PROVE  /\ nextAvailable' >= nextAvailable
             /\ \A t \in recorded' \ recorded : nextAvailable' >= t + Cooldown
  BY <1>8
<1> QED
  BY <1>1, <1>3, <1>4, <1>5, <1>6, <1>7, <1>8 DEF Next

\* The availability time never moves back: detections, recorded requests and
\* reschedules only extend it (business rule 9-2).
THEOREM GateMonotone == Spec => GateNeverMovesBack
<1>1. TypeInv /\ [Next]_vars => [nextAvailable' >= nextAvailable]_vars
  BY GateStep
<1> QED
  BY <1>1, TypeInit, TypeStep, PTL DEF Spec, GateNeverMovesBack

GateInv == TypeInv /\ GateCoversRecorded

\* No step uncovers a recorded request (ReviewTrigger.postAndRecord, reschedule,
\* setNextReviewAvailableAtIfLater).
LEMMA GateInvStep == GateInv /\ [Next]_vars => GateInv'
<1> SUFFICES ASSUME GateInv, [Next]_vars PROVE GateInv'
  OBVIOUS
<1>1. TypeInv /\ TypeInv'
  BY TypeStep DEF GateInv
<1>2. ASSUME NEW t \in recorded' PROVE nextAvailable' >= t + Cooldown
  <2>1. CASE t \in recorded
    <3>1. nextAvailable >= t + Cooldown /\ nextAvailable' >= nextAvailable
      BY <2>1, <1>1, GateStep DEF GateInv, GateCoversRecorded
    <3>2. /\ nextAvailable \in TimeOrNull /\ nextAvailable' \in TimeOrNull
          /\ t \in Nat
      BY <1>1 DEF TypeInv, TypeOK
    <3> QED  BY <3>1, <3>2, PipelineAssumption DEF TimeOrNull, Time, NoTime
  <2>2. CASE t \notin recorded
    BY <2>2, <1>1, GateStep
  <2> QED  BY <2>1, <2>2
<1> QED  BY <1>1, <1>2 DEF GateInv, GateCoversRecorded

\* A recorded request holds the gate for a full cooldown after the moment it
\* was posted, with any number of dashboard requests, detections and faults
\* beside it (business rule 5-3).
THEOREM GateCovers == Spec => []GateCoversRecorded
<1>1. Init => GateInv
  BY TypeInit DEF Init, GateInv, GateCoversRecorded
<1>2. GateInv => GateCoversRecorded
  BY DEF GateInv
<1> QED  BY <1>1, <1>2, GateInvStep, PTL DEF Spec

-----------------------------------------------------------------------------
(* The account cooldown, beside any number of dashboards.                   *)

\* What was recorded when the tick in flight passed the gate is over, and stays
\* so for as long as the tick and its call last.
PassedIsOver == \A t \in tick.passed : t + Cooldown <= now

CooldownInv == GateInv /\ PassedIsOver

\* Where a tick may pass the gate.
PassesGate ==
    /\ ~(nextAvailable # NoTime /\ nextAvailable > now)
    /\ now' = now
    /\ tick'.passed = recorded

\* Before the first tick nothing has been passed.
LEMMA CooldownInit == Init => CooldownInv
<1> SUFFICES ASSUME Init PROVE CooldownInv
  OBVIOUS
<1>1. GateInv
  BY TypeInit DEF Init, GateInv, GateCoversRecorded
<1>2. tick.passed = {}
  BY DEF Init, IdleTick
<1> QED  BY <1>1, <1>2 DEF CooldownInv, PassedIsOver

\* A step of the tick passes the gate, keeps what it passed or forgets it.
LEMMA PassedTickStep ==
    ASSUME TypeInv, SchedulerStep
    PROVE  \/ PassesGate
           \/ now' = now /\ tick'.passed \in {{}, tick.passed}
<1>1. tick \in TickType
  BY DEF TypeInv, TypeOK, TickType
<1>2. ASSUME NEW phase \in TickPhases, Goto(phase)
      PROVE  tick'.passed = tick.passed
  BY <1>1, <1>2 DEF Goto, TickType
<1>3. ASSUME EndTick
      PROVE  tick'.passed = {}
  BY <1>3 DEF EndTick, IdleTick
<1>4. CASE StartTick \/ PruneEvaluate \/ PruneResolve \/ SnapshotPending
           \/ SkipCandidate
  BY <1>1, <1>4 DEF StartTick, PruneEvaluate, PruneResolve, SnapshotPending,
                    SkipCandidate, TickType
<1>5. CASE PruneDone \/ SweepStale \/ CheckPause \/ CheckAcknowledgement
  BY <1>2, <1>3, <1>5 DEF PruneDone, SweepStale, CheckPause,
                          CheckAcknowledgement, TickPhases
<1>6. CASE CheckAvailability
  BY <1>3, <1>6, GateCheckTick DEF PassesGate, TypeInv
<1>7. ASSUME NEW c \in tick.todo, SpendFetch(c)
      PROVE  tick'.passed \in {{}, tick.passed}
  BY <1>1, <1>3, <1>7 DEF SpendFetch, TickType
<1>8. CASE FetchFails \/ ResolveTerminalCandidate
  BY <1>7, <1>8 DEF FetchFails, ResolveTerminalCandidate
<1>9. CASE SelectCandidate
  BY <1>9 DEF SelectCandidate, IdleTick
<1>10. CASE NothingDue \/ TickFails
  BY <1>3, <1>10 DEF NothingDue, TickFails
<1>11. CASE AfterPosted \/ AfterStale \/ AfterTerminal \/ AfterFailed
  BY <1>3, <1>11 DEF AfterPosted, AfterStale, AfterTerminal, AfterFailed, Finish
<1>12. CASE AfterRescheduled
  <2>1. now' = now /\ (EndTick \/ tick' = tick)
    BY <1>12 DEF AfterRescheduled, Finish
  <2> QED  BY <1>3, <2>1
<1> QED
  BY <1>4, <1>5, <1>6, <1>8, <1>9, <1>10, <1>11, <1>12 DEF SchedulerStep

\* The other actors leave it alone; a crash forgets it; time only goes on.
LEMMA PassedOtherStep ==
    ASSUME TypeInv, [Next]_vars, ~SchedulerStep
    PROVE  now' >= now /\ tick'.passed \in {{}, tick.passed}
<1>1. now \in Nat
  BY DEF TypeInv, TypeOK
<1>2. CASE \E a \in Actors : TriggerStep(a)
  <2>1. now' = now /\ tick' = tick
    BY <1>2 DEF TriggerStep, DecideOnComment, PostRetrigger, PostFails,
                RecordRetrigger, TransactionFails
  <2> QED  BY <1>1, <2>1
<1>3. CASE \/ \E d \in Dashboards : RetriggerNow(d)
           \/ MarkReviewed \/ SetPaused \/ DetectComment \/ ExtendGate
           \/ Acknowledge \/ DetectorResolves \/ DetectorReopens
           \/ DetectorAdopts \/ ChangePr \/ UNCHANGED vars
  <2>1. now' = now /\ tick' = tick
    BY <1>3 DEF RetriggerNow, MarkReviewed, SetPaused, DetectComment, ExtendGate,
                Acknowledge, DetectorResolves, DetectorReopens, DetectorAdopts,
                ChangePr, vars
  <2> QED  BY <1>1, <2>1
<1>4. CASE Tick
  BY <1>1, <1>4 DEF Tick
<1>5. CASE Crash
  BY <1>1, <1>5 DEF Crash, IdleTick
<1> QED  BY <1>2, <1>3, <1>4, <1>5 DEF Next

\* The gate covers every recorded request when it is passed, and what is over
\* stays over: dashboards that post and record meanwhile add nothing to it.
LEMMA CooldownStep == CooldownInv /\ [Next]_vars => CooldownInv'
<1> SUFFICES ASSUME CooldownInv, [Next]_vars PROVE CooldownInv'
  OBVIOUS
<1>1. GateInv /\ TypeInv /\ GateInv' /\ TypeInv'
  BY GateInvStep DEF CooldownInv, GateInv
<1>2. /\ now \in Nat /\ now' \in Nat /\ nextAvailable \in TimeOrNull
      /\ recorded \subseteq Nat /\ tick.passed \subseteq Nat
  BY <1>1 DEF TypeInv, TypeOK
<1>3. CASE PassesGate
  <2>1. ASSUME NEW t \in recorded PROVE t + Cooldown <= now
    <3>1. nextAvailable >= t + Cooldown
      BY <1>1 DEF GateInv, GateCoversRecorded
    <3> QED  BY <1>2, <1>3, <3>1, PipelineAssumption
             DEF PassesGate, TimeOrNull, Time, NoTime
  <2> QED  BY <1>1, <1>3, <2>1 DEF PassesGate, CooldownInv, PassedIsOver
<1>4. CASE now' >= now /\ tick'.passed \in {{}, tick.passed}
  <2>1. ASSUME NEW t \in tick.passed PROVE t + Cooldown <= now'
    <3>1. t + Cooldown <= now
      BY DEF CooldownInv, PassedIsOver
    <3> QED  BY <1>2, <1>4, <3>1, PipelineAssumption
  <2> QED  BY <1>1, <1>4, <2>1 DEF CooldownInv, PassedIsOver
<1>5. CASE SchedulerStep
  <2>1. \/ PassesGate
        \/ now' = now /\ tick'.passed \in {{}, tick.passed}
    BY <1>1, <1>5, PassedTickStep
  <2> QED  BY <1>2, <1>3, <1>4, <2>1
<1>6. CASE ~SchedulerStep
  BY <1>1, <1>4, <1>6, PassedOtherStep
<1> QED  BY <1>5, <1>6

\* With any number of dashboards and whatever fails, the scheduler posts inside
\* the cooldown of no request, its own or another's, that was recorded when its
\* tick read the gate (business rule 12-3, as far as the code keeps it).
THEOREM CooldownRespected == Spec => SchedulerOutsideCooldown
<1>1. CooldownInv
      => (SchedulerPosts => \A t \in tick.passed : t + Cooldown <= now)
  BY DEF CooldownInv, PassedIsOver
<1> QED
  BY <1>1, CooldownInit, CooldownStep, PTL DEF Spec, SchedulerOutsideCooldown

-----------------------------------------------------------------------------
(* The queue, while the scheduler's transactions commit and nobody else     *)
(* triggers: what a call holds across its awaits stays pending.             *)

\* The scheduler is inside a trigger call exactly while its tick waits for it.
Coupled == trig[Scheduler].pc # "none" <=> tick.pc = "trigger"

Holding == {"decide", "post", "record", "stale", "rescheduled", "failed", "terminal"}

\* Until its transaction the item of the call is pending, although the poll loop
\* and the detector write the table at every await.
InHand == trig[Scheduler].pc \in Holding => trig[Scheduler].item \in Pending(queue)

\* So are the candidates still to be looked at, and each is there once.
InScan ==
    tick.pc = "scan" =>
        /\ \A c \in tick.todo : c.id \in Pending(queue)
        /\ \A c, e \in tick.todo : c.id = e.id => c = e

\* What the tick and its call name has been inserted.
Present ==
    /\ tick.active \subseteq Rows(queue)
    /\ \A v \in tick.doomed : v.id \in Rows(queue)
    /\ trig[Scheduler].pc # "none" => trig[Scheduler].item \in Rows(queue)

Sound ==
    /\ OneActiveItemPerPr /\ Belongs(queue, CommentPr)
    /\ Coupled /\ InHand /\ InScan /\ Present

QueueInv == TypeInv /\ Sound

Undisturbed == Dashboards = {} /\ "dbError" \notin Faults

\* What every write of the table has to show.
Written == OneActive(queue') /\ Belongs(queue', CommentPr) /\ Orderly(queue, queue')

\* Rows are never deleted.
LEMMA RowsStay ==
    ASSUME NEW q, NEW n, Orderly(q, n)
    PROVE  Rows(q) \subseteq Rows(n)
BY DEF Orderly, MayBecome, Rows

\* A table that is not written.
LEMMA Unwritten == ASSUME QueueInv, queue' = queue PROVE Written
BY KeepSteady DEF QueueInv, TypeInv, TypeOK, Sound, OneActiveItemPerPr, OneActive, Written

\* The first state.
LEMMA QueueInit == Init => QueueInv
<1> SUFFICES ASSUME Init PROVE QueueInv
  OBVIOUS
<1>1. \A i \in ItemIds : queue[i].status = "absent"
  BY DEF Init, AbsentRow
<1>2. tick.pc = "idle" /\ tick.active = {} /\ tick.doomed = {} /\ trig[Scheduler].pc = "none"
  BY DEF Init, IdleTick, NoTrigger, Actors
<1>3. Active(queue) = {} /\ Rows(queue) = {}
  BY <1>1 DEF Active, Rows, ActiveStatuses
<1> QED
  BY <1>2, <1>3, TypeInit
  DEF QueueInv, Sound, OneActiveItemPerPr, Belongs, Coupled, InHand, InScan, Present, Holding

\* A write of another component, between two steps of the tick.
LEMMA AsideSound ==
    ASSUME QueueInv, UNCHANGED <<tick, trig>>, Written, KeepsPending(queue, queue')
    PROVE  Sound'
<1>1. Rows(queue) \subseteq Rows(queue') /\ Pending(queue) \subseteq Pending(queue')
  BY RowsStay DEF Written, KeepsPending, Pending
<1>2. OneActiveItemPerPr' /\ Belongs(queue, CommentPr)'
  BY DEF Written, OneActive, OneActiveItemPerPr
<1> QED
  BY <1>1, <1>2 DEF QueueInv, Sound, Coupled, InHand, InScan, Present

\* A step of the tick outside its scan and its call.
LEMMA PhaseSound ==
    ASSUME QueueInv, trig' = trig, tick.pc # "trigger", tick'.pc \notin {"scan", "trigger"},
           tick'.active \subseteq Rows(queue), \A v \in tick'.doomed : v.id \in Rows(queue),
           Written
    PROVE  Sound'
<1>1. Rows(queue) \subseteq Rows(queue')
  BY RowsStay DEF Written
<1>2. OneActiveItemPerPr' /\ Belongs(queue, CommentPr)'
  BY DEF Written, OneActive, OneActiveItemPerPr
<1>3. trig[Scheduler].pc = "none"
  BY DEF QueueInv, Sound, Coupled
<1> QED
  BY <1>1, <1>2, <1>3 DEF Sound, Coupled, InHand, InScan, Present, Holding

\* A step of the scan that leaves the candidates to come alone.
LEMMA ScanSound ==
    ASSUME QueueInv, trig' = trig, tick.pc = "scan", tick'.pc = "scan",
           tick'.active = tick.active, tick'.doomed = tick.doomed,
           tick'.todo \subseteq tick.todo, \A c \in tick'.todo : c.id \in Pending(queue'),
           Written
    PROVE  Sound'
<1>1. Rows(queue) \subseteq Rows(queue')
  BY RowsStay DEF Written
<1>2. OneActiveItemPerPr' /\ Belongs(queue, CommentPr)'
  BY DEF Written, OneActive, OneActiveItemPerPr
<1>3. trig[Scheduler].pc = "none"
  BY DEF QueueInv, Sound, Coupled
<1>4. Coupled' /\ InHand'
  BY <1>3 DEF Coupled, InHand, Holding
<1>5. InScan'
  BY DEF QueueInv, Sound, InScan
<1>6. Present'
  BY <1>1, <1>3 DEF QueueInv, Sound, Present
<1> QED  BY <1>2, <1>4, <1>5, <1>6 DEF Sound

\* A step of the call.
LEMMA CallSound ==
    ASSUME QueueInv, tick' = tick, trig[Scheduler].pc # "none", trig'[Scheduler].pc # "none",
           trig'[Scheduler].item = trig[Scheduler].item,
           trig'[Scheduler].pc \in Holding => trig[Scheduler].item \in Pending(queue'),
           Written
    PROVE  Sound'
<1>1. Rows(queue) \subseteq Rows(queue')
  BY RowsStay DEF Written
<1>2. OneActiveItemPerPr' /\ Belongs(queue, CommentPr)'
  BY DEF Written, OneActive, OneActiveItemPerPr
<1>3. tick.pc = "trigger"
  BY DEF QueueInv, Sound, Coupled
<1> QED
  BY <1>1, <1>2, <1>3 DEF QueueInv, Sound, Coupled, InHand, InScan, Present

\* The end of a tick, with its call or without.
LEMMA DoneSound ==
    ASSUME tick' = IdleTick, trig'[Scheduler].pc = "none", Written
    PROVE  Sound'
<1>1. tick'.pc = "idle" /\ tick'.active = {} /\ tick'.doomed = {}
  BY DEF IdleTick
<1>2. OneActiveItemPerPr' /\ Belongs(queue, CommentPr)'
  BY DEF Written, OneActive, OneActiveItemPerPr
<1> QED  BY <1>1, <1>2 DEF Sound, Coupled, InHand, InScan, Present, Holding

\* A step of the scheduler's call: only its transaction writes the queue, and the
\* item is still pending when it does.
LEMMA QueueTriggerStep ==
    ASSUME QueueInv, Undisturbed, TriggerStep(Scheduler)
    PROVE  Sound' /\ Orderly(queue, queue')
<1> DEFINE mine == trig[Scheduler]
<1>1. /\ trig \in [Actors -> CallType] /\ Scheduler \in Actors
      /\ now \in Nat /\ queue \in Tables
  BY DEF QueueInv, TypeInv, TypeOK, CallType, Actors
<1>2. /\ tick' = tick /\ mine.pc # "none" /\ mine.item \in ItemIds
      /\ InHand
  BY DEF TriggerStep, DecideOnComment, PostRetrigger, PostFails, RecordRetrigger,
         TransactionFails, QueueInv, Sound, TypeInv, InFlight, Actors
<1>3. ASSUME NEW outcome \in Outcomes, Return(Scheduler, outcome)
      PROVE  mine'.pc = outcome /\ mine'.item = mine.item
  BY <1>1, <1>3 DEF Return, CallType
<1>4. ASSUME queue' = queue, mine.pc \in {"decide", "post"},
             mine'.pc # "none", mine'.item = mine.item
      PROVE  Sound' /\ Orderly(queue, queue')
  BY <1>2, <1>4, Unwritten, CallSound DEF InHand, Holding, Written
<1>5. CASE DecideOnComment(Scheduler)
  <2>1. queue' = queue /\ mine.pc = "decide"
    BY <1>5 DEF DecideOnComment
  <2>2. mine'.pc # "none" /\ mine'.item = mine.item
    BY <1>1, <1>3, <1>5 DEF DecideOnComment, CallType, Outcomes
  <2> QED  BY <1>4, <2>1, <2>2
<1>6. CASE PostRetrigger(Scheduler)
  <2>1. queue' = queue /\ mine.pc = "post"
    BY <1>6 DEF PostRetrigger
  <2>2. mine'.pc # "none" /\ mine'.item = mine.item
    BY <1>1, <1>6 DEF PostRetrigger, CallType
  <2> QED  BY <1>4, <2>1, <2>2
<1>7. CASE PostFails(Scheduler)
  <2>1. queue' = queue /\ mine.pc = "post"
    BY <1>7 DEF PostFails
  <2>2. mine'.pc # "none" /\ mine'.item = mine.item
    BY <1>3, <1>7 DEF PostFails, Outcomes
  <2> QED  BY <1>4, <2>1, <2>2
<1>8. CASE RecordRetrigger(Scheduler)
  <2>1. mine.pc = "record" /\ Return(Scheduler, "posted") /\ mine.postedAt \in Nat
    BY <1>1, <1>8 DEF RecordRetrigger, QueueInv, TypeInv, InFlight
  <2>2. mine.item \in Pending(queue)
    BY <1>2, <2>1 DEF InHand, Holding
  <2>3. PICK readAt \in mine.postedAt..now, run \in Runs \cup {NoRun} :
            queue' = MarkRetriggered(queue, mine.item, CooldownEnd(readAt), run, now)
    BY <1>8 DEF RecordRetrigger
  <2> DEFINE old == queue[mine.item]
             new == [old EXCEPT !.status = "retriggered", !.retriggeredAt = now,
                         !.cooldownUntil = CooldownEnd(readAt),
                         !.run = IF run = NoRun THEN old.run ELSE run]
  <2>4. CooldownEnd(readAt) \in TimeOrNull /\ now \in TimeOrNull /\ old \in Row
    BY <1>1, <1>2, <2>1, PipelineAssumption, RowOf DEF CooldownEnd, TimeOrNull, Time
  <2>5. /\ new \in Row /\ new.status = "retriggered"
        /\ new.pr = old.pr /\ new.comment = old.comment
    BY <2>4 DEF Row, ActiveStatuses
  <2>6. queue' = [queue EXCEPT ![mine.item] = new]
    BY <2>3 DEF MarkRetriggered
  <2> HIDE DEF new
  <2>7. Written
    <3>1. OneActive(queue) /\ Belongs(queue, CommentPr)
      BY DEF QueueInv, Sound, OneActiveItemPerPr, OneActive
    <3> QED  BY <1>1, <2>2, <2>5, <2>6, <3>1, RetriggeredSteady DEF Written
  <2>8. mine'.pc = "posted" /\ mine'.item = mine.item
    BY <1>3, <2>1 DEF Outcomes
  <2> QED  BY <1>2, <2>7, <2>8, CallSound DEF Holding, Written
<1>9. ~TransactionFails(Scheduler)
  BY DEF TransactionFails, Undisturbed
<1> QED  BY <1>5, <1>6, <1>7, <1>8, <1>9 DEF TriggerStep

\* The detectors and the poll loop: whatever row they meet, a pending one stays
\* pending.
LEMMA QueueOtherStep ==
    ASSUME QueueInv, DetectComment \/ DetectorResolves \/ DetectorReopens \/ DetectorAdopts
    PROVE  Sound' /\ Orderly(queue, queue')
<1>1. /\ queue \in Tables /\ now \in Time /\ UNCHANGED <<tick, trig>>
      /\ OneActive(queue) /\ Belongs(queue, CommentPr)
  BY DEF QueueInv, TypeInv, TypeOK, Time, Sound, OneActiveItemPerPr, OneActive,
         DetectComment, DetectorResolves, DetectorReopens, DetectorAdopts
<1> SUFFICES Written /\ KeepsPending(queue, queue')
  BY <1>1, AsideSound DEF Written
<1>2. CASE DetectComment
  <2>0. PICK c \in Comments : \E d \in DetectionsOf(c) :
            \E outcome \in Enqueue(queue, d, now) : queue' = outcome.queue
    BY <1>2 DEF DetectComment
  <2>1. PICK d \in DetectionsOf(c) :
            \E outcome \in Enqueue(queue, d, now) : queue' = outcome.queue
    BY <2>0
  <2>2. d.pr = CommentPr[d.comment]
    BY <2>1 DEF DetectionsOf
  <2>3. d \in Detection
    BY <2>1, DetectionType DEF QueueInv, TypeInv
  <2> QED  BY <1>1, <2>1, <2>2, <2>3, EnqueueSteady DEF Written
<1>3. ASSUME NEW i \in Rows(queue), NEW r \in Row, queue[i].status = "retriggered",
             r.status \in ActiveStatuses, r.pr = queue[i].pr, r.comment = queue[i].comment
      PROVE  LET n == [queue EXCEPT ![i] = r]
             IN  /\ OneActive(n) /\ Belongs(n, CommentPr) /\ Orderly(queue, n)
                 /\ KeepsPending(queue, n)
  <2>1. i \in Active(queue) /\ r.pr = CommentPr[r.comment]
    BY <1>1, <1>3 DEF Active, Rows, ActiveStatuses, Belongs
  <2> QED  BY <1>1, <1>3, <2>1, Recycled
<1>4. CASE DetectorResolves
  <2>0. PICK i \in Rows(queue) : \E resolution \in DetectorVerdicts(i) :
            queue' = MarkResolvedIfStillRetriggered(queue, i, resolution, now)
    BY <1>4 DEF DetectorResolves
  <2>1. PICK resolution \in DetectorVerdicts(i) :
            queue' = MarkResolvedIfStillRetriggered(queue, i, resolution, now)
    BY <2>0
  <2>2. resolution \in Resolutions
    BY OutcomeResolutions DEF DetectorVerdicts, PruneVerdict
  <2>3. CASE queue[i].status = "retriggered"
    <3>1. queue' = MarkResolved(queue, i, resolution, now)
      BY <2>1, <2>3 DEF MarkResolvedIfStillRetriggered
    <3>2. Written /\ \A k \in ItemIds \ {i} : queue'[k] = queue[k]
      BY <1>1, <2>2, <2>3, <3>1, MarkResolvedSteady DEF Written
    <3> QED  BY <2>3, <3>2 DEF KeepsPending
  <2>4. CASE queue[i].status # "retriggered"
    BY <1>1, <2>1, <2>4, KeepSteady DEF MarkResolvedIfStillRetriggered, Written
  <2> QED  BY <2>3, <2>4
<1>5. CASE DetectorReopens
  <2>1. PICK i \in Rows(queue), run \in Runs :
            queue' = Attempt(queue, ReopenStaleRetriggered(queue, i, run, NoTime)).queue
    BY <1>5 DEF DetectorReopens
  <2> DEFINE back == [queue[i] EXCEPT !.status = "pending", !.resolution = "none",
                          !.resolvedAt = NoTime, !.run = run,
                          !.cooldownUntil = NoTime, !.skipped = FALSE]
             n == ReopenStaleRetriggered(queue, i, run, NoTime)
  <2>2. queue[i] \in Row
    BY <1>1, RowOf DEF Rows
  <2>3. /\ back \in Row /\ back.status \in ActiveStatuses
        /\ back.pr = queue[i].pr /\ back.comment = queue[i].comment
    BY <2>2, TimeColumns DEF Row, ActiveStatuses
  <2>4. n = IF queue[i].status = "retriggered" THEN [queue EXCEPT ![i] = back] ELSE queue
    BY DEF ReopenStaleRetriggered, Reopen
  <2> HIDE DEF back, n
  <2>5. /\ OneActive(n) /\ Belongs(n, CommentPr) /\ Orderly(queue, n)
        /\ KeepsPending(queue, n)
    BY <1>1, <1>3, <2>3, <2>4, KeepSteady
  <2> QED  BY <1>1, <2>1, <2>5, AttemptSteady DEF Written, n
<1>6. CASE DetectorAdopts
  <2>1. PICK i \in Rows(queue), expected \in Runs \cup {NoRun}, run \in Runs :
            queue' = AdoptRunIfStillRetriggered(queue, i, expected, run, now)
    BY <1>6 DEF DetectorAdopts
  <2> DEFINE same == [queue[i] EXCEPT !.run = run, !.retriggeredAt = now]
  <2>2. queue[i] \in Row
    BY <1>1, RowOf DEF Rows
  <2>3. /\ same \in Row /\ same.status = queue[i].status
        /\ same.pr = queue[i].pr /\ same.comment = queue[i].comment
    BY <1>1, <2>2, TimeColumns DEF Row
  <2>4. \/ queue[i].status = "retriggered" /\ queue' = [queue EXCEPT ![i] = same]
        \/ queue' = queue
    BY <2>1 DEF AdoptRunIfStillRetriggered
  <2> HIDE DEF same
  <2> QED  BY <1>1, <1>3, <2>3, <2>4, KeepSteady DEF ActiveStatuses, Written
<1> QED  BY <1>2, <1>4, <1>5, <1>6

\* A step of the tick.  What it resolves it has found or selected itself, and
\* what it selects is still pending.
LEMMA QueueSchedulerStep ==
    ASSUME QueueInv, Undisturbed, SchedulerStep
    PROVE  Sound' /\ Orderly(queue, queue')
<1> DEFINE mine == trig[Scheduler]
<1>1. /\ trig \in [Actors -> CallType] /\ Scheduler \in Actors /\ tick \in TickType
      /\ queue \in Tables /\ now \in Time /\ now \in Nat
  BY DEF QueueInv, TypeInv, TypeOK, CallType, TickType, Actors, Time
<1>2. /\ OneActive(queue) /\ Belongs(queue, CommentPr)
      /\ Coupled /\ InHand /\ InScan /\ Present
  BY DEF QueueInv, Sound, OneActiveItemPerPr, OneActive
<1>3. Pending(queue) \subseteq Rows(queue) /\ Active(queue) \subseteq Rows(queue)
  BY DEF Pending, Active, Rows, ActiveStatuses
<1>4. queue' = queue => Written
  BY Unwritten
<1>5. ASSUME NEW i \in Rows(queue), NEW resolution \in Resolutions,
             queue' = MarkResolved(queue, i, resolution, now)
      PROVE  Written /\ \A k \in ItemIds \ {i} : queue'[k] = queue[k]
  BY <1>1, <1>2, <1>5, MarkResolvedSteady DEF Written
<1>6. Written => Orderly(queue, queue')
  BY DEF Written
<1>7. ASSUME NEW phase \in TickPhases, Goto(phase)
      PROVE  /\ tick'.pc = phase /\ tick'.active = tick.active
             /\ tick'.doomed = tick.doomed
  BY <1>1, <1>7 DEF Goto, TickType
<1>8. EndTick => /\ tick'.pc = "idle" /\ tick'.active = {} /\ tick'.doomed = {}
                 /\ tick' = IdleTick
  BY DEF EndTick, IdleTick
<1>9. ASSUME trig' = trig, queue' = queue, tick.pc # "trigger",
             \/ EndTick
             \/ \E phase \in TickPhases \ {"scan", "trigger"} : Goto(phase)
      PROVE  Sound' /\ Orderly(queue, queue')
  <2>1. /\ tick'.pc \notin {"scan", "trigger"} /\ tick'.active \subseteq Rows(queue)
        /\ \A v \in tick'.doomed : v.id \in Rows(queue)
    BY <1>2, <1>7, <1>8, <1>9 DEF Present
  <2> QED  BY <1>4, <1>6, <1>9, <2>1, PhaseSound
<1>10. CASE StartTick
  <2>1. /\ tick'.pc = "prune" /\ tick'.active = Active(queue) /\ tick'.doomed = tick.doomed
        /\ tick.pc = "idle" /\ trig' = trig /\ queue' = queue
    BY <1>1, <1>10 DEF StartTick, TickType
  <2> QED  BY <1>2, <1>3, <1>4, <1>6, <2>1, PhaseSound DEF Present
<1>11. CASE PruneEvaluate
  <2>1. PICK fetched \in SUBSET tick.active :
            tick' = [tick EXCEPT !.pc = "doomed", !.active = {},
                                 !.doomed = {PruneVerdict(i) : i \in fetched}]
    BY <1>11 DEF PruneEvaluate
  <2>2. /\ tick'.pc = "doomed" /\ tick'.active = {}
        /\ tick'.doomed = {PruneVerdict(i) : i \in fetched}
        /\ tick.pc = "prune" /\ trig' = trig /\ queue' = queue
    BY <1>1, <1>11, <2>1 DEF PruneEvaluate, TickType
  <2>3. \A v \in tick'.doomed : v.id \in Rows(queue)
    BY <1>2, <2>2 DEF Present, PruneVerdict
  <2> QED  BY <1>4, <1>6, <2>2, <2>3, PhaseSound
<1>12. CASE PruneResolve
  <2>1. PICK v \in tick.doomed :
            /\ queue' = MarkResolved(queue, v.id, v.resolution, now)
            /\ tick' = [tick EXCEPT !.doomed = @ \ {v}]
    BY <1>12 DEF PruneResolve
  <2>2. /\ tick'.pc = tick.pc /\ tick'.active = tick.active
        /\ tick'.doomed = tick.doomed \ {v} /\ tick.pc = "doomed" /\ trig' = trig
    BY <1>1, <1>12, <2>1 DEF PruneResolve, TickType
  <2>3. v.id \in Rows(queue) /\ v.resolution \in Resolutions
    BY <1>1, <1>2 DEF Present, TickType, Verdict, Resolutions
  <2>4. Written
    BY <1>5, <2>1, <2>3
  <2> QED  BY <1>2, <1>6, <2>2, <2>4, PhaseSound DEF Present
<1>13. CASE PruneDone \/ CheckPause \/ CheckAcknowledgement
  BY <1>9, <1>13 DEF PruneDone, CheckPause, CheckAcknowledgement, TickPhases
<1>29. CASE CheckAvailability
  <2>1. tick.pc = "gate" /\ trig' = trig /\ queue' = queue
    BY <1>29, GateCheckTick DEF QueueInv, TypeInv
  <2>2. CASE EndTick
    BY <1>9, <2>1, <2>2
  <2>3. CASE /\ tick'.pc = "select" /\ tick'.active = tick.active
             /\ tick'.doomed = tick.doomed
    BY <1>2, <1>4, <1>6, <2>1, <2>3, PhaseSound DEF Present
  <2> QED  BY <1>29, <2>2, <2>3, GateCheckTick DEF QueueInv, TypeInv
<1>14. CASE SweepStale
  <2>1. /\ tick'.pc = "pause" /\ tick'.active = tick.active /\ tick'.doomed = tick.doomed
        /\ tick.pc = "sweep" /\ trig' = trig
    BY <1>7, <1>14 DEF SweepStale, TickPhases
  <2>2. Written
    BY <1>1, <1>2, <1>14, SweepSteady DEF SweepStale, Written
  <2> QED  BY <1>2, <1>6, <2>1, <2>2, PhaseSound DEF Present
<1>15. CASE SnapshotPending
  <2>1. /\ tick'.pc = "scan" /\ tick'.active = tick.active /\ tick'.doomed = tick.doomed
        /\ tick'.todo = {Snapshot(i) : i \in Pending(queue)}
        /\ tick.pc = "select" /\ trig' = trig /\ queue' = queue
    BY <1>1, <1>15 DEF SnapshotPending, TickType
  <2>2. mine.pc = "none"
    BY <1>2, <2>1 DEF Coupled
  <2>3. InScan'
    BY <2>1 DEF InScan, Snapshot
  <2>4. OneActiveItemPerPr' /\ Belongs(queue, CommentPr)'
    BY <2>1 DEF QueueInv, Sound, OneActiveItemPerPr
  <2>5. Coupled' /\ InHand' /\ Present'
    BY <1>2, <2>1, <2>2 DEF Coupled, InHand, Present, Holding
  <2> QED  BY <1>4, <1>6, <2>1, <2>3, <2>4, <2>5 DEF Sound
<1>16. CASE SkipCandidate
  <2>1. PICK c \in tick.todo :
            /\ queue' = MarkRetriggerSkipped(queue, c.id)
            /\ tick' = [tick EXCEPT !.todo = @ \ {c}]
    BY <1>16 DEF SkipCandidate
  <2>2. /\ tick'.pc = "scan" /\ tick'.active = tick.active /\ tick'.doomed = tick.doomed
        /\ tick'.todo = tick.todo \ {c} /\ tick.pc = "scan" /\ trig' = trig
    BY <1>1, <1>16, <2>1 DEF SkipCandidate, TickType
  <2>3. c.id \in Pending(queue) /\ c.id \in Rows(queue) /\ c.id \in ItemIds
    BY <1>2, <1>3, <2>2 DEF InScan, Pending
  <2> DEFINE old == queue[c.id]
             new == [old EXCEPT !.skipped = TRUE]
  <2>4. old \in Row
    BY <1>1, <2>3, RowOf
  <2>5. /\ new \in Row /\ new.status = old.status
        /\ new.pr = old.pr /\ new.comment = old.comment
    BY <2>4 DEF Row
  <2>6. queue' = [queue EXCEPT ![c.id] = new]
    BY <2>1, <2>3 DEF MarkRetriggerSkipped, Pending
  <2> HIDE DEF new
  <2>7. Written /\ KeepsPending(queue, queue')
    BY <1>1, <1>2, <2>3, <2>5, <2>6, TouchSteady DEF Written
  <2>8. \A e \in tick'.todo : e.id \in Pending(queue')
    BY <1>2, <2>2, <2>7 DEF InScan, Pending, KeepsPending
  <2> QED  BY <1>6, <2>2, <2>7, <2>8, ScanSound
<1>17. ASSUME NEW c \in tick.todo, SpendFetch(c), tick.pc = "scan", trig' = trig,
              Written, \A e \in tick.todo \ {c} : e.id \in Pending(queue')
       PROVE  Sound' /\ Orderly(queue, queue')
  <2>1. CASE EndTick
    BY <1>6, <1>8, <1>17, <2>1, PhaseSound
  <2>2. CASE tick' = [tick EXCEPT !.todo = @ \ {c}, !.fetches = @ + 1]
    <3>1. /\ tick'.pc = "scan" /\ tick'.active = tick.active /\ tick'.doomed = tick.doomed
          /\ tick'.todo = tick.todo \ {c}
      BY <1>1, <1>17, <2>2 DEF TickType
    <3> QED  BY <1>6, <1>17, <3>1, ScanSound
  <2> QED  BY <1>17, <2>1, <2>2 DEF SpendFetch
<1>18. CASE FetchFails
  <2>1. PICK c \in tick.todo : SpendFetch(c)
    BY <1>18 DEF FetchFails
  <2>2. tick.pc = "scan" /\ trig' = trig /\ queue' = queue
    BY <1>18 DEF FetchFails
  <2> QED  BY <1>2, <1>4, <1>17, <2>1, <2>2 DEF InScan
<1>19. CASE ResolveTerminalCandidate
  <2>1. PICK c \in tick.todo :
            /\ queue' = MarkResolved(queue, c.id, PruneVerdict(c.id).resolution, now)
            /\ SpendFetch(c)
    BY <1>19 DEF ResolveTerminalCandidate
  <2>2. tick.pc = "scan" /\ trig' = trig
    BY <1>19 DEF ResolveTerminalCandidate
  <2>3. c.id \in Pending(queue) /\ c.id \in Rows(queue) /\ c.id \in ItemIds
          /\ queue[c.id].status # "resolved"
    BY <1>2, <1>3, <2>2 DEF InScan, Pending
  <2>4. Written /\ \A k \in ItemIds \ {c.id} : queue'[k] = queue[k]
    BY <1>5, <2>1, <2>3, VerdictType
  <2>5. \A e \in tick.todo \ {c} : e.id \in Pending(queue')
    BY <1>2, <2>2, <2>4 DEF InScan, Pending
  <2> QED  BY <1>17, <2>1, <2>2, <2>4, <2>5
<1>20. CASE SelectCandidate
  <2>1. PICK c \in tick.todo :
            trig' = [trig EXCEPT ![Scheduler] = [pc |-> "decide", item |-> c.id,
                         attempts |-> c.attempts, postedAt |-> NoTime]]
    BY <1>20 DEF SelectCandidate
  <2>2. /\ tick.pc = "scan" /\ queue' = queue
        /\ tick'.pc = "trigger" /\ tick'.active = {} /\ tick'.doomed = {}
    BY <1>20 DEF SelectCandidate, IdleTick
  <2>3. mine'.pc = "decide" /\ mine'.item = c.id
    BY <1>1, <2>1
  <2>4. c.id \in Pending(queue) /\ c.id \in Rows(queue)
    BY <1>2, <1>3, <2>2 DEF InScan
  <2>5. OneActiveItemPerPr' /\ Belongs(queue, CommentPr)'
    BY <2>2 DEF QueueInv, Sound, OneActiveItemPerPr
  <2> QED
    BY <1>4, <1>6, <2>2, <2>3, <2>4, <2>5
    DEF Sound, Coupled, InHand, InScan, Present, Holding
<1>21. CASE NothingDue
  BY <1>9, <1>21 DEF NothingDue
<1>22. ASSUME EndTick, trig' = [trig EXCEPT ![Scheduler] = NoTrigger], Written
       PROVE  Sound' /\ Orderly(queue, queue')
  <2>1. trig'[Scheduler].pc = "none"
    BY <1>1, <1>22 DEF NoTrigger
  <2> QED  BY <1>6, <1>8, <1>22, <2>1, DoneSound
<1>23. ASSUME mine.pc # "none"
       PROVE  mine.item \in Rows(queue) /\ mine.item \in ItemIds
  BY <1>2, <1>23 DEF Present, Rows
<1>24. CASE AfterPosted
  <2>1. mine.pc = "posted" /\ EndTick /\ trig' = [trig EXCEPT ![Scheduler] = NoTrigger]
    BY <1>24 DEF AfterPosted, Finish
  <2>2. mine.item \in Rows(queue) /\ mine.item \in ItemIds /\ mine.attempts + 1 \in Nat
    BY <1>1, <1>23, <2>1 DEF CallType
  <2> DEFINE old == queue[mine.item]
             new == [old EXCEPT !.attempts = mine.attempts + 1]
  <2>3. old \in Row
    BY <1>1, <2>2, RowOf
  <2>4. /\ new \in Row /\ new.status = old.status
        /\ new.pr = old.pr /\ new.comment = old.comment
    BY <2>2, <2>3 DEF Row
  <2>5. IncrementAttempts(queue, mine.item, mine.attempts + 1) = [queue EXCEPT ![mine.item] = new]
    BY DEF IncrementAttempts
  <2> HIDE DEF new
  <2>6. queue' = IncrementAttempts(queue, mine.item, mine.attempts + 1) => Written
    BY <1>1, <1>2, <2>2, <2>4, <2>5, TouchSteady DEF Written
  <2>7. queue' = MarkResolved(queue, mine.item, "failed", now) => Written
    BY <1>5, <2>2, OutcomeResolutions
  <2>8. Written
    BY <1>24, <2>6, <2>7 DEF AfterPosted
  <2> QED  BY <1>22, <2>1, <2>8
<1>25. CASE AfterStale \/ AfterTerminal
  <2>1. /\ mine.pc \in {"stale", "terminal"} /\ EndTick
        /\ trig' = [trig EXCEPT ![Scheduler] = NoTrigger]
    BY <1>25 DEF AfterStale, AfterTerminal, Finish
  <2>2. \E resolution \in {"stale_comment", "failed"} :
            queue' = MarkResolved(queue, mine.item, resolution, now)
    BY <1>25 DEF AfterStale, AfterTerminal
  <2>3. Written
    BY <1>5, <1>23, <2>1, <2>2, OutcomeResolutions
  <2> QED  BY <1>22, <2>1, <2>3
<1>26. CASE AfterFailed
  <2>1. mine.pc = "failed" /\ EndTick /\ trig' = [trig EXCEPT ![Scheduler] = NoTrigger]
    BY <1>26 DEF AfterFailed, Finish
  <2>2. mine.item \in Pending(queue) /\ mine.item \in Rows(queue) /\ mine.item \in ItemIds
    BY <1>2, <1>23, <2>1 DEF InHand, Holding
  <2> DEFINE old == queue[mine.item]
             new == [old EXCEPT !.status = "retriggered", !.retriggeredAt = now,
                                !.attempts = old.attempts + 1]
  <2>3. old \in Row /\ old.attempts + 1 \in Nat
    BY <1>1, <2>2, RowOf DEF Row
  <2>4. /\ new \in Row /\ new.status = "retriggered"
        /\ new.pr = old.pr /\ new.comment = old.comment
    BY <1>1, <2>3, TimeColumns DEF Row, ActiveStatuses
  <2>5. Backoff(queue, mine.item, now) = [queue EXCEPT ![mine.item] = new]
    BY DEF Backoff
  <2> HIDE DEF new
  <2>6. LET n == [queue EXCEPT ![mine.item] = new]
        IN  OneActive(n) /\ Belongs(n, CommentPr) /\ Orderly(queue, n)
    BY <1>1, <1>2, <2>2, <2>4, RetriggeredSteady
  <2>7. queue' = Backoff(queue, mine.item, now) => Written
    BY <2>5, <2>6 DEF Written
  <2>8. queue' = MarkResolved(queue, mine.item, "failed", now) => Written
    BY <1>5, <2>2, OutcomeResolutions
  <2>9. Written
    BY <1>26, <2>7, <2>8 DEF AfterFailed
  <2> QED  BY <1>22, <2>1, <2>9
<1>27. CASE AfterRescheduled
  <2>1. mine.pc = "rescheduled" /\ tick.pc = "trigger"
    BY <1>27 DEF AfterRescheduled
  <2>2. mine.item \in Pending(queue)
    BY <1>2, <2>1 DEF InHand, Holding
  <2>3. PICK comment \in {c \in Comments : CommentPr[c] = queue[mine.item].pr},
             run \in Runs \cup {NoRun}, earliest \in StatedTimes :
          LET outcome == Reschedule(queue, mine.item, comment, run, now)
          IN  \/ Finish("rescheduled") /\ queue' = outcome.queue
              \/ Return(Scheduler, "failed") /\ queue' = queue /\ tick' = tick
    BY <1>27 DEF AfterRescheduled
  <2>4. CASE Finish("rescheduled")
             /\ queue' = Reschedule(queue, mine.item, comment, run, now).queue
    <3>1. Written
      BY <1>1, <1>2, <2>2, <2>4, RescheduleSteady DEF RunOrNull, Written
    <3> QED  BY <1>22, <2>4, <3>1 DEF Finish
  <2>5. CASE Return(Scheduler, "failed") /\ queue' = queue /\ tick' = tick
    <3>1. mine'.pc = "failed" /\ mine'.item = mine.item
      BY <1>1, <2>5 DEF Return, CallType
    <3> QED  BY <1>4, <1>6, <2>1, <2>2, <2>5, <3>1, CallSound
  <2> QED  BY <2>3, <2>4, <2>5
<1>28. ~TickFails
  BY DEF TickFails, Undisturbed
<1> QED
  BY <1>10, <1>11, <1>12, <1>13, <1>14, <1>15, <1>16, <1>18, <1>19, <1>20, <1>21,
     <1>24, <1>25, <1>26, <1>27, <1>28, <1>29 DEF SchedulerStep

\* Every step of a scheduler on its own.
LEMMA QueueStep ==
    ASSUME QueueInv, Undisturbed, [Next]_vars
    PROVE  QueueInv' /\ Orderly(queue, queue')
<1>1. TypeInv'
  BY TypeStep DEF QueueInv
<1>2. Actors = {Scheduler}
  BY DEF Actors, Undisturbed
<1> SUFFICES Sound' /\ Orderly(queue, queue')
  BY <1>1 DEF QueueInv
<1>3. CASE \E a \in Actors : TriggerStep(a)
  BY <1>2, <1>3, QueueTriggerStep
<1>4. CASE SchedulerStep
  BY <1>4, QueueSchedulerStep
<1>5. CASE DetectComment \/ DetectorResolves \/ DetectorReopens \/ DetectorAdopts
  BY <1>5, QueueOtherStep
<1>6. CASE SetPaused \/ ExtendGate \/ Acknowledge \/ ChangePr \/ Tick \/ UNCHANGED vars
  <2>1. UNCHANGED <<queue, tick, trig>>
    BY <1>6 DEF SetPaused, ExtendGate, Acknowledge, ChangePr, Tick, vars
  <2>2. Written /\ KeepsPending(queue, queue')
    BY <2>1, Unwritten, KeepSteady DEF QueueInv, TypeInv, TypeOK
  <2> QED  BY <2>1, <2>2, AsideSound DEF Written
<1>7. CASE Crash
  <2>1. tick' = IdleTick /\ trig'[Scheduler].pc = "none" /\ queue' = queue
    BY <1>2, <1>7 DEF Crash, NoTrigger
  <2> QED  BY <2>1, Unwritten, DoneSound DEF Written
<1>8. ~MarkReviewed /\ ~(\E d \in Dashboards : RetriggerNow(d))
  BY DEF MarkReviewed, Undisturbed
<1> QED  BY <1>3, <1>4, <1>5, <1>6, <1>7, <1>8 DEF Next

\* A pull request never has two active items, whatever is detected, resolved,
\* taken over or rescheduled at any await of the tick, with crashes and lost
\* answers (business rule 3-3; QueueRepository.enqueue).
THEOREM OneActivePerPr ==
    ASSUME Undisturbed PROVE Spec => []OneActiveItemPerPr
<1>1. QueueInv /\ [Next]_vars => QueueInv'
  BY QueueStep
<1>2. QueueInv => OneActiveItemPerPr
  BY DEF QueueInv, Sound
<1> QED  BY <1>1, <1>2, QueueInit, PTL DEF Spec

\* No record, backoff or reschedule of the scheduler brings a resolved item back
\* (business rule 12-12).
THEOREM ResolvedStays ==
    ASSUME Undisturbed PROVE Spec => ResolvedNeverRetriggered
<1>1. QueueInv /\ [Next]_vars => QueueInv'
  BY QueueStep
<1>2. QueueInv /\ [Next]_vars
      => [\A i \in ItemIds : queue[i].status = "resolved"
                             => queue'[i].status # "retriggered"]_vars
  BY QueueStep DEF Orderly, MayBecome
<1> QED  BY <1>1, <1>2, QueueInit, PTL DEF Spec, ResolvedNeverRetriggered

-----------------------------------------------------------------------------
(* A review verdict that loses the race, with database errors too: only a   *)
(* dashboard can take an item from a call that has not recorded yet.        *)

\* Until its transaction or its outcome, as InHand, but for a call that has
\* failed: a failed bookkeeping transaction leaves a retriggered item.
Held ==
    trig[Scheduler].pc \in Holding \ {"failed"} => trig[Scheduler].item \in Pending(queue)

VerdictInv == TypeInv /\ Coupled /\ Held /\ InScan

LateVerdicts == {"review_completed", "skipped"}

\* No resolution is replaced by a review verdict.
NoLate(q, n) ==
    \A i \in ItemIds :
        q[i].status = "resolved" /\ n[i].status = "resolved" =>
            n[i].resolution = q[i].resolution \/ n[i].resolution \notin LateVerdicts

LEMMA SparesNoLate == ASSUME NEW q, NEW n, Spares(q, n) PROVE NoLate(q, n)
BY DEF Spares, NoLate

\* A row that keeps its resolution, or was not resolved.
LEMMA PutNoLate ==
    ASSUME NEW q \in Tables, NEW i \in ItemIds, NEW r,
           \/ q[i].status # "resolved" \/ r.status # "resolved"
           \/ r.resolution = q[i].resolution \/ r.resolution \notin LateVerdicts
    PROVE  NoLate(q, [q EXCEPT ![i] = r])
BY DEF NoLate, Tables

LEMMA MarkResolvedNoLate ==
    ASSUME NEW q \in Tables, NEW i \in ItemIds, NEW resolution, NEW t,
           q[i].status # "resolved" \/ resolution \notin LateVerdicts
    PROVE  /\ NoLate(q, MarkResolved(q, i, resolution, t))
           /\ \A k \in ItemIds \ {i} : MarkResolved(q, i, resolution, t)[k] = q[k]
<1> DEFINE r == [q[i] EXCEPT !.status = "resolved", !.resolution = resolution,
                             !.resolvedAt = t]
<1>1. r.resolution = resolution
  BY RowOf DEF Row
<1>2. MarkResolved(q, i, resolution, t) = [q EXCEPT ![i] = r]
  BY DEF MarkResolved
<1> HIDE DEF r
<1>3. NoLate(q, [q EXCEPT ![i] = r])
  BY <1>1, PutNoLate
<1>4. \A k \in ItemIds \ {i} : [q EXCEPT ![i] = r][k] = q[k]
  BY DEF Tables
<1> QED  BY <1>2, <1>3, <1>4

\* A step of the scheduler's call.
LEMMA VerdictTriggerStep ==
    ASSUME VerdictInv, TriggerStep(Scheduler)
    PROVE  (Coupled /\ Held /\ InScan)' /\ NoLate(queue, queue')
<1> DEFINE mine == trig[Scheduler]
<1>1. /\ trig \in [Actors -> CallType] /\ Scheduler \in Actors /\ queue \in Tables
      /\ Coupled /\ Held /\ InScan
  BY DEF VerdictInv, TypeInv, TypeOK, CallType, Actors
<1>2. /\ tick' = tick /\ mine.pc # "none" /\ mine.item \in ItemIds
  BY DEF TriggerStep, DecideOnComment, PostRetrigger, PostFails, RecordRetrigger,
         TransactionFails, VerdictInv, TypeInv, InFlight, Actors
<1>3. tick.pc = "trigger" /\ tick'.pc = "trigger"
  BY <1>1, <1>2 DEF Coupled
<1>4. ASSUME NEW outcome \in Outcomes, Return(Scheduler, outcome)
      PROVE  mine'.pc = outcome /\ mine'.item = mine.item
  BY <1>1, <1>4 DEF Return, CallType
<1>5. NoLate(queue, queue)
  BY KeepSpares, SparesNoLate
<1>6. ASSUME queue' = queue, mine'.pc # "none", mine'.item = mine.item,
             mine.pc \in {"decide", "post"} \/ mine'.pc = "failed"
      PROVE  (Coupled /\ Held /\ InScan)' /\ NoLate(queue, queue')
  BY <1>1, <1>3, <1>5, <1>6 DEF Coupled, Held, Holding, InScan
<1>7. CASE DecideOnComment(Scheduler)
  <2>1. queue' = queue /\ mine.pc = "decide"
    BY <1>7 DEF DecideOnComment
  <2>2. mine'.pc # "none" /\ mine'.item = mine.item
    BY <1>1, <1>4, <1>7 DEF DecideOnComment, CallType, Outcomes
  <2> QED  BY <1>6, <2>1, <2>2
<1>8. CASE PostRetrigger(Scheduler)
  <2>1. queue' = queue /\ mine.pc = "post"
    BY <1>8 DEF PostRetrigger
  <2>2. mine'.pc # "none" /\ mine'.item = mine.item
    BY <1>1, <1>8 DEF PostRetrigger, CallType
  <2> QED  BY <1>6, <2>1, <2>2
<1>9. CASE PostFails(Scheduler)
  <2>1. queue' = queue /\ mine.pc = "post"
    BY <1>9 DEF PostFails
  <2>2. mine'.pc # "none" /\ mine'.item = mine.item
    BY <1>4, <1>9 DEF PostFails, Outcomes
  <2> QED  BY <1>6, <2>1, <2>2
<1>10. CASE RecordRetrigger(Scheduler)
  <2>1. mine'.pc = "posted"
    BY <1>4, <1>10 DEF RecordRetrigger, Outcomes
  <2>2. PICK readAt \in mine.postedAt..now, run \in Runs \cup {NoRun} :
            queue' = MarkRetriggered(queue, mine.item, CooldownEnd(readAt), run, now)
    BY <1>10 DEF RecordRetrigger
  <2> DEFINE old == queue[mine.item]
             new == [old EXCEPT !.status = "retriggered", !.retriggeredAt = now,
                         !.cooldownUntil = CooldownEnd(readAt),
                         !.run = IF run = NoRun THEN old.run ELSE run]
  <2>3. new.status = "retriggered"
    BY <1>1, <1>2, RowOf DEF Row
  <2>4. queue' = [queue EXCEPT ![mine.item] = new]
    BY <2>2 DEF MarkRetriggered
  <2> HIDE DEF new
  <2>5. NoLate(queue, queue')
    BY <1>1, <1>2, <2>3, <2>4, PutNoLate
  <2> QED  BY <1>3, <2>1, <2>5 DEF Coupled, Held, Holding, InScan
<1>11. CASE TransactionFails(Scheduler)
  <2>1. queue' = queue
    BY <1>11 DEF TransactionFails
  <2>2. mine'.pc = "failed" /\ mine'.item = mine.item
    BY <1>4, <1>11 DEF TransactionFails, Outcomes
  <2> QED  BY <1>6, <2>1, <2>2
<1> QED  BY <1>7, <1>8, <1>9, <1>10, <1>11 DEF TriggerStep

\* A step of the tick: the one review verdict it writes, for an item whose
\* replacement comment belongs to a resolved row, is for an item it holds.
LEMMA VerdictSchedulerStep ==
    ASSUME VerdictInv, SchedulerStep
    PROVE  (Coupled /\ Held /\ InScan)' /\ NoLate(queue, queue')
<1> DEFINE mine == trig[Scheduler]
           Kept == (Coupled /\ Held /\ InScan)'
<1>1. /\ trig \in [Actors -> CallType] /\ Scheduler \in Actors /\ tick \in TickType
      /\ queue \in Tables /\ now \in Nat
      /\ Coupled /\ Held /\ InScan
  BY DEF VerdictInv, TypeInv, TypeOK, CallType, TickType, Actors
<1>2. NoLate(queue, queue)
  BY KeepSpares, SparesNoLate
<1>3. tick.pc # "trigger" => mine.pc = "none"
  BY <1>1 DEF Coupled
<1>4. ASSUME NEW phase \in TickPhases, Goto(phase) PROVE tick'.pc = phase
  BY <1>1, <1>4 DEF Goto, TickType
<1>5. EndTick => tick'.pc = "idle"
  BY DEF EndTick, IdleTick
<1>6. ASSUME trig' = trig, tick.pc # "trigger", tick'.pc \notin {"scan", "trigger"}
      PROVE  Kept
  BY <1>3, <1>6 DEF Coupled, Held, Holding, InScan
<1>7. ASSUME trig' = trig, tick.pc = "scan", tick'.pc = "scan", tick'.todo \subseteq tick.todo,
             \A c \in tick'.todo : c.id \in Pending(queue')
      PROVE  Kept
  BY <1>1, <1>3, <1>7 DEF Coupled, Held, Holding, InScan
<1>8. ASSUME EndTick, trig' = [trig EXCEPT ![Scheduler] = NoTrigger]
      PROVE  Kept
  <2>1. trig'[Scheduler].pc = "none"
    BY <1>1, <1>8 DEF NoTrigger
  <2> QED  BY <1>5, <1>8, <2>1 DEF Coupled, Held, Holding, InScan
<1>9. ASSUME NEW i \in ItemIds, NEW resolution,
             queue[i].status # "resolved" \/ resolution \notin LateVerdicts,
             queue' = MarkResolved(queue, i, resolution, now)
      PROVE  NoLate(queue, queue') /\ \A k \in ItemIds \ {i} : queue'[k] = queue[k]
  BY <1>1, <1>9, MarkResolvedNoLate
<1>10. CASE StartTick \/ PruneEvaluate
  <2>1. /\ tick'.pc \in {"prune", "doomed"} /\ tick.pc # "trigger"
        /\ trig' = trig /\ queue' = queue
    BY <1>1, <1>10 DEF StartTick, PruneEvaluate, TickType
  <2> QED  BY <1>2, <1>6, <2>1
<1>11. CASE PruneResolve
  <2>1. PICK v \in tick.doomed : queue' = MarkResolved(queue, v.id, v.resolution, now)
    BY <1>11 DEF PruneResolve
  <2>2. v.id \in ItemIds /\ v.resolution \notin LateVerdicts
    BY <1>1 DEF TickType, Verdict, LateVerdicts
  <2>3. tick'.pc = "doomed" /\ tick.pc # "trigger" /\ trig' = trig
    BY <1>1, <1>11 DEF PruneResolve, TickType
  <2> QED  BY <1>6, <1>9, <2>1, <2>2, <2>3
<1>12. CASE PruneDone \/ CheckPause \/ CheckAcknowledgement
  <2>1. /\ tick'.pc \in {"sweep", "idle", "ack", "gate"} /\ tick.pc # "trigger"
        /\ trig' = trig /\ queue' = queue
    BY <1>4, <1>5, <1>12 DEF PruneDone, CheckPause, CheckAcknowledgement, TickPhases
  <2> QED  BY <1>2, <1>6, <2>1
<1>27. CASE CheckAvailability
  <2>1. /\ tick'.pc \in {"idle", "select"} /\ tick.pc # "trigger"
        /\ trig' = trig /\ queue' = queue
    BY <1>5, <1>27, GateCheckTick DEF VerdictInv, TypeInv
  <2> QED  BY <1>2, <1>6, <2>1
<1>13. CASE SweepStale
  <2>1. tick'.pc = "pause" /\ tick.pc # "trigger" /\ trig' = trig
    BY <1>4, <1>13 DEF SweepStale, TickPhases
  <2>2. \A i \in ItemIds : queue[i].status = "resolved" => queue'[i] = queue[i]
    BY <1>13 DEF SweepStale, ResolveStaleRetriggered
  <2>3. NoLate(queue, queue')
    BY <2>2 DEF NoLate
  <2> QED  BY <1>6, <2>1, <2>3
<1>14. CASE SnapshotPending
  <2>1. /\ tick'.pc = "scan" /\ tick.pc # "trigger" /\ trig' = trig /\ queue' = queue
        /\ tick'.todo = {Snapshot(i) : i \in Pending(queue)}
    BY <1>1, <1>14 DEF SnapshotPending, TickType
  <2>2. InScan'
    BY <2>1 DEF InScan, Snapshot
  <2>3. Coupled' /\ Held'
    BY <1>3, <2>1 DEF Coupled, Held, Holding
  <2> QED  BY <1>2, <2>1, <2>2, <2>3
<1>15. CASE SkipCandidate
  <2>1. PICK c \in tick.todo :
            /\ queue' = MarkRetriggerSkipped(queue, c.id)
            /\ tick' = [tick EXCEPT !.todo = @ \ {c}]
    BY <1>15 DEF SkipCandidate
  <2>2. /\ tick'.pc = "scan" /\ tick.pc = "scan" /\ trig' = trig
        /\ tick'.todo = tick.todo \ {c}
    BY <1>1, <1>15, <2>1 DEF SkipCandidate, TickType
  <2>3. c.id \in ItemIds /\ queue[c.id].status = "pending"
    BY <1>1, <2>2 DEF InScan, Pending
  <2> DEFINE new == [queue[c.id] EXCEPT !.skipped = TRUE]
  <2>4. new.status = "pending"
    BY <1>1, <2>3, RowOf DEF Row
  <2>5. queue' = [queue EXCEPT ![c.id] = new]
    BY <2>1, <2>3 DEF MarkRetriggerSkipped
  <2> HIDE DEF new
  <2>6. Spares(queue, queue')
    BY <1>1, <2>3, <2>4, <2>5, PutSpares
  <2>7. \A e \in tick'.todo : e.id \in Pending(queue')
    BY <1>1, <2>2, <2>6 DEF InScan, Pending, Spares
  <2> QED  BY <1>7, <2>2, <2>6, <2>7, SparesNoLate
<1>16. ASSUME NEW c \in tick.todo, SpendFetch(c), tick.pc = "scan", trig' = trig,
              \A e \in tick.todo \ {c} : e.id \in Pending(queue')
       PROVE  Kept
  <2>1. CASE EndTick
    BY <1>5, <1>6, <1>16, <2>1
  <2>2. CASE tick' = [tick EXCEPT !.todo = @ \ {c}, !.fetches = @ + 1]
    <3>1. tick'.pc = "scan" /\ tick'.todo = tick.todo \ {c}
      BY <1>1, <1>16, <2>2 DEF TickType
    <3> QED  BY <1>7, <1>16, <3>1
  <2> QED  BY <1>16, <2>1, <2>2 DEF SpendFetch
<1>17. CASE FetchFails
  <2>1. PICK c \in tick.todo : SpendFetch(c)
    BY <1>17 DEF FetchFails
  <2>2. tick.pc = "scan" /\ trig' = trig /\ queue' = queue
    BY <1>17 DEF FetchFails
  <2> QED  BY <1>1, <1>2, <1>16, <2>1, <2>2 DEF InScan
<1>18. CASE ResolveTerminalCandidate
  <2>1. PICK c \in tick.todo :
            /\ queue' = MarkResolved(queue, c.id, PruneVerdict(c.id).resolution, now)
            /\ SpendFetch(c)
    BY <1>18 DEF ResolveTerminalCandidate
  <2>2. tick.pc = "scan" /\ trig' = trig
    BY <1>18 DEF ResolveTerminalCandidate
  <2>3. c.id \in ItemIds /\ queue[c.id].status # "resolved"
    BY <1>1, <2>2 DEF InScan, Pending
  <2>4. NoLate(queue, queue') /\ \A k \in ItemIds \ {c.id} : queue'[k] = queue[k]
    BY <1>9, <2>1, <2>3
  <2>5. \A e \in tick.todo \ {c} : e.id \in Pending(queue')
    BY <1>1, <2>2, <2>4 DEF InScan, Pending
  <2> QED  BY <1>16, <2>1, <2>2, <2>4, <2>5
<1>19. CASE SelectCandidate
  <2>1. PICK c \in tick.todo :
            trig' = [trig EXCEPT ![Scheduler] = [pc |-> "decide", item |-> c.id,
                         attempts |-> c.attempts, postedAt |-> NoTime]]
    BY <1>19 DEF SelectCandidate
  <2>2. tick.pc = "scan" /\ queue' = queue /\ tick'.pc = "trigger"
    BY <1>19 DEF SelectCandidate, IdleTick
  <2>3. mine'.pc = "decide" /\ mine'.item = c.id
    BY <1>1, <2>1
  <2>4. c.id \in Pending(queue)
    BY <1>1, <2>2 DEF InScan
  <2> QED  BY <1>2, <2>2, <2>3, <2>4 DEF Coupled, Held, InScan
<1>20. CASE NothingDue
  BY <1>2, <1>5, <1>6, <1>20 DEF NothingDue
<1>21. mine.pc # "none" => mine.item \in ItemIds
  BY <1>1 DEF VerdictInv, TypeInv, InFlight
<1>22. CASE AfterPosted
  <2>1. mine.pc = "posted" /\ EndTick /\ trig' = [trig EXCEPT ![Scheduler] = NoTrigger]
    BY <1>22 DEF AfterPosted, Finish
  <2>2. mine.item \in ItemIds
    BY <1>21, <2>1
  <2> DEFINE new == [queue[mine.item] EXCEPT !.attempts = mine.attempts + 1]
  <2>3. new.resolution = queue[mine.item].resolution
    BY <1>1, <2>2, RowOf DEF Row
  <2>4. \/ queue' = MarkResolved(queue, mine.item, "failed", now)
        \/ queue' = [queue EXCEPT ![mine.item] = new]
    BY <1>22 DEF AfterPosted, IncrementAttempts
  <2> HIDE DEF new
  <2>5. NoLate(queue, queue')
    BY <1>1, <1>9, <2>2, <2>3, <2>4, PutNoLate DEF LateVerdicts
  <2> QED  BY <1>8, <2>1, <2>5
<1>23. CASE AfterStale \/ AfterTerminal
  <2>1. /\ mine.pc # "none" /\ EndTick
        /\ trig' = [trig EXCEPT ![Scheduler] = NoTrigger]
    BY <1>23 DEF AfterStale, AfterTerminal, Finish
  <2>2. \E resolution \in {"stale_comment", "failed"} :
            queue' = MarkResolved(queue, mine.item, resolution, now)
    BY <1>23 DEF AfterStale, AfterTerminal
  <2>3. NoLate(queue, queue')
    BY <1>9, <1>21, <2>1, <2>2 DEF LateVerdicts
  <2> QED  BY <1>8, <2>1, <2>3
<1>24. CASE AfterFailed
  <2>1. mine.pc = "failed" /\ EndTick /\ trig' = [trig EXCEPT ![Scheduler] = NoTrigger]
    BY <1>24 DEF AfterFailed, Finish
  <2>2. mine.item \in ItemIds
    BY <1>21, <2>1
  <2> DEFINE new == [queue[mine.item] EXCEPT !.status = "retriggered", !.retriggeredAt = now,
                         !.attempts = queue[mine.item].attempts + 1]
  <2>3. new.status = "retriggered"
    BY <1>1, <2>2, RowOf DEF Row
  <2>4. \/ queue' = MarkResolved(queue, mine.item, "failed", now)
        \/ queue' = [queue EXCEPT ![mine.item] = new]
    BY <1>24 DEF AfterFailed, Backoff
  <2> HIDE DEF new
  <2>5. NoLate(queue, queue')
    BY <1>1, <1>9, <2>2, <2>3, <2>4, PutNoLate DEF LateVerdicts
  <2> QED  BY <1>8, <2>1, <2>5
<1>25. CASE AfterRescheduled
  <2>1. mine.pc = "rescheduled" /\ tick.pc = "trigger"
    BY <1>25 DEF AfterRescheduled
  <2>2. mine.item \in ItemIds /\ queue[mine.item].status = "pending"
    BY <1>1, <2>1 DEF Held, Holding, Pending
  <2>3. PICK comment \in {c \in Comments : CommentPr[c] = queue[mine.item].pr},
             run \in Runs \cup {NoRun}, earliest \in StatedTimes :
          LET outcome == Reschedule(queue, mine.item, comment, run, now)
          IN  \/ Finish("rescheduled") /\ queue' = outcome.queue
              \/ Return(Scheduler, "failed") /\ queue' = queue /\ tick' = tick
    BY <1>25 DEF AfterRescheduled
  <2>4. CASE Finish("rescheduled")
             /\ queue' = Reschedule(queue, mine.item, comment, run, now).queue
    <3>1. \/ queue' = queue
          \/ queue' = MarkResolved(queue, mine.item, "review_completed", now)
          \/ queue' = Rescheduled(queue, mine.item, comment, run, now)
      BY <2>4 DEF Reschedule, Wrote, Threw
    <3>2. NoLate(queue, Rescheduled(queue, mine.item, comment, run, now))
      BY <1>1, <2>2, PutNoLate DEF Rescheduled
    <3>3. NoLate(queue, queue')
      BY <1>2, <1>9, <2>2, <3>1, <3>2
    <3> QED  BY <1>8, <2>4, <3>3 DEF Finish
  <2>5. CASE Return(Scheduler, "failed") /\ queue' = queue /\ tick' = tick
    <3>1. mine'.pc = "failed"
      BY <1>1, <2>5 DEF Return, CallType
    <3> QED  BY <1>1, <1>2, <2>1, <2>5, <3>1 DEF Coupled, Held, Holding, InScan
  <2> QED  BY <2>3, <2>4, <2>5
<1>26. CASE TickFails
  <2>1. EndTick /\ trig' = [trig EXCEPT ![Scheduler] = NoTrigger] /\ queue' = queue
    BY <1>26 DEF TickFails
  <2> QED  BY <1>2, <1>8, <2>1
<1> QED
  BY <1>10, <1>11, <1>12, <1>13, <1>14, <1>15, <1>17, <1>18, <1>19, <1>20,
     <1>22, <1>23, <1>24, <1>25, <1>26, <1>27 DEF SchedulerStep

\* The detectors and the poll loop spare pending and resolved rows, whichever
\* they meet.
LEMMA BesideSpares ==
    ASSUME TypeInv, DetectComment \/ DetectorReopens \/ DetectorAdopts
    PROVE  Spares(queue, queue')
<1>1. queue \in Tables /\ now \in Time
  BY DEF TypeInv, TypeOK, Time
<1>2. CASE DetectComment
  <2>1. PICK c \in Comments : \E d \in DetectionsOf(c) :
            \E outcome \in Enqueue(queue, d, now) : queue' = outcome.queue
    BY <1>2 DEF DetectComment
  <2>2. PICK d \in DetectionsOf(c) :
            \E outcome \in Enqueue(queue, d, now) : queue' = outcome.queue
    BY <2>1
  <2>3. d \in Detection
    BY <2>2, DetectionType DEF TypeInv
  <2> QED  BY <1>1, <2>2, <2>3, EnqueueSpares
<1>3. CASE DetectorReopens
  <2>1. PICK i \in Rows(queue), run \in Runs :
            queue' = Attempt(queue, ReopenStaleRetriggered(queue, i, run, NoTime)).queue
    BY <1>3 DEF DetectorReopens
  <2>2. i \in ItemIds /\ run \in RunOrNull
    BY DEF Rows, RunOrNull
  <2> QED  BY <1>1, <2>1, <2>2, ReopenStaleSpares, AttemptSpares, TimeColumns
<1>4. CASE DetectorAdopts
  <2>1. PICK i \in Rows(queue), expected \in Runs \cup {NoRun}, run \in Runs :
            queue' = AdoptRunIfStillRetriggered(queue, i, expected, run, now)
    BY <1>4 DEF DetectorAdopts
  <2>2. i \in ItemIds
    BY DEF Rows
  <2> QED  BY <1>1, <2>1, <2>2, PutSpares, KeepSpares DEF AdoptRunIfStillRetriggered
<1> QED  BY <1>2, <1>3, <1>4

LEMMA VerdictSpares ==
    ASSUME TypeInv, DetectorResolves
    PROVE  Spares(queue, queue')
<1>1. queue \in Tables
  BY DEF TypeInv, TypeOK
<1>2. PICK i \in Rows(queue) : \E resolution \in DetectorVerdicts(i) :
          queue' = MarkResolvedIfStillRetriggered(queue, i, resolution, now)
  BY DEF DetectorResolves
<1>3. PICK resolution \in DetectorVerdicts(i) :
          queue' = MarkResolvedIfStillRetriggered(queue, i, resolution, now)
  BY <1>2
<1>4. i \in ItemIds
  BY DEF Rows
<1> QED
  BY <1>1, <1>3, <1>4, PutSpares, KeepSpares DEF MarkResolvedIfStillRetriggered, MarkResolved

\* Every step without a dashboard.
LEMMA VerdictStep ==
    ASSUME VerdictInv, Dashboards = {}, [Next]_vars
    PROVE  VerdictInv' /\ NoLate(queue, queue')
<1>1. TypeInv'
  BY TypeStep DEF VerdictInv
<1>2. Actors = {Scheduler} /\ TypeInv
  BY DEF Actors, VerdictInv
<1> SUFFICES (Coupled /\ Held /\ InScan)' /\ NoLate(queue, queue')
  BY <1>1 DEF VerdictInv
<1>3. ASSUME UNCHANGED <<tick, trig>>, Spares(queue, queue')
      PROVE  (Coupled /\ Held /\ InScan)' /\ NoLate(queue, queue')
  <2>1. Pending(queue) \subseteq Pending(queue')
    BY <1>3 DEF Spares, Pending
  <2> QED  BY <1>3, <2>1, SparesNoLate DEF VerdictInv, Coupled, Held, InScan
<1>4. CASE \E a \in Actors : TriggerStep(a)
  BY <1>2, <1>4, VerdictTriggerStep
<1>5. CASE SchedulerStep
  BY <1>5, VerdictSchedulerStep
<1>6. CASE DetectComment \/ DetectorResolves \/ DetectorReopens \/ DetectorAdopts
  <2>1. UNCHANGED <<tick, trig>>
    BY <1>6 DEF DetectComment, DetectorResolves, DetectorReopens, DetectorAdopts
  <2> QED  BY <1>2, <1>3, <1>6, <2>1, BesideSpares, VerdictSpares
<1>7. CASE SetPaused \/ ExtendGate \/ Acknowledge \/ ChangePr \/ Tick \/ UNCHANGED vars
  <2>1. UNCHANGED <<queue, tick, trig>>
    BY <1>7 DEF SetPaused, ExtendGate, Acknowledge, ChangePr, Tick, vars
  <2> QED  BY <1>3, <2>1, KeepSpares
<1>8. CASE Crash
  <2>1. tick'.pc = "idle" /\ trig'[Scheduler].pc = "none" /\ queue' = queue
    BY <1>2, <1>8 DEF Crash, NoTrigger, IdleTick
  <2>2. NoLate(queue, queue')
    BY <2>1, KeepSpares, SparesNoLate
  <2> QED  BY <2>1, <2>2 DEF Coupled, Held, Holding, InScan
<1>9. ~MarkReviewed /\ ~(\E d \in Dashboards : RetriggerNow(d))
  BY DEF MarkReviewed
<1> QED  BY <1>4, <1>5, <1>6, <1>7, <1>8, <1>9 DEF Next

\* No review verdict replaces a resolution another writer gave the item first,
\* whatever fails, as long as no dashboard marks items reviewed (business
\* rule 6-3, markResolvedIfStillRetriggered).
THEOREM VerdictsLose ==
    ASSUME Dashboards = {} PROVE Spec => VerdictNeverOverwrites
<1>1. Init => VerdictInv
  <2> SUFFICES ASSUME Init PROVE VerdictInv
    OBVIOUS
  <2>1. tick.pc = "idle" /\ trig[Scheduler].pc = "none"
    BY DEF Init, IdleTick, NoTrigger, Actors
  <2> QED  BY <2>1, TypeInit DEF VerdictInv, Coupled, Held, Holding, InScan
<1>2. VerdictInv /\ [Next]_vars => VerdictInv'
  BY VerdictStep
<1>3. VerdictInv /\ [Next]_vars
      => [\A i \in ItemIds :
            Reresolved(i)
            => queue'[i].resolution \notin {"review_completed", "skipped"}]_vars
  BY VerdictStep DEF NoLate, LateVerdicts, Reresolved
<1> QED  BY <1>1, <1>2, <1>3, PTL DEF Spec, VerdictNeverOverwrites

-----------------------------------------------------------------------------
(* The unique indexes, with a dashboard and every fault: nothing is assumed. *)

\* What the tick and the calls name has been inserted.
Known ==
    /\ tick.active \subseteq Rows(queue)
    /\ \A v \in tick.doomed : v.id \in Rows(queue)
    /\ \A c \in tick.todo : c.id \in Rows(queue)
    /\ \A a \in Actors : trig[a].pc # "none" => trig[a].item \in Rows(queue)

IndexInv == TypeInv /\ IndexesHold(queue) /\ Known

\* Every write is made by id on a row there is, or looks at the indexes.
LEMMA IndexedStep ==
    ASSUME IndexInv, [Next]_vars
    PROVE  Indexed(queue, queue')
<1> USE DEF IndexInv
<1>1. /\ queue \in Tables /\ now \in Time /\ now \in Nat /\ Scheduler \in Actors
      /\ trig \in [Actors -> CallType] /\ tick \in TickType
  BY DEF TypeInv, TypeOK, Time, CallType, TickType, Actors
<1>2. Indexed(queue, queue)
  BY KeepIndexed
<1>3. ASSUME NEW i \in Rows(queue), NEW resolution \in Resolutions
      PROVE  Indexed(queue, MarkResolved(queue, i, resolution, now))
  BY <1>1, WritesIndexed
<1>4. ASSUME NEW a \in Actors, RecordRetrigger(a)
      PROVE  Indexed(queue, queue')
  <2>1. trig[a].item \in Rows(queue) /\ trig[a].postedAt \in Nat
    BY <1>4 DEF RecordRetrigger, Known, TypeInv, InFlight
  <2>2. PICK readAt \in trig[a].postedAt..now, run \in Runs \cup {NoRun} :
          queue' = MarkRetriggered(queue, trig[a].item, CooldownEnd(readAt), run, now)
    BY <1>4 DEF RecordRetrigger
  <2>3. CooldownEnd(readAt) \in TimeOrNull /\ run \in RunOrNull
    BY <1>1, <2>1, PipelineAssumption DEF CooldownEnd, TimeOrNull, Time, RunOrNull
  <2> QED  BY <1>1, <2>1, <2>2, <2>3, WritesIndexed
<1>5. CASE PruneResolve
  <2>1. PICK v \in tick.doomed : queue' = MarkResolved(queue, v.id, v.resolution, now)
    BY <1>5 DEF PruneResolve
  <2>2. v.id \in Rows(queue) /\ v.resolution \in Resolutions
    BY <1>1, OutcomeResolutions DEF Known, TickType, Verdict
  <2> QED  BY <1>3, <2>1, <2>2
<1>6. CASE SweepStale
  BY <1>1, <1>6, SweepIndexed DEF SweepStale
<1>7. CASE SkipCandidate
  BY <1>1, <1>7, WritesIndexed DEF SkipCandidate, Known
<1>8. CASE ResolveTerminalCandidate
  <2>1. PICK c \in tick.todo :
          queue' = MarkResolved(queue, c.id, PruneVerdict(c.id).resolution, now)
    BY <1>8 DEF ResolveTerminalCandidate
  <2>2. c.id \in Rows(queue)
    BY DEF Known
  <2>3. PruneVerdict(c.id).resolution \in Resolutions
    BY <2>2, VerdictType DEF Rows
  <2> QED  BY <1>3, <2>1, <2>2, <2>3
<1>9. trig[Scheduler].pc # "none" => trig[Scheduler].item \in Rows(queue)
  BY <1>1 DEF Known
<1>10. CASE AfterPosted
  <2>1. /\ trig[Scheduler].item \in Rows(queue) /\ trig[Scheduler].attempts + 1 \in Nat
    BY <1>1, <1>9, <1>10 DEF AfterPosted, Finish, CallType
  <2>2. \/ queue' = MarkResolved(queue, trig[Scheduler].item, "failed", now)
        \/ queue' = IncrementAttempts(queue, trig[Scheduler].item,
                                      trig[Scheduler].attempts + 1)
    BY <1>10 DEF AfterPosted
  <2> QED  BY <1>1, <1>3, <2>1, <2>2, WritesIndexed, OutcomeResolutions
<1>11. CASE AfterStale
  BY <1>3, <1>9, <1>11, OutcomeResolutions DEF AfterStale, Finish
<1>12. CASE AfterRescheduled
  <2>1. PICK comment \in Comments, run \in Runs \cup {NoRun} :
          LET outcome == Reschedule(queue, trig[Scheduler].item, comment, run, now)
          IN  queue' = outcome.queue \/ queue' = queue
    BY <1>12 DEF AfterRescheduled
  <2>2. trig[Scheduler].item \in Rows(queue) /\ run \in RunOrNull
    BY <1>9, <1>12 DEF AfterRescheduled, RunOrNull
  <2> QED  BY <1>1, <1>2, <2>1, <2>2, RescheduleIndexed
<1>13. CASE AfterTerminal
  BY <1>3, <1>9, <1>13, OutcomeResolutions DEF AfterTerminal, Finish
<1>14. CASE AfterFailed
  <2>1. trig[Scheduler].item \in Rows(queue)
    BY <1>9, <1>14 DEF AfterFailed, Finish
  <2>2. \/ queue' = MarkResolved(queue, trig[Scheduler].item, "failed", now)
        \/ queue' = Backoff(queue, trig[Scheduler].item, now)
    BY <1>14 DEF AfterFailed
  <2> QED  BY <1>1, <1>3, <2>1, <2>2, WritesIndexed, OutcomeResolutions
<1>15. CASE MarkReviewed
  BY <1>3, <1>15, OutcomeResolutions DEF MarkReviewed
<1>16. CASE DetectComment
  <2>1. PICK c \in Comments : \E d \in DetectionsOf(c) :
          \E outcome \in Enqueue(queue, d, now) : queue' = outcome.queue
    BY <1>16 DEF DetectComment
  <2>2. PICK d \in DetectionsOf(c) :
          \E outcome \in Enqueue(queue, d, now) : queue' = outcome.queue
    BY <2>1
  <2>3. PICK outcome \in Enqueue(queue, d, now) : queue' = outcome.queue
    BY <2>2
  <2>4. d \in Detection
    BY DetectionType DEF TypeInv
  <2> QED  BY <1>1, <2>3, <2>4, EnqueueIndexed
<1>17. CASE DetectorResolves
  <2>1. PICK i \in Rows(queue) : \E resolution \in DetectorVerdicts(i) :
          queue' = MarkResolvedIfStillRetriggered(queue, i, resolution, now)
    BY <1>17 DEF DetectorResolves
  <2>2. DetectorVerdicts(i) \subseteq Resolutions
    BY VerdictType, OutcomeResolutions DEF DetectorVerdicts, Rows
  <2> QED  BY <1>1, <2>1, <2>2, WritesIndexed
<1>18. CASE DetectorReopens
  <2>1. PICK i \in Rows(queue), run \in Runs :
          queue' = Attempt(queue, ReopenStaleRetriggered(queue, i, run, NoTime)).queue
    BY <1>18 DEF DetectorReopens
  <2>2. Rows(queue) \subseteq Rows(ReopenStaleRetriggered(queue, i, run, NoTime))
    <3>1. i \in ItemIds
      BY DEF Rows
    <3>2. Rows(queue) \subseteq Rows(Reopen(queue, i, run, NoTime))
      BY <1>1, <3>1, ReopenKeepsRows
    <3> QED  BY <3>2 DEF ReopenStaleRetriggered
  <2> QED  BY <2>1, <2>2, AttemptIndexed
<1>19. CASE DetectorAdopts
  <2>1. PICK i \in Rows(queue), expected \in Runs \cup {NoRun}, run \in Runs :
          queue' = AdoptRunIfStillRetriggered(queue, i, expected, run, now)
    BY <1>19 DEF DetectorAdopts
  <2>2. expected \in RunOrNull /\ run \in RunOrNull
    BY DEF RunOrNull
  <2> QED  BY <1>1, <2>1, <2>2, WritesIndexed
<1>20. CASE \/ StartTick \/ PruneEvaluate \/ PruneDone \/ CheckPause \/ CheckAcknowledgement
            \/ CheckAvailability \/ SnapshotPending \/ FetchFails \/ SelectCandidate
            \/ NothingDue \/ TickFails
  <2>1. queue' = queue
    BY <1>20 DEF StartTick, PruneEvaluate, PruneDone, CheckPause, CheckAcknowledgement,
                 CheckAvailability, SnapshotPending, FetchFails, SelectCandidate,
                 NothingDue, TickFails
  <2> QED  BY <1>2, <2>1
<1>21. ASSUME NEW a \in Actors,
              \/ DecideOnComment(a) \/ PostRetrigger(a) \/ PostFails(a)
              \/ TransactionFails(a) \/ RetriggerNow(a)
       PROVE  queue' = queue
  BY <1>21 DEF DecideOnComment, PostRetrigger, PostFails, TransactionFails, RetriggerNow
<1>22. CASE \/ SetPaused \/ ExtendGate \/ Acknowledge \/ ChangePr \/ Tick \/ Crash
            \/ UNCHANGED vars
  <2>1. queue' = queue
    BY <1>22 DEF SetPaused, ExtendGate, Acknowledge, ChangePr, Tick, Crash, vars
  <2> QED  BY <1>2, <2>1
<1>23. CASE SchedulerStep
  BY <1>5, <1>6, <1>7, <1>8, <1>10, <1>11, <1>12, <1>13, <1>14, <1>20, <1>23
     DEF SchedulerStep
<1>24. CASE \E a \in Actors : TriggerStep(a)
  BY <1>2, <1>4, <1>21, <1>24 DEF TriggerStep
<1>25. CASE \E d \in Dashboards : RetriggerNow(d)
  BY <1>2, <1>21, <1>25 DEF Actors
<1> QED  BY <1>15, <1>16, <1>17, <1>18, <1>19, <1>22, <1>23, <1>24, <1>25 DEF Next

\* What the tick names was in the table when it was read, and stays there.
LEMMA KnownTick ==
    ASSUME IndexInv, [Next]_vars, Rows(queue) \subseteq Rows(queue')
    PROVE  /\ tick'.active \subseteq Rows(queue')
           /\ \A v \in tick'.doomed : v.id \in Rows(queue')
           /\ \A c \in tick'.todo : c.id \in Rows(queue')
<1> USE DEF IndexInv
<1>1. /\ queue \in Tables /\ tick \in TickType
  BY DEF TypeInv, TypeOK, TickType
<1>2. /\ tick.active \subseteq Rows(queue')
      /\ \A v \in tick.doomed : v.id \in Rows(queue')
      /\ \A c \in tick.todo : c.id \in Rows(queue')
  BY DEF Known
<1> DEFINE Goal == /\ tick'.active \subseteq Rows(queue')
                   /\ \A v \in tick'.doomed : v.id \in Rows(queue')
                   /\ \A c \in tick'.todo : c.id \in Rows(queue')
<1>3. ASSUME tick' = tick PROVE Goal
  BY <1>2, <1>3
<1>4. ASSUME EndTick PROVE Goal
  BY <1>4 DEF EndTick, IdleTick
<1>5. ASSUME NEW phase \in TickPhases, Goto(phase) PROVE Goal
  BY <1>1, <1>2, <1>5 DEF Goto, TickType
<1>6. CASE \E c \in tick.todo : SpendFetch(c)
  <2>1. PICK spent \in tick.todo : SpendFetch(spent)
    BY <1>6
  <2>2. CASE ~EndTick
    BY <1>1, <1>2, <2>1, <2>2 DEF SpendFetch, TickType
  <2> QED  BY <1>4, <2>2
<1>7. CASE StartTick
  <2>1. Active(queue) \subseteq Rows(queue')
    BY DEF Active, ActiveStatuses, Rows
  <2> QED  BY <1>1, <1>2, <1>7, <2>1 DEF StartTick, TickType
<1>8. CASE PruneEvaluate
  <2>1. PICK fetched \in SUBSET tick.active :
          tick' = [tick EXCEPT !.pc = "doomed", !.active = {},
                               !.doomed = {PruneVerdict(i) : i \in fetched}]
    BY <1>8 DEF PruneEvaluate
  <2>2. \A i \in fetched : PruneVerdict(i).id \in Rows(queue')
    BY <1>2 DEF PruneVerdict
  <2> QED  BY <1>1, <1>2, <2>1, <2>2 DEF TickType
<1>9. CASE PruneResolve
  BY <1>1, <1>2, <1>9 DEF PruneResolve, TickType
<1>10. CASE SnapshotPending
  <2>1. \A i \in Pending(queue) : Snapshot(i).id \in Rows(queue')
    BY DEF Pending, Rows, Snapshot
  <2> QED  BY <1>1, <1>2, <1>10, <2>1 DEF SnapshotPending, TickType
<1>11. CASE SkipCandidate
  BY <1>1, <1>2, <1>11 DEF SkipCandidate, TickType
<1>12. CASE FetchFails \/ ResolveTerminalCandidate
  BY <1>6, <1>12 DEF FetchFails, ResolveTerminalCandidate
<1>13. CASE SelectCandidate
  BY <1>13 DEF SelectCandidate, IdleTick
<1>14. CASE PruneDone \/ SweepStale \/ CheckPause \/ CheckAcknowledgement
  BY <1>4, <1>5, <1>14 DEF PruneDone, SweepStale, CheckPause, CheckAcknowledgement,
                           TickPhases
<1>21. CASE CheckAvailability
  <2>1. \/ EndTick
        \/ /\ tick'.active = tick.active /\ tick'.doomed = tick.doomed
           /\ tick'.todo = tick.todo
    BY <1>21, GateCheckTick DEF TypeInv
  <2> QED  BY <1>2, <1>4, <2>1
<1>15. CASE NothingDue \/ AfterPosted \/ AfterStale \/ AfterTerminal \/ AfterFailed \/ TickFails
  BY <1>4, <1>15 DEF NothingDue, AfterPosted, AfterStale, AfterTerminal, AfterFailed,
                     TickFails, Finish
<1>16. CASE AfterRescheduled
  BY <1>3, <1>4, <1>16 DEF AfterRescheduled, Finish
<1>17. CASE SchedulerStep
  BY <1>7, <1>8, <1>9, <1>10, <1>11, <1>12, <1>13, <1>14, <1>15, <1>16, <1>17,
     <1>21 DEF SchedulerStep
<1>18. ASSUME NEW a \in Actors, TriggerStep(a) \/ RetriggerNow(a) PROVE tick' = tick
  BY <1>18 DEF TriggerStep, DecideOnComment, PostRetrigger, PostFails, RecordRetrigger,
               TransactionFails, RetriggerNow
<1>19. CASE \/ MarkReviewed \/ SetPaused \/ DetectComment \/ ExtendGate \/ Acknowledge
            \/ DetectorResolves \/ DetectorReopens \/ DetectorAdopts \/ ChangePr \/ Tick
            \/ UNCHANGED vars
  BY <1>3, <1>19 DEF MarkReviewed, SetPaused, DetectComment, ExtendGate, Acknowledge,
                     DetectorResolves, DetectorReopens, DetectorAdopts, ChangePr, Tick, vars
<1>20. CASE Crash
  BY <1>20 DEF Crash, IdleTick
<1> QED  BY <1>3, <1>17, <1>18, <1>19, <1>20 DEF Next, Actors

\* What the calls name was in the table when it was read, and stays there.
LEMMA KnownCalls ==
    ASSUME IndexInv, [Next]_vars, Rows(queue) \subseteq Rows(queue'), NEW b \in Actors,
           trig'[b].pc # "none"
    PROVE  trig'[b].item \in Rows(queue')
<1> USE DEF IndexInv
<1>1. /\ trig \in [Actors -> CallType] /\ Scheduler \in Actors /\ Dashboards \subseteq Actors
      /\ trig[b].pc # "none" => trig[b].item \in Rows(queue')
  BY DEF TypeInv, TypeOK, CallType, Actors, Known
<1> DEFINE Goal == trig'[b].item \in Rows(queue')
<1>2. ASSUME trig' = trig PROVE Goal
  BY <1>1, <1>2
<1>3. ASSUME NEW a \in Actors, NEW outcome, trig[a].pc # "none", Return(a, outcome)
      PROVE  Goal
  <2>1. \/ trig'[b] = trig[b]
        \/ b = a /\ trig'[b] = [trig[a] EXCEPT !.pc = outcome]
        \/ trig'[b] = NoTrigger
    BY <1>1, <1>3 DEF Return
  <2>2. [trig[a] EXCEPT !.pc = outcome].item = trig[a].item
    BY <1>1 DEF CallType
  <2>3. trig'[b] # NoTrigger
    BY DEF NoTrigger
  <2>4. CASE trig'[b] = trig[b]
    BY <1>1, <2>4
  <2>5. CASE b = a /\ trig'[b] = [trig[a] EXCEPT !.pc = outcome]
    BY <1>1, <1>3, <2>2, <2>5
  <2> QED  BY <2>1, <2>3, <2>4, <2>5
<1>4. ASSUME NEW a \in Actors, trig' = [trig EXCEPT ![a] = NoTrigger] PROVE Goal
  BY <1>1, <1>4 DEF NoTrigger
<1>5. ASSUME NEW a \in Actors, DecideOnComment(a) PROVE Goal
  <2>1. CASE trig' = [trig EXCEPT ![a].pc = "post"]
    BY <1>1, <1>5, <2>1 DEF DecideOnComment, CallType
  <2> QED  BY <1>3, <1>5, <2>1 DEF DecideOnComment
<1>6. ASSUME NEW a \in Actors, PostRetrigger(a) PROVE Goal
  BY <1>1, <1>6 DEF PostRetrigger, CallType
<1>7. ASSUME NEW a \in Actors, PostFails(a) \/ RecordRetrigger(a) \/ TransactionFails(a)
      PROVE  Goal
  BY <1>3, <1>7 DEF PostFails, RecordRetrigger, TransactionFails
<1>8. ASSUME NEW d \in Dashboards, RetriggerNow(d) PROVE Goal
  <2>1. PICK i \in Pending(queue) :
          trig' = [trig EXCEPT ![d] = [pc |-> "decide", item |-> i,
                                       attempts |-> queue[i].attempts, postedAt |-> NoTime]]
    BY <1>8 DEF RetriggerNow
  <2>2. i \in Rows(queue')
    BY DEF Pending, Rows
  <2> QED  BY <1>1, <2>1, <2>2
<1>9. CASE SelectCandidate
  <2>1. PICK c \in tick.todo :
          trig' = [trig EXCEPT ![Scheduler] =
                      [pc |-> "decide", item |-> c.id, attempts |-> c.attempts,
                       postedAt |-> NoTime]]
    BY <1>9 DEF SelectCandidate
  <2>2. c.id \in Rows(queue')
    BY DEF Known
  <2> QED  BY <1>1, <2>1, <2>2
<1>10. CASE AfterPosted \/ AfterStale \/ AfterTerminal \/ AfterFailed \/ TickFails
  BY <1>1, <1>4, <1>10 DEF AfterPosted, AfterStale, AfterTerminal, AfterFailed, TickFails,
                           Finish
<1>11. CASE AfterRescheduled
  <2>1. trig[Scheduler].pc # "none"
    BY <1>11 DEF AfterRescheduled
  <2>2. \/ trig' = [trig EXCEPT ![Scheduler] = NoTrigger]
        \/ Return(Scheduler, "failed")
    BY <1>11 DEF AfterRescheduled, Finish
  <2> QED  BY <1>1, <1>3, <1>4, <2>1, <2>2
<1>12. CASE \/ StartTick \/ PruneEvaluate \/ PruneResolve \/ PruneDone \/ SweepStale
            \/ CheckPause \/ CheckAcknowledgement \/ CheckAvailability \/ SnapshotPending
            \/ SkipCandidate \/ FetchFails \/ ResolveTerminalCandidate \/ NothingDue
  <2>1. trig' = trig
    BY <1>12 DEF StartTick, PruneEvaluate, PruneResolve, PruneDone, SweepStale, CheckPause,
                 CheckAcknowledgement, CheckAvailability, SnapshotPending, SkipCandidate,
                 FetchFails, ResolveTerminalCandidate, NothingDue
  <2> QED  BY <1>2, <2>1
<1>13. CASE SchedulerStep
  BY <1>9, <1>10, <1>11, <1>12, <1>13 DEF SchedulerStep
<1>14. CASE \/ MarkReviewed \/ SetPaused \/ DetectComment \/ ExtendGate \/ Acknowledge
            \/ DetectorResolves \/ DetectorReopens \/ DetectorAdopts \/ ChangePr \/ Tick
            \/ UNCHANGED vars
  BY <1>2, <1>14 DEF MarkReviewed, SetPaused, DetectComment, ExtendGate, Acknowledge,
                     DetectorResolves, DetectorReopens, DetectorAdopts, ChangePr, Tick, vars
<1>15. CASE Crash
  BY <1>1, <1>15 DEF Crash, NoTrigger
<1>16. CASE \E a \in Actors : TriggerStep(a)
  BY <1>5, <1>6, <1>7, <1>16 DEF TriggerStep
<1> QED  BY <1>8, <1>13, <1>14, <1>15, <1>16 DEF Next

\* The indexes hold in every table the pipeline can produce, whoever writes
\* between two awaits of whom and whatever fails: the writes by id, which never
\* look at the indexes, cannot break them (schema.prisma, queueRepository.ts).
THEOREM IndexesRespected == Spec => []IndexesHold(queue)
<1>1. Init => IndexInv
  <2> SUFFICES ASSUME Init PROVE IndexInv
    OBVIOUS
  <2>1. TypeInv
    BY TypeInit
  <2>2. \A i \in ItemIds : queue[i].status = "absent"
    BY DEF Init, AbsentRow
  <2>3. IndexesHold(queue)
    BY <2>2 DEF IndexesHold, PendingUnique, CommentUnique
  <2>4. Known
    BY DEF Init, Known, IdleTick, NoTrigger
  <2> QED  BY <2>1, <2>3, <2>4 DEF IndexInv
<1>2. IndexInv /\ [Next]_vars => IndexInv'
  <2> SUFFICES ASSUME IndexInv, [Next]_vars PROVE IndexInv'
    OBVIOUS
  <2>1. TypeInv'
    BY TypeStep DEF IndexInv
  <2>2. IndexesHold(queue)' /\ Rows(queue) \subseteq Rows(queue')
    BY IndexedStep DEF Indexed
  <2>3. Known'
    BY <2>2, KnownTick, KnownCalls DEF Known
  <2> QED  BY <2>1, <2>2, <2>3 DEF IndexInv
<1>3. IndexInv => IndexesHold(queue)
  BY DEF IndexInv
<1> QED  BY <1>1, <1>2, <1>3, PTL DEF Spec
===============================================================================
