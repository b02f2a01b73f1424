-------------------------- MODULE PrTracking_proofs --------------------------
(****************************************************************************)
(* Proofs about PrTracking, for any number of pull requests, any caps and   *)
(* any number of events.                                                    *)
(****************************************************************************)
EXTENDS PrTracking, TLAPS

\* The tick after one pull request of a loop keeps its type.
LEMMA DoneType ==
    ASSUME TypeOK, NEW pc \in {"scan", "closures", "check"}
    PROVE  Done(pc) \in Poll /\ Done(pc).pc = pc
  BY DEF TypeOK, Done, Poll, Idle, NoPr, NoRevision, Revisions, PrStates

\* The points of the tick that wait for an answer about one pull request.
CurKnown ==
    poll.pc \in {"register", "mark", "walk", "record", "ack"} => poll.cur \in Prs

LEMMA IdleType == Idle \in Poll
  BY DEF Poll, Idle, NoPr, NoRevision, Revisions, PrStates

\* What the two upserts write is a row.
LEMMA UpsertOpenType ==
    ASSUME NEW r \in Row, NEW head \in Revisions
    PROVE  UpsertOpen(r, head) \in Row
  BY DEF UpsertOpen, Row, PrStates, Revisions

LEMMA UpsertClosedType ==
    ASSUME NEW r \in Row, NEW word \in PrStates
    PROVE  UpsertClosed(r, word) \in Row
  <1>1. CASE word = "merged" /\ ~r.closedAt
    BY <1>1 DEF UpsertClosed, Row, PrStates, Revisions
  <1>2. CASE word = "closed" /\ ~r.mergedAt
    BY <1>2 DEF UpsertClosed, Row, PrStates, Revisions
  <1>3. CASE ~(word = "merged" /\ ~r.closedAt) /\ ~(word = "closed" /\ ~r.mergedAt)
    BY <1>3 DEF UpsertClosed
  <1> QED BY <1>1, <1>2, <1>3

\* Requests, reviews and acknowledgements are columns of a row.
LEMMA AnswerType ==
    ASSUME NEW r \in Row
    PROVE  /\ [r EXCEPT !.answered = FALSE, !.acked = FALSE] \in Row
           /\ [r EXCEPT !.answered = TRUE] \in Row
           /\ [r EXCEPT !.acked = TRUE] \in Row
  BY DEF Row, PrStates, Revisions

\* So are the walkthroughs.
LEMMA WalkthroughType ==
    ASSUME NEW r \in Row, NEW rev \in Revisions
    PROVE  /\ [r EXCEPT !.seen = rev] \in Row
           /\ [r EXCEPT !.reviewed = rev] \in Row
  BY DEF Row

LEMMA EventType ==
    ASSUME TypeOK, Event
    PROVE  left' \in 0 .. MaxEvents
  BY TrackingAssumption DEF TypeOK, Event

\* The comment search and its loop move the tick on, drop spent comments from
\* their list and change nothing else.
SearchStep ==
    SearchComments \/ \E p \in Prs : SearchLatches(p) \/ SearchThrows(p)

LEMMA SearchMoves ==
    ASSUME TypeOK, SearchStep
    PROVE  /\ poll' \in Poll
           /\ poll'.pc \in {"search", "idle"}
           /\ spent' \subseteq spent
           /\ UNCHANGED <<world, row, item, recent, asked, before, due, left>>
  <1> USE DEF TypeOK, world, queue
  <1>1. CASE SearchComments
    BY <1>1 DEF SearchComments, StaysExceptPoll, Idle, Poll, NoPr, NoRevision, Revisions, PrStates
  <1>2. ASSUME NEW p \in Prs, SearchLatches(p)
        PROVE  /\ poll' \in Poll /\ poll'.pc \in {"search", "idle"}
               /\ spent' \subseteq spent
               /\ UNCHANGED <<world, row, item, recent, asked, before, due, left>>
    BY <1>2 DEF SearchLatches, LatchSpent
  <1>3. ASSUME NEW p \in Prs, SearchThrows(p)
        PROVE  /\ poll' \in Poll /\ poll'.pc \in {"search", "idle"}
               /\ spent' \subseteq spent
               /\ UNCHANGED <<world, row, item, recent, asked, before, due, left>>
    <2>1. poll' = Idle /\ Idle.pc = "idle"
      BY <1>3 DEF SearchThrows, Idle
    <2> QED BY <1>3, <2>1, IdleType DEF SearchThrows, StaysExceptPoll
  <1> QED BY <1>1, <1>2, <1>3 DEF SearchStep

-----------------------------------------------------------------------------
(* Type correctness *)

\* GitHub and its users keep the types.
LEMMA WorldType ==
    ASSUME TypeOK, NEW p \in Prs,
           \/ Push(p) \/ \E state \in {"merged", "closed"} : Close(p, state)
           \/ Reopen(p) \/ EditWalkthrough(p) \/ EditSpent(p) \/ Reindex(p)
           \/ Acknowledge(p)
    PROVE  TypeOK'
  <1> USE DEF TypeOK, world, queue
  <1>1. CASE Push(p)
    BY <1>1, EventType DEF Push, GitHubPr, Revisions
  <1>2. ASSUME NEW state \in {"merged", "closed"}, Close(p, state)
        PROVE  TypeOK'
    BY <1>2, EventType DEF Close, GitHubPr, PrStates
  <1>3. CASE Reopen(p)
    <2>1. [github[p] EXCEPT !.state = "open", !.reopened = TRUE] \in GitHubPr
      BY DEF GitHubPr, PrStates
    <2>2. github' \in [Prs -> GitHubPr]
      BY <1>3, <2>1 DEF Reopen
    <2> QED BY <1>3, <2>2, EventType DEF Reopen
  <1>4. CASE EditWalkthrough(p)
    BY <1>4, EventType DEF EditWalkthrough, GitHubPr, Revisions
  <1>5. CASE Reindex(p)
    BY <1>5 DEF Reindex, Indexed
  <1>6. CASE Acknowledge(p)
    BY <1>6 DEF Acknowledge
  <1>7. CASE EditSpent(p)
    BY <1>7, EventType DEF EditSpent
  <1> QED BY <1>1, <1>2, <1>3, <1>4, <1>5, <1>6, <1>7

\* So does the queue.
LEMMA QueueType ==
    ASSUME TypeOK, NEW p \in Prs,
           \/ Request(p) \/ Answer(p) \/ Drop(p) \/ CheckLatches(p)
           \/ DetectLimit(p) \/ DetectVerdict(p)
    PROVE  TypeOK'
  <1> USE DEF TypeOK, world, queue
  <1>1. CASE Request(p)
    <2>1. row' \in [Prs -> Row]
      <3>1. [row[p] EXCEPT !.answered = FALSE, !.acked = FALSE] \in Row
        BY AnswerType
      <3> QED BY <1>1, <3>1 DEF Request
    <2>2. item' \in [Prs -> Active \cup {"none", "resolved"}]
      BY <1>1 DEF Request, Active
    <2>3. asked' \subseteq Prs /\ before' \in [Prs -> SUBSET Prs]
      BY <1>1 DEF Request
    <2> QED BY <1>1, <2>1, <2>2, <2>3 DEF Request
  <1>2. CASE Answer(p)
    <2>1. [row[p] EXCEPT !.answered = TRUE] \in Row
      BY AnswerType
    <2>2. row' \in [Prs -> Row]
      BY <1>2, <2>1 DEF Answer
    <2> QED BY <1>2, <2>2 DEF Answer, Leave, Active
  <1>3. CASE Drop(p)
    BY <1>3 DEF Drop, Leave, Active
  <1>4. CASE DetectLimit(p)
    BY <1>4, EventType DEF DetectLimit, Enqueued, Active
  <1>5. CASE DetectVerdict(p)
    <2>1. [row[p] EXCEPT !.answered = TRUE] \in Row
      BY AnswerType
    <2> QED BY <1>5, <2>1 DEF DetectVerdict
  <1>6. CASE CheckLatches(p)
    BY <1>6 DEF CheckLatches, LatchSpent
  <1> QED BY <1>1, <1>2, <1>3, <1>4, <1>5, <1>6

LEMMA ClockType ==
    ASSUME TypeOK, NextDay \/ IntervalElapses
    PROVE  TypeOK'
  BY DEF TypeOK, world, queue, NextDay, IntervalElapses

\* So does the scan.
LEMMA ScanType ==
    ASSUME TypeOK, CurKnown,
           \/ ScanNotDue \/ ListOpenPRs \/ ScanFails
           \/ \E p \in Prs : GetHead(p) \/ GetPRState(p)
           \/ Register \/ RegisterFails \/ FindByPrState
           \/ MarkClosed \/ MarkFails \/ ScanCompletes
    PROVE  TypeOK'
  <1> USE DEF TypeOK, world, queue, StaysExceptPoll
  <1>0. [Idle EXCEPT !.pc = "stale"] \in Poll
    BY DEF Idle, Poll, NoPr, NoRevision, Revisions, PrStates
  <1>1. CASE ScanNotDue
    BY <1>0, <1>1 DEF ScanNotDue
  <1>2. CASE ListOpenPRs
    <2>1. Newest(index, SearchCap) \subseteq Prs
      BY DEF Newest
    <2> QED BY <1>2, <2>1 DEF ListOpenPRs, Idle, Poll, NoPr, NoRevision, Revisions, PrStates
  <1>3. CASE ScanFails
    BY <1>0, <1>3, EventType DEF ScanFails
  <1>4. ASSUME NEW p \in Prs, GetHead(p)
        PROVE  TypeOK'
    BY <1>4 DEF GetHead, Poll, GitHubPr
  <1>5. ASSUME NEW p \in Prs, GetPRState(p)
        PROVE  TypeOK'
    BY <1>5 DEF GetPRState, Poll, GitHubPr
  <1>6. CASE Register
    <2>1. poll.cur \in Prs /\ poll.rev \in Revisions
      BY <1>6 DEF Register, CurKnown, Poll
    <2>2. row' \in [Prs -> Row]
      BY <1>6, <2>1, UpsertOpenType DEF Register
    <2>3. poll' \in Poll
      BY <1>6, <2>1, DoneType DEF Register, Poll
    <2> QED BY <1>6, <2>2, <2>3 DEF Register
  <1>7. CASE RegisterFails
    BY <1>7, DoneType, EventType DEF RegisterFails
  <1>8. CASE FindByPrState
    BY <1>8 DEF FindByPrState, Poll, Open
  <1>9. CASE MarkClosed
    <2>1. poll.cur \in Prs /\ poll.word \in PrStates
      BY <1>9 DEF MarkClosed, CurKnown, Poll
    <2>2. row' \in [Prs -> Row]
      BY <1>9, <2>1, UpsertClosedType DEF MarkClosed
    <2> QED BY <1>9, <2>2, DoneType DEF MarkClosed
  <1>10. CASE MarkFails
    BY <1>10, DoneType, EventType DEF MarkFails
  <1>11. CASE ScanCompletes
    BY <1>11, EventType DEF ScanCompletes, Poll
  <1> QED BY <1>1, <1>2, <1>3, <1>4, <1>5, <1>6, <1>7, <1>8, <1>9, <1>10, <1>11

\* So does the rest of the tick.
LEMMA TickType ==
    ASSUME TypeOK, CurKnown,
           \/ FindStaleOpenPRs \/ StartCheck
           \/ \E p \in Prs : Recover(p) \/ RecoverFails(p) \/ ReadComments(p)
           \/ LatchWalkthrough \/ RecordWalkthroughReview \/ CheckFails
           \/ SearchStep \/ FindAcknowledgement \/ RecordAcknowledgement \/ TickEnds
    PROVE  TypeOK'
  <1> USE DEF TypeOK, world, queue, StaysExceptPoll
  <1>1. CASE FindStaleOpenPRs
    <2>1. Stale \subseteq Prs
      BY DEF Stale, Open
    <2> QED BY <1>1, <2>1 DEF FindStaleOpenPRs, Poll
  <1>2. CASE StartCheck
    <2>1. \A s \in DirectLists : s \subseteq Prs
      BY DEF DirectLists, Poll
    <2>2. PICK s \in DirectLists : poll' = [Idle EXCEPT !.pc = "check", !.todo = s]
      BY <1>2 DEF StartCheck
    <2>3. poll' \in Poll
      BY <2>1, <2>2 DEF Idle, Poll, NoPr, NoRevision, Revisions, PrStates
    <2> QED BY <1>2, <2>3 DEF StartCheck
  <1>3. ASSUME NEW p \in Prs, Recover(p)
        PROVE  TypeOK'
    BY <1>3 DEF Recover, Enqueued, Active, Poll
  <1>4. ASSUME NEW p \in Prs, RecoverFails(p)
        PROVE  TypeOK'
    BY <1>4, EventType DEF RecoverFails, Poll
  <1>5. ASSUME NEW p \in Prs, ReadComments(p)
        PROVE  TypeOK'
    BY <1>5 DEF ReadComments, Poll, GitHubPr
  <1>6. CASE LatchWalkthrough
    <2>1. CASE item[poll.cur] = "none" /\ poll.rev > row[poll.cur].seen
      <3>1. [row[poll.cur] EXCEPT !.seen = poll.rev] \in Row /\ poll.cur \in Prs
        <4>1. poll.cur \in Prs /\ poll.rev \in Revisions
          BY <1>6 DEF LatchWalkthrough, CurKnown, Poll
        <4> QED BY <4>1, WalkthroughType
      <3>2. row' \in [Prs -> Row]
        BY <1>6, <2>1, <3>1 DEF LatchWalkthrough
      <3>3. poll' \in Poll
        BY <1>6, <2>1 DEF LatchWalkthrough, Poll
      <3> QED BY <1>6, <3>2, <3>3 DEF LatchWalkthrough
    <2>2. CASE ~(item[poll.cur] = "none" /\ poll.rev > row[poll.cur].seen)
      BY <1>6, <2>2, DoneType DEF LatchWalkthrough
    <2> QED BY <2>1, <2>2
  <1>7. CASE RecordWalkthroughReview
    <2>1. row' \in [Prs -> Row]
      <3>1. poll.cur \in Prs /\ poll.rev \in Revisions
        BY <1>7 DEF RecordWalkthroughReview, CurKnown, Poll
      <3>2. [row[poll.cur] EXCEPT !.reviewed = poll.rev] \in Row
        BY <3>1, WalkthroughType
      <3> QED BY <1>7, <3>1, <3>2 DEF RecordWalkthroughReview
    <2> QED BY <1>7, <2>1, DoneType DEF RecordWalkthroughReview
  <1>8. CASE CheckFails
    BY <1>8, DoneType, EventType DEF CheckFails
  <1>9. CASE FindAcknowledgement
    <2>1. OldestPending \subseteq Prs
      BY DEF OldestPending, Unacknowledged
    <2>2. \A p \in Prs : [Idle EXCEPT !.pc = "ack", !.cur = p] \in Poll
      BY DEF Idle, Poll, NoPr, NoRevision, Revisions, PrStates
    <2> QED BY <1>9, <2>1, <2>2, IdleType DEF FindAcknowledgement
  <1>10. CASE RecordAcknowledgement
    <2>1. [row[poll.cur] EXCEPT !.acked = TRUE] \in Row /\ poll.cur \in Prs
      BY <1>10, AnswerType DEF RecordAcknowledgement, CurKnown
    <2>2. row' \in [Prs -> Row]
      BY <1>10, <2>1 DEF RecordAcknowledgement
    <2> QED BY <1>10, <2>2, IdleType DEF RecordAcknowledgement
  <1>11. CASE TickEnds
    BY <1>11, IdleType, EventType DEF TickEnds
  <1>12. CASE SearchStep
    BY <1>12, SearchMoves
  <1> QED BY <1>1, <1>2, <1>3, <1>4, <1>5, <1>6, <1>7, <1>8, <1>9, <1>10, <1>11, <1>12

\* While a loop waits for an answer, it knows about which pull request.
LEMMA CurStep ==
    ASSUME TypeOK, CurKnown, [Next]_vars
    PROVE  CurKnown'
  <1> USE DEF TypeOK, CurKnown
  <1>1. CASE UNCHANGED vars
    BY <1>1 DEF vars
  <1>2. CASE Environment
    BY <1>2 DEF Environment, Push, Close, Reopen, EditWalkthrough, EditSpent,
       Reindex, Acknowledge, Request, Answer, Drop, Leave, CheckLatches, LatchSpent, DetectLimit,
       DetectVerdict, NextDay, IntervalElapses
  <1>3. CASE Failure
    <2>1. CASE \E p \in Prs : RecoverFails(p)
      BY <2>1 DEF RecoverFails
    <2>2. CASE ScanFails \/ RegisterFails \/ MarkFails \/ CheckFails \/ TickEnds
      <3>1. poll'.pc \in {"stale", "scan", "closures", "check", "idle"}
        BY <2>2, DoneType DEF ScanFails, RegisterFails, MarkFails, CheckFails, TickEnds, Idle
      <3> QED BY <3>1
    <2> QED BY <1>3, <2>1, <2>2 DEF Failure
  <1>4. CASE PollStep
    <2>1. OldestPending \subseteq Prs
      BY DEF OldestPending, Unacknowledged
    <2>2. CASE ScanNotDue \/ ListOpenPRs \/ FindByPrState \/ ScanCompletes
      <3>1. poll'.pc \in {"scan", "stale", "closures"}
        BY <2>2 DEF ScanNotDue, ListOpenPRs, FindByPrState, ScanCompletes, Idle, Poll
      <3> QED BY <3>1
    <2>3. CASE Register \/ MarkClosed \/ RecordWalkthroughReview \/ RecordAcknowledgement
      <3>1. poll'.pc \in {"scan", "closures", "check", "idle"}
        BY <2>3, DoneType DEF Register, MarkClosed, RecordWalkthroughReview,
           RecordAcknowledgement, Idle, Poll
      <3> QED BY <3>1
    <2>4. ASSUME NEW p \in Prs, GetHead(p) \/ GetPRState(p) \/ Recover(p) \/ ReadComments(p)
          PROVE  CurKnown'
      BY <2>4 DEF GetHead, GetPRState, Recover, ReadComments, Poll
    <2>5. CASE FindStaleOpenPRs \/ StartCheck
      BY <2>5 DEF FindStaleOpenPRs, StartCheck, Idle, Poll
    <2>6. CASE LatchWalkthrough
      <3>1. CASE poll' = [poll EXCEPT !.pc = "record"]
        BY <2>6, <3>1 DEF LatchWalkthrough, Poll
      <3>2. CASE poll' = Done("check")
        BY <3>2 DEF Done, Poll
      <3> QED BY <2>6, <3>1, <3>2 DEF LatchWalkthrough
    <2>7. CASE FindAcknowledgement
      <3>1. CASE poll' = Idle
        BY <3>1 DEF Idle
      <3>2. ASSUME NEW p \in OldestPending, poll' = [Idle EXCEPT !.pc = "ack", !.cur = p]
            PROVE  CurKnown'
        BY <2>1, <3>2 DEF Idle
      <3> QED BY <2>7, <3>1, <3>2 DEF FindAcknowledgement
    <2>8. CASE SearchStep
      BY <2>8, SearchMoves
    <2> QED BY <1>4, <2>2, <2>3, <2>4, <2>5, <2>6, <2>7, <2>8 DEF PollStep, SearchStep
  <1> QED BY <1>1, <1>2, <1>3, <1>4 DEF Next

\* Every variable keeps its type, and a tick that waits for an answer knows
\* for which pull request it has asked (prScanner.ts, detectorPoll.ts).
THEOREM TypeCorrect == Spec => [](TypeOK /\ CurKnown)
  <1>1. Init => TypeOK /\ CurKnown
    BY TrackingAssumption, IdleType DEF Init, TypeOK, CurKnown, Idle, GitHubPr, Row, Absent,
       NoRevision, Revisions, PrStates, Active
  <1>2. TypeOK /\ CurKnown /\ [Next]_vars => (TypeOK /\ CurKnown)'
    <2> SUFFICES ASSUME TypeOK, CurKnown, [Next]_vars PROVE TypeOK'
      BY CurStep
    <2>1. CASE PollStep
      BY <2>1, ScanType, TickType DEF PollStep, SearchStep
    <2>2. CASE Failure
      BY <2>2, ScanType, TickType DEF Failure
    <2>3. CASE Environment
      BY <2>3, WorldType, QueueType, ClockType DEF Environment
    <2>4. CASE UNCHANGED vars
      BY <2>4 DEF vars, TypeOK
    <2> QED BY <2>1, <2>2, <2>3, <2>4 DEF Next
  <1> QED BY <1>1, <1>2, PTL DEF Spec

-----------------------------------------------------------------------------
(* Closures and heads *)

\* The poll loop's own writes of a row: only two of them touch the state and
\* the head, and no other action does.
LEMMA RowKept ==
    ASSUME TypeOK, CurKnown, [Next]_vars, ~Register, ~MarkClosed
    PROVE  \A q \in Prs : /\ row'[q].state = row[q].state
                          /\ row'[q].head = row[q].head
                          /\ row'[q].commit = row[q].commit
                          /\ row'[q].shas = row[q].shas
  <1> DEFINE Kept == \A q \in Prs : /\ row'[q].state = row[q].state
                                     /\ row'[q].head = row[q].head
                                     /\ row'[q].commit = row[q].commit
                                     /\ row'[q].shas = row[q].shas
  <1> USE DEF TypeOK, Row
  <1>1. CASE UNCHANGED row
    BY <1>1
  <1>2. ASSUME NEW p \in Prs, Request(p) \/ Answer(p) \/ DetectVerdict(p)
        PROVE  Kept
    BY <1>2 DEF Request, Answer, DetectVerdict
  <1>3. CASE LatchWalkthrough \/ RecordWalkthroughReview \/ RecordAcknowledgement
    BY <1>3 DEF LatchWalkthrough, RecordWalkthroughReview, RecordAcknowledgement
  <1>4. CASE Environment
    <2>1. CASE NextDay \/ IntervalElapses
      BY <1>1, <2>1 DEF NextDay, IntervalElapses
    <2>2. ASSUME NEW p \in Prs,
                 \/ Push(p) \/ \E state \in {"merged", "closed"} : Close(p, state)
                 \/ Reopen(p) \/ EditWalkthrough(p) \/ EditSpent(p) \/ Reindex(p)
                 \/ Acknowledge(p) \/ Drop(p) \/ CheckLatches(p) \/ DetectLimit(p)
          PROVE  UNCHANGED row
      BY <2>2 DEF Push, Close, Reopen, EditWalkthrough, EditSpent, Reindex, Acknowledge,
         Drop, CheckLatches, LatchSpent, DetectLimit
    <2> QED BY <1>1, <1>2, <1>4, <2>1, <2>2 DEF Environment
  <1>5. CASE Failure
    BY <1>1, <1>5 DEF Failure, StaysExceptPoll, ScanFails, RegisterFails, MarkFails,
       RecoverFails, CheckFails, TickEnds
  <1>6. CASE PollStep
    <2>1. CASE \/ ScanNotDue \/ ListOpenPRs \/ \E p \in Prs : GetHead(p) \/ GetPRState(p)
               \/ FindByPrState \/ ScanCompletes \/ FindStaleOpenPRs
               \/ \E p \in Prs : Recover(p) \/ ReadComments(p)
               \/ StartCheck \/ FindAcknowledgement
      BY <1>1, <2>1 DEF StaysExceptPoll, ScanNotDue, ListOpenPRs, GetHead, GetPRState,
         FindByPrState, ScanCompletes, FindStaleOpenPRs, Recover, ReadComments, StartCheck,
         FindAcknowledgement
    <2>2. CASE SearchStep
      BY <1>1, <2>2, SearchMoves
    <2> QED BY <1>3, <1>6, <2>1, <2>2 DEF PollStep, SearchStep
  <1>7. CASE UNCHANGED vars
    BY <1>1, <1>7 DEF vars
  <1> QED BY <1>4, <1>5, <1>6, <1>7 DEF Next

\* GitHub's word is out of date at most by a reopening when it is written.
WordInv ==
    poll.pc = "mark" =>
        /\ poll.word = "merged" => github[poll.cur].state = "merged"
        /\ poll.word = "closed" =>
               (github[poll.cur].state = "closed" \/ github[poll.cur].reopened)

\* What GitHub has closed once it can only reopen, and a merge is for good.
LEMMA WorldKept ==
    ASSUME TypeOK, [Next]_vars
    PROVE  \A q \in Prs :
              /\ github[q].state = "merged" => github'[q].state = "merged"
              /\ (github[q].state = "closed" \/ github[q].reopened) =>
                     (github'[q].state = "closed" \/ github'[q].reopened)
  <1> DEFINE Kept == \A q \in Prs :
              /\ github[q].state = "merged" => github'[q].state = "merged"
              /\ (github[q].state = "closed" \/ github[q].reopened) =>
                     (github'[q].state = "closed" \/ github'[q].reopened)
  <1> USE DEF TypeOK, GitHubPr
  <1>1. CASE UNCHANGED github
    BY <1>1
  <1>2. ASSUME NEW p \in Prs,
               \/ Push(p) \/ \E state \in {"merged", "closed"} : Close(p, state)
               \/ Reopen(p) \/ EditWalkthrough(p)
        PROVE  Kept
    <2>1. CASE Push(p)
      BY <2>1 DEF Push
    <2>2. ASSUME NEW state \in {"merged", "closed"}, Close(p, state)
          PROVE  Kept
      BY <2>2 DEF Close
    <2>3. CASE Reopen(p)
      BY <2>3 DEF Reopen
    <2>4. CASE EditWalkthrough(p)
      BY <2>4 DEF EditWalkthrough
    <2> QED BY <1>2, <2>1, <2>2, <2>3, <2>4
  <1>3. CASE Environment
    <2>1. CASE NextDay \/ IntervalElapses
      BY <1>1, <2>1 DEF NextDay, IntervalElapses, world
    <2>2. ASSUME NEW p \in Prs, \/ EditSpent(p) \/ Reindex(p) \/ Acknowledge(p) \/ Request(p)
                               \/ Answer(p) \/ Drop(p) \/ CheckLatches(p)
                               \/ DetectLimit(p) \/ DetectVerdict(p)
          PROVE  UNCHANGED github
      BY <2>2 DEF EditSpent, Reindex, Acknowledge, Request, Answer, Drop, Leave, CheckLatches,
         LatchSpent, DetectLimit, DetectVerdict, world
    <2> QED BY <1>1, <1>2, <1>3, <2>1, <2>2 DEF Environment
  <1>4. CASE Failure
    BY <1>1, <1>4 DEF Failure, StaysExceptPoll, ScanFails, RegisterFails, MarkFails,
       RecoverFails, CheckFails, TickEnds, world
  <1>5. CASE PollStep
    <2>0. SearchStep => UNCHANGED github
      BY SearchMoves DEF world
    <2>1. UNCHANGED github
      BY <1>5, <2>0 DEF PollStep, SearchStep, StaysExceptPoll, ScanNotDue, ListOpenPRs,
         GetHead, Register,
         FindByPrState, GetPRState, MarkClosed, ScanCompletes, FindStaleOpenPRs, Recover,
         StartCheck, ReadComments, LatchWalkthrough, RecordWalkthroughReview,
         FindAcknowledgement, RecordAcknowledgement, world
    <2> QED BY <1>1, <2>1
  <1>6. CASE UNCHANGED vars
    BY <1>1, <1>6 DEF vars
  <1> QED BY <1>3, <1>4, <1>5, <1>6 DEF Next

LEMMA AckPc ==
    ASSUME FindAcknowledgement
    PROVE  poll'.pc \in {"idle", "ack"}
  <1>1. CASE OldestPending \cap reply = {}
    BY <1>1 DEF FindAcknowledgement, Idle
  <1>2. CASE OldestPending \cap reply # {}
    <2>1. PICK p \in OldestPending : poll' = [Idle EXCEPT !.pc = "ack", !.cur = p]
      BY <1>2 DEF FindAcknowledgement
    <2> QED BY <2>1 DEF Idle
  <1> QED BY <1>1, <1>2

\* The tick asks for the state of a pull request in one place.
LEMMA WordStep ==
    ASSUME TypeOK, CurKnown, WordInv, [Next]_vars
    PROVE  WordInv'
  <1> USE DEF TypeOK, WordInv
  <1>1. CASE UNCHANGED poll
    BY <1>1, WorldKept DEF CurKnown
  <1>2. ASSUME NEW p \in Prs, GetPRState(p)
        PROVE  WordInv'
    BY <1>2 DEF GetPRState, StaysExceptPoll, world, Poll, GitHubPr, PrStates
  <1>3. CASE poll'.pc # "mark"
    BY <1>3
  <1>4. CASE Environment
    BY <1>1, <1>4 DEF Environment, Push, Close, Reopen, EditWalkthrough, EditSpent,
       Reindex, Acknowledge, Request, Answer, Drop, Leave, CheckLatches, LatchSpent, DetectLimit,
       DetectVerdict, NextDay, IntervalElapses
  <1>5. CASE Failure
    <2>1. ASSUME NEW p \in Prs, RecoverFails(p)
          PROVE  poll'.pc # "mark"
      BY <2>1 DEF RecoverFails
    <2>2. CASE ScanFails \/ RegisterFails \/ MarkFails \/ CheckFails \/ TickEnds
      BY <1>3, <2>2, DoneType DEF ScanFails, RegisterFails, MarkFails, CheckFails, TickEnds, Idle
    <2> QED BY <1>3, <1>5, <2>1, <2>2 DEF Failure
  <1>6. CASE PollStep
    <2>1. CASE ScanNotDue \/ ListOpenPRs \/ FindByPrState \/ ScanCompletes
      BY <1>3, <2>1 DEF ScanNotDue, ListOpenPRs, FindByPrState, ScanCompletes, Idle, Poll
    <2>2. CASE Register \/ MarkClosed \/ RecordWalkthroughReview \/ RecordAcknowledgement
      BY <1>3, <2>2, DoneType DEF Register, MarkClosed, RecordWalkthroughReview,
         RecordAcknowledgement, Idle, Poll
    <2>3. ASSUME NEW p \in Prs, GetHead(p) \/ Recover(p) \/ ReadComments(p)
          PROVE  poll'.pc # "mark"
      BY <2>3 DEF GetHead, Recover, ReadComments, Poll
    <2>4. CASE FindStaleOpenPRs \/ StartCheck
      BY <1>3, <2>4 DEF FindStaleOpenPRs, StartCheck, Idle, Poll
    <2>5. CASE LatchWalkthrough
      <3>1. CASE poll' = [poll EXCEPT !.pc = "record"]
        BY <1>3, <3>1 DEF Poll
      <3>2. CASE poll' = Done("check")
        BY <1>3, <3>2, DoneType
      <3> QED BY <2>5, <3>1, <3>2 DEF LatchWalkthrough
    <2>6. CASE FindAcknowledgement
      <3>1. poll'.pc \in {"idle", "ack"}
        BY <2>6, AckPc
      <3> QED BY <1>3, <3>1
    <2>7. CASE SearchStep
      BY <1>3, <2>7, SearchMoves
    <2> QED BY <1>2, <1>3, <1>6, <2>1, <2>2, <2>3, <2>4, <2>5, <2>6, <2>7 DEF PollStep, SearchStep
  <1> QED BY <1>1, <1>4, <1>5, <1>6 DEF Next, vars

LEMMA ClosureStep ==
    ASSUME TypeOK, CurKnown, WordInv, ClosedOnlyOnWord, [Next]_vars
    PROVE  ClosedOnlyOnWord'
  <1> USE DEF TypeOK, ClosedOnlyOnWord
  <1>1. CASE Register
    BY <1>1, WorldKept DEF Register, UpsertOpen, Row
  <1>2. CASE MarkClosed
    <2> DEFINE r == row[poll.cur]
               next == UpsertClosed(r, poll.word)
    <2>1. poll.cur \in Prs /\ poll.word \in PrStates /\ UNCHANGED github
      BY <1>2 DEF MarkClosed, CurKnown, Poll, world
    <2>2. \/ next.state = "merged" /\ poll.word = "merged"
          \/ next.state = "closed" /\ poll.word = "closed"
          \/ next = r
      <3>0. r \in Row
        BY <2>1
      <3> HIDE DEF r, TypeOK, ClosedOnlyOnWord
      <3>1. CASE poll.word = "merged" /\ ~r.closedAt
        <4>1. next = [r EXCEPT !.state = "merged", !.mergedAt = TRUE]
          BY <3>1 DEF UpsertClosed
        <4> QED BY <3>0, <3>1, <4>1 DEF Row
      <3>2. CASE poll.word = "closed" /\ ~r.mergedAt
        <4>1. next = [r EXCEPT !.state = "closed", !.closedAt = TRUE]
          BY <3>2 DEF UpsertClosed
        <4> QED BY <3>0, <3>2, <4>1 DEF Row
      <3>3. CASE ~(poll.word = "merged" /\ ~r.closedAt) /\ ~(poll.word = "closed" /\ ~r.mergedAt)
        BY <3>3 DEF UpsertClosed
      <3> QED BY <3>1, <3>2, <3>3
    <2>3. row' = [row EXCEPT ![poll.cur] = next]
      BY <1>2 DEF MarkClosed
    <2>4. poll.word = "merged" => github[poll.cur].state = "merged"
      BY <1>2 DEF MarkClosed, WordInv
    <2>5. poll.word = "closed" =>
             (github[poll.cur].state = "closed" \/ github[poll.cur].reopened)
      BY <1>2 DEF MarkClosed, WordInv
    <2> HIDE DEF next
    <2> QED BY <2>1, <2>2, <2>3, <2>4, <2>5
  <1>3. CASE ~Register /\ ~MarkClosed
    BY <1>3, RowKept, WorldKept
  <1> QED BY <1>1, <1>2, <1>3

\* A row is marked merged or closed only on GitHub's word about that pull
\* request, however the index lags and whatever the caps cut off
\* (prScanner.ts, closure detection).
THEOREM ClosureSound == Spec => []ClosedOnlyOnWord
  <1>1. Init => WordInv /\ ClosedOnlyOnWord
    BY DEF Init, WordInv, ClosedOnlyOnWord, Idle, Absent
  <1>2. TypeOK /\ CurKnown /\ WordInv /\ ClosedOnlyOnWord /\ [Next]_vars
            => (WordInv /\ ClosedOnlyOnWord)'
    BY WordStep, ClosureStep
  <1> QED BY <1>1, <1>2, TypeCorrect, PTL DEF Spec

\* A row is never deleted.
LEMMA RowStays ==
    ASSUME TypeOK, CurKnown, [Next]_vars
    PROVE  \A q \in Prs : row[q].state # "absent" => row'[q].state # "absent"
  <1> USE DEF TypeOK
  <1>1. CASE Register
    BY <1>1 DEF Register, UpsertOpen, Row
  <1>2. CASE MarkClosed
    <2>1. \A r \in Row : r.state # "absent" => UpsertClosed(r, poll.word).state # "absent"
      BY DEF UpsertClosed, Row
    <2> QED BY <1>2, <2>1 DEF MarkClosed
  <1>3. CASE ~Register /\ ~MarkClosed
    BY <1>3, RowKept
  <1> QED BY <1>1, <1>2, <1>3

\* Only registered pull requests are looked at for closures.
RegisteredInv ==
    /\ poll.pc \in {"closures", "mark"} => \A q \in poll.todo : row[q].state # "absent"
    /\ poll.pc = "mark" => poll.cur \in poll.todo

LEMMA RegisteredStep ==
    ASSUME TypeOK, CurKnown, RegisteredInv, [Next]_vars
    PROVE  RegisteredInv'
  <1> USE DEF TypeOK, RegisteredInv
  <1>1. CASE UNCHANGED poll
    BY <1>1, RowStays DEF Poll
  <1>2. CASE poll'.pc \notin {"closures", "mark"}
    BY <1>2
  <1>3. CASE /\ poll.pc \in {"closures", "mark"}
             /\ poll'.todo \subseteq poll.todo
             /\ poll'.pc = "mark" => poll'.cur \in poll'.todo
    BY <1>3, RowStays DEF Poll
  <1>4. CASE Environment
    BY <1>1, <1>4 DEF Environment, Push, Close, Reopen, EditWalkthrough, EditSpent,
       Reindex, Acknowledge, Request, Answer, Drop, Leave, CheckLatches, LatchSpent, DetectLimit,
       DetectVerdict, NextDay, IntervalElapses
  <1>5. CASE Failure
    <2>1. ASSUME NEW p \in Prs, RecoverFails(p)
          PROVE  poll'.pc \notin {"closures", "mark"}
      BY <2>1 DEF RecoverFails
    <2>2. CASE ScanFails \/ RegisterFails \/ CheckFails \/ TickEnds
      <3>1. poll'.pc \in {"stale", "scan", "check", "idle"}
        BY <2>2, DoneType DEF ScanFails, RegisterFails, CheckFails, TickEnds, Idle
      <3> QED BY <1>2, <3>1
    <2>3. CASE MarkFails
      BY <1>3, <2>3 DEF MarkFails, Done, Poll, Idle
    <2> QED BY <1>2, <1>5, <2>1, <2>2, <2>3 DEF Failure
  <1>6. CASE PollStep
    <2>1. CASE ScanNotDue \/ ListOpenPRs \/ ScanCompletes
      BY <1>2, <2>1 DEF ScanNotDue, ListOpenPRs, ScanCompletes, Idle, Poll
    <2>2. CASE Register \/ RecordWalkthroughReview \/ RecordAcknowledgement
      <3>1. poll'.pc \in {"scan", "check", "idle"}
        BY <2>2, DoneType DEF Register, RecordWalkthroughReview, RecordAcknowledgement,
           Idle, Poll
      <3> QED BY <1>2, <3>1
    <2>3. ASSUME NEW p \in Prs, GetHead(p) \/ Recover(p) \/ ReadComments(p)
          PROVE  poll'.pc \notin {"closures", "mark"}
      BY <2>3 DEF GetHead, Recover, ReadComments, Poll
    <2>4. CASE FindStaleOpenPRs \/ StartCheck
      BY <1>2, <2>4 DEF FindStaleOpenPRs, StartCheck, Idle, Poll
    <2>5. CASE LatchWalkthrough
      <3>1. CASE poll' = [poll EXCEPT !.pc = "record"]
        BY <1>2, <3>1 DEF Poll
      <3>2. CASE poll' = Done("check")
        BY <1>2, <3>2, DoneType
      <3> QED BY <2>5, <3>1, <3>2 DEF LatchWalkthrough
    <2>6. CASE FindAcknowledgement
      <3>1. poll'.pc \in {"idle", "ack"}
        BY <2>6, AckPc
      <3> QED BY <1>2, <3>1
    <2>7. CASE FindByPrState
      <3>1. poll'.pc = "closures" /\ poll'.todo \subseteq Open /\ UNCHANGED row
        BY <2>7 DEF FindByPrState, StaysExceptPoll, Poll
      <3> QED BY <3>1 DEF Open
    <2>8. CASE MarkClosed
      BY <1>3, <2>8 DEF MarkClosed, Done, Poll, Idle
    <2>9. ASSUME NEW p \in Prs, GetPRState(p)
          PROVE  RegisteredInv'
      <3>1. poll'.todo = poll.todo /\ poll'.cur \in poll'.todo /\ poll.pc = "closures"
        BY <2>9 DEF GetPRState, Poll
      <3> QED BY <1>3, <3>1
    <2>10. CASE SearchStep
      <3>1. poll'.pc \in {"search", "idle"}
        BY <2>10, SearchMoves
      <3> QED BY <1>2, <3>1
    <2> QED BY <1>2, <1>6, <2>1, <2>2, <2>3, <2>4, <2>5, <2>6, <2>7, <2>8, <2>9, <2>10
            DEF PollStep, SearchStep
  <1> QED BY <1>1, <1>4, <1>5, <1>6 DEF Next, vars

LEMMA CommitStep ==
    ASSUME TypeOK, CurKnown, RegisteredInv, CommitOfHead, [Next]_vars
    PROVE  CommitOfHead'
  <1> USE DEF TypeOK, CommitOfHead
  <1>1. CASE Register
    <2>1. poll.cur \in Prs /\ row' = [row EXCEPT ![poll.cur] = UpsertOpen(@, poll.rev)]
      BY <1>1 DEF Register, CurKnown
    <2>2. \A r \in Row : r.commit = r.head =>
             /\ UpsertOpen(r, poll.rev).commit = UpsertOpen(r, poll.rev).head
             /\ UpsertOpen(r, poll.rev).head \in UpsertOpen(r, poll.rev).shas
      BY DEF UpsertOpen, Row
    <2> QED BY <2>1, <2>2
  <1>2. CASE MarkClosed
    <2>1. poll.cur \in Prs /\ row' = [row EXCEPT ![poll.cur] = UpsertClosed(@, poll.word)]
      BY <1>2 DEF MarkClosed, CurKnown
    <2>2. \A r \in Row : LET n == UpsertClosed(r, poll.word)
                         IN  n.commit = r.commit /\ n.head = r.head /\ n.shas = r.shas
      BY DEF UpsertClosed, Row
    <2>3. row[poll.cur].state # "absent"
      BY <1>2, <2>1 DEF MarkClosed, RegisteredInv
    <2> QED BY <2>1, <2>2, <2>3
  <1>3. CASE ~Register /\ ~MarkClosed
    BY <1>3, RowKept
  <1> QED BY <1>1, <1>2, <1>3

\* The stored commit time is that of the stored head, and the head is in the
\* history, after any mixture of pushes and failing calls.
THEOREM CommitSound == Spec => []CommitOfHead
  <1>1. Init => RegisteredInv /\ CommitOfHead
    BY DEF Init, RegisteredInv, CommitOfHead, Absent, Idle
  <1>2. TypeOK /\ CurKnown /\ RegisteredInv /\ CommitOfHead /\ [Next]_vars
            => (RegisteredInv /\ CommitOfHead)'
    BY RegisteredStep, CommitStep
  <1> QED BY <1>1, <1>2, TypeCorrect, PTL DEF Spec

-----------------------------------------------------------------------------
(* Recovery *)

\* What the recovery still has to enqueue is stale at every moment.
RecoverInv == poll.pc = "recover" => poll.todo \subseteq Stale

\* A stale pull request stays one whatever the others do: only the recovery
\* itself and, in other phases of the tick, a detection put it back.
LEMMA StaleKept ==
    ASSUME TypeOK, Environment, poll.pc = "recover"
    PROVE  Stale \subseteq Stale'
  <1> USE DEF TypeOK, Stale, Open
  <1>1. CASE NextDay \/ IntervalElapses
    BY <1>1 DEF NextDay, IntervalElapses, queue
  <1>2. ASSUME NEW p \in Prs,
               \/ Push(p) \/ \E state \in {"merged", "closed"} : Close(p, state)
               \/ Reopen(p) \/ EditWalkthrough(p) \/ EditSpent(p) \/ Reindex(p)
               \/ Acknowledge(p)
        PROVE  Stale \subseteq Stale'
    BY <1>2 DEF Push, Close, Reopen, EditWalkthrough, EditSpent, Reindex, Acknowledge, queue
  <1>3. ASSUME NEW p \in Prs, Request(p)
        PROVE  Stale \subseteq Stale'
    <2>1. p \notin Stale
      BY <1>3 DEF Request, Active
    <2>2. \A q \in Prs \ {p} : row'[q] = row[q] /\ item'[q] = item[q]
      BY <1>3 DEF Request
    <2> QED BY <1>3, <2>1, <2>2 DEF Request
  <1>4. ASSUME NEW p \in Prs, Leave(p), \A q \in Prs \ {p} : row'[q] = row[q]
        PROVE  Stale \subseteq Stale'
    <2>1. p \notin Stale
      BY <1>4 DEF Leave
    <2>2. \A q \in Prs \ {p} : item'[q] = item[q]
      BY <1>4 DEF Leave
    <2> QED BY <1>4, <2>1, <2>2 DEF Leave
  <1>5. ASSUME NEW p \in Prs, CheckLatches(p) \/ DetectLimit(p) \/ DetectVerdict(p)
        PROVE  FALSE
    BY <1>5 DEF CheckLatches, DetectLimit, DetectVerdict
  <1> QED BY <1>1, <1>2, <1>3, <1>4, <1>5 DEF Environment, Answer, Drop

LEMMA RecoverStep ==
    ASSUME TypeOK, CurKnown, RecoverInv, [Next]_vars
    PROVE  RecoverInv'
  <1> USE DEF TypeOK, RecoverInv
  <1>1. CASE poll'.pc # "recover"
    BY <1>1
  <1>2. CASE Environment
    <2>1. UNCHANGED poll
      BY <1>2 DEF Environment, Push, Close, Reopen, EditWalkthrough, EditSpent,
         Reindex, Acknowledge, Request, Answer, Drop, Leave, CheckLatches, LatchSpent, DetectLimit,
       DetectVerdict, NextDay, IntervalElapses
    <2> QED BY <1>2, <2>1, StaleKept
  <1>3. CASE UNCHANGED vars
    BY <1>3 DEF vars, Stale, Open
  <1>4. CASE Failure
    <2>1. ASSUME NEW p \in Prs, RecoverFails(p)
          PROVE  RecoverInv'
      BY <2>1 DEF RecoverFails, StaysExceptPoll, queue, Stale, Open, Poll
    <2>2. CASE ScanFails \/ RegisterFails \/ MarkFails \/ CheckFails \/ TickEnds
      <3>1. poll'.pc \in {"stale", "scan", "closures", "check", "idle"}
        BY <2>2, DoneType DEF ScanFails, RegisterFails, MarkFails, CheckFails, TickEnds, Idle
      <3> QED BY <1>1, <3>1
    <2> QED BY <1>4, <2>1, <2>2 DEF Failure
  <1>5. CASE PollStep
    <2>1. CASE ScanNotDue \/ ListOpenPRs \/ FindByPrState \/ ScanCompletes
      BY <1>1, <2>1 DEF ScanNotDue, ListOpenPRs, FindByPrState, ScanCompletes, Idle, Poll
    <2>2. CASE Register \/ MarkClosed \/ RecordWalkthroughReview \/ RecordAcknowledgement
      <3>1. poll'.pc \in {"scan", "closures", "check", "idle"}
        BY <2>2, DoneType DEF Register, MarkClosed, RecordWalkthroughReview,
           RecordAcknowledgement, Idle, Poll
      <3> QED BY <1>1, <3>1
    <2>3. ASSUME NEW p \in Prs, GetHead(p) \/ GetPRState(p) \/ ReadComments(p)
          PROVE  poll'.pc # "recover"
      BY <2>3 DEF GetHead, GetPRState, ReadComments, Poll
    <2>4. CASE StartCheck
      BY <1>1, <2>4 DEF StartCheck, Idle
    <2>5. CASE LatchWalkthrough
      <3>1. CASE poll' = [poll EXCEPT !.pc = "record"]
        BY <1>1, <3>1 DEF Poll
      <3>2. CASE poll' = Done("check")
        BY <1>1, <3>2, DoneType
      <3> QED BY <2>5, <3>1, <3>2 DEF LatchWalkthrough
    <2>6. CASE FindAcknowledgement
      BY <1>1, <2>6, AckPc
    <2>7. CASE FindStaleOpenPRs
      BY <2>7 DEF FindStaleOpenPRs, StaysExceptPoll, queue, Stale, Open, Poll
    <2>8. ASSUME NEW p \in Prs, Recover(p)
          PROVE  RecoverInv'
      <3>1. \A q \in Prs \ {p} : item'[q] = item[q]
        BY <2>8 DEF Recover, Enqueued
      <3> QED BY <2>8, <3>1 DEF Recover, Stale, Open, Poll
    <2>9. CASE SearchStep
      <3>1. poll'.pc \in {"search", "idle"}
        BY <2>9, SearchMoves
      <3> QED BY <1>1, <3>1
    <2> QED BY <1>1, <1>5, <2>1, <2>2, <2>3, <2>4, <2>5, <2>6, <2>7, <2>8, <2>9
            DEF PollStep, SearchStep
  <1> QED BY <1>2, <1>3, <1>4, <1>5 DEF Next

\* The recovery enqueues nothing on a list that has gone stale itself: every
\* member is still unanswered, inactive and not resolved today at its turn
\* (StalePrRecoverer.ts).
THEOREM RecoverySound == Spec => StaleWhenRecovered
  <1>1. Init => RecoverInv
    BY DEF Init, RecoverInv, Idle
  <1>2. TypeOK /\ CurKnown /\ RecoverInv /\ [Next]_vars => RecoverInv'
    BY RecoverStep
  <1>3. RecoverInv /\ [Next]_vars => [\A p \in Prs : Recover(p) => p \in Stale]_vars
    BY DEF RecoverInv, Recover
  <1> QED BY <1>1, <1>2, <1>3, TypeCorrect, PTL DEF Spec, StaleWhenRecovered
=============================================================================
