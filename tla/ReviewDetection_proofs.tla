------------------------ MODULE ReviewDetection_proofs ------------------------
(****************************************************************************)
(* Theorems about ReviewDetection for every value of its constants: any     *)
(* number of comments, items, runs, reviews and pushes, every fault, the    *)
(* clock without a bound that matters.                                      *)
(****************************************************************************)
EXTENDS ReviewDetection, QueueRows_proofs

PollType == [pc : PollPhases, searching : BOOLEAN, todo : SUBSET Listed,
             cur : Listed]
DetectType == [pc : DetectPhases, id : ItemIds, comment : Comments,
               run : Runs \cup {NoRun}, retriggeredAt : Time, pr : PrRow,
               was : StoredComment, fresh : Revision, commit : Nat]

\* GitHub shows no revision of the future.
Shows ==
    \A c \in Comments :
        /\ comment[c].type = "none" => comment[c].updatedAt = NoTime
        /\ comment[c].type # "none" => /\ comment[c].updatedAt \in Time
                                       /\ comment[c].updatedAt <= now

\* What the poll loop holds has been shown; past the fetch it is classified.
Held ==
    /\ \A r \in poll.todo :
         /\ r.updatedAt <= now
         /\ comment[r.comment].type # "none"
         /\ ~poll.searching => r.type # "unknown"
    /\ poll.cur.updatedAt <= now
    /\ poll.pc = "fetch" => comment[poll.cur.comment].type # "none"
    /\ poll.pc \in {"compare", "dismissal", "dismiss", "enqueue"}
       => poll.cur.type # "unknown"

\* A stored revision was sighted after it was written, and not in the future.
Sighted ==
    \A c \in Comments :
        /\ stored[c].updatedAt <= stored[c].seenAt
        /\ stored[c].seenAt <= now
        /\ stored[c].type = "none" => stored[c].updatedAt = NoTime

\* The detector latches only what has been shown.
Fresh ==
    detect.pc = "latch" => /\ detect.fresh.type # "none"
                           /\ detect.fresh.updatedAt \in Time
                           /\ detect.fresh.updatedAt <= now

Inv == TypeOK /\ Shows /\ Held /\ Sighted /\ Fresh /\ ActedOnIsSeen

Advances ==
    \A c \in Comments : /\ stored'[c].updatedAt >= stored[c].updatedAt
                        /\ stored'[c].seenAt >= stored[c].seenAt
                        /\ stored[c].type # "none" => stored'[c].type # "none"

-----------------------------------------------------------------------------
(* The pieces the actions are built from.                                   *)

\* Times are integers, and null comes before all of them.
LEMMA Times ==
    /\ TimeOrNull \subseteq Int
    /\ \A t \in TimeOrNull : t >= NoTime
    /\ Time \subseteq TimeOrNull
BY DEF TimeOrNull, Time, NoTime

\* The pull request the model is about.
LEMMA TheRequest == Pr \in PullRequests /\ NoListed.comment \in Comments
BY DetectionAssumption DEF NoListed

\* The locals of a poll tick that has not begun are well typed.
LEMMA IdlePollType == IdlePoll \in PollType
BY TheRequest DEF IdlePoll, NoListed, PollType, PollPhases, Listed, Kinds, Time

\* The locals of a detector between two items are well typed.
LEMMA IdleDetectType == IdleDetect \in DetectType
<1>1. IdleDetect.id \in ItemIds
  BY DetectionAssumption DEF IdleDetect
<1>2. NewPr \in PrRow
  BY TimeColumns DEF NewPr, PrRow, PrStates, NoHead
<1>3. NoRow \in StoredComment /\ None \in Revision
  BY TimeColumns DEF NoRow, None, StoredComment, Revision
<1> QED  BY <1>1, <1>2, <1>3, TheRequest
         DEF IdleDetect, DetectType, DetectPhases, Time

\* upsert (src/db/coderabbitCommentRepository.ts): whatever is delivered, the
\* store only advances, and the delivered revision is covered afterwards.
LEMMA UpsertFacts ==
    ASSUME Inv, NEW c \in Comments, NEW revision,
           revision.type \in Kinds, revision.run \in Runs \cup {NoRun},
           revision.updatedAt \in Time, revision.updatedAt <= now,
           stored' = Upsert(stored, c, revision, now), now' = now
    PROVE  /\ stored' \in [Comments -> StoredComment]
           /\ Sighted'
           /\ Advances
           /\ stored'[c].type # "none"
           /\ revision.updatedAt <= stored'[c].seenAt
<1> DEFINE new == [type |-> revision.type, run |-> revision.run,
                   updatedAt |-> revision.updatedAt, seenAt |-> now]
<1> stored \in [Comments -> StoredComment] /\ now \in Time
  BY DEF Inv, TypeOK, Time
<1> ASSUME NEW d \in Comments
    PROVE  /\ stored[d].updatedAt \in Int /\ stored[d].seenAt \in Int
           /\ stored[d].updatedAt >= NoTime
  BY Times DEF StoredComment
<1> /\ now \in Int /\ revision.updatedAt \in Int
    /\ revision.updatedAt # NoTime /\ revision.type # "none"
  BY DEF Time, NoTime, Kinds
<1>1. new \in StoredComment
  BY Times DEF StoredComment, Time
<1>2. CASE stored[c].updatedAt <= revision.updatedAt
  <2>1. stored' = [stored EXCEPT ![c] = new]
    BY <1>2 DEF Upsert
  <2>2. stored'[c] = new /\ \A d \in Comments \ {c} : stored'[d] = stored[d]
    BY <2>1
  <2>3. stored' \in [Comments -> StoredComment]
    BY <1>1, <2>1
  <2>4. Sighted' /\ Advances
    BY <1>2, <2>2 DEF Inv, Sighted, Advances
  <2> QED  BY <2>2, <2>3, <2>4
<1>3. CASE ~(stored[c].updatedAt <= revision.updatedAt)
  <2>1. stored' = stored
    BY <1>3 DEF Upsert
  <2>2. stored[c].type # "none" /\ revision.updatedAt <= stored[c].seenAt
    BY <1>3 DEF Inv, Sighted, NoTime, Time
  <2>3. Sighted' /\ Advances
    BY <2>1 DEF Inv, Sighted, Advances
  <2> QED  BY <2>1, <2>2, <2>3
<1> QED  BY <1>2, <1>3

\* What was seen stays seen.
LEMMA SeenStays ==
    ASSUME TypeOK, TypeOK', Advances, NEW c \in Comments, NEW t \in TimeOrNull,
           Seen(c, t)
    PROVE  Seen(c, t)'
<1> /\ stored[c].seenAt \in Int /\ stored'[c].seenAt \in Int /\ t \in Int
    /\ stored'[c].seenAt >= stored[c].seenAt
  BY Times DEF TypeOK, StoredComment, Advances
<1> QED  BY DEF Seen, Advances

\* What the poll loop hands to enqueue is a detection.
LEMMA DetectionType ==
    ASSUME Inv, poll.pc = "enqueue", poll.cur.type # "verdict"
    PROVE  DetectionOf(poll.cur) \in Detection
<1> /\ poll.cur \in Listed /\ poll.cur.type # "unknown"
    /\ pr.head \in Nat
  BY DEF Inv, TypeOK, Held, PrRow
<1>1. poll.cur.type \in {"review_limited", "review_skipped"}
  BY DEF Listed, Kinds
<1>2. poll.cur.updatedAt + Wait \in TimeOrNull
  BY DetectionAssumption DEF Listed, Time, TimeOrNull
<1> QED  BY <1>1, <1>2, TheRequest, TimeColumns
         DEF DetectionOf, Detection, Listed

\* A posted comment is listed with a time of the past.
LEMMA ListedType ==
    ASSUME Inv, NEW c \in Posted
    PROVE  ListedAs(c) \in Listed /\ ListedAs(c).updatedAt <= now
BY DEF Inv, TypeOK, Shows, Posted, ListedAs, Listed, Revision

\* Every resolution the detector writes is one of the schema's.
LEMMA DetectorResolutions ==
    {"review_completed", "skipped", "pr_merged", "pr_closed_without_merge",
     "stale_comment"} \subseteq Resolutions
BY DEF Resolutions, Reopenable

-----------------------------------------------------------------------------
(* What a step leaves alone.                                                *)

\* A step that writes no comment.
LEMMA StoreKept ==
    ASSUME Inv, stored' = stored, now' = now
    PROVE  stored' \in [Comments -> StoredComment] /\ Sighted' /\ Advances
<1>1. \A c \in Comments : stored[c].updatedAt \in Int /\ stored[c].seenAt \in Int
  BY Times DEF Inv, TypeOK, StoredComment
<1> QED  BY <1>1 DEF Inv, TypeOK, Sighted, Advances

\* A step of the poll loop.
LEMMA PollFrame ==
    ASSUME Inv, UNCHANGED <<now, github, detect>>,
           queue' \in Tables, pr' \in PrRow, poll' \in PollType,
           opened' \in [Comments -> TimeOrNull],
           stored' \in [Comments -> StoredComment], Sighted', Advances, Held'
    PROVE  Inv'
<1>1. TypeOK'
  BY DEF Inv, TypeOK, github, PollType
<1>2. ActedOnIsSeen'
  <2>1. detect.comment \in Comments /\ detect.fresh.updatedAt \in TimeOrNull
    BY DEF Inv, TypeOK, Revision
  <2> QED  BY <1>1, <2>1, SeenStays DEF Inv, ActedOnIsSeen, Seen
<1> QED  BY <1>1, <1>2 DEF Inv, Shows, Fresh, github

\* A step of the poll loop that reads.
LEMMA PollReads ==
    ASSUME Inv, UNCHANGED <<now, queue, stored, pr, github, detect, opened>>,
           poll' \in PollType, Held'
    PROVE  Inv' /\ Advances
<1>1. queue' \in Tables /\ pr' \in PrRow /\ opened' \in [Comments -> TimeOrNull]
  BY DEF Inv, TypeOK
<1> QED  BY <1>1, StoreKept, PollFrame

\* A step of the detector.
LEMMA DetectFrame ==
    ASSUME Inv, UNCHANGED <<now, github, poll, opened>>,
           queue' \in Tables, pr' \in PrRow, detect' \in DetectType,
           stored' \in [Comments -> StoredComment], Sighted',
           Fresh', ActedOnIsSeen'
    PROVE  Inv'
BY DEF Inv, TypeOK, github, DetectType, Shows, Held

\* A step of the detector that reads, and latches nothing next.
LEMMA DetectReads ==
    ASSUME Inv, UNCHANGED <<now, queue, stored, pr, github, poll, opened>>,
           detect' \in DetectType,
           detect'.pc \notin {"latch", "resolve", "skip", "adopt"}
    PROVE  Inv' /\ Advances
<1>1. queue' \in Tables /\ pr' \in PrRow
  BY DEF Inv, TypeOK
<1>2. Fresh' /\ ActedOnIsSeen'
  BY DEF Fresh, ActedOnIsSeen
<1> QED  BY <1>1, <1>2, StoreKept, DetectFrame

\* The last step of the detector for an item.
LEMMA DetectEnds ==
    ASSUME Inv, UNCHANGED <<now, stored, github, poll, opened>>,
           queue' \in Tables, pr' \in PrRow, Done
    PROVE  Inv' /\ Advances
<1>1. detect' \in DetectType
  BY IdleDetectType DEF Done
<1>2. Fresh' /\ ActedOnIsSeen'
  BY DEF Done, IdleDetect, Fresh, ActedOnIsSeen
<1> QED  BY <1>1, <1>2, StoreKept, DetectFrame

\* A write to the queue by the scheduler.
LEMMA QueueFrame ==
    ASSUME Inv, UNCHANGED <<now, stored, pr, github, poll, detect, opened>>,
           queue' \in Tables
    PROVE  Inv' /\ Advances
<1>1. poll' \in PollType /\ pr' \in PrRow /\ opened' \in [Comments -> TimeOrNull]
  BY DEF Inv, TypeOK, PollType
<1>2. Held'
  BY DEF Inv, Held, github
<1> QED  BY <1>1, <1>2, StoreKept, PollFrame

\* The poll loop goes on to the next comment, gives up, or ends its tick.
LEMMA NextHeld ==
    ASSUME Inv, now' = now, comment' = comment,
           \/ NextComment \/ Abandon \/ poll' = IdlePoll
           \/ poll' = [IdlePoll EXCEPT !.pc = "list"]
           \/ poll' = [IdlePoll EXCEPT !.pc = "direct"]
    PROVE  poll' \in PollType /\ Held'
<1> /\ poll \in PollType /\ now \in Time
    /\ {"list", "direct", "search", "idle"} \subseteq PollPhases
  BY DEF Inv, TypeOK, PollType, PollPhases, Time
<1>1. CASE NextComment
  <2>1. poll' \in PollType /\ poll'.pc \in {"direct", "search"}
        /\ poll'.todo = poll.todo /\ poll'.cur = poll.cur
        /\ poll'.searching = poll.searching
    BY <1>1 DEF NextComment, PollType
  <2> QED  BY <2>1 DEF Inv, Held
<1>2. ASSUME poll' = IdlePoll \/ poll' = [IdlePoll EXCEPT !.pc = "list"]
             \/ poll' = [IdlePoll EXCEPT !.pc = "direct"]
      PROVE  poll' \in PollType /\ Held'
  <2>1. poll' \in PollType
    BY <1>2, IdlePollType DEF PollType
  <2>2. NoListed.updatedAt = 0
    BY DEF NoListed
  <2>3. poll'.todo = {} /\ poll'.cur = NoListed
        /\ poll'.pc \in {"idle", "list", "direct"}
    BY <1>2 DEF IdlePoll
  <2> QED  BY <2>1, <2>2, <2>3 DEF Held, Time
<1>3. CASE Abandon
  <2>1. CASE poll.searching
    BY <1>2, <1>3, <2>1 DEF Abandon
  <2>2. CASE ~poll.searching
    <3>1. poll' = [poll EXCEPT !.pc = "direct", !.todo = {}]
      BY <1>3, <2>2 DEF Abandon
    <3>2. poll' \in PollType /\ poll'.pc = "direct" /\ poll'.todo = {}
          /\ poll'.cur = poll.cur
      BY <3>1 DEF PollType
    <3> QED  BY <3>2 DEF Inv, Held
  <2> QED  BY <2>1, <2>2
<1> QED  BY <1>1, <1>2, <1>3

-----------------------------------------------------------------------------
(* The invariant and the advance of the store, step by step.                *)

\* The initial state satisfies the invariant.
LEMMA InvInit == Init => Inv
<1> SUFFICES ASSUME Init PROVE Inv
  OBVIOUS
<1>1. AbsentRow \in Row
  BY TheRequest, TimeColumns DEF AbsentRow, Row
<1>2. NewPr \in PrRow /\ NoRow \in StoredComment /\ None \in Revision
  BY TimeColumns
     DEF NewPr, PrRow, PrStates, NoHead, NoRow, None, StoredComment, Revision
<1>3. TypeOK
  BY <1>1, <1>2, IdlePollType, IdleDetectType, TimeColumns
     DEF Init, TypeOK, Tables, PollType, DetectType, PrStates
<1>4. Shows /\ Sighted
  BY DEF Init, Shows, Sighted, None, NoRow, NoTime
<1>5. NoListed.updatedAt = 0
  BY DEF NoListed
<1>6. Held
  BY <1>5 DEF Init, Held, IdlePoll
<1>7. Fresh /\ ActedOnIsSeen
  BY DEF Init, Fresh, ActedOnIsSeen, IdleDetect
<1> QED  BY <1>3, <1>4, <1>6, <1>7 DEF Inv

\* A step of the poll loop.
LEMMA PollInv ==
    ASSUME Inv, PollStep
    PROVE  Inv' /\ Advances
<1> /\ poll \in PollType /\ pr \in PrRow /\ now \in Time /\ queue \in Tables
    /\ opened \in [Comments -> TimeOrNull] /\ poll.cur \in Listed
    /\ poll.todo \subseteq Listed
  BY DEF Inv, TypeOK, PollType, Time
<1>1. CASE ScanPr
  <2>1. poll' \in PollType /\ Held'
    BY <1>1, NextHeld DEF ScanPr, github
  <2>2. pr' \in PrRow
    BY <1>1 DEF ScanPr, Inv, TypeOK, PrRow
  <2> QED  BY <1>1, <2>1, <2>2, StoreKept, PollFrame DEF ScanPr
<1>2. CASE ScanNotDue
  BY <1>2, NextHeld, PollReads DEF ScanNotDue, github
<1>3. CASE ListComments
  <2> DEFINE listed == {ListedAs(c) : c \in {d \in Posted : comment[d].type # "unknown"}}
  <2>1. poll' = [IdlePoll EXCEPT !.pc = "direct", !.todo = listed]
    BY <1>3 DEF ListComments
  <2>2. \A r \in listed : /\ r \in Listed /\ r.updatedAt <= now
                          /\ r.type # "unknown" /\ comment[r.comment].type # "none"
    BY ListedType DEF ListedAs, Posted
  <2> HIDE DEF listed
  <2>3. poll' \in PollType
    BY <2>1, <2>2, IdlePollType DEF PollType, PollPhases
  <2>4. poll'.todo = listed /\ poll'.cur.updatedAt = 0 /\ poll'.pc = "direct"
    BY <2>1 DEF IdlePoll, NoListed
  <2>5. Held'
    BY <1>3, <2>2, <2>4 DEF ListComments, github, Held, Time
  <2> QED  BY <1>3, <2>3, <2>5, PollReads DEF ListComments
<1>4. CASE SearchComments
  <2>1. PICK found \in {{}} \cup {{ListedAs(c)} : c \in {d \in Posted : Asks(d)}} :
          poll' = [poll EXCEPT !.pc = "search", !.searching = TRUE, !.todo = found]
    BY <1>4 DEF SearchComments
  <2>2. \A r \in found : /\ r \in Listed /\ r.updatedAt <= now
                         /\ comment[r.comment].type # "none"
    BY ListedType DEF ListedAs, Posted
  <2>3. poll' \in PollType
    BY <2>1, <2>2 DEF PollType, PollPhases
  <2>4. poll'.todo = found /\ poll'.cur = poll.cur /\ poll'.pc = "search"
        /\ poll'.searching
    BY <2>1 DEF PollType
  <2>5. Held'
    BY <1>4, <2>2, <2>4 DEF SearchComments, github, Inv, Held
  <2> QED  BY <1>4, <2>3, <2>5, PollReads DEF SearchComments
<1>5. CASE EndPoll
  BY <1>5, NextHeld, PollReads DEF EndPoll, github
<1>6. CASE TakeComment
  <2>1. PICK r \in poll.todo :
          poll' = [poll EXCEPT
                     !.pc = IF poll.searching THEN "fetch" ELSE "compare",
                     !.cur = r, !.todo = @ \ {r}]
    BY <1>6 DEF TakeComment
  <2>2. poll' \in PollType
    BY <2>1 DEF PollType, PollPhases
  <2>3. /\ poll'.todo = poll.todo \ {r} /\ poll'.cur = r
        /\ poll'.searching = poll.searching
        /\ poll'.pc = IF poll.searching THEN "fetch" ELSE "compare"
    BY <2>1 DEF PollType
  <2>4. Held'
    BY <1>6, <2>3 DEF TakeComment, github, Inv, Held
  <2> QED  BY <1>6, <2>2, <2>4, PollReads DEF TakeComment
<1>7. CASE FetchBody
  <2> DEFINE shown == comment[poll.cur.comment]
  <2>1. CASE shown.type = "unknown"
    BY <1>7, <2>1, NextHeld, PollReads DEF FetchBody, github
  <2>2. CASE shown.type # "unknown"
    <3>1. shown.type \in Kinds /\ shown.run \in Runs \cup {NoRun}
      BY <1>7 DEF FetchBody, Inv, Held, TypeOK, Revision, Listed
    <3>2. poll' = [poll EXCEPT !.pc = "compare", !.cur.type = shown.type,
                               !.cur.run = shown.run]
      BY <1>7, <2>2 DEF FetchBody
    <3> HIDE DEF shown
    <3>3. poll' \in PollType
      BY <3>1, <3>2 DEF PollType, PollPhases, Listed
    <3>4. /\ poll'.todo = poll.todo /\ poll'.searching = poll.searching
          /\ poll'.cur.updatedAt = poll.cur.updatedAt
          /\ poll'.cur.type = shown.type /\ poll'.pc = "compare"
      BY <3>2 DEF PollType, Listed
    <3>5. Held'
      BY <1>7, <2>2, <3>4 DEF FetchBody, github, Inv, Held
    <3> QED  BY <1>7, <3>3, <3>5, PollReads DEF FetchBody
  <2> QED  BY <2>1, <2>2
<1>8. ASSUME NEW phase \in {"dismissal", "dismiss", "enqueue"},
             poll.pc \in {"compare", "dismissal"},
             poll' = [poll EXCEPT !.pc = phase],
             UNCHANGED <<now, queue, stored, pr, github, detect, opened>>
      PROVE  Inv' /\ Advances
  <2>1. poll' \in PollType
    BY <1>8 DEF PollType, PollPhases
  <2>2. /\ poll'.todo = poll.todo /\ poll'.searching = poll.searching
        /\ poll'.cur = poll.cur /\ poll'.pc = phase
    BY <1>8 DEF PollType
  <2>3. Held'
    BY <1>8, <2>2 DEF github, Inv, Held
  <2> QED  BY <1>8, <2>1, <2>3, PollReads
<1>9. CASE CompareSeen
  BY <1>9, <1>8, NextHeld, PollReads DEF CompareSeen, github
<1>10. CASE CheckDismissal
  BY <1>10, <1>8 DEF CheckDismissal
<1>11. ASSUME poll.pc \in {"dismiss", "enqueue"}, stored' = Latched, now' = now
       PROVE  stored' \in [Comments -> StoredComment] /\ Sighted' /\ Advances
  <2>1. /\ poll.cur.comment \in Comments /\ poll.cur.type \in Kinds
        /\ poll.cur.run \in Runs \cup {NoRun} /\ poll.cur.updatedAt \in Time
        /\ poll.cur.updatedAt <= now
    BY DEF Listed, Inv, Held
  <2> QED  BY <1>11, <2>1, UpsertFacts DEF Latched
<1>12. CASE Dismiss
  <2>1. poll' \in PollType /\ Held'
    BY <1>12, NextHeld DEF Dismiss, github
  <2> QED  BY <1>12, <1>11, <2>1, PollFrame DEF Dismiss
<1>13. CASE RecordVerdict
  <2>1. poll' \in PollType /\ Held'
    BY <1>13, NextHeld DEF RecordVerdict, github
  <2>2. pr' \in PrRow
    BY <1>13 DEF RecordVerdict, RecordReview, PrRow, TimeOrNull, Time
  <2> QED  BY <1>13, <1>11, <2>1, <2>2, PollFrame DEF RecordVerdict
<1>14. CASE EnqueueComment
  <2>1. PICK outcome \in Enqueue(queue, DetectionOf(poll.cur), now) :
          /\ queue' = outcome.queue
          /\ stored' = IF outcome.threw THEN stored ELSE Latched
          /\ IF outcome.threw THEN Abandon ELSE NextComment
          /\ opened' = IF Pending(outcome.queue) \subseteq Pending(queue) THEN opened
                       ELSE [opened EXCEPT ![poll.cur.comment] = poll.cur.updatedAt]
    BY <1>14 DEF EnqueueComment
  <2>2. queue' \in Tables
    BY <1>14, <2>1, DetectionType, EnqueueType DEF EnqueueComment
  <2>3. stored' \in [Comments -> StoredComment] /\ Sighted' /\ Advances
    BY <1>14, <2>1, <1>11, StoreKept DEF EnqueueComment
  <2>4. poll' \in PollType /\ Held'
    BY <1>14, <2>1, NextHeld DEF EnqueueComment, github
  <2>5. opened' \in [Comments -> TimeOrNull]
    BY <2>1, TimeColumns DEF Listed
  <2> QED  BY <1>14, <2>2, <2>3, <2>4, <2>5, PollFrame DEF EnqueueComment
<1>15. CASE PollFails
  BY <1>15, NextHeld, PollReads DEF PollFails, github
<1> QED  BY <1>1, <1>2, <1>3, <1>4, <1>5, <1>6, <1>7, <1>9, <1>10, <1>12,
            <1>13, <1>14, <1>15 DEF PollStep

\* A step of the review detector.
LEMMA DetectInv ==
    ASSUME Inv, DetectStep
    PROVE  Inv' /\ Advances
<1> /\ detect \in DetectType /\ pr \in PrRow /\ now \in Time /\ queue \in Tables
    /\ detect.id \in ItemIds /\ detect.comment \in Comments
    /\ detect.was \in StoredComment /\ detect.fresh \in Revision
  BY DEF Inv, TypeOK, DetectType, Time
<1>1. ASSUME NEW i \in ItemIds, StartDetect(i)
      PROVE  Inv' /\ Advances
  <2>1. /\ queue[i].comment \in Comments /\ queue[i].run \in Runs \cup {NoRun}
        /\ queue[i].retriggeredAt \in Time
    BY <1>1, RowOf DEF StartDetect, Row, TimeOrNull
  <2>2. detect' \in DetectType /\ detect'.pc = "columns"
    BY <1>1, <2>1, IdleDetectType DEF StartDetect, DetectType, DetectPhases
  <2> QED  BY <1>1, <2>2, DetectReads DEF StartDetect
<1>2. CASE ReadColumns
  <2>1. detect' \in DetectType /\ detect'.pc \in {"stored", "closed"}
    BY <1>2 DEF ReadColumns, DetectType, DetectPhases
  <2> QED  BY <1>2, <2>1, DetectReads DEF ReadColumns
<1>3. ASSUME NEW r \in {"review_completed", "skipped", "pr_merged",
                        "pr_closed_without_merge"}, Resolve(r)
      PROVE  queue' \in Tables
  BY <1>3, DetectorResolutions, MarkResolvedIfStillRetriggeredType DEF Resolve
<1>4. CASE ResolveClosed
  <2>1. queue' \in Tables
    BY <1>4, <1>3 DEF ResolveClosed
  <2> QED  BY <1>4, <2>1, DetectEnds DEF ResolveClosed
<1>5. CASE ReadStored
  <2>1. stored[detect.comment] \in StoredComment
    BY DEF Inv, TypeOK
  <2>2. detect' \in DetectType /\ detect'.pc \in {"reviews", "fetch"}
    BY <1>5, <2>1 DEF ReadStored, DetectType, DetectPhases
  <2> QED  BY <1>5, <2>2, DetectReads DEF ReadStored
<1>6. CASE FetchSource
  <2> DEFINE shown == comment[detect.comment]
  <2>1. shown \in Revision
    BY DEF Inv, TypeOK
  <2>2. CASE shown.updatedAt <= detect.was.seenAt
    <3>1. detect' = [detect EXCEPT !.pc = "reviews", !.fresh.type = detect.was.type]
      BY <1>6, <2>2 DEF FetchSource
    <3>2. detect' \in DetectType /\ detect'.pc = "reviews"
      BY <3>1 DEF DetectType, DetectPhases, Revision, StoredComment
    <3> QED  BY <1>6, <3>2, DetectReads DEF FetchSource
  <2>3. CASE ~(shown.updatedAt <= detect.was.seenAt)
    <3>1. shown.type # "none" /\ shown.updatedAt \in Time /\ shown.updatedAt <= now
      <4>1. shown.updatedAt \in Int /\ detect.was.seenAt \in Int
            /\ detect.was.seenAt >= NoTime
        BY <2>1, Times DEF Revision, StoredComment
      <4>2. shown.updatedAt # NoTime
        BY <2>3, <4>1 DEF NoTime
      <4> QED  BY <4>2 DEF Inv, Shows
    <3>2. detect' = [detect EXCEPT !.pc = "latch", !.fresh = shown]
      BY <1>6, <2>3 DEF FetchSource
    <3> HIDE DEF shown
    <3>3. detect' \in DetectType /\ detect'.pc = "latch" /\ detect'.fresh = shown
      BY <2>1, <3>2 DEF DetectType, DetectPhases
    <3>4. Fresh' /\ ActedOnIsSeen'
      BY <1>6, <3>1, <3>3 DEF FetchSource, Fresh, ActedOnIsSeen
    <3> QED  BY <1>6, <3>3, <3>4, StoreKept, DetectFrame DEF FetchSource
  <2> QED  BY <2>2, <2>3
<1>7. CASE LatchEdit
  <2>1. /\ detect.fresh.type \in Kinds /\ detect.fresh.run \in Runs \cup {NoRun}
        /\ detect.fresh.updatedAt \in Time /\ detect.fresh.updatedAt <= now
    BY <1>7 DEF LatchEdit, Inv, Fresh, Revision
  <2>2. /\ stored' \in [Comments -> StoredComment] /\ Sighted' /\ Advances
        /\ stored'[detect.comment].type # "none"
        /\ detect.fresh.updatedAt <= stored'[detect.comment].seenAt
    BY <1>7, <2>1, UpsertFacts DEF LatchEdit
  <2>3. PICK phase \in {"resolve", "adopt", "skip", "reviews"} : Proceed(phase)
    BY <1>7 DEF LatchEdit
  <2>4. /\ detect' \in DetectType /\ detect'.pc = phase
        /\ detect'.comment = detect.comment /\ detect'.fresh = detect.fresh
    BY <2>3 DEF Proceed, DetectType, DetectPhases
  <2>5. Fresh' /\ ActedOnIsSeen'
    BY <2>2, <2>4 DEF Fresh, ActedOnIsSeen, Seen
  <2> QED  BY <1>7, <2>2, <2>4, <2>5, DetectFrame DEF LatchEdit, Inv, TypeOK
<1>8. ASSUME NEW commit \in Nat \cup {NoHead}, CloseReviewed(commit)
      PROVE  queue' \in Tables /\ pr' \in PrRow
  <2>1. queue' \in Tables
    BY <1>8, <1>3 DEF CloseReviewed
  <2>2. pr' \in PrRow
    BY <1>8 DEF CloseReviewed, RecordReview, PrRow, TimeOrNull, Time
  <2> QED  BY <2>1, <2>2
<1>9. CASE ResolveEdited
  BY <1>9, <1>8, DetectEnds DEF ResolveEdited, CloseReviewed
<1>10. CASE ResolveSkipped
  BY <1>10, <1>3, DetectEnds DEF ResolveSkipped
<1>11. CASE ReopenOrAdopt
  <2>1. detect.fresh.run \in RunOrNull
    BY DEF Revision, RunOrNull
  <2>2. queue' \in Tables
    BY <1>11, <2>1, ReopenStaleType, AttemptType, AdoptRunType, TimeColumns
       DEF ReopenOrAdopt
  <2> QED  BY <1>11, <2>2, DetectEnds DEF ReopenOrAdopt
<1>12. CASE FindReview
  <2>1. CASE Done
    BY <1>12, <2>1, DetectEnds DEF FindReview, Inv, TypeOK
  <2>2. CASE Proceed("lastReview")
    <3>1. detect' \in DetectType /\ detect'.pc = "lastReview"
      BY <2>2 DEF Proceed, DetectType, DetectPhases
    <3> QED  BY <1>12, <3>1, DetectReads DEF FindReview
  <2>3. ASSUME NEW r \in Accepted,
               detect' = [detect EXCEPT !.pc = "accept", !.commit = r.commit]
        PROVE  Inv' /\ Advances
    <3>1. r.commit \in Nat
      BY DEF Accepted, Inv, TypeOK, Review
    <3>2. detect' \in DetectType /\ detect'.pc = "accept"
      BY <2>3, <3>1 DEF DetectType, DetectPhases
    <3> QED  BY <1>12, <3>2, DetectReads DEF FindReview
  <2> QED  BY <1>12, <2>1, <2>2, <2>3 DEF FindReview
<1>13. CASE ResolveReviewed
  <2>1. detect.commit \in Nat
    BY DEF DetectType
  <2> QED  BY <1>13, <2>1, <1>8, DetectEnds DEF ResolveReviewed, CloseReviewed
<1>14. CASE ResolveByLastReview
  BY <1>14, <1>3, DetectEnds DEF ResolveByLastReview
<1>15. CASE DetectFails
  BY <1>15, DetectEnds DEF DetectFails
<1> QED  BY <1>1, <1>2, <1>4, <1>5, <1>6, <1>7, <1>9, <1>10, <1>11, <1>12,
            <1>13, <1>14, <1>15 DEF DetectStep

\* A step of the scheduler, of CodeRabbit, of the author or of the clock.
LEMMA OtherInv ==
    ASSUME Inv,
           \/ Retrigger \/ ResolveStale \/ RescheduleItem \/ Sweep
           \/ EditComment \/ SubmitReview \/ Push \/ ChangePr \/ Tick
    PROVE  Inv' /\ Advances
<1> /\ queue \in Tables /\ now \in Time /\ comment \in [Comments -> Revision]
    /\ branch \in [head : Nat, state : PrStates]
  BY DEF Inv, TypeOK, Time
<1> Pending(queue) \subseteq ItemIds
  BY DEF Pending
<1>1. CASE Retrigger
  <2>1. PICK i \in Pending(queue) :
          queue' = MarkRetriggered(queue, i, queue[i].cooldownUntil,
                                   comment[queue[i].comment].run, now)
    BY <1>1 DEF Retrigger
  <2>2. /\ queue[i].cooldownUntil \in TimeOrNull
        /\ comment[queue[i].comment].run \in RunOrNull
    BY RowOf DEF Row, Revision, RunOrNull
  <2>3. queue' \in Tables
    BY <2>1, <2>2, MarkRetriggeredType
  <2> QED  BY <1>1, <2>3, QueueFrame DEF Retrigger
<1>2. CASE ResolveStale
  <2>1. queue' \in Tables
    BY <1>2, DetectorResolutions, MarkResolvedType DEF ResolveStale
  <2> QED  BY <1>2, <2>1, QueueFrame DEF ResolveStale
<1>3. CASE RescheduleItem
  <2>1. PICK i \in Pending(queue), c \in Limited :
          queue' = Reschedule(queue, i, c, comment[c].run, now).queue
    BY <1>3 DEF RescheduleItem
  <2>2. c \in Comments /\ comment[c].run \in RunOrNull
    BY DEF Limited, Posted, Revision, RunOrNull
  <2>3. queue' \in Tables
    BY <2>1, <2>2, RescheduleType
  <2> QED  BY <1>3, <2>3, QueueFrame DEF RescheduleItem
<1>4. CASE Sweep
  <2>1. queue' \in Tables
    BY <1>4, ResolveStaleRetriggeredType, DetectionAssumption DEF Sweep
  <2> QED  BY <1>4, <2>1, QueueFrame DEF Sweep
<1>5. CASE EditComment
  <2>1. PICK c \in Comments, type \in Edits, run \in Runs \cup {NoRun} :
          comment' = [comment EXCEPT ![c] = [type |-> type, run |-> run,
                                             updatedAt |-> now]]
    BY <1>5 DEF EditComment
  <2>2. type \in Kinds /\ type # "none" /\ now \in TimeOrNull
    BY DetectionAssumption, TimeColumns DEF Kinds
  <2>3. comment' \in [Comments -> Revision]
    BY <2>1, <2>2 DEF Revision
  <2>4. \A d \in Comments :
          comment'[d] = IF d = c THEN [type |-> type, run |-> run,
                                       updatedAt |-> now] ELSE comment[d]
    BY <2>1
  <2>5. Shows'
    BY <1>5, <2>2, <2>4 DEF EditComment, Inv, Shows, Time
  <2>6. \A r \in Listed : comment[r.comment].type # "none"
                          => comment'[r.comment].type # "none"
    BY <2>2, <2>4 DEF Listed
  <2>7. Held'
    BY <1>5, <2>6 DEF EditComment, Inv, TypeOK, Held
  <2>8. TypeOK'
    BY <1>5, <2>3 DEF EditComment, Inv, TypeOK
  <2>9. Sighted' /\ Advances
    BY <1>5, StoreKept DEF EditComment
  <2>10. Fresh' /\ ActedOnIsSeen'
    BY <1>5 DEF EditComment, Inv, Fresh, ActedOnIsSeen, Seen
  <2> QED  BY <2>5, <2>7, <2>8, <2>9, <2>10 DEF Inv
<1>6. ASSUME UNCHANGED <<now, queue, stored, pr, comment, poll, detect, opened>>,
             reviews' \subseteq Review, branch' \in [head : Nat, state : PrStates]
      PROVE  Inv' /\ Advances
  <2>1. TypeOK' /\ Shows' /\ Held' /\ Fresh' /\ ActedOnIsSeen'
    BY <1>6 DEF Inv, TypeOK, Shows, Held, Fresh, ActedOnIsSeen, Seen
  <2> QED  BY <1>6, <2>1, StoreKept DEF Inv
<1>7. CASE SubmitReview
  <2>1. reviews' \subseteq Review
    BY <1>7 DEF SubmitReview, Inv, TypeOK, Review
  <2> QED  BY <1>7, <2>1, <1>6 DEF SubmitReview
<1>8. CASE Push
  BY <1>8, <1>6 DEF Push, Inv, TypeOK
<1>9. CASE ChangePr
  <2>1. branch' \in [head : Nat, state : PrStates]
    BY <1>9, DetectionAssumption DEF ChangePr, PrStates
  <2> QED  BY <1>9, <2>1, <1>6 DEF ChangePr, Inv, TypeOK
<1>10. CASE Tick
  <2>1. now' \in Time /\ \A t \in TimeOrNull : t <= now => t <= now'
    BY <1>10 DEF Tick, TimeOrNull, Time, NoTime
  <2>2. TypeOK'
    BY <1>10, <2>1 DEF Tick, github, Inv, TypeOK, Time
  <2>3. Shows' /\ Fresh'
    BY <1>10, <2>1 DEF Tick, github, Inv, TypeOK, Shows, Fresh, Revision, TimeOrNull
  <2>4. Held'
    <3>1. \A r \in poll.todo \cup {poll.cur} : r.updatedAt \in TimeOrNull
      BY Times DEF Inv, TypeOK, Listed
    <3> QED  BY <1>10, <2>1, <3>1 DEF Tick, github, Inv, Held
  <2>5. Sighted' /\ Advances
    <3>1. \A c \in Comments : /\ stored[c].seenAt \in TimeOrNull
                              /\ stored[c].updatedAt \in Int
                              /\ stored[c].seenAt \in Int
      BY Times DEF Inv, TypeOK, StoredComment
    <3> QED  BY <1>10, <2>1, <3>1 DEF Tick, Inv, Sighted, Advances
  <2>6. ActedOnIsSeen'
    BY <1>10 DEF Tick, Inv, ActedOnIsSeen, Seen
  <2> QED  BY <2>2, <2>3, <2>4, <2>5, <2>6 DEF Inv
<1> QED  BY <1>1, <1>2, <1>3, <1>4, <1>5, <1>7, <1>8, <1>9, <1>10

\* Every step keeps the invariant, and no step takes the store back.
LEMMA InvNext ==
    ASSUME Inv, [Next]_vars
    PROVE  Inv' /\ Advances
<1>1. CASE UNCHANGED vars
  <2>1. /\ UNCHANGED <<now, queue, stored, pr, comment, reviews, branch, poll,
                       detect, opened>>
    BY <1>1 DEF vars
  <2>2. TypeOK' /\ Shows' /\ Held' /\ Fresh' /\ ActedOnIsSeen'
    BY <2>1 DEF Inv, TypeOK, Shows, Held, Fresh, ActedOnIsSeen, Seen
  <2> QED  BY <2>1, <2>2, StoreKept DEF Inv
<1>2. CASE Next
  BY <1>2, PollInv, DetectInv, OtherInv DEF Next
<1> QED  BY <1>1, <1>2

\* The invariant holds throughout.
LEMMA Invariant == Spec => []Inv
<1>1. Inv /\ [Next]_vars => Inv'
  BY InvNext
<1> QED  BY <1>1, InvInit, PTL DEF Spec

-----------------------------------------------------------------------------
(* One row for one revision.  The revision a row was opened on is covered by*)
(* the seen marker of its comment, in the transaction that opens the row; so*)
(* what passes the comparison with the marker is newer, and stays so, since *)
(* nothing but the poll loop itself opens a row on a detection.             *)

OpenedIsSeen ==
    \A c \in Comments :
        opened[c] # NoTime => /\ stored[c].type # "none"
                              /\ opened[c] <= stored[c].seenAt

ComparedIsNewer ==
    poll.pc \in {"dismissal", "dismiss", "enqueue"}
    => poll.cur.updatedAt > opened[poll.cur.comment]

OnceInv == OpenedIsSeen /\ ComparedIsNewer

\* An enqueue that throws keeps the table, and with it the pending rows.
LEMMA EnqueueThrows ==
    ASSUME NEW q, NEW d, NEW t, NEW outcome \in Enqueue(q, d, t), outcome.threw
    PROVE  outcome.queue = q
<1>1. \A next : Attempt(q, next).threw => Attempt(q, next).queue = q
  BY DEF Attempt, Wrote, Threw
<1>2. \A next : ~Wrote(next).threw
  BY DEF Wrote
<1>3. \A r : LET o == OntoSameComment(q, r, d, t) IN o.threw => o.queue = q
  BY <1>1, <1>2 DEF OntoSameComment
<1>4. \A r : LET o == OntoOtherComment(q, r, d, t) IN o.threw => o.queue = q
  BY <1>1, <1>2 DEF OntoOtherComment
<1>5. LET o == OnConflict(q, d) IN o.threw => o.queue = q
  BY <1>1, <1>2 DEF OnConflict, Threw
<1>6. \A o \in Inserted(q, d, t) : ~o.threw
  BY <1>2 DEF Inserted
<1> QED  BY <1>2, <1>3, <1>4, <1>5, <1>6 DEF Enqueue

\* While no row is opened, the store only advances over what was opened.
LEMMA OpenedStaysSeen ==
    ASSUME Inv, Inv', OpenedIsSeen, Advances, opened' = opened
    PROVE  OpenedIsSeen'
<1> SUFFICES ASSUME NEW c \in Comments, opened[c] # NoTime
             PROVE  stored'[c].type # "none" /\ opened[c] <= stored'[c].seenAt
  BY DEF OpenedIsSeen
<1>1. /\ opened[c] \in Int /\ stored[c].seenAt \in Int
      /\ stored'[c].seenAt \in Int
  BY Times DEF Inv, TypeOK, StoredComment
<1> QED  BY <1>1 DEF OpenedIsSeen, Advances

\* A revision the seen marker does not cover is newer than any opened one.
LEMMA UnseenIsNewer ==
    ASSUME Inv, OpenedIsSeen, poll.pc = "compare",
           ~Seen(poll.cur.comment, poll.cur.updatedAt)
    PROVE  poll.cur.updatedAt > opened[poll.cur.comment]
<1> DEFINE c == poll.cur.comment
<1>1. /\ c \in Comments /\ poll.cur.updatedAt \in Nat
      /\ opened[c] \in Int /\ stored[c].seenAt \in Int
  BY Times DEF Inv, TypeOK, Listed, StoredComment, Time
<1>2. CASE opened[c] = NoTime
  BY <1>1, <1>2 DEF NoTime
<1>3. CASE opened[c] # NoTime
  BY <1>1, <1>3 DEF OpenedIsSeen, Seen
<1> QED  BY <1>2, <1>3

\* One revision, one row: kept by every step.
LEMMA OnceNext ==
    ASSUME Inv, OnceInv, [Next]_vars
    PROVE  OnceInv'
<1> Inv' /\ Advances
  BY InvNext
<1>1. ASSUME poll' = poll, opened' = opened
      PROVE  OnceInv'
  BY <1>1, OpenedStaysSeen DEF OnceInv, ComparedIsNewer
<1>2. ASSUME opened' = opened,
             poll'.pc \notin {"dismissal", "dismiss", "enqueue"}
      PROVE  OnceInv'
  BY <1>2, OpenedStaysSeen DEF OnceInv, ComparedIsNewer
<1>3. NextComment \/ Abandon => poll'.pc \in {"search", "direct", "idle"}
  <2> poll \in PollType
    BY DEF Inv, TypeOK, PollType
  <2>1. NextComment => poll'.pc \in {"search", "direct"}
    BY DEF NextComment, PollType
  <2>2. CASE poll.searching
    BY <2>1, <2>2 DEF Abandon, IdlePoll
  <2>3. CASE ~poll.searching
    BY <2>1, <2>3 DEF Abandon, PollType
  <2> QED  BY <2>2, <2>3
<1>4. CASE PollStep
  <2>1. CASE ScanPr \/ ScanNotDue
    BY <1>2, <2>1 DEF ScanPr, ScanNotDue, IdlePoll
  <2>2. CASE ListComments
    BY <1>2, <2>2 DEF ListComments, IdlePoll
  <2>3. CASE SearchComments
    BY <1>2, <2>3 DEF SearchComments, Inv, TypeOK
  <2>4. CASE EndPoll
    BY <1>2, <2>4 DEF EndPoll, IdlePoll
  <2>5. CASE TakeComment
    <3>1. poll'.pc \in {"fetch", "compare"}
      BY <2>5 DEF TakeComment, Inv, TypeOK
    <3> QED  BY <1>2, <2>5, <3>1 DEF TakeComment
  <2>6. CASE FetchBody
    <3>1. poll'.pc \in {"search", "direct", "compare"}
      BY <1>3, <2>6 DEF FetchBody, NextComment, Inv, TypeOK
    <3> QED  BY <1>2, <2>6, <3>1 DEF FetchBody
  <2>7. CASE CompareSeen
    <3>1. CASE Seen(poll.cur.comment, poll.cur.updatedAt)
      BY <1>2, <1>3, <2>7, <3>1 DEF CompareSeen
    <3>2. CASE ~Seen(poll.cur.comment, poll.cur.updatedAt)
      <4>1. poll'.cur = poll.cur /\ opened' = opened
        BY <2>7, <3>2 DEF CompareSeen, Inv, TypeOK
      <4> QED  BY <2>7, <3>2, <4>1, UnseenIsNewer, OpenedStaysSeen
               DEF CompareSeen, OnceInv, ComparedIsNewer
    <3> QED  BY <3>1, <3>2
  <2>8. CASE CheckDismissal
    <3>1. /\ poll.pc = "dismissal" /\ poll'.cur = poll.cur /\ opened' = opened
      BY <2>8 DEF CheckDismissal, Inv, TypeOK
    <3> QED  BY <3>1, OpenedStaysSeen DEF OnceInv, ComparedIsNewer
  <2>9. CASE Dismiss \/ RecordVerdict
    BY <1>2, <1>3, <2>9 DEF Dismiss, RecordVerdict
  <2>10. CASE EnqueueComment
    <3>1. PICK outcome \in Enqueue(queue, DetectionOf(poll.cur), now) :
            /\ queue' = outcome.queue
            /\ stored' = IF outcome.threw THEN stored ELSE Latched
            /\ IF outcome.threw THEN Abandon ELSE NextComment
            /\ opened' = IF Pending(outcome.queue) \subseteq Pending(queue)
                         THEN opened
                         ELSE [opened EXCEPT ![poll.cur.comment] = poll.cur.updatedAt]
      BY <2>10 DEF EnqueueComment
    <3>2. poll'.pc \notin {"dismissal", "dismiss", "enqueue"}
      BY <1>3, <3>1
    <3>3. CASE Pending(outcome.queue) \subseteq Pending(queue)
      BY <1>2, <3>1, <3>2, <3>3
    <3>4. CASE ~(Pending(outcome.queue) \subseteq Pending(queue))
      <4>1. ~outcome.threw
        BY <3>4, EnqueueThrows
      <4>2. /\ poll.cur.comment \in Comments /\ poll.cur.type \in Kinds
            /\ poll.cur.run \in Runs \cup {NoRun} /\ poll.cur.updatedAt \in Time
            /\ poll.cur.updatedAt <= now
        BY DEF Inv, TypeOK, Held, Listed
      <4>3. /\ stored'[poll.cur.comment].type # "none"
            /\ poll.cur.updatedAt <= stored'[poll.cur.comment].seenAt
        <5>1. stored' = Upsert(stored, poll.cur.comment, poll.cur, now) /\ now' = now
          BY <2>10, <3>1, <4>1 DEF EnqueueComment, Latched
        <5> QED  BY <4>2, <5>1, UpsertFacts
      <4>4. \A c \in Comments : opened'[c] = IF c = poll.cur.comment
                                             THEN poll.cur.updatedAt ELSE opened[c]
        BY <3>1, <3>4 DEF Inv, TypeOK
      <4>5. \A c \in Comments : /\ opened[c] \in Int /\ stored[c].seenAt \in Int
                                /\ stored'[c].seenAt \in Int
        BY Times DEF Inv, TypeOK, StoredComment
      <4>6. OpenedIsSeen'
        BY <4>3, <4>4, <4>5 DEF OnceInv, OpenedIsSeen, Advances
      <4> QED  BY <3>2, <4>6 DEF OnceInv, ComparedIsNewer
    <3> QED  BY <3>3, <3>4
  <2>11. CASE PollFails
    BY <1>2, <1>3, <2>11 DEF PollFails
  <2> QED  BY <1>4, <2>1, <2>2, <2>3, <2>4, <2>5, <2>6, <2>7, <2>8, <2>9,
              <2>10, <2>11 DEF PollStep
<1>5. CASE DetectStep
  <2>1. poll' = poll /\ opened' = opened
    BY <1>5 DEF DetectStep, StartDetect, ReadColumns, ResolveClosed, ReadStored,
                FetchSource, LatchEdit, ResolveEdited, ResolveSkipped,
                ReopenOrAdopt, FindReview, ResolveReviewed, ResolveByLastReview,
                DetectFails
  <2> QED  BY <1>1, <2>1
<1>6. ASSUME \/ Retrigger \/ ResolveStale \/ RescheduleItem \/ Sweep
             \/ EditComment \/ SubmitReview \/ Push \/ ChangePr \/ Tick
      PROVE  OnceInv'
  BY <1>1, <1>6 DEF Retrigger, ResolveStale, RescheduleItem, Sweep, EditComment,
                    SubmitReview, Push, ChangePr, Tick
<1>7. CASE UNCHANGED vars
  BY <1>1, <1>7 DEF vars
<1> QED  BY <1>4, <1>5, <1>6, <1>7 DEF Next

-----------------------------------------------------------------------------
(* Theorems.                                                                *)

\* Every reachable state of the two services, of what they store and of what
\* they hold across an await is well typed.
THEOREM DetectionTypes == Spec => []TypeOK
<1>1. Inv => TypeOK
  BY DEF Inv
<1> QED  BY <1>1, Invariant, PTL

\* Whatever order the two services deliver revisions in, and however late, a
\* stored comment never goes back (upsert, coderabbitCommentRepository.ts).
THEOREM LatchAdvances == Spec => LatchOnlyAdvances
<1>1. Inv /\ [Next]_vars
      => [\A c \in Comments : /\ stored'[c].updatedAt >= stored[c].updatedAt
                              /\ stored'[c].seenAt >= stored[c].seenAt]_vars
  BY InvNext DEF Advances
<1> QED  BY <1>1, Invariant, PTL DEF Spec, LatchOnlyAdvances

\* An edit the detector acts on is covered by the seen marker when it does, so
\* that no poll afterwards takes it for a new request (EditDetector.detectEdit).
THEOREM EditsActedOnAreSeen == Spec => []ActedOnIsSeen
<1>1. Inv => ActedOnIsSeen
  BY DEF Inv
<1> QED  BY <1>1, Invariant, PTL

\* Whatever the detector latches meanwhile and whichever listing shows it, the
\* poll loop opens a row at most once on one revision of a comment
\* (DirectCommentChecker.check, EnqueueService.enqueueIfNew).
THEOREM OpensOnce == Spec => OpensOncePerRevision
<1>1. Init => OnceInv
  BY DEF Init, OnceInv, OpenedIsSeen, ComparedIsNewer, IdlePoll
<1>2. Inv /\ OnceInv /\ [Next]_vars => OnceInv'
  BY OnceNext
<1>3. OnceInv => [/\ poll.pc = "enqueue" /\ poll'.pc # "enqueue"
                  /\ ~ (Pending(queue') \subseteq Pending(queue))
                  => poll.cur.updatedAt > opened[poll.cur.comment]]_vars
  BY DEF OnceInv, ComparedIsNewer
<1> QED  BY <1>1, <1>2, <1>3, Invariant, PTL DEF Spec, OpensOncePerRevision
===============================================================================
