----------------------------- MODULE QueueOrdering -----------------------------
(****************************************************************************)
(* The queue_order table (src/db/queueOrderRepository.ts) and the writes of *)
(* QueueRepository that make items join and leave the effective order.      *)
(*                                                                          *)
(* The order is not stored: it is read by sorting the active rows on a      *)
(* nullable position and then on the id of the queue_order row.  Resolving  *)
(* an item leaves its position behind, and only a move renumbers, so two    *)
(* active items may well have the same position.  Every action is one       *)
(* transaction, except that a move request is checked against the order in  *)
(* a read of its own before its transaction runs.                           *)
(****************************************************************************)
EXTENDS Integers, FiniteSets, SequencesExt

CONSTANTS
    ItemIds,            \* ids of review_queue rows
    Legacy              \* the row that predates the queue_order table, if any

ASSUME OrderAssumption ==
    /\ IsFiniteSet(ItemIds)
    /\ Legacy \subseteq ItemIds
    /\ \A i, j \in Legacy : i = j

VARIABLES
    status,             \* review_queue.status of every row
    entry,              \* the queue_order row of every review_queue row
    lastEntry,          \* the autoincrement counter of queue_order
    request             \* a move request between its check and its transaction

vars == <<status, entry, lastEntry, request>>

Unplaced == 0                     \* position IS NULL; positions start at 1
NoEntry == [id |-> 0, position |-> Unplaced]
NoRequest == [items |-> {}, up |-> TRUE]

EffectiveOrderStatuses == {"pending", "retriggered"}
Active == {i \in ItemIds : status[i] \in EffectiveOrderStatuses}
Rows == {i \in ItemIds : status[i] # "absent"}

TypeOK ==
    /\ status \in [ItemIds -> EffectiveOrderStatuses \cup {"absent", "resolved"}]
    /\ entry \in [ItemIds -> [id : 0..lastEntry, position : 0..Cardinality(ItemIds)]]
    /\ lastEntry \in 0..Cardinality(ItemIds)
    /\ request \in [items : SUBSET ItemIds, up : BOOLEAN]

Init ==
    /\ \E s \in EffectiveOrderStatuses \cup {"resolved"} :
         status = [i \in ItemIds |-> IF i \in Legacy THEN s ELSE "absent"]
    /\ entry = [i \in ItemIds |-> NoEntry]
    /\ lastEntry = 0
    /\ request = NoRequest

-----------------------------------------------------------------------------
(* Reading the order: position ascending with nulls last, then entry id     *)
(* (SQLite sorts a missing one first).                                      *)

PrecedesMutant(a, b) ==           \* nulls first, the default
    IF a.position # b.position THEN a.position < b.position ELSE a.id < b.id

TiedMutant(a, b) ==               \* the second sort key forgotten
    IF a.position = Unplaced THEN FALSE
    ELSE b.position = Unplaced \/ a.position < b.position

Precedes(a, b) ==
    IF a.position = b.position THEN a.id < b.id
    ELSE /\ a.position # Unplaced
         /\ b.position = Unplaced \/ a.position < b.position

Before(i, j) == Precedes(entry[i], entry[j])

EffectiveOrder ==
    [k \in 1..Cardinality(Active) |->
        CHOOSE i \in Active : Cardinality({j \in Active : Before(j, i)}) = k - 1]

-----------------------------------------------------------------------------
(* Joining and leaving.                                                     *)

\* queue_order rows are created where there is none, and never deleted.
CreateEntries(S) ==
    LET missing == {i \in S : entry[i] = NoEntry}
    IN  /\ entry' = [i \in ItemIds |-> IF i \in missing
                                       THEN [id |-> lastEntry + 1, position |-> Unplaced]
                                       ELSE entry[i]]
        /\ lastEntry' = lastEntry + Cardinality(missing)

Enqueue(i) ==
    /\ status[i] = "absent"
    /\ status' = [status EXCEPT ![i] = "pending"]
    /\ CreateEntries({i})
    /\ UNCHANGED request

\* A resolved row is enqueued again; when a retriggered row of the same pull
\* request is in its way that row is resolved.
Reopen(i) ==
    /\ status[i] = "resolved"
    /\ \E replaced \in {{}} \cup {{r} : r \in {x \in ItemIds : status[x] = "retriggered"}} :
         status' = [x \in ItemIds |-> IF x = i THEN "pending"
                                      ELSE IF x \in replaced THEN "resolved"
                                      ELSE status[x]]
    /\ CreateEntries({i})
    /\ UNCHANGED request

\* A stale retriggered item goes back to pending.
ReopenStale(i) ==
    /\ status[i] = "retriggered"
    /\ status' = [status EXCEPT ![i] = "pending"]
    /\ CreateEntries({i})
    /\ UNCHANGED request

Retrigger(i) ==
    /\ status[i] = "pending"
    /\ status' = [status EXCEPT ![i] = "retriggered"]
    /\ UNCHANGED <<entry, lastEntry, request>>

Resolve(i) ==
    /\ i \in Active
    /\ status' = [status EXCEPT ![i] = "resolved"]
    /\ UNCHANGED <<entry, lastEntry, request>>

-----------------------------------------------------------------------------
(* Moving.                                                                  *)

Place(o, i) == CHOOSE k \in 1..Len(o) : o[k] = i

NewPositionMutant(o, i) == Place(o, i) + 1      \* numbered from 2

NewPosition(o, i) == Place(o, i)

\* Items without a queue_order row get one.
NormalizePositionsToOrder(o) ==
    LET placed == ToSet(o)
        missing == {i \in placed : entry[i] = NoEntry}
    IN  /\ entry' = [i \in ItemIds |->
                        IF i \notin placed THEN entry[i]
                        ELSE [id |-> IF i \in missing THEN lastEntry + 1
                                     ELSE entry[i].id,
                              position |-> NewPosition(o, i)]]
        /\ lastEntry' = lastEntry + Cardinality(missing)

\* One swap of moveItems: the item and its neighbour in the direction.
Swapped(o, i, selected, up) ==
    LET k == Place(o, i)
        n == IF up THEN k - 1 ELSE k + 1
    IN  IF n \in 1..Len(o) /\ o[n] \notin selected
        THEN [o EXCEPT ![k] = o[n], ![n] = i]
        ELSE o

\* The loop takes the selected items in the order read, last first when they
\* go down: the list after each of its rounds.
Turn(o, n, up) == o[IF up THEN n ELSE Len(o) + 1 - n]

Rounds(o, selected, up) ==
    LET after[n \in 0..Len(o)] ==
            IF n = 0 THEN o
            ELSE IF Turn(o, n, up) \in selected
                 THEN Swapped(after[n - 1], Turn(o, n, up), selected, up)
                 ELSE after[n - 1]
    IN  after

Moved(o, selected, up) == Rounds(o, selected, up)[Len(o)]

\* The handler answers 404 unless every item is in the order it reads.
RequestMove ==
    /\ request = NoRequest
    /\ \E items \in SUBSET Active \ {{}}, up \in BOOLEAN :
         request' = [items |-> items, up |-> up]
    /\ UNCHANGED <<status, entry, lastEntry>>

\* Items that left the order meanwhile are dropped.
MoveItems ==
    /\ request # NoRequest
    /\ LET selected == request.items \cap Active
       IN  IF selected = {} THEN UNCHANGED <<entry, lastEntry>>
           ELSE NormalizePositionsToOrder(
                    Moved(EffectiveOrder, selected, request.up))
    /\ request' = NoRequest
    /\ UNCHANGED status

MoveToTop(i) ==
    /\ i \in Active
    /\ NormalizePositionsToOrder(
           <<i>> \o RemoveAt(EffectiveOrder, Place(EffectiveOrder, i)))
    /\ UNCHANGED <<status, request>>

Next ==
    \/ \E i \in ItemIds : \/ Enqueue(i) \/ Reopen(i) \/ ReopenStale(i)
                          \/ Retrigger(i) \/ Resolve(i) \/ MoveToTop(i)
    \/ RequestMove \/ MoveItems

Spec == Init /\ [][Next]_vars

-----------------------------------------------------------------------------
(* Properties *)

\* The sort never has to break a tie: the order two readers see of the same
\* table is the same (business rule 7-1, positions may collide).
OrderIsTotal ==
    \A i, j \in Active : i # j => (Before(i, j) <=> ~Before(j, i))

List == INSTANCE OrderedList WITH
            Items <- ItemIds, Ancient <- Legacy,
            order <- EffectiveOrder, known <- Rows, asked <- request

\* The table implements the list its users see: new items join at the end,
\* resolving takes items out, and a move moves exactly the selected items by
\* one place (business rules 7-1 and 7-2).
ImplementsList == List!Spec
=============================================================================
