------------------------------ MODULE OrderedList ------------------------------
(****************************************************************************)
(* What the queue order promises its users (docs/business-rules.md, section *)
(* 7): one list of the active items, which only changes when an item joins  *)
(* or leaves and when somebody moves items in it.  QueueOrdering implements *)
(* it with nullable positions and the ids of queue_order rows.              *)
(*                                                                          *)
(* Each operation relates the list old to the list new it leaves.           *)
(****************************************************************************)
EXTENDS Naturals, FiniteSets, SequencesExt

CONSTANTS
    Items,
    Ancient             \* items older than the list itself

VARIABLES
    order,              \* the active items, first to trigger first
    known,              \* the items that have ever been in the list
    asked               \* the move somebody asked for: items, up or down

listVars == <<order, known, asked>>

IsList(o) == o \in Seq(ToSet(o)) /\ IsInjective(o)
Place(o, i) == CHOOSE k \in 1..Len(o) : o[k] = i

\* The items of S stay in the order they are in.
Keeps(old, new, S) ==
    \A i, j \in S : Place(old, i) < Place(old, j) <=> Place(new, i) < Place(new, j)

Init ==
    /\ known \subseteq Items /\ ToSet(order) \subseteq known
    /\ IsList(order)
    /\ asked.items = {}

\* An item never seen before joins at the end.
Entered(old, new, i) == i \notin known /\ new = Append(old, i)

\* A known item rejoins, perhaps in exchange for another: the rest keeps its
\* relative order.
Rejoined(old, new, i) ==
    /\ i \in known \ ToSet(old)
    /\ \E stay \in {ToSet(old)} \cup {ToSet(old) \ {j} : j \in ToSet(old)} :
         ToSet(new) = stay \cup {i} /\ Keeps(old, new, stay)

Left(old, new, i) ==
    /\ ToSet(new) = ToSet(old) \ {i}
    /\ Keeps(old, new, ToSet(new))

\* An item as old as that goes to the end when it is to be triggered again.
Requeued(old, new, i) ==
    /\ ToSet(new) = ToSet(old)
    /\ Keeps(old, new, ToSet(old) \ {i})
    /\ i = Last(new)

MovedToTop(old, new, i) ==
    /\ ToSet(new) = ToSet(old)
    /\ Keeps(old, new, ToSet(old) \ {i})
    /\ i = Head(new)

\* Every selected item moves one place, unless only selected ones are beyond
\* it; neither the selected items nor the others change places among
\* themselves.
Beyond(o, i, up) ==
    {j \in ToSet(o) : IF up THEN Place(o, j) < Place(o, i)
                      ELSE Place(o, i) < Place(o, j)}

Moved(old, new, S, up) ==
    /\ ToSet(new) = ToSet(old)
    /\ Keeps(old, new, S)
    /\ Keeps(old, new, ToSet(old) \ S)
    /\ \A i \in S :
         Place(new, i) = IF Beyond(old, i, up) \subseteq S THEN Place(old, i)
                         ELSE IF up THEN Place(old, i) - 1 ELSE Place(old, i) + 1

ItemsChange ==
    LET old == order
        new == order'
    IN  /\ \E i \in Items : \/ Entered(old, new, i) \/ Left(old, new, i)
                            \/ Rejoined(old, new, i) \/ MovedToTop(old, new, i)
                            \/ i \in Ancient /\ Requeued(old, new, i)
        /\ known' = known \cup ToSet(new)
        /\ UNCHANGED asked

Ask ==
    /\ asked'.items \subseteq ToSet(order)
    /\ UNCHANGED <<order, known>>

\* Items that have left since they were asked for are not moved.
Move ==
    /\ LET old == order
           new == order'
       IN  Moved(old, new, asked.items \cap ToSet(old), asked.up)
    /\ asked'.items = {}
    /\ UNCHANGED known

Next == (ItemsChange \/ Ask \/ Move) /\ IsList(order')

Spec == Init /\ [][Next]_listVars
=============================================================================
