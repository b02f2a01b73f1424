--------------------------- MODULE Dashboard_proofs ---------------------------
(****************************************************************************)
(* Proofs about Dashboard, for any number of requests, writes, reminders,   *)
(* events and pages and any history of the server: first the summary tab,   *)
(* then the lists that are loaded page by page, the event history and the   *)
(* activity list.                                                            *)
(****************************************************************************)
EXTENDS Dashboard, SequenceTheorems, FiniteSetTheorems, TLAPS

-----------------------------------------------------------------------------
(* Sequences of things under way.                                           *)

\* What is left when one of them is over.
LEMMA Removed ==
    ASSUME NEW S, NEW s \in Seq(S), NEW k \in 1..Len(s)
    PROVE  /\ RemoveAt(s, k) \in Seq(S)
           /\ Len(RemoveAt(s, k)) = Len(s) - 1
           /\ \A j \in 1..(Len(s) - 1) :
                 RemoveAt(s, k)[j] = IF j < k THEN s[j] ELSE s[j + 1]
<1> DEFINE a == SubSeq(s, 1, k - 1)
           b == SubSeq(s, k + 1, Len(s))
<1>1. Len(s) \in Nat /\ \A j \in 1..Len(s) : s[j] \in S
  BY LenProperties, ElementOfSeq
<1>2. /\ a \in Seq(S) /\ Len(a) = k - 1
      /\ \A j \in 1..(k - 1) : a[j] = s[j]
  BY <1>1, SubSeqProperties
<1>3. /\ b \in Seq(S) /\ Len(b) = Len(s) - k
      /\ \A j \in 1..(Len(s) - k) : b[j] = s[k + j]
  <2>1. \A j \in (k + 1)..Len(s) : s[j] \in S
    BY <1>1
  <2> QED  BY <1>1, <2>1, SubSeqProperties
<1> HIDE DEF a, b
<1>4. /\ a \o b \in Seq(S) /\ Len(a \o b) = Len(a) + Len(b)
      /\ \A j \in 1..(Len(a) + Len(b)) :
            (a \o b)[j] = IF j <= Len(a) THEN a[j] ELSE b[j - Len(a)]
  BY <1>2, <1>3, ConcatProperties
<1>5. RemoveAt(s, k) = a \o b
  BY DEF RemoveAt, a, b
<1>6. Len(a) + Len(b) = Len(s) - 1
  BY <1>1, <1>2, <1>3
<1>7. ASSUME NEW j \in 1..(Len(s) - 1)
      PROVE  (a \o b)[j] = IF j < k THEN s[j] ELSE s[j + 1]
  <2>1. (a \o b)[j] = IF j <= k - 1 THEN a[j] ELSE b[j - (k - 1)]
    BY <1>2, <1>4, <1>6
  <2>2. CASE j < k
    BY <1>2, <2>1, <2>2
  <2>3. CASE ~(j < k)
    <3> DEFINE m == j - (k - 1)
    <3>1. m \in 1..(Len(s) - k) /\ k + m = j + 1
      BY <1>1, <2>3
    <3>2. b[m] = s[k + m]
      BY <1>3, <3>1
    <3> QED  BY <2>1, <2>3, <3>1, <3>2
  <2> QED  BY <2>2, <2>3
<1> QED  BY <1>4, <1>5, <1>6, <1>7

\* Sending a request takes the last place of the ones before.
LEMMA Sent ==
    ASSUME NEW s \in Seq(StateFlight)
    PROVE  LET n == Send(s, NewStateFlight)
           IN  /\ n \in Seq(StateFlight) /\ Len(n) = Len(s) + 1
               /\ n[Len(n)] = NewStateFlight
               /\ \A k \in 1..Len(s) : /\ n[k].last = FALSE
                                       /\ n[k].readAt = s[k].readAt
<1>1. Len(s) \in Nat /\ DOMAIN s = 1..Len(s) /\ \A k \in 1..Len(s) : s[k] \in StateFlight
  BY LenProperties, ElementOfSeq
<1> DEFINE old == Superseded(s)
<1>2. old \in [1..Len(s) -> StateFlight]
  BY <1>1 DEF Superseded, StateFlight
<1>3. \A k \in 1..Len(s) : old[k].last = FALSE /\ old[k].readAt = s[k].readAt
  BY <1>1 DEF Superseded, StateFlight
<1>4. old \in Seq(StateFlight) /\ Len(old) = Len(s)
  BY <1>1, <1>2
<1>5. NewStateFlight \in StateFlight
  BY DEF NewStateFlight, StateFlight, Unread
<1>6. Send(s, NewStateFlight) = Append(old, NewStateFlight)
  BY DEF Send
<1> HIDE DEF old
<1>7. /\ Append(old, NewStateFlight) \in Seq(StateFlight)
      /\ Len(Append(old, NewStateFlight)) = Len(old) + 1
      /\ \A k \in 1..Len(old) : Append(old, NewStateFlight)[k] = old[k]
      /\ Append(old, NewStateFlight)[Len(old) + 1] = NewStateFlight
  BY <1>4, <1>5, AppendProperties
<1> QED  BY <1>1, <1>3, <1>4, <1>6, <1>7

-----------------------------------------------------------------------------
(* The panel while it is followed: the summary, its writes, its reminder.   *)

\* What the summary and its buttons look at in the history.
Seen == {"order", "pause", "resume"} \cup Runs

\* Only the last request may still change what is shown, and once it was read
\* it is neither older than what is shown nor than a write acknowledged.
Flights ==
    /\ history \in Seq(Seen)
    /\ shown \in Instants \cup {NoData}
    /\ stale \in BOOLEAN
    /\ acked \in Instants
    /\ stateFlights \in Seq(StateFlight)
    /\ \A k \in 1..Len(stateFlights) :
         /\ stateFlights[k].readAt \in Instants \cup {Unread}
         /\ stateFlights[k].last =>
              /\ k = Len(stateFlights)
              /\ stateFlights[k].readAt # Unread
                 => stateFlights[k].readAt >= acked /\ stateFlights[k].readAt >= shown

\* Every button that is off has a write under way, committed by now or not yet.
UnderWay ==
    /\ openWrites \in Seq(OpenWrite)
    /\ \A k \in 1..Len(openWrites) : openWrites[k].at <= Now
    /\ busy \subseteq BusyFlags
    /\ dialog \in BOOLEAN
    /\ \A flag \in busy : \E k \in 1..Len(openWrites) : flag = Flag(openWrites[k].kind)

\* Timers and the request for one are at most one, and none without a pause
\* on screen.
Reminders ==
    /\ asking \in BOOLEAN
    /\ strays \in Nat
    /\ alarms \in Seq({"initial", "repeat"})
    /\ Len(alarms) + (IF asking THEN 1 ELSE 0) <= IF ShownPaused THEN 1 ELSE 0

\* The panel while another one is followed: nothing it asked for is answered.
Idle ==
    /\ shown = NoData /\ stale = FALSE /\ acked = 0
    /\ stateFlights \in {<<>>, <<NewStateFlight>>}
    /\ openWrites = <<>> /\ busy = {} /\ dialog = FALSE
    /\ asking = FALSE /\ strays = 0 /\ alarms = <<>>

\* The inductive invariant of the summary.
PanelInv ==
    IF followed = "summary" THEN Flights /\ UnderWay /\ Reminders ELSE Idle

\* An answer not yet there says nothing of a pause.
LEMMA NothingShown == ASSUME shown = NoData PROVE ~ShownPaused
  BY DEF ShownPaused, PausedAt, NoData, Unread

\* What a query saw stays what it was when the server goes on.
LEMMA Committed ==
    ASSUME NEW S, history \in Seq(S), NEW w \in S, Commit(w)
    PROVE  /\ history' \in Seq(S) /\ Now \in Nat /\ Now' = Now + 1
           /\ \A v \in Instants \cup {NoData} : PausedAt(v)' <=> PausedAt(v)
<1>1. Now \in Nat
  BY LenProperties DEF Now
<1>2. /\ history' \in Seq(S) /\ Now' = Now + 1
      /\ \A i \in 1..Now : history'[i] = history[i]
  BY AppendProperties DEF Commit, Now
<1>3. ASSUME NEW v \in Instants \cup {NoData}
      PROVE  PausedAt(v)' <=> PausedAt(v)
  <2>1. \A i \in 1..v : history'[i] = history[i]
    BY <1>1, <1>2 DEF Instants, NoData, Unread
  <2>2. \A i \in 1..v : \A j \in (i + 1)..v : history'[j] = history[j]
    BY <1>1, <2>1 DEF Instants, NoData, Unread
  <2> QED  BY <2>1, <2>2 DEF PausedAt
<1> QED  BY <1>1, <1>2, <1>3

\* The panel that has just been mounted, and followed from there.
Mounted == history \in Seq(Seen) /\ Idle

\* Mounting begins with no write acknowledged and one request under way.
LEMMA PanelStarts == Mounted => Flights /\ UnderWay /\ Reminders
<1> SUFFICES ASSUME Mounted PROVE Flights /\ UnderWay /\ Reminders
  OBVIOUS
<1> USE DEF Mounted, Idle
<1>1. NewStateFlight \in StateFlight /\ NewStateFlight.readAt = Unread
  BY DEF NewStateFlight, StateFlight, Unread
<1>2. Now \in Nat /\ 0 \in Instants
  BY LenProperties DEF Now, Instants
<1>3. Flights
  <2>1. CASE stateFlights = <<>>
    <3>1. stateFlights \in Seq(StateFlight) /\ 1..Len(stateFlights) = {}
      BY <2>1, EmptySeq
    <3>2. stale \in BOOLEAN /\ acked \in Instants /\ shown \in Instants \cup {NoData}
      BY <1>2
    <3> QED  BY <3>1, <3>2 DEF Flights
  <2>2. CASE stateFlights = <<NewStateFlight>>
    <3>1. /\ stateFlights \in Seq(StateFlight) /\ Len(stateFlights) = 1
          /\ stateFlights[1] = NewStateFlight
      BY <1>1, <2>2
    <3>2. \A k \in 1..Len(stateFlights) :
             k = Len(stateFlights) /\ stateFlights[k].readAt = Unread
      BY <1>1, <3>1
    <3> QED  BY <1>2, <3>1, <3>2 DEF Flights
  <2> QED  BY <2>1, <2>2
<1>4. UnderWay
  <2>1. openWrites \in Seq(OpenWrite) /\ Len(openWrites) = 0
    BY EmptySeq
  <2>2. 1..Len(openWrites) = {}
    BY <2>1
  <2>3. busy \subseteq BusyFlags /\ dialog \in BOOLEAN
    OBVIOUS
  <2> QED  BY <2>1, <2>2, <2>3 DEF UnderWay
<1>5. Reminders
  <2>1. alarms \in Seq({"initial", "repeat"}) /\ Len(alarms) = 0
    BY EmptySeq
  <2>2. Len(alarms) + (IF asking THEN 1 ELSE 0) = 0
    BY <2>1
  <2>3. asking \in BOOLEAN /\ strays \in Nat
    OBVIOUS
  <2>4. (IF ShownPaused THEN 1 ELSE 0) >= 0
    OBVIOUS
  <2> QED  BY <2>1, <2>2, <2>3, <2>4 DEF Reminders
<1> QED  BY <1>3, <1>4, <1>5

-----------------------------------------------------------------------------
(* The requests for the state.                                              *)

\* A request sent is the last, and nothing has been read for it.
LEMMA FlightsSent ==
    ASSUME Flights, UNCHANGED <<history, shown>>, stale' \in BOOLEAN,
           acked' \in Instants, stateFlights' = Send(stateFlights, NewStateFlight)
    PROVE  Flights'
<1> DEFINE n == Send(stateFlights, NewStateFlight)
<1>1. /\ n \in Seq(StateFlight) /\ Len(n) = Len(stateFlights) + 1
      /\ n[Len(n)] = NewStateFlight
      /\ \A k \in 1..Len(stateFlights) : /\ n[k].last = FALSE
                                         /\ n[k].readAt = stateFlights[k].readAt
  BY Sent DEF Flights
<1>2. Len(stateFlights) \in Nat /\ NewStateFlight.readAt = Unread
  BY LenProperties DEF Flights, NewStateFlight
<1> HIDE DEF n
<1>3. ASSUME NEW k \in 1..Len(n)
      PROVE  /\ n[k].readAt \in Instants \cup {Unread}
             /\ n[k].last => k = Len(n) /\ n[k].readAt = Unread
  <2>1. CASE k = Len(n)
    BY <1>1, <1>2, <2>1
  <2>2. CASE k # Len(n)
    <3>1. k \in 1..Len(stateFlights)
      BY <1>1, <1>2, <2>2
    <3>2. stateFlights[k].readAt \in Instants \cup {Unread}
      BY <3>1 DEF Flights
    <3> QED  BY <1>1, <3>1, <3>2
  <2> QED  BY <2>1, <2>2
<1>4. Instants' = Instants
  BY DEF Instants, Now
<1>5. stateFlights' = n
  BY DEF n
<1> QED  BY <1>1, <1>3, <1>4, <1>5 DEF Flights

\* The query of the last request sees what was acknowledged and shown before.
LEMMA FlightsRead ==
    ASSUME Flights, NEW k \in DOMAIN stateFlights, ReadState(k)
    PROVE  Flights'
<1>1. DOMAIN stateFlights = 1..Len(stateFlights) /\ Now \in Nat
  BY LenProperties DEF Flights, Now
<1>2. stateFlights[k] \in StateFlight
  BY <1>1, ElementOfSeq DEF Flights
<1> DEFINE f == [stateFlights[k] EXCEPT !.readAt = Now]
<1>3. f \in StateFlight /\ f.readAt = Now /\ f.last = stateFlights[k].last
  BY <1>1, <1>2 DEF StateFlight
<1>4. stateFlights' = [stateFlights EXCEPT ![k] = f]
  BY DEF ReadState, Answered
<1> HIDE DEF f
<1>5. /\ stateFlights' \in Seq(StateFlight) /\ Len(stateFlights') = Len(stateFlights)
      /\ \A j \in 1..Len(stateFlights) :
            stateFlights'[j] = IF j = k THEN f ELSE stateFlights[j]
  BY <1>1, <1>3, <1>4, ExceptSeq DEF Flights
<1>6. /\ UNCHANGED <<history, shown, stale, acked>>
      /\ Now \in Instants /\ acked <= Now /\ shown <= Now
  <2>1. UNCHANGED <<history, shown, stale, acked>>
    BY DEF ReadState, writeVars
  <2>2. Now \in Instants
    BY <1>1 DEF Instants
  <2>3. acked \in 0..Now /\ shown \in (0..Now) \cup {-1}
    BY DEF Flights, Instants, NoData, Unread
  <2> QED  BY <1>1, <2>1, <2>2, <2>3
<1>7. Instants' = Instants
  BY <1>6 DEF Instants, Now
<1> QED  BY <1>1, <1>3, <1>5, <1>6, <1>7 DEF Flights

\* A request over, the last of which may have changed what is shown.
LEMMA FlightsOver ==
    ASSUME Flights, NEW k \in DOMAIN stateFlights,
           UNCHANGED <<history, acked>>, stale' \in BOOLEAN,
           stateFlights' = RemoveAt(stateFlights, k),
           \/ shown' = shown
           \/ /\ stateFlights[k].last /\ stateFlights[k].readAt # Unread
              /\ shown' = stateFlights[k].readAt
    PROVE  Flights'
<1>1. DOMAIN stateFlights = 1..Len(stateFlights) /\ Len(stateFlights) \in Nat
  BY LenProperties DEF Flights
<1>2. /\ stateFlights' \in Seq(StateFlight)
      /\ Len(stateFlights') = Len(stateFlights) - 1
      /\ \A j \in 1..Len(stateFlights') :
            stateFlights'[j] = IF j < k THEN stateFlights[j] ELSE stateFlights[j + 1]
  <2>1. stateFlights \in Seq(StateFlight) /\ k \in 1..Len(stateFlights)
    BY <1>1 DEF Flights
  <2> DEFINE n == RemoveAt(stateFlights, k)
  <2>2. /\ n \in Seq(StateFlight) /\ Len(n) = Len(stateFlights) - 1
        /\ \A j \in 1..(Len(stateFlights) - 1) :
              n[j] = IF j < k THEN stateFlights[j] ELSE stateFlights[j + 1]
    BY <2>1, Removed
  <2> HIDE DEF n
  <2>3. stateFlights' = n
    BY DEF n
  <2> QED  BY <2>2, <2>3
<1>3. Instants' = Instants
  BY DEF Instants, Now
<1>4. shown' \in Instants \cup {NoData}
  BY <1>1 DEF Flights
<1>5. ASSUME NEW j \in 1..Len(stateFlights')
      PROVE  /\ stateFlights'[j].readAt \in Instants \cup {Unread}
             /\ stateFlights'[j].last =>
                  /\ j = Len(stateFlights')
                  /\ stateFlights'[j].readAt # Unread
                     => stateFlights'[j].readAt >= acked /\ stateFlights'[j].readAt >= shown'
  <2>0. /\ Len(stateFlights) \in Nat /\ Len(stateFlights') = Len(stateFlights) - 1
        /\ k \in Int /\ k <= Len(stateFlights)
        /\ j \in Int /\ 1 <= j /\ j <= Len(stateFlights')
    <3>1. k \in 1..Len(stateFlights)
      BY <1>1
    <3> QED  BY <1>1, <1>2, <3>1
  <2>1. PICK i \in 1..Len(stateFlights) :
           /\ i # k /\ stateFlights'[j] = stateFlights[i]
           /\ i = Len(stateFlights) => j = Len(stateFlights')
    <3>1. CASE j < k
      <4>1. j \in 1..Len(stateFlights) /\ j # k /\ j # Len(stateFlights)
        BY <2>0, <3>1
      <4>2. stateFlights'[j] = stateFlights[j]
        BY <1>2, <3>1
      <4> QED  BY <4>1, <4>2
    <3>2. CASE ~(j < k)
      <4>1. j + 1 \in 1..Len(stateFlights) /\ j + 1 # k
        BY <2>0, <3>2
      <4>2. j + 1 = Len(stateFlights) => j = Len(stateFlights')
        BY <2>0
      <4>3. stateFlights'[j] = stateFlights[j + 1]
        BY <1>2, <3>2
      <4> QED  BY <4>1, <4>2, <4>3
    <3> QED  BY <3>1, <3>2
  <2>2. /\ stateFlights[i].readAt \in Instants \cup {Unread}
        /\ stateFlights[i].last =>
              /\ i = Len(stateFlights)
              /\ stateFlights[i].readAt # Unread
                 => stateFlights[i].readAt >= acked /\ stateFlights[i].readAt >= shown
    BY DEF Flights
  <2>3. stateFlights[k].last => ~stateFlights[i].last
    BY <1>1, <2>1, <2>2 DEF Flights
  <2> QED  BY <2>1, <2>2, <2>3
<1> QED  BY <1>2, <1>3, <1>4, <1>5 DEF Flights

\* The server goes on without the panel.
LEMMA FlightsCommitted ==
    ASSUME Flights, NEW w \in Seen, Commit(w),
           UNCHANGED <<shown, stale, acked, stateFlights>>
    PROVE  Flights'
<1>1. history' \in Seq(Seen) /\ Now \in Nat /\ Now' = Now + 1
  BY Committed DEF Flights
<1>2. Instants \subseteq Instants'
  BY <1>1 DEF Instants
<1> QED  BY <1>1, <1>2 DEF Flights

\* Nothing the requests depend on changes.
LEMMA FlightsKept ==
    ASSUME Flights, UNCHANGED <<history, shown, stale, acked, stateFlights>>
    PROVE  Flights'
  BY DEF Flights, Instants, Now

-----------------------------------------------------------------------------
(* The writes.                                                              *)

\* The server goes on, or stays, without the writes of the panel.
LEMMA UnderWayKept ==
    ASSUME UnderWay, UNCHANGED <<openWrites, busy, dialog>>,
           Now \in Nat, Now' \in Nat, Now <= Now'
    PROVE  UnderWay'
<1>0. \A k \in 1..Len(openWrites) : openWrites[k] \in OpenWrite
  BY ElementOfSeq DEF UnderWay
<1>1. \A k \in 1..Len(openWrites) : openWrites[k].at <= Now /\ openWrites[k].at \in Nat
  BY <1>0 DEF UnderWay, OpenWrite
<1>2. \A k \in 1..Len(openWrites) : openWrites[k].at <= Now'
  BY <1>1
<1> QED  BY <1>2 DEF UnderWay

\* A button that is pressed is off with the write it began.
LEMMA UnderWayBegun ==
    ASSUME UnderWay, history' = history, Now \in Nat, NEW kind \in Kinds,
           NEW override \in BOOLEAN, dialog' \in BOOLEAN, Begin(kind, override)
    PROVE  UnderWay'
<1> DEFINE w == [kind |-> kind, override |-> override, at |-> 0]
<1>1. w \in OpenWrite /\ w.kind = kind /\ w.at = 0
  BY DEF OpenWrite
<1>2. openWrites' = Append(openWrites, w) /\ busy' = busy \cup {Flag(kind)}
  BY DEF Begin
<1> HIDE DEF w
<1>3. /\ openWrites' \in Seq(OpenWrite) /\ Len(openWrites') = Len(openWrites) + 1
      /\ \A k \in 1..Len(openWrites) : openWrites'[k] = openWrites[k]
      /\ openWrites'[Len(openWrites) + 1] = w
  BY <1>1, <1>2, AppendProperties DEF UnderWay
<1>4. Len(openWrites) \in Nat /\ Now' = Now
  BY LenProperties DEF UnderWay, Now
<1>5. \A k \in 1..Len(openWrites') : openWrites'[k].at <= Now'
  <2> SUFFICES ASSUME NEW k \in 1..Len(openWrites') PROVE openWrites'[k].at <= Now'
    OBVIOUS
  <2>1. k \in 1..Len(openWrites) \/ k = Len(openWrites) + 1
    BY <1>3, <1>4
  <2>2. CASE k \in 1..Len(openWrites)
    BY <1>3, <1>4, <2>2 DEF UnderWay
  <2>3. CASE k = Len(openWrites) + 1
    BY <1>1, <1>3, <1>4, <2>3
  <2> QED  BY <2>1, <2>2, <2>3
<1>6. busy' \subseteq BusyFlags
  BY <1>2 DEF UnderWay, Flag, BusyFlags
<1>7. ASSUME NEW flag \in busy'
      PROVE  \E k \in 1..Len(openWrites') : flag = Flag(openWrites'[k].kind)
  <2>1. CASE flag = Flag(kind)
    <3>1. Len(openWrites) + 1 \in 1..Len(openWrites')
      BY <1>3, <1>4
    <3> QED  BY <1>1, <1>3, <2>1, <3>1
  <2>2. CASE flag # Flag(kind)
    <3>1. PICK k \in 1..Len(openWrites) : flag = Flag(openWrites[k].kind)
      BY <1>2, <2>2 DEF UnderWay
    <3>2. k \in 1..Len(openWrites') /\ openWrites'[k] = openWrites[k]
      BY <1>3, <1>4
    <3> QED  BY <3>1, <3>2
  <2> QED  BY <2>1, <2>2
<1> QED  BY <1>3, <1>5, <1>6, <1>7 DEF UnderWay

\* A write that is committed is still under way.
LEMMA UnderWayCommitted ==
    ASSUME UnderWay, Now \in Nat, Now' = Now + 1, NEW k \in DOMAIN openWrites,
           openWrites' = [openWrites EXCEPT ![k].at = Now + 1],
           UNCHANGED <<busy, dialog>>
    PROVE  UnderWay'
<1>1. DOMAIN openWrites = 1..Len(openWrites)
  BY LenProperties DEF UnderWay
<1>2. \A j \in 1..Len(openWrites) :
         openWrites[j] \in OpenWrite /\ openWrites[j].at <= Now
  BY ElementOfSeq DEF UnderWay
<1> DEFINE w == [openWrites[k] EXCEPT !.at = Now + 1]
<1>3. w \in OpenWrite /\ w.kind = openWrites[k].kind /\ w.at = Now + 1
  BY <1>1, <1>2 DEF OpenWrite
<1>4. openWrites' = [openWrites EXCEPT ![k] = w]
  OBVIOUS
<1> HIDE DEF w
<1>5. /\ openWrites' \in Seq(OpenWrite) /\ Len(openWrites') = Len(openWrites)
      /\ \A j \in 1..Len(openWrites) : openWrites'[j] = IF j = k THEN w ELSE openWrites[j]
  BY <1>1, <1>3, <1>4, ExceptSeq DEF UnderWay
<1>6. \A j \in 1..Len(openWrites) : openWrites'[j].at <= Now'
  BY <1>2, <1>3, <1>5 DEF OpenWrite
<1>7. \A j \in 1..Len(openWrites) : openWrites'[j].kind = openWrites[j].kind
  BY <1>3, <1>5
<1> QED  BY <1>5, <1>6, <1>7 DEF UnderWay

\* A write that is over leaves its button on, and the others as they were.
LEMMA UnderWayOver ==
    ASSUME UnderWay, history' = history, dialog' = dialog, NEW k \in DOMAIN openWrites,
           openWrites' = RemoveAt(openWrites, k),
           busy' = busy \ {Flag(openWrites[k].kind)}
    PROVE  UnderWay'
<1>1. DOMAIN openWrites = 1..Len(openWrites) /\ Len(openWrites) \in Nat
  BY LenProperties DEF UnderWay
<1>2. /\ openWrites' \in Seq(OpenWrite)
      /\ Len(openWrites') = Len(openWrites) - 1
      /\ \A j \in 1..Len(openWrites') :
            openWrites'[j] = IF j < k THEN openWrites[j] ELSE openWrites[j + 1]
  <2>1. openWrites \in Seq(OpenWrite) /\ k \in 1..Len(openWrites)
    BY <1>1 DEF UnderWay
  <2> DEFINE n == RemoveAt(openWrites, k)
  <2>2. /\ n \in Seq(OpenWrite) /\ Len(n) = Len(openWrites) - 1
        /\ \A j \in 1..(Len(openWrites) - 1) :
              n[j] = IF j < k THEN openWrites[j] ELSE openWrites[j + 1]
    BY <2>1, Removed
  <2> HIDE DEF n
  <2>3. openWrites' = n
    BY DEF n
  <2> QED  BY <2>2, <2>3
<1>3. k \in Int /\ 1 <= k /\ k <= Len(openWrites)
  <2>1. k \in 1..Len(openWrites)
    BY <1>1
  <2> QED  BY <1>1, <2>1
<1>4. \A j \in 1..Len(openWrites') : openWrites'[j].at <= Now'
  <2> SUFFICES ASSUME NEW j \in 1..Len(openWrites') PROVE openWrites'[j].at <= Now
    BY DEF Now
  <2>1. j \in 1..Len(openWrites) /\ j + 1 \in 1..Len(openWrites)
    BY <1>1, <1>2
  <2> QED  BY <1>2, <2>1 DEF UnderWay
<1>5. ASSUME NEW flag \in busy'
      PROVE  \E j \in 1..Len(openWrites') : flag = Flag(openWrites'[j].kind)
  <2>1. PICK i \in 1..Len(openWrites) : flag = Flag(openWrites[i].kind) /\ i # k
    BY DEF UnderWay
  <2>2. CASE i < k
    <3>1. i \in 1..Len(openWrites') /\ openWrites'[i] = openWrites[i]
      BY <1>1, <1>2, <1>3, <2>2
    <3> QED  BY <2>1, <3>1
  <2>3. CASE ~(i < k)
    <3>1. i - 1 \in 1..Len(openWrites') /\ ~(i - 1 < k) /\ (i - 1) + 1 = i
      BY <1>1, <1>2, <1>3, <2>1, <2>3
    <3>2. openWrites'[i - 1] = openWrites[i]
      BY <1>2, <3>1
    <3> QED  BY <2>1, <3>1, <3>2
  <2> QED  BY <2>2, <2>3
<1> QED  BY <1>2, <1>4, <1>5 DEF UnderWay

-----------------------------------------------------------------------------
(* The reminder.                                                            *)

\* clearTimers forgets no timer, because there never was a second.
LEMMA AllCleared == ASSUME Reminders PROVE Cleared = <<>>
<1>1. alarms \in Seq({"initial", "repeat"}) /\ Len(alarms) \in Nat
  BY LenProperties DEF Reminders
<1>2. Len(alarms) <= 1
  BY <1>1 DEF Reminders
<1>3. CASE alarms = <<>>
  BY <1>3 DEF Cleared
<1>4. CASE alarms # <<>>
  <2>1. Len(alarms) - 1 \in Int /\ Len(alarms) - 1 < 1
    BY <1>1, <1>2
  <2> QED  BY <1>4, <2>1, SubSeqEmpty DEF Cleared, Front
<1> QED  BY <1>3, <1>4

\* What is shown still says the same of the pause.
LEMMA RemindersKept ==
    ASSUME Reminders, UNCHANGED reminderVars, ShownPaused' <=> ShownPaused
    PROVE  Reminders'
  BY DEF Reminders, reminderVars

\* Either nothing runs and a request for the delays is sent, or the one thing
\* that runs is ended.
LEMMA RemindersTurned ==
    ASSUME Reminders, NEW paused \in BOOLEAN, RemindOf(paused), ShownPaused' <=> paused
    PROVE  Reminders'
<1>1. alarms \in Seq({"initial", "repeat"}) /\ Len(alarms) \in Nat
  BY LenProperties DEF Reminders
<1>2. CASE paused <=> ShownPaused
  <2>1. paused = ShownPaused
    BY <1>2 DEF ShownPaused, PausedAt
  <2> QED  BY <1>2, <2>1, RemindersKept DEF RemindOf
<1>3. CASE paused /\ ~ShownPaused
  <2>1. Len(alarms) = 0
    BY <1>1, <1>3 DEF Reminders
  <2>2. asking' = TRUE /\ UNCHANGED <<strays, alarms>>
    BY <1>3 DEF RemindOf
  <2>3. Len(alarms') = 0 /\ asking' = TRUE /\ ShownPaused'
    BY <1>3, <2>1, <2>2
  <2>4. alarms' \in Seq({"initial", "repeat"}) /\ strays' \in Nat /\ asking' \in BOOLEAN
    BY <1>1, <2>2 DEF Reminders
  <2>5. Len(alarms') + (IF asking' THEN 1 ELSE 0) <= IF ShownPaused' THEN 1 ELSE 0
    BY <2>3
  <2> QED  BY <2>4, <2>5 DEF Reminders
<1>4. CASE ~paused /\ ShownPaused
  <2>1. /\ asking' = FALSE /\ alarms' = <<>>
        /\ strays' = IF asking THEN strays + 1 ELSE strays
    BY <1>4, AllCleared DEF RemindOf
  <2>2. alarms' \in Seq({"initial", "repeat"}) /\ Len(alarms') = 0
    BY <2>1, EmptySeq
  <2>3. Len(alarms') + (IF asking' THEN 1 ELSE 0) = 0 /\ (IF ShownPaused' THEN 1 ELSE 0) = 0
    BY <1>4, <2>1, <2>2
  <2>4. strays' \in Nat
    BY <2>1 DEF Reminders
  <2>5. Len(alarms') + (IF asking' THEN 1 ELSE 0) <= IF ShownPaused' THEN 1 ELSE 0
    BY <2>3
  <2> QED  BY <2>1, <2>2, <2>4, <2>5 DEF Reminders
<1> QED  BY <1>2, <1>3, <1>4

\* An answer for the delays starts a timer in the place of its request, and an
\* answer to an effect that was cleaned up starts none.
LEMMA RemindersAnswered ==
    ASSUME Reminders, ShownPaused' <=> ShownPaused,
           \/ \E present \in BOOLEAN : ConfigArrives(present)
           \/ ConfigFails \/ FirstReminder
    PROVE  Reminders'
<1>1. /\ alarms \in Seq({"initial", "repeat"}) /\ Len(alarms) \in Nat
      /\ DOMAIN alarms = 1..Len(alarms) /\ strays \in Nat /\ asking \in BOOLEAN
  BY LenProperties DEF Reminders
<1>0. (IF asking THEN Len(alarms) + 1 ELSE Len(alarms)) <= IF ShownPaused THEN 1 ELSE 0
  BY <1>1 DEF Reminders
<1>2. CASE asking /\ asking' = FALSE /\ UNCHANGED <<strays, alarms>>
  <2>1. Len(alarms') + (IF asking' THEN 1 ELSE 0) <= IF ShownPaused' THEN 1 ELSE 0
    BY <1>0, <1>1, <1>2
  <2> QED  BY <1>1, <1>2, <2>1 DEF Reminders
<1>3. CASE asking /\ asking' = FALSE /\ alarms' = Append(alarms, "initial") /\ strays' = strays
  <2>1. alarms' \in Seq({"initial", "repeat"}) /\ Len(alarms') = Len(alarms) + 1
    BY <1>1, <1>3, AppendProperties
  <2>2. Len(alarms') + (IF asking' THEN 1 ELSE 0) <= IF ShownPaused' THEN 1 ELSE 0
    BY <1>0, <1>1, <1>3, <2>1
  <2> QED  BY <1>1, <1>3, <2>1, <2>2 DEF Reminders
<1>4. CASE strays > 0 /\ strays' = strays - 1 /\ UNCHANGED <<asking, alarms>>
  BY <1>1, <1>4 DEF Reminders
<1>5. CASE FirstReminder
  <2>1. PICK k \in 1..Len(alarms) : alarms' = [alarms EXCEPT ![k] = "repeat"]
    BY <1>1, <1>5 DEF FirstReminder
  <2>2. alarms' \in Seq({"initial", "repeat"}) /\ Len(alarms') = Len(alarms)
    BY <1>1, <2>1, ExceptSeq
  <2> QED  BY <1>5, <2>2 DEF Reminders, FirstReminder
<1> QED  BY <1>2, <1>3, <1>4, <1>5 DEF ConfigArrives, ConfigFails

-----------------------------------------------------------------------------
(* The steps.                                                               *)

\* What the two action properties ask of a step that shows something else.
Forward == Loaded' /\ shown' # shown => shown' >= shown /\ shown' >= acked

\* As long as neither the server nor what is shown changes, neither does what
\* is shown of the pause.
LEMMA SameShown ==
    ASSUME UNCHANGED <<history, shown>>
    PROVE  (ShownPaused' <=> ShownPaused) /\ Now' = Now /\ Instants' = Instants
  BY DEF ShownPaused, PausedAt, Now, Instants

\* A step of the panel that leaves the requests, the server and the reminder
\* alone: a button.
LEMMA ButtonStep ==
    ASSUME Flights, UnderWay, Reminders,
           Move \/ MoveToTop \/ RetriggerNow \/ Confirm \/ Cancel \/ TogglePaused
    PROVE  Flights' /\ UnderWay' /\ Reminders' /\ shown' = shown
<1>1. UNCHANGED <<history, fetchVars, acked, reminderVars>>
  BY DEF Move, MoveToTop, RetriggerNow, Confirm, Cancel, TogglePaused
<1>2. UNCHANGED <<history, shown, stale, acked, stateFlights, reminderVars>>
  BY <1>1 DEF fetchVars
<1>3. Flights' /\ Reminders'
  BY <1>2, FlightsKept, SameShown, RemindersKept
<1>4. Now \in Nat
  BY LenProperties DEF Flights, Now
<1>5. CASE /\ dialog' \in BOOLEAN
           /\ \E kind \in Kinds, override \in BOOLEAN : Begin(kind, override)
  <2>1. PICK kind \in Kinds, override \in BOOLEAN : Begin(kind, override)
    BY <1>5
  <2>2. UnderWay'
    BY <1>2, <1>4, <1>5, <2>1, UnderWayBegun
  <2> QED  BY <1>2, <1>3, <2>2
<1>6. CASE dialog' \in BOOLEAN /\ UNCHANGED <<openWrites, busy>>
  <2>1. openWrites' = openWrites /\ busy' = busy /\ Now' = Now
    BY <1>2, <1>6, SameShown
  <2>2. UnderWay'
    BY <1>6, <2>1 DEF UnderWay
  <2> QED  BY <1>2, <1>3, <2>2
<1>7. dialog' \in BOOLEAN
  BY DEF UnderWay, Move, MoveToTop, RetriggerNow, Confirm, Cancel, TogglePaused
<1>8. \/ \E kind \in Kinds, override \in BOOLEAN : Begin(kind, override)
      \/ UNCHANGED <<openWrites, busy>>
  <2>1. ShownPaused \in BOOLEAN
    BY DEF ShownPaused, PausedAt
  <2>2. {"move", "top", "retrigger", "pause", "resume"} = Kinds
    BY DEF Kinds, QueueWrites
  <2>3. CASE Move
    BY <2>2, <2>3 DEF Move
  <2>4. CASE MoveToTop
    BY <2>2, <2>4 DEF MoveToTop
  <2>5. CASE RetriggerNow
    BY <2>2, <2>5 DEF RetriggerNow
  <2>6. CASE Confirm
    BY <2>1, <2>2, <2>6 DEF Confirm
  <2>7. CASE Cancel
    BY <2>7 DEF Cancel
  <2>8. CASE TogglePaused
    BY <2>2, <2>8 DEF TogglePaused
  <2> QED  BY <2>3, <2>4, <2>5, <2>6, <2>7, <2>8
<1> QED  BY <1>2, <1>3, <1>5, <1>6, <1>7, <1>8

\* A request for the state is sent, read, answered or fails.
LEMMA RequestStep ==
    ASSUME Flights, UnderWay, Reminders,
           Poll \/ \E k \in DOMAIN stateFlights :
                      ReadState(k) \/ StateArrives(k) \/ StateFails(k)
    PROVE  Flights' /\ UnderWay' /\ Reminders' /\ Forward
<1>1. UNCHANGED <<history, openWrites, busy, dialog, acked>>
  BY DEF Poll, ReadState, StateArrives, StateFails, writeVars
<1>2. Now \in Nat /\ Now' = Now /\ acked \in Instants /\ stale \in BOOLEAN
  BY <1>1, LenProperties DEF Flights, Now
<1>3. UnderWay'
  BY <1>1, <1>2, UnderWayKept
<1>4. CASE Poll
  <2>1. UNCHANGED <<shown, stale, reminderVars>>
    BY <1>4 DEF Poll
  <2>2. stateFlights' = Send(stateFlights, NewStateFlight)
    BY <1>4 DEF Poll, FetchState
  <2> QED
    BY <1>1, <1>2, <1>3, <2>1, <2>2, FlightsSent, SameShown, RemindersKept DEF Forward
<1>5. ASSUME NEW k \in DOMAIN stateFlights, ReadState(k)
      PROVE  Flights' /\ Reminders' /\ Forward
  <2>1. UNCHANGED <<shown, reminderVars>>
    BY <1>5 DEF ReadState
  <2> QED  BY <1>1, <1>5, <2>1, FlightsRead, SameShown, RemindersKept DEF Forward
<1>6. ASSUME NEW k \in DOMAIN stateFlights, StateArrives(k)
      PROVE  Flights' /\ Reminders' /\ Forward
  <2> DEFINE f == stateFlights[k]
  <2>1. /\ f.readAt # Unread /\ stateFlights' = RemoveAt(stateFlights, k)
        /\ k \in 1..Len(stateFlights)
    BY <1>6, LenProperties DEF StateArrives, Flights
  <2>2. CASE f.last
    <3>1. /\ shown' = f.readAt /\ stale' \in BOOLEAN /\ RemindOf(PausedAt(f.readAt))
      BY <1>6, <2>2 DEF StateArrives
    <3>2. f.readAt >= acked /\ f.readAt >= shown
      BY <2>1, <2>2 DEF Flights
    <3>3. Flights'
      BY <1>1, <2>1, <2>2, <3>1, FlightsOver
    <3>4. PausedAt(f.readAt) \in BOOLEAN /\ (ShownPaused' <=> PausedAt(f.readAt))
      BY <1>1, <3>1 DEF ShownPaused, PausedAt
    <3>5. Reminders'
      BY <3>1, <3>4, RemindersTurned
    <3> QED  BY <3>1, <3>2, <3>3, <3>5 DEF Forward
  <2>3. CASE ~f.last
    <3>1. UNCHANGED <<shown, stale, reminderVars>>
      BY <1>6, <2>3 DEF StateArrives
    <3> QED
      BY <1>1, <1>2, <2>1, <3>1, FlightsOver, SameShown, RemindersKept DEF Forward
  <2> QED  BY <2>2, <2>3
<1>7. ASSUME NEW k \in DOMAIN stateFlights, StateFails(k)
      PROVE  Flights' /\ Reminders' /\ Forward
  <2>1. /\ UNCHANGED <<shown, reminderVars>>
        /\ stateFlights' = RemoveAt(stateFlights, k)
    BY <1>7 DEF StateFails
  <2>2. stale' \in BOOLEAN
    BY <1>2, <1>7 DEF StateFails
  <2> QED
    BY <1>1, <2>1, <2>2, FlightsOver, SameShown, RemindersKept DEF Forward
<1> QED  BY <1>3, <1>4, <1>5, <1>6, <1>7

\* A write is committed, answered or fails.
LEMMA WriteStep ==
    ASSUME Flights, UnderWay, Reminders, NEW k \in DOMAIN openWrites,
           ServerCommits(k) \/ WriteAnswered(k) \/ WriteFails(k)
    PROVE  Flights' /\ UnderWay' /\ Reminders' /\ shown' = shown
<1>1. k \in 1..Len(openWrites) /\ openWrites[k] \in OpenWrite /\ openWrites[k].at <= Now
  BY LenProperties, ElementOfSeq DEF UnderWay
<1>2. Now \in Nat /\ acked \in Instants /\ stale \in BOOLEAN
  BY LenProperties DEF Flights, Now
<1>3. CASE ServerCommits(k)
  <2>1. PICK w \in Seen : Commit(w)
    <3>1. Runs \subseteq Seen /\ {"order", "pause", "resume"} \subseteq Seen
      BY DEF Seen
    <3>2. openWrites[k].kind \in {"move", "top", "retrigger", "pause", "resume"}
      BY <1>1 DEF OpenWrite, Kinds, QueueWrites
    <3> QED  BY <1>3, <3>1, <3>2 DEF ServerCommits
  <2>2. /\ UNCHANGED <<fetchVars, busy, dialog, acked, reminderVars>>
        /\ openWrites' = [openWrites EXCEPT ![k].at = Now + 1]
    BY <1>3 DEF ServerCommits
  <2>3. UNCHANGED <<shown, stale, stateFlights>>
    BY <2>2 DEF fetchVars
  <2>4. Now' = Now + 1 /\ (PausedAt(shown)' <=> PausedAt(shown))
    <3>1. \A v \in Instants \cup {NoData} : PausedAt(v)' <=> PausedAt(v)
      BY <2>1, Committed DEF Flights
    <3>2. shown \in Instants \cup {NoData}
      BY DEF Flights
    <3>3. Now' = Now + 1
      BY <2>1, Committed DEF Flights
    <3> QED  BY <2>3, <3>1, <3>2, <3>3 DEF PausedAt
  <2>5. Flights'
    BY <2>1, <2>2, <2>3, FlightsCommitted
  <2>6. UnderWay'
    BY <1>2, <2>2, <2>4, UnderWayCommitted
  <2>7. Reminders'
    BY <2>2, <2>4, RemindersKept DEF ShownPaused
  <2> QED  BY <2>3, <2>5, <2>6, <2>7
<1>4. CASE WriteAnswered(k)
  <2>1. /\ UNCHANGED <<history, shown, stale, dialog, reminderVars>>
        /\ openWrites' = RemoveAt(openWrites, k)
        /\ busy' = busy \ {Flag(openWrites[k].kind)}
        /\ stateFlights' = Send(stateFlights, NewStateFlight)
        /\ acked' = IF openWrites[k].at > acked THEN openWrites[k].at ELSE acked
    BY <1>4 DEF WriteAnswered, FetchState
  <2>2. acked' \in Instants
    BY <1>1, <1>2, <2>1 DEF Instants, OpenWrite
  <2>3. Flights'
    BY <1>2, <2>1, <2>2, SameShown, FlightsSent
  <2> QED  BY <2>1, <2>3, UnderWayOver, SameShown, RemindersKept
<1>5. CASE WriteFails(k)
  <2>1. /\ UNCHANGED <<history, shown, stale, stateFlights, dialog, acked, reminderVars>>
        /\ openWrites' = RemoveAt(openWrites, k)
        /\ busy' = busy \ {Flag(openWrites[k].kind)}
    BY <1>5 DEF WriteFails, fetchVars
  <2> QED  BY <2>1, FlightsKept, UnderWayOver, SameShown, RemindersKept
<1> QED  BY <1>3, <1>4, <1>5

\* Leaving the tab and coming back begins anew; what runs is ended.
LEMMA RemountStep ==
    ASSUME PanelInv, UNCHANGED <<history, followed>>, NEW t \in Tabs, SelectTab(t)
    PROVE  PanelInv' /\ ~Loaded'
<1>1. PanelRemounts(IF t = "summary" THEN <<NewStateFlight>> ELSE <<>>)
  BY DEF SelectTab
<1>2. /\ shown' = NoData /\ stale' = FALSE /\ acked' = 0
      /\ stateFlights' \in {<<>>, <<NewStateFlight>>}
      /\ openWrites' = <<>> /\ busy' = {} /\ dialog' = FALSE
      /\ asking' = FALSE /\ strays' = 0 /\ alarms' = Cleared
  BY <1>1 DEF PanelRemounts
<1>3. Cleared = <<>>
  <2>1. CASE followed = "summary"
    BY <2>1, AllCleared DEF PanelInv
  <2>2. CASE followed # "summary"
    BY <2>2 DEF PanelInv, Idle, Cleared
  <2> QED  BY <2>1, <2>2
<1>4. CASE followed = "summary"
  <2>1. history' \in Seq(Seen)
    BY <1>4 DEF PanelInv, Flights
  <2>2. Mounted'
    BY <1>2, <1>3, <2>1 DEF Mounted, Idle, NewStateFlight, Unread
  <2>3. Mounted' => (Flights /\ UnderWay /\ Reminders)'
    BY PanelStarts, PTL
  <2> QED  BY <1>2, <1>4, <2>2, <2>3 DEF PanelInv, Loaded
<1>5. CASE followed # "summary"
  BY <1>2, <1>3, <1>5 DEF PanelInv, Idle, NewStateFlight, Unread, Loaded
<1> QED  BY <1>4, <1>5

\* Every step of the dashboard.
LEMMA PanelStep == ASSUME PanelInv, [Next]_vars PROVE PanelInv' /\ Forward
<1>1. CASE UNCHANGED vars
  <2>1. UNCHANGED <<history, followed, shown, stale, stateFlights, acked, openWrites, busy,
                    dialog, asking, strays, alarms>>
    BY <1>1 DEF vars, panelVars, fetchVars, writeVars, reminderVars
  <2> QED
    BY <2>1
    DEF Forward, PanelInv, Flights, UnderWay, Reminders, Idle, Instants, Now,
        ShownPaused, PausedAt, NewStateFlight, Unread
<1>2. CASE Next
  <2>1. followed' = followed
    BY <1>2 DEF Next
  <2>2. CASE followed = "summary" /\ PanelNext
    <3>1. Flights /\ UnderWay /\ Reminders
      BY <2>2 DEF PanelInv
    <3>2. CASE Move \/ MoveToTop \/ RetriggerNow \/ Confirm \/ Cancel \/ TogglePaused
      BY <2>1, <2>2, <3>1, <3>2, ButtonStep DEF PanelInv, Forward
    <3>3. CASE Poll \/ \E k \in DOMAIN stateFlights :
                          ReadState(k) \/ StateArrives(k) \/ StateFails(k)
      BY <2>1, <2>2, <3>1, <3>3, RequestStep DEF PanelInv
    <3>4. CASE \E k \in DOMAIN openWrites :
                  ServerCommits(k) \/ WriteAnswered(k) \/ WriteFails(k)
      BY <2>1, <2>2, <3>1, <3>4, WriteStep DEF PanelInv, Forward
    <3>5. CASE (\E present \in BOOLEAN : ConfigArrives(present)) \/ ConfigFails \/ FirstReminder
      <4>1. UNCHANGED <<history, fetchVars, writeVars>>
        BY <3>5 DEF ConfigArrives, ConfigFails, FirstReminder
      <4>2. UNCHANGED <<history, shown, stale, acked, stateFlights, openWrites, busy, dialog>>
        BY <4>1 DEF fetchVars, writeVars
      <4>3. Flights' /\ UnderWay'
        BY <3>1, <4>2, FlightsKept DEF UnderWay, Now
      <4>4. Reminders'
        BY <3>1, <3>5, <4>2, SameShown, RemindersAnswered
      <4> QED  BY <2>1, <2>2, <4>2, <4>3, <4>4 DEF PanelInv, Forward
    <3> QED  BY <2>2, <3>2, <3>3, <3>4, <3>5 DEF PanelNext
  <2>3. CASE followed # "summary" /\ UNCHANGED panelVars
    BY <2>1, <2>3
    DEF panelVars, fetchVars, writeVars, reminderVars, PanelInv, Idle, Forward,
        NewStateFlight, Unread
  <2>4. CASE \E t \in Tabs : SelectTab(t)
    <3>1. history' = history
      BY <2>4 DEF SelectTab
    <3> QED  BY <2>1, <2>4, <3>1, RemountStep DEF Forward
  <2>5. CASE followed = "summary" /\ Others
    <3>1. Flights /\ UnderWay /\ Reminders
      BY <2>5 DEF PanelInv
    <3>2. PICK w \in Seen : Commit(w)
      BY <2>5 DEF Others, OthersWrite, Told, Seen
    <3>3. UNCHANGED <<shown, stale, acked, stateFlights, openWrites, busy, dialog, reminderVars>>
      BY <2>5 DEF Others, panelVars, fetchVars, writeVars
    <3>4. /\ Now \in Nat /\ Now' = Now + 1
          /\ \A v \in Instants \cup {NoData} : PausedAt(v)' <=> PausedAt(v)
      BY <3>1, <3>2, Committed DEF Flights
    <3>5. Flights'
      BY <3>1, <3>2, <3>3, FlightsCommitted
    <3>6. UnderWay'
      BY <3>1, <3>3, <3>4, UnderWayKept
    <3>7. Reminders'
      <4>1. PausedAt(shown)' <=> PausedAt(shown)
        BY <3>1, <3>3, <3>4 DEF Flights, PausedAt
      <4> QED  BY <3>1, <3>3, <4>1, RemindersKept DEF ShownPaused
    <3> QED  BY <2>1, <2>5, <3>3, <3>5, <3>6, <3>7 DEF PanelInv, Forward
  <2>6. CASE followed # "summary" /\ Others
    BY <2>3, <2>6 DEF Others
  <2> QED  BY <1>2, <2>2, <2>3, <2>4, <2>5, <2>6 DEF Next
<1> QED  BY <1>1, <1>2

\* The first state of the page.
LEMMA PanelInitial == Init => PanelInv
<1> SUFFICES ASSUME Init PROVE PanelInv
  OBVIOUS
<1>1. history \in Seq(Seen)
  BY EmptySeq DEF Init, ShellInit
<1>2. /\ shown = NoData /\ stale = FALSE /\ acked = 0
      /\ stateFlights \in {<<>>, <<NewStateFlight>>}
      /\ openWrites = <<>> /\ busy = {} /\ dialog = FALSE
      /\ asking = FALSE /\ strays = 0 /\ alarms = <<>>
  BY DEF Init, PanelInit
<1>3. Flights /\ UnderWay /\ Reminders
  BY <1>1, <1>2, PanelStarts DEF Mounted, Idle
<1> QED  BY <1>2, <1>3 DEF PanelInv, Idle

\* It holds throughout.
LEMMA PanelHolds == Spec => []PanelInv
<1>1. PanelInv /\ [Next]_vars => PanelInv'
  BY PanelStep
<1> QED  BY <1>1, PanelInitial, PTL DEF Spec

-----------------------------------------------------------------------------
(* The theorems about the summary.                                           *)

\* The summary never shows an older state after a newer one, in whatever order
\* any number of answers arrive (SummaryStats.tsx, requestIdRef).
THEOREM ShownForward == Spec => NeverGoesBack
<1>1. PanelInv /\ [Next]_vars => [Loaded /\ Loaded' => shown' >= shown]_shown
  BY PanelStep DEF Forward
<1>2. PanelInv /\ [Next]_vars => PanelInv'
  BY PanelStep
<1> QED  BY <1>1, <1>2, PanelInitial, PTL DEF Spec, NeverGoesBack

\* No answer read before a write that was acknowledged is shown after it
\* (QueueOrder.tsx and SummaryStats.tsx refetch after every write).
THEOREM ShownCoversAcked == Spec => AckedIsShown
<1>1. PanelInv /\ [Next]_vars => [Loaded' => shown' >= acked]_shown
  BY PanelStep DEF Forward
<1>2. PanelInv /\ [Next]_vars => PanelInv'
  BY PanelStep
<1> QED  BY <1>1, <1>2, PanelInitial, PTL DEF Spec, AckedIsShown

\* A button that is off waits for a write that is under way
\* (QueueOrder.tsx, SummaryStats.tsx: every finally resets its flag).
THEOREM ButtonsComeBack == Spec => []BusyMeansUnderWay
<1>1. PanelInv => BusyMeansUnderWay
  <2>1. UnderWay => BusyMeansUnderWay
    BY LenProperties DEF UnderWay, BusyMeansUnderWay
  <2>2. Idle => BusyMeansUnderWay
    BY DEF Idle, BusyMeansUnderWay
  <2> QED  BY <2>1, <2>2 DEF PanelInv
<1> QED  BY <1>1, PanelHolds, PTL

\* One reminder at most, and none when what is shown is not paused
\* (usePauseNotification.ts, cancelled and clearTimers).
THEOREM OneReminder == Spec => []RemindsWhilePaused
<1>1. PanelInv => RemindsWhilePaused
  <2>1. Reminders => RemindsWhilePaused
    BY NothingShown DEF Reminders, RemindsWhilePaused, Loaded
  <2>2. Idle => RemindsWhilePaused
    BY EmptySeq DEF Idle, RemindsWhilePaused
  <2> QED  BY <2>1, <2>2 DEF PanelInv
<1> QED  BY <1>1, PanelHolds, PTL

-----------------------------------------------------------------------------
(* Lists in an order: what a query sorts, and what a filter leaves.         *)

\* The relation R orders the elements of S, one before the other.
StrictOn(R, S) ==
    /\ \A i \in S : <<i, i>> \notin R
    /\ \A i, j \in S : i # j => (<<i, j>> \in R <=> <<j, i>> \notin R)
    /\ \A i, j, k \in S : <<i, j>> \in R /\ <<j, k>> \in R => <<i, k>> \in R

\* The elements before i; their number is its rank.
Preceding(i, R, S) == {j \in S : <<j, i>> \in R}

\* S as a sequence in the order R.
Ranked(R, S) ==
    [k \in 1..Cardinality(S) |-> CHOOSE i \in S : Cardinality(Preceding(i, R, S)) = k - 1]

\* Ranks are below the number of elements and grow along the order.
LEMMA PrecedingFacts ==
    ASSUME NEW S, IsFiniteSet(S), NEW R, StrictOn(R, S)
    PROVE  /\ \A i \in S : Cardinality(Preceding(i, R, S)) \in 0..(Cardinality(S) - 1)
           /\ \A i, j \in S : <<i, j>> \in R
                 => Cardinality(Preceding(i, R, S)) < Cardinality(Preceding(j, R, S))
<1>1. Cardinality(S) \in Nat
  BY FS_CardinalityType
<1>2. ASSUME NEW i \in S
      PROVE  /\ IsFiniteSet(Preceding(i, R, S)) /\ Cardinality(Preceding(i, R, S)) \in Nat
             /\ Cardinality(Preceding(i, R, S)) < Cardinality(S)
  <2> DEFINE P == Preceding(i, R, S)
  <2>1. P \in SUBSET S /\ P # S
    BY DEF Preceding, StrictOn
  <2> HIDE DEF P
  <2>2. /\ IsFiniteSet(P) /\ Cardinality(P) <= Cardinality(S)
        /\ Cardinality(P) # Cardinality(S)
    BY <2>1, FS_Subset
  <2>3. Cardinality(P) \in Nat
    BY <2>2, FS_CardinalityType
  <2> QED  BY <1>1, <2>2, <2>3 DEF P
<1>3. ASSUME NEW i \in S, NEW j \in S, <<i, j>> \in R
      PROVE  Cardinality(Preceding(i, R, S)) < Cardinality(Preceding(j, R, S))
  <2> DEFINE P == Preceding(i, R, S)
             Q == Preceding(j, R, S)
  <2>1. P \subseteq Q /\ i \in Q /\ i \notin P
    BY <1>3 DEF Preceding, StrictOn
  <2>2. IsFiniteSet(Q) /\ Cardinality(P) \in Nat /\ Cardinality(Q) \in Nat
    BY <1>2
  <2> HIDE DEF P, Q
  <2>3. P \in SUBSET Q /\ P # Q
    BY <2>1
  <2>4. Cardinality(P) < Cardinality(Q)
    BY <2>2, <2>3, FS_Subset
  <2> QED  BY <2>4 DEF P, Q
<1> QED  BY <1>1, <1>2, <1>3

\* The element with k - 1 before it is the k-th.
LEMMA RankedFacts ==
    ASSUME NEW S, IsFiniteSet(S), NEW R, StrictOn(R, S)
    PROVE  /\ Cardinality(S) \in Nat
           /\ \A k \in 1..Cardinality(S) : Ranked(R, S)[k] \in S
           /\ \A i \in S : /\ Cardinality(Preceding(i, R, S)) + 1 \in 1..Cardinality(S)
                           /\ Ranked(R, S)[Cardinality(Preceding(i, R, S)) + 1] = i
           /\ \A k, l \in 1..Cardinality(S) : k < l <=> <<Ranked(R, S)[k], Ranked(R, S)[l]>> \in R
<1> DEFINE N == Cardinality(S)
           rank == [i \in S |-> Cardinality(Preceding(i, R, S)) + 1]
           s == Ranked(R, S)
<1>1. N \in Nat
  BY FS_CardinalityType
<1>2. \A i \in S : /\ rank[i] = Cardinality(Preceding(i, R, S)) + 1
                   /\ Cardinality(Preceding(i, R, S)) = rank[i] - 1
                   /\ rank[i] \in 1..N
  <2>1. \A i \in S : Cardinality(Preceding(i, R, S)) \in 0..(N - 1)
    BY PrecedingFacts
  <2>2. \A i \in S : rank[i] = Cardinality(Preceding(i, R, S)) + 1
    OBVIOUS
  <2> HIDE DEF rank, N
  <2> QED  BY <1>1, <2>1, <2>2
<1>3. \A i, j \in S : <<i, j>> \in R => rank[i] < rank[j]
  <2> SUFFICES ASSUME NEW i \in S, NEW j \in S, <<i, j>> \in R
               PROVE  rank[i] < rank[j]
    OBVIOUS
  <2>1. Cardinality(Preceding(i, R, S)) < Cardinality(Preceding(j, R, S))
    BY PrecedingFacts
  <2> HIDE DEF rank
  <2> QED  BY <1>1, <1>2, <2>1
<1>4. \A k \in 1..N : s[k] = CHOOSE i \in S : Cardinality(Preceding(i, R, S)) = k - 1
  BY DEF Ranked
<1>5. rank \in [S -> 1..N]
  <2>1. \A i \in S : rank[i] \in 1..N
    BY <1>2
  <2> HIDE DEF N
  <2> QED  BY <2>1
<1> HIDE DEF rank, s
<1>6. \A i, j \in S : rank[i] = rank[j] => i = j
  <2> SUFFICES ASSUME NEW i \in S, NEW j \in S, rank[i] = rank[j], i # j
               PROVE  FALSE
    OBVIOUS
  <2>1. <<i, j>> \in R \/ <<j, i>> \in R
    BY DEF StrictOn
  <2>2. rank[i] < rank[j] \/ rank[j] < rank[i]
    BY <1>3, <2>1
  <2> QED  BY <1>1, <1>2, <2>2
<1>7. rank \in Surjection(S, 1..N)
  <2>1. rank \in Injection(S, 1..N)
    BY <1>5, <1>6 DEF Injection, IsInjective
  <2>2. IsFiniteSet(1..N) /\ Cardinality(1..N) = N
    BY <1>1, FS_Interval
  <2> QED  BY <2>1, <2>2, FS_Injection DEF N
<1>8. \A k \in 1..N : \E i \in S : rank[i] = k
  BY <1>7 DEF Surjection
<1>9. \A k \in 1..N : s[k] \in S /\ rank[s[k]] = k
  <2> SUFFICES ASSUME NEW k \in 1..N
               PROVE  s[k] \in S /\ rank[s[k]] = k
    OBVIOUS
  <2>1. \E i \in S : Cardinality(Preceding(i, R, S)) = k - 1
    BY <1>2, <1>8
  <2>2. s[k] \in S /\ Cardinality(Preceding(s[k], R, S)) = k - 1
    BY <1>4, <2>1
  <2> QED  BY <1>1, <1>2, <2>2
<1>10. \A i \in S : rank[i] \in 1..N /\ s[rank[i]] = i
  BY <1>2, <1>6, <1>9
<1>11. ASSUME NEW k \in 1..N, NEW l \in 1..N
       PROVE  k < l <=> <<s[k], s[l]>> \in R
  <2>1. <<s[k], s[l]>> \in R => k < l
    BY <1>3, <1>9
  <2>2. ASSUME k < l, <<s[k], s[l]>> \notin R
        PROVE  FALSE
    <3>1. s[k] # s[l]
      BY <1>1, <1>9, <2>2
    <3>2. <<s[l], s[k]>> \in R
      BY <1>9, <2>2, <3>1 DEF StrictOn
    <3>3. l < k
      BY <1>3, <1>9, <3>2
    <3> QED  BY <1>1, <2>2, <3>3
  <2> QED  BY <2>1, <2>2
<1> QED  BY <1>1, <1>2, <1>9, <1>10, <1>11 DEF s

\* The newest of a set of writes come first.
LEMMA NewestFacts ==
    ASSUME NEW v \in Nat, NEW S \in SUBSET (1..v)
    PROVE  /\ IsFiniteSet(S) /\ Cardinality(S) \in Nat
           /\ Newest(S) \in Seq(S) /\ Len(Newest(S)) = Cardinality(S)
           /\ \A i \in S : /\ Cardinality({j \in S : i < j}) + 1 \in 1..Cardinality(S)
                           /\ Newest(S)[Cardinality({j \in S : i < j}) + 1] = i
           /\ \A k, l \in 1..Cardinality(S) : k < l <=> Newest(S)[l] < Newest(S)[k]
<1> DEFINE R == {p \in S \X S : p[2] < p[1]}
           N == Cardinality(S)
<1>1. IsFiniteSet(S) /\ N \in Nat
  <2>1. IsFiniteSet(1..v)
    BY FS_Interval
  <2>2. IsFiniteSet(S)
    BY <2>1, FS_Subset
  <2> QED  BY <2>2, FS_CardinalityType
<1>2. \A i, j \in S : <<i, j>> \in R <=> j < i
  OBVIOUS
<1>3. \A i \in S : i \in Int
  OBVIOUS
<1> HIDE DEF R
<1>4. StrictOn(R, S)
  BY <1>2, <1>3 DEF StrictOn
<1>5. \A i \in S : Preceding(i, R, S) = {j \in S : i < j}
  BY <1>2 DEF Preceding
<1>6. Newest(S) = [k \in 1..N |-> Ranked(R, S)[k]]
  <2>1. ASSUME NEW k \in 1..N
        PROVE  (CHOOSE i \in S : Cardinality({j \in S : i < j}) = k - 1) = Ranked(R, S)[k]
    <3>1. Ranked(R, S)[k] = CHOOSE i \in S : Cardinality(Preceding(i, R, S)) = k - 1
      BY DEF Ranked
    <3>2. \A i \in S : Cardinality({j \in S : i < j}) = k - 1
                         <=> Cardinality(Preceding(i, R, S)) = k - 1
      BY <1>5
    <3> QED  BY <3>1, <3>2
  <2> QED  BY <2>1 DEF Newest
<1>7. /\ \A k \in 1..N : Ranked(R, S)[k] \in S
      /\ \A i \in S : /\ Cardinality(Preceding(i, R, S)) + 1 \in 1..N
                      /\ Ranked(R, S)[Cardinality(Preceding(i, R, S)) + 1] = i
      /\ \A k, l \in 1..N : k < l <=> <<Ranked(R, S)[k], Ranked(R, S)[l]>> \in R
  BY <1>1, <1>4, RankedFacts
<1>8. Newest(S) \in Seq(S) /\ Len(Newest(S)) = N
  <2>1. Newest(S) \in [1..N -> S]
    BY <1>6, <1>7 DEF Newest
  <2> HIDE DEF N
  <2> QED  BY <1>1, <2>1
<1>9. \A k, l \in 1..N : k < l <=> Newest(S)[l] < Newest(S)[k]
  BY <1>2, <1>6, <1>7
<1>10. \A i \in S : /\ Cardinality({j \in S : i < j}) + 1 \in 1..N
                    /\ Newest(S)[Cardinality({j \in S : i < j}) + 1] = i
  BY <1>5, <1>6, <1>7
<1> QED  BY <1>1, <1>8, <1>9, <1>10

\* How many of S are newer than i: the place of i, counted from 0.
Ahead(S, i) == Cardinality({j \in S : i < j})

\* Newest orders exactly the elements of its set.
LEMMA NewestSet ==
    ASSUME NEW v \in Nat, NEW S \in SUBSET (1..v)
    PROVE  ToSet(Newest(S)) = S
<1>1. /\ Cardinality(S) \in Nat
      /\ Newest(S) \in Seq(S) /\ Len(Newest(S)) = Cardinality(S)
      /\ \A i \in S : /\ Ahead(S, i) + 1 \in 1..Cardinality(S)
                      /\ Newest(S)[Ahead(S, i) + 1] = i
  BY NewestFacts DEF Ahead
<1>2. /\ DOMAIN Newest(S) = 1..Cardinality(S)
      /\ \A k \in 1..Cardinality(S) : Newest(S)[k] \in S
  BY <1>1, LenProperties, ElementOfSeq
<1> QED  BY <1>1, <1>2 DEF ToSet

\* The k-th has k - 1 before it.
LEMMA AheadOfNewest ==
    ASSUME NEW v \in Nat, NEW S \in SUBSET (1..v), NEW k \in 1..Cardinality(S)
    PROVE  Ahead(S, Newest(S)[k]) = k - 1
<1>1. /\ Cardinality(S) \in Nat
      /\ Newest(S) \in Seq(S) /\ Len(Newest(S)) = Cardinality(S)
      /\ \A i \in S : /\ Ahead(S, i) + 1 \in 1..Cardinality(S)
                      /\ Newest(S)[Ahead(S, i) + 1] = i
      /\ \A m, l \in 1..Cardinality(S) : m < l <=> Newest(S)[l] < Newest(S)[m]
  BY NewestFacts DEF Ahead
<1>2. Newest(S)[k] \in S
  BY <1>1, ElementOfSeq
<1> DEFINE l == Ahead(S, Newest(S)[k]) + 1
<1>3. l \in 1..Cardinality(S) /\ Newest(S)[l] = Newest(S)[k]
  BY <1>1, <1>2
<1>4. /\ ~(k < l) /\ ~(l < k)
  <2>1. \A i \in S : i \in Int
    OBVIOUS
  <2>2. Newest(S)[k] \in Int
    BY <1>2, <2>1
  <2> HIDE DEF l
  <2> QED  BY <1>1, <1>3, <2>2
<1>5. Ahead(S, Newest(S)[k]) \in Int
  <2>1. {j \in S : Newest(S)[k] < j} \in SUBSET (1..v)
    OBVIOUS
  <2>2. Cardinality({j \in S : Newest(S)[k] < j}) \in Nat
    BY <2>1, NewestFacts
  <2> QED  BY <2>2 DEF Ahead
<1> QED  BY <1>1, <1>3, <1>4, <1>5

\* U is S as it was when the server had committed u writes.
Until(U, S, u) == U = {i \in S : i <= u}

\* The rows of U come after all the newer ones of S, in the same order.
PushedBack(U, S) ==
    /\ Cardinality(U) \in Nat /\ Cardinality(S) - Cardinality(U) \in Nat
    /\ U \in SUBSET S
    /\ \A e \in U : Ahead(S, e) = Ahead(U, e) + (Cardinality(S) - Cardinality(U))
    /\ \A k \in 1..Cardinality(U) :
          Newest(S)[(Cardinality(S) - Cardinality(U)) + k] = Newest(U)[k]

\* Newer rows push the older ones back, all by as many places.
LEMMA Shifted ==
    ASSUME NEW v \in Nat, NEW S \in SUBSET (1..v), NEW u \in Nat,
           NEW U, Until(U, S, u)
    PROVE  PushedBack(U, S)
<1> DEFINE D == {i \in S : u < i}
           d == Cardinality(S) - Cardinality(U)
<1>0. /\ \A i : i \in U <=> i \in S /\ ~(i \in D)
      /\ \A i : i \in D => i \in S
      /\ \A e \in U, i \in D : e < i
  <2>1. \A i \in S : i \in Int /\ (i <= u <=> ~(u < i))
    OBVIOUS
  <2>2. \A e \in S, i \in S : e <= u /\ u < i => e < i
    BY <2>1
  <2> QED  BY <2>1, <2>2 DEF Until
<1> HIDE DEF D
<1>1. U \in SUBSET (1..v) /\ D \in SUBSET (1..v)
  BY <1>0
<1>2. \A X \in SUBSET (1..v) : IsFiniteSet(X) /\ Cardinality(X) \in Nat
  BY NewestFacts
<1>3. \A X \in SUBSET U : Cardinality(X \cup D) = Cardinality(X) + Cardinality(D)
  <2> SUFFICES ASSUME NEW X \in SUBSET U
               PROVE  Cardinality(X \cup D) = Cardinality(X) + Cardinality(D)
    OBVIOUS
  <2>1. X \cap D = {}
    BY <1>0
  <2>2. X \in SUBSET (1..v)
    BY <1>1
  <2>3. IsFiniteSet(X) /\ IsFiniteSet(D) /\ Cardinality(X) \in Nat /\ Cardinality(D) \in Nat
    BY <1>1, <1>2, <2>2
  <2>4. Cardinality(X \cup D) = Cardinality(X) + Cardinality(D) - Cardinality(X \cap D)
    BY <2>3, FS_Union
  <2>5. Cardinality(X \cap D) = 0
    BY <2>1, FS_EmptySet
  <2> QED  BY <2>3, <2>4, <2>5
<1>4. S = U \cup D
  BY <1>0
<1>5. /\ Cardinality(U) \in Nat /\ d \in Nat /\ d = Cardinality(D)
  <2>1. Cardinality(S) = Cardinality(U) + Cardinality(D)
    BY <1>3, <1>4
  <2>2. Cardinality(U) \in Nat /\ Cardinality(D) \in Nat
    BY <1>1, <1>2
  <2> QED  BY <2>1, <2>2
<1>6. ASSUME NEW e \in U
      PROVE  Ahead(S, e) = Ahead(U, e) + d
  <2> DEFINE X == {j \in U : e < j}
  <2>1. {j \in S : e < j} = X \cup D
    BY <1>0
  <2>2. X \in SUBSET U
    OBVIOUS
  <2> HIDE DEF X
  <2>3. Cardinality(X \cup D) = Cardinality(X) + Cardinality(D)
    BY <1>3, <2>2
  <2> QED  BY <1>5, <2>1, <2>3 DEF Ahead, X
<1> HIDE DEF d
<1>7. ASSUME NEW k \in 1..Cardinality(U)
      PROVE  Newest(S)[d + k] = Newest(U)[k]
  <2>1. Newest(U) \in Seq(U) /\ Len(Newest(U)) = Cardinality(U)
    BY <1>1, NewestFacts
  <2>2. Newest(U)[k] \in U
    BY <2>1, ElementOfSeq
  <2>3. Ahead(U, Newest(U)[k]) = k - 1
    BY <1>1, AheadOfNewest
  <2>4. Ahead(S, Newest(U)[k]) = (k - 1) + d
    BY <1>6, <2>2, <2>3
  <2>5. \A i \in S : Newest(S)[Ahead(S, i) + 1] = i
    BY NewestFacts DEF Ahead
  <2>6. Newest(S)[((k - 1) + d) + 1] = Newest(U)[k]
    BY <1>4, <2>2, <2>4, <2>5
  <2>7. ((k - 1) + d) + 1 = d + k
    BY <1>5
  <2> QED  BY <2>6, <2>7
<1> QED  BY <1>4, <1>5, <1>6, <1>7 DEF d, PushedBack

\* The places a filter keeps.
Keeps(kept, s, X) == kept = {k \in DOMAIN s : s[k] \notin X}

\* The places before k.
Below(S, k) == {j \in S : j < k}

\* t holds what s has in the places kept, in their order.
Selects(pick, kept, s, t) ==
    /\ pick \in [1..Cardinality(kept) -> kept]
    /\ IsFiniteSet(kept) /\ Cardinality(kept) \in Nat
    /\ t = [n \in 1..Cardinality(kept) |-> s[pick[n]]]
    /\ \A k \in kept : /\ Cardinality(Below(kept, k)) + 1 \in 1..Cardinality(kept)
                       /\ pick[Cardinality(Below(kept, k)) + 1] = k
    /\ \A m, n \in 1..Cardinality(kept) : m < n => pick[m] < pick[n]

\* A filter keeps the order; it shortens a list that holds what it takes off.
LEMMA WithoutRanked ==
    ASSUME NEW T, NEW s \in Seq(T), NEW X,
           NEW kept, Keeps(kept, s, X)
    PROVE  \E pick : Selects(pick, kept, s, Without(s, X))
<1> DEFINE R == {p \in kept \X kept : p[1] < p[2]}
           N == Cardinality(kept)
           pick == [n \in 1..N |-> Ranked(R, kept)[n]]
<1>1. DOMAIN s = 1..Len(s) /\ Len(s) \in Nat
  BY LenProperties
<1>2. IsFiniteSet(kept) /\ N \in Nat
  <2>1. IsFiniteSet(1..Len(s))
    BY <1>1, FS_Interval
  <2>2. kept \in SUBSET (1..Len(s))
    BY <1>1 DEF Keeps
  <2>3. IsFiniteSet(kept)
    BY <2>1, <2>2, FS_Subset
  <2> QED  BY <2>3, FS_CardinalityType
<1>3. \A i, j \in kept : <<i, j>> \in R <=> i < j
  OBVIOUS
<1>4. \A i \in kept : i \in Int
  BY <1>1 DEF Keeps
<1> HIDE DEF R
<1>5. StrictOn(R, kept)
  BY <1>3, <1>4 DEF StrictOn
<1>6. \A i \in kept : Preceding(i, R, kept) = Below(kept, i)
  BY <1>3 DEF Preceding, Below
<1>7. ASSUME NEW n \in 1..N
      PROVE  (CHOOSE k \in kept : Cardinality(Below(kept, k)) = n - 1) = Ranked(R, kept)[n]
  <2>1. Ranked(R, kept)[n] = CHOOSE i \in kept : Cardinality(Preceding(i, R, kept)) = n - 1
    BY DEF Ranked
  <2>2. \A i \in kept : Cardinality(Below(kept, i)) = n - 1
                          <=> Cardinality(Preceding(i, R, kept)) = n - 1
    BY <1>6
  <2> QED  BY <2>1, <2>2
<1>8. /\ \A n \in 1..N : Ranked(R, kept)[n] \in kept
      /\ \A i \in kept : /\ Cardinality(Preceding(i, R, kept)) + 1 \in 1..N
                         /\ Ranked(R, kept)[Cardinality(Preceding(i, R, kept)) + 1] = i
      /\ \A m, n \in 1..N : m < n <=> <<Ranked(R, kept)[m], Ranked(R, kept)[n]>> \in R
  BY <1>2, <1>5, RankedFacts
<1>9. Without(s, X) = [n \in 1..N |-> s[pick[n]]]
  <2>1. Without(s, X) =
          [n \in 1..N |-> s[CHOOSE k \in kept : Cardinality(Below(kept, k)) = n - 1]]
    BY DEF Without, Keeps, Below
  <2> QED  BY <1>7, <2>1
<1>10. pick \in [1..N -> kept]
  BY <1>8
<1>11. \A k \in kept : /\ Cardinality(Below(kept, k)) + 1 \in 1..N
                       /\ pick[Cardinality(Below(kept, k)) + 1] = k
  BY <1>6, <1>8
<1>12. \A m, n \in 1..N : m < n => pick[m] < pick[n]
  <2>1. \A m, n \in 1..N : m < n => <<pick[m], pick[n]>> \in R
    BY <1>8
  <2> HIDE DEF pick
  <2> QED  BY <1>3, <1>10, <2>1
<1> HIDE DEF pick
<1>13. Selects(pick, kept, s, Without(s, X))
  BY <1>2, <1>9, <1>10, <1>11, <1>12 DEF Selects
<1> QED  BY <1>13

\* A filter adds nothing, keeps nothing filtered out and keeps elements apart.
LEMMA WithoutFacts ==
    ASSUME NEW T, NEW s \in Seq(T), NEW X
    PROVE  /\ Without(s, X) \in Seq(T) /\ Len(Without(s, X)) <= Len(s)
           /\ \A n \in 1..Len(Without(s, X)) :
                 \E k \in 1..Len(s) : Without(s, X)[n] = s[k] /\ s[k] \notin X
           /\ (\E k \in 1..Len(s) : s[k] \in X) => Len(Without(s, X)) < Len(s)
           /\ IsInjective(s) => IsInjective(Without(s, X))
<1> DEFINE kept == {k \in 1..Len(s) : s[k] \notin X}
           N == Cardinality(kept)
           t == Without(s, X)
<1>1. DOMAIN s = 1..Len(s) /\ Len(s) \in Nat /\ \A k \in 1..Len(s) : s[k] \in T
  BY LenProperties, ElementOfSeq
<1>2. /\ Keeps(kept, s, X)
      /\ \A k : k \in kept <=> k \in 1..Len(s) /\ s[k] \notin X
  BY <1>1 DEF Keeps
<1> HIDE DEF kept
<1> PICK pick : Selects(pick, kept, s, Without(s, X))
  BY <1>2, WithoutRanked
<1>3. /\ pick \in [1..N -> kept]
      /\ IsFiniteSet(kept) /\ N \in Nat
      /\ Without(s, X) = [n \in 1..N |-> s[pick[n]]]
      /\ \A m, n \in 1..N : m < n => pick[m] < pick[n]
  BY DEF Selects
<1>4. \A n \in 1..N : pick[n] \in kept /\ t[n] = s[pick[n]] /\ t[n] \in T
  BY <1>1, <1>2, <1>3
<1>5. t \in [1..N -> T]
  BY <1>3, <1>4
<1> HIDE DEF t, N
<1>6. t \in Seq(T) /\ Len(t) = N /\ DOMAIN t = 1..N
  BY <1>3, <1>5
<1>7. N <= Len(s) /\ ((\E k \in 1..Len(s) : s[k] \in X) => N < Len(s))
  <2>1. IsFiniteSet(1..Len(s)) /\ Cardinality(1..Len(s)) = Len(s)
    <3> DEFINE one == 1
               n == Len(s)
    <3>1. one \in Int /\ n \in Int
      BY <1>1
    <3> HIDE DEF one, n
    <3>2. /\ IsFiniteSet(one..n)
          /\ Cardinality(one..n) = IF one > n THEN 0 ELSE n - one + 1
      BY <3>1, FS_Interval
    <3>3. /\ IsFiniteSet(1..n)
          /\ Cardinality(1..n) = IF 1 > n THEN 0 ELSE n - 1 + 1
      BY <3>2 DEF one
    <3>4. Cardinality(1..n) = n
      BY <1>1, <3>3 DEF n
    <3> QED  BY <3>3, <3>4 DEF n
  <2>2. kept \in SUBSET (1..Len(s))
    BY <1>2
  <2>3. /\ Cardinality(kept) <= Cardinality(1..Len(s))
        /\ Cardinality(kept) = Cardinality(1..Len(s)) => kept = 1..Len(s)
    BY <2>1, <2>2, FS_Subset
  <2>4. (\E k \in 1..Len(s) : s[k] \in X) => kept # 1..Len(s)
    BY <1>2
  <2>5. N \in Nat /\ N = Cardinality(kept)
    BY <1>3 DEF N
  <2> HIDE DEF N
  <2> QED  BY <1>1, <2>1, <2>3, <2>4, <2>5
<1>8. ASSUME IsInjective(s) PROVE IsInjective(t)
  <2> SUFFICES ASSUME NEW a \in 1..N, NEW b \in 1..N, t[a] = t[b], a # b
               PROVE  FALSE
    BY <1>6 DEF IsInjective
  <2>1. pick[a] = pick[b]
    BY <1>1, <1>2, <1>4, <1>8 DEF IsInjective
  <2>2. pick[a] \in Int
    BY <1>2, <1>4
  <2>3. a < b \/ b < a
    BY <1>3
  <2> QED  BY <1>3, <2>1, <2>2, <2>3
<1>9. \A n \in 1..N : \E k \in 1..Len(s) : t[n] = s[k] /\ s[k] \notin X
  BY <1>2, <1>4
<1> QED  BY <1>6, <1>7, <1>8, <1>9 DEF t

\* X holds the first c elements of s and no other.
TakesFirst(c, s, X) == \A k \in 1..Len(s) : s[k] \in X <=> k <= c

\* t is s without its first c elements.
Drops(c, s, t) ==
    /\ Len(t) = Len(s) - c
    /\ \A n \in 1..(Len(s) - c) : t[n] = s[c + n]

\* A filter that takes off the first elements leaves the others in place.
LEMMA WithoutFirst ==
    ASSUME NEW T, NEW s \in Seq(T), NEW X, NEW c \in 0..Len(s), TakesFirst(c, s, X)
    PROVE  Drops(c, s, Without(s, X))
<1> DEFINE kept == {k \in 1..Len(s) : s[k] \notin X}
           N == Cardinality(kept)
<1>1. DOMAIN s = 1..Len(s) /\ Len(s) \in Nat /\ \A k \in 1..Len(s) : s[k] \in T
  BY LenProperties, ElementOfSeq
<1>2. /\ Keeps(kept, s, X) /\ c \in Int
      /\ \A k : k \in kept <=> k \in (c + 1)..Len(s)
  BY <1>1 DEF Keeps, TakesFirst
<1> HIDE DEF kept
<1> PICK pick : Selects(pick, kept, s, Without(s, X))
  BY <1>2, WithoutRanked
<1>3. /\ pick \in [1..N -> kept] /\ N \in Nat
      /\ Without(s, X) = [n \in 1..N |-> s[pick[n]]]
      /\ \A k \in kept : pick[Cardinality(Below(kept, k)) + 1] = k
  BY DEF Selects
<1>4. N = Len(s) - c
  <2>1. kept = (c + 1)..Len(s)
    BY <1>2
  <2>2. c + 1 \in Int /\ Len(s) \in Int
    BY <1>1, <1>2
  <2>3. Cardinality((c + 1)..Len(s)) = IF c + 1 > Len(s) THEN 0 ELSE Len(s) - (c + 1) + 1
    BY <2>2, FS_Interval
  <2> QED  BY <1>1, <2>1, <2>3
<1>5. ASSUME NEW n \in 1..N
      PROVE  pick[n] = c + n
  <2>1. c + n \in kept
    BY <1>1, <1>2, <1>4
  <2>2. Below(kept, c + n) = (c + 1)..(c + n - 1)
    BY <1>1, <1>2, <1>4 DEF Below
  <2>3. Cardinality((c + 1)..(c + n - 1)) = n - 1
    <3>1. c + 1 \in Int /\ c + n - 1 \in Int
      BY <1>2, <1>3
    <3>2. Cardinality((c + 1)..(c + n - 1))
            = IF c + 1 > c + n - 1 THEN 0 ELSE (c + n - 1) - (c + 1) + 1
      BY <3>1, FS_Interval
    <3> QED  BY <1>2, <1>3, <3>2
  <2>4. pick[(n - 1) + 1] = c + n
    BY <1>3, <2>1, <2>2, <2>3
  <2>5. (n - 1) + 1 = n
    BY <1>3
  <2> QED  BY <2>4, <2>5
<1>6. Len(Without(s, X)) = N
  <2>1. \A n \in 1..N : s[pick[n]] \in T
    <3>1. \A n \in 1..N : pick[n] \in kept
      BY <1>3
    <3>2. \A k \in kept : s[k] \in T
      BY <1>1, <1>2
    <3> QED  BY <3>1, <3>2
  <2>2. Without(s, X) \in [1..N -> T]
    BY <1>3, <2>1
  <2> HIDE DEF N
  <2> QED  BY <1>3, <2>2
<1> HIDE DEF N
<1> QED  BY <1>3, <1>4, <1>5, <1>6 DEF Drops

-----------------------------------------------------------------------------
(* Pages of a list.                                                         *)

\* Q holds the first n of s.
Collects(Q, s, n) == \A e : e \in Q <=> \E k \in 1..n : e = s[k]

\* The first n elements of s differ.
DistinctTo(s, n) == \A i, j \in 1..n : s[i] = s[j] => i = j

\* Elements that differ are as many as their places.
LEMMA CountedOnce ==
    ASSUME NEW n \in Nat, NEW s, DistinctTo(s, n), NEW Q, Collects(Q, s, n)
    PROVE  IsFiniteSet(Q) /\ Cardinality(Q) = n
<1> DEFINE f == [k \in 1..n |-> s[k]]
<1>1. f \in Surjection(1..n, Q)
  BY DEF Surjection, Collects
<1>2. f \in Injection(1..n, Q)
  <2>1. f \in [1..n -> Q]
    BY <1>1 DEF Surjection
  <2>2. IsInjective(f)
    BY DEF IsInjective, DistinctTo
  <2> QED  BY <2>1, <2>2 DEF Injection
<1>3. IsFiniteSet(1..n) /\ Cardinality(1..n) = n
  BY FS_Interval
<1> HIDE DEF f
<1>4. IsFiniteSet(Q) /\ (Cardinality(Q) = Cardinality(1..n) <=> f \in Injection(1..n, Q))
  BY <1>1, <1>3, FS_Surjection
<1> QED  BY <1>2, <1>3, <1>4

\* A list in order is the list of its elements.
LEMMA NewestOfList ==
    ASSUME NEW v \in Nat, NEW s \in Seq(1..v),
           \A i, j \in 1..Len(s) : i < j => s[j] < s[i],
           NEW Q, Collects(Q, s, Len(s))
    PROVE  s = Newest(Q)
<1>1. Len(s) \in Nat /\ \A k \in 1..Len(s) : s[k] \in 1..v /\ s[k] \in Int
  BY LenProperties, ElementOfSeq
<1>2. Q \in SUBSET (1..v) /\ \A k \in 1..Len(s) : s[k] \in Q
  BY <1>1 DEF Collects
<1>3. DistinctTo(s, Len(s))
  <2> SUFFICES ASSUME NEW i \in 1..Len(s), NEW j \in 1..Len(s), s[i] = s[j], i # j
               PROVE  FALSE
    BY DEF DistinctTo
  <2>1. i < j \/ j < i
    BY <1>1
  <2> QED  BY <1>1, <2>1
<1>4. Cardinality(Q) = Len(s)
  BY <1>1, <1>3, CountedOnce
<1>5. /\ Newest(Q) \in Seq(Q) /\ Len(Newest(Q)) = Cardinality(Q)
      /\ \A i \in Q : Newest(Q)[Ahead(Q, i) + 1] = i
  BY <1>2, NewestFacts DEF Ahead
<1>6. ASSUME NEW k \in 1..Len(s)
      PROVE  Newest(Q)[k] = s[k]
  <2> DEFINE before == k - 1
             P == {j \in Q : s[k] < j}
  <2>1. before \in Nat /\ before + 1 = k /\ before < Len(s)
    BY <1>1
  <2>2. \A i \in 1..Len(s) : s[k] < s[i] <=> i \in 1..before
    <3> SUFFICES ASSUME NEW i \in 1..Len(s)
                 PROVE  s[k] < s[i] <=> i < k
      BY <1>1
    <3>1. i < k => s[k] < s[i]
      OBVIOUS
    <3>2. k < i => s[i] < s[k]
      OBVIOUS
    <3> QED  BY <1>1, <3>1, <3>2
  <2>3. \A e : e \in Q <=> \E i \in 1..Len(s) : e = s[i]
    BY DEF Collects
  <2>4. \A i \in 1..before : i \in 1..Len(s)
    BY <1>1, <2>1
  <2>5. Collects(P, s, before)
    <3> HIDE DEF before
    <3> QED  BY <2>2, <2>3, <2>4 DEF Collects
  <2>6. DistinctTo(s, before)
    <3> HIDE DEF before
    <3> QED  BY <1>3, <2>4 DEF DistinctTo
  <2>7. Cardinality(P) = before
    <3> HIDE DEF before, P
    <3> QED  BY <2>1, <2>5, <2>6, CountedOnce
  <2>8. Ahead(Q, s[k]) = before
    BY <2>7 DEF Ahead
  <2> HIDE DEF before
  <2> QED  BY <1>2, <1>5, <2>1, <2>8
<1>7. Newest(Q) \in Seq(1..v)
  BY <1>2, <1>5, SeqMonotonic
<1> QED  BY <1>4, <1>5, <1>6, <1>7, SeqEqual

\* skip and take.
PageOf(all, n) ==
    SubSeq(all, (n - 1) * PageSize + 1, IF n * PageSize < Len(all) THEN n * PageSize ELSE Len(all))

\* Page n ends PageSize after it begins.
LEMMA PageBounds ==
    ASSUME NEW n \in Nat \ {0}
    PROVE  /\ (n - 1) * PageSize \in Nat /\ n * PageSize \in Nat
           /\ n * PageSize = (n - 1) * PageSize + PageSize
           /\ PageSize \in Nat \ {0}
<1>1. PageSize \in Nat \ {0}
  BY ShellAssumption
<1>2. n - 1 \in Nat /\ n = (n - 1) + 1
  OBVIOUS
<1>3. \A m \in Nat : m * PageSize \in Nat /\ (m + 1) * PageSize = m * PageSize + PageSize
  BY <1>1
<1> QED  BY <1>1, <1>2, <1>3

\* The length of a page and the place each of its elements comes from.
LEMMA PageFacts ==
    ASSUME NEW T, NEW all \in Seq(T), NEW n \in Nat \ {0}
    PROVE  /\ PageOf(all, n) \in Seq(T)
           /\ Len(PageOf(all, n)) = IF (n - 1) * PageSize >= Len(all) THEN 0
                                    ELSE IF n * PageSize < Len(all) THEN PageSize
                                    ELSE Len(all) - (n - 1) * PageSize
           /\ \A k \in 1..Len(PageOf(all, n)) :
                 PageOf(all, n)[k] = all[(n - 1) * PageSize + k]
<1> DEFINE b == (n - 1) * PageSize
           e == n * PageSize
           u == IF e < Len(all) THEN e ELSE Len(all)
<1>1. b \in Nat /\ e \in Nat /\ e = b + PageSize /\ PageSize \in Nat \ {0}
  BY PageBounds
<1>2. PageOf(all, n) = SubSeq(all, b + 1, u)
  BY DEF PageOf
<1> HIDE DEF b, e
<1>3. Len(all) \in Nat /\ \A i \in 1..Len(all) : all[i] \in T
  BY LenProperties, ElementOfSeq
<1>4. b + 1 \in Int /\ u \in Int /\ \A i \in (b + 1)..u : all[i] \in T
  BY <1>1, <1>3
<1>5. /\ SubSeq(all, b + 1, u) \in Seq(T)
      /\ Len(SubSeq(all, b + 1, u)) = IF b + 1 <= u THEN u - (b + 1) + 1 ELSE 0
      /\ \A i \in 1..(u - (b + 1) + 1) : SubSeq(all, b + 1, u)[i] = all[(b + 1) + i - 1]
  BY <1>4, SubSeqProperties
<1> DEFINE m == Len(SubSeq(all, b + 1, u))
<1>6. m = IF b >= Len(all) THEN 0 ELSE IF e < Len(all) THEN PageSize ELSE Len(all) - b
  BY <1>1, <1>3, <1>5
<1>7. ASSUME NEW k \in 1..m
      PROVE  SubSeq(all, b + 1, u)[k] = all[b + k]
  <2>1. k \in 1..(u - (b + 1) + 1) /\ (b + 1) + k - 1 = b + k
    BY <1>1, <1>3, <1>5
  <2> QED  BY <1>5, <2>1
<1> QED  BY <1>2, <1>5, <1>6, <1>7 DEF b, e

-----------------------------------------------------------------------------
(* A list loaded page by page.                                              *)

\* The list shown, of the events S there were when the last page was read: it
\* is contiguous, and reaches as far as the p pages loaded do or to the end,
\* unless it was pushed back by more than a page since it was begun.
InPlace(S, s, p) ==
    s # <<>> /\ Ahead(S, s[1]) <= PageSize
    => /\ Ahead(S, s[1]) + Len(s) <= Cardinality(S)
       /\ \A k \in 1..Len(s) : s[k] = Newest(S)[Ahead(S, s[1]) + k]
       /\ p * PageSize <= Ahead(S, s[1]) + Len(s) \/ Ahead(S, s[1]) + Len(s) = Cardinality(S)

\* The newest-first list has no element twice.
LEMMA NewestDistinct ==
    ASSUME NEW v \in Nat, NEW S \in SUBSET (1..v)
    PROVE  /\ Cardinality(S) \in Nat
           /\ \A i, j \in 1..Cardinality(S) : Newest(S)[i] = Newest(S)[j] => i = j
           /\ \A e : Ahead(S, e) \in Nat
<1>1. Cardinality(S) \in Nat
  BY NewestFacts
<1>2. ASSUME NEW i \in 1..Cardinality(S), NEW j \in 1..Cardinality(S),
             Newest(S)[i] = Newest(S)[j]
      PROVE  i = j
  <2>1. Ahead(S, Newest(S)[i]) = i - 1 /\ Ahead(S, Newest(S)[j]) = j - 1
    BY AheadOfNewest
  <2>2. i - 1 = j - 1
    BY <1>2, <2>1
  <2> QED  BY <1>1, <2>2
<1>3. ASSUME NEW e
      PROVE  Ahead(S, e) \in Nat
  <2>1. {j \in S : e < j} \in SUBSET (1..v)
    OBVIOUS
  <2>2. Cardinality({j \in S : e < j}) \in Nat
    BY <2>1, NewestFacts
  <2> QED  BY <2>2 DEF Ahead
<1> QED  BY <1>1, <1>2, <1>3

\* Whatever page comes first is in place, with the pages before it ahead.
LEMMA FirstInPlace ==
    ASSUME NEW v \in Nat, NEW S \in SUBSET (1..v), NEW n \in Nat \ {0}
    PROVE  /\ PageOf(Newest(S), n) \in Seq(S)
           /\ IsInjective(PageOf(Newest(S), n))
           /\ InPlace(S, PageOf(Newest(S), n), n)
<1> DEFINE N == Cardinality(S)
           all == Newest(S)
           rows == PageOf(all, n)
           b == (n - 1) * PageSize
<1>1. all \in Seq(S) /\ Len(all) = N /\ N \in Nat
  BY NewestFacts
<1>2. b \in Nat /\ n * PageSize = b + PageSize /\ PageSize \in Nat \ {0}
  BY PageBounds
<1> HIDE DEF all, N
<1>3. /\ rows \in Seq(S)
      /\ Len(rows) = IF b >= N THEN 0 ELSE IF n * PageSize < N THEN PageSize ELSE N - b
      /\ \A k \in 1..Len(rows) : rows[k] = all[b + k]
  BY <1>1, PageFacts
<1> HIDE DEF b, rows
<1>4. DOMAIN rows = 1..Len(rows) /\ Len(rows) \in Nat /\ \A k \in 1..Len(rows) : b + k \in 1..N
  BY <1>1, <1>2, <1>3, LenProperties
<1>5. \A i, j \in 1..N : all[i] = all[j] => i = j
  BY NewestDistinct DEF all, N
<1>6. IsInjective(rows)
  <2> SUFFICES ASSUME NEW i \in 1..Len(rows), NEW j \in 1..Len(rows), rows[i] = rows[j]
               PROVE  i = j
    BY <1>4 DEF IsInjective
  <2>1. b + i = b + j
    BY <1>3, <1>4, <1>5
  <2> QED  BY <1>2, <2>1
<1>7. ASSUME rows # <<>>
      PROVE  /\ Ahead(S, rows[1]) = b
             /\ b + Len(rows) <= N
             /\ n * PageSize <= b + Len(rows) \/ b + Len(rows) = N
  <2>1. 1 \in 1..Len(rows)
    BY <1>3, <1>7, EmptySeq
  <2>2. rows[1] = all[b + 1] /\ b + 1 \in 1..N
    BY <1>3, <1>4, <2>1
  <2>3. Ahead(S, all[b + 1]) = (b + 1) - 1
    BY <2>2, AheadOfNewest DEF all, N
  <2> QED  BY <1>1, <1>2, <1>3, <2>1, <2>2, <2>3
<1>8. InPlace(S, rows, n)
  BY <1>3, <1>7 DEF InPlace, all, N
<1> QED  BY <1>3, <1>6, <1>8 DEF rows, all

\* Where the next page ends, in numbers: L elements from a on are shown, N
\* exist, the page starts at b and holds m, of which c are shown already.
LEMMA Adjoins ==
    ASSUME NEW P \in Nat \ {0}, NEW a \in Nat, NEW L \in Nat, NEW N \in Nat, NEW b \in Nat,
           NEW m \in Nat, NEW c \in Nat,
           a <= b, a + L <= N, b <= a + L \/ a + L = N,
           m = IF b >= N THEN 0 ELSE IF b + P < N THEN P ELSE N - b,
           c = IF a + L <= b THEN 0 ELSE IF a + L - b < m THEN a + L - b ELSE m
    PROVE  /\ c <= m
           /\ m - c > 0 => b + c = a + L
           /\ a + (L + (m - c)) <= N
           /\ b + P <= a + (L + (m - c)) \/ a + (L + (m - c)) = N
           /\ \A n \in 1..m : n <= c <=> b + n <= a + L
  OBVIOUS

\* The next page continues a list in place, whatever came in front meanwhile.
LEMMA NextInPlace ==
    ASSUME NEW v \in Nat, NEW S \in SUBSET (1..v), NEW u \in Nat,
           NEW U, Until(U, S, u),
           NEW s \in Seq(U), IsInjective(s),
           NEW p \in Nat \ {0}, InPlace(U, s, p), s # <<>>,
           NEW t, t = s \o Without(PageOf(Newest(S), p + 1), ToSet(s))
    PROVE  InPlace(S, t, p + 1)
<1> DEFINE N == Cardinality(S)
           all == Newest(S)
           rows == PageOf(all, p + 1)
           b == p * PageSize
           L == Len(s)
           W == Without(rows, ToSet(s))
           d == N - Cardinality(U)
           A == Ahead(U, s[1])
           a == A + d
           m == Len(rows)
           c == IF a + L <= b THEN 0 ELSE IF a + L - b < m THEN a + L - b ELSE m
<1>1. /\ all \in Seq(S) /\ Len(all) = N /\ N \in Nat
  BY NewestFacts
<1>2. /\ Cardinality(U) \in Nat /\ d \in Nat
      /\ U \in SUBSET (1..v) /\ U \in SUBSET S
      /\ \A e \in U : Ahead(S, e) = Ahead(U, e) + d
      /\ \A k \in 1..Cardinality(U) : all[d + k] = Newest(U)[k]
  <2>1. PushedBack(U, S)
    BY Shifted
  <2> QED  BY <2>1 DEF PushedBack
<1>3. b \in Nat /\ (p + 1) * PageSize = b + PageSize /\ PageSize \in Nat \ {0} /\ PageSize <= b
  <2>1. p + 1 \in Nat \ {0} /\ (p + 1) - 1 = p
    OBVIOUS
  <2>2. b \in Nat /\ (p + 1) * PageSize = b + PageSize /\ PageSize \in Nat \ {0}
    BY <2>1, PageBounds
  <2>3. (p - 1) * PageSize \in Nat /\ b = (p - 1) * PageSize + PageSize
    BY PageBounds
  <2> HIDE DEF b
  <2> QED  BY <2>2, <2>3
<1>4. L \in Nat \ {0} /\ DOMAIN s = 1..L /\ \A k \in 1..L : s[k] \in U
  BY EmptySeq, LenProperties, ElementOfSeq
<1> HIDE DEF all, N
<1>5. /\ rows \in Seq(S)
      /\ m = IF b >= N THEN 0 ELSE IF b + PageSize < N THEN PageSize ELSE N - b
      /\ \A k \in 1..m : rows[k] = all[b + k]
  <2> DEFINE next == p + 1
  <2>1. next \in Nat \ {0} /\ next - 1 = p /\ next * PageSize = b + PageSize
    BY <1>3
  <2>2. rows = PageOf(all, next)
    OBVIOUS
  <2> HIDE DEF next, rows
  <2>3. /\ rows \in Seq(S)
        /\ Len(rows) = IF (next - 1) * PageSize >= N THEN 0
                       ELSE IF next * PageSize < N THEN PageSize
                       ELSE N - (next - 1) * PageSize
        /\ \A k \in 1..Len(rows) : rows[k] = all[(next - 1) * PageSize + k]
    <3>1. next \in Nat \ {0} /\ all \in Seq(S) /\ Len(all) = N
      BY <1>1, <2>1
    <3>2. /\ PageOf(all, next) \in Seq(S)
          /\ Len(PageOf(all, next)) = IF (next - 1) * PageSize >= Len(all) THEN 0
                                      ELSE IF next * PageSize < Len(all) THEN PageSize
                                      ELSE Len(all) - (next - 1) * PageSize
          /\ \A k \in 1..Len(PageOf(all, next)) :
                PageOf(all, next)[k] = all[(next - 1) * PageSize + k]
      BY <3>1, PageFacts
    <3> QED  BY <2>2, <3>1, <3>2
  <2> QED  BY <2>1, <2>3
<1>6. m \in Nat
  BY <1>5, LenProperties
<1>7. W \in Seq(S)
  BY <1>5, WithoutFacts
<1>8. s \in Seq(S)
  BY <1>2, SeqMonotonic
<1> HIDE DEF rows, W
<1>9. /\ t \in Seq(S) /\ Len(t) = L + Len(W) /\ Len(W) \in Nat
      /\ \A k \in 1..(L + Len(W)) : t[k] = IF k <= L THEN s[k] ELSE W[k - L]
  BY <1>7, <1>8, ConcatProperties, LenProperties DEF W, rows, all
<1>10. t[1] = s[1] /\ s[1] \in U
  BY <1>4, <1>9
<1>11. Ahead(S, t[1]) = a /\ A \in Nat /\ a \in Nat
  <2>1. A \in Nat
    BY <1>2, NewestDistinct
  <2>2. Ahead(S, s[1]) = A + d
    BY <1>2, <1>10
  <2> QED  BY <1>2, <1>10, <2>1, <2>2
<1> SUFFICES ASSUME a <= PageSize
             PROVE  /\ a + Len(t) <= N
                    /\ \A k \in 1..Len(t) : t[k] = all[a + k]
                    /\ (p + 1) * PageSize <= a + Len(t) \/ a + Len(t) = N
  BY <1>11 DEF InPlace, all, N
<1>12. /\ A + L <= Cardinality(U)
       /\ \A k \in 1..L : s[k] = Newest(U)[A + k]
       /\ b <= A + L \/ A + L = Cardinality(U)
  <2>1. A <= PageSize
    BY <1>2, <1>3, <1>11
  <2> HIDE DEF b
  <2> QED  BY <2>1 DEF InPlace, b
<1> HIDE DEF A, b
<1>13. /\ a + L <= N
       /\ b <= a + L \/ a + L = N
       /\ a <= b
  <2>1. N = Cardinality(U) + d /\ a = A + d
    BY <1>1, <1>2
  <2>2. a <= PageSize /\ PageSize <= b /\ PageSize \in Nat /\ b \in Nat
    BY <1>3
  <2>3. d \in Nat /\ A \in Nat /\ L \in Nat /\ Cardinality(U) \in Nat
    BY <1>2, <1>4, <1>11
  <2> HIDE DEF a, d, L
  <2> QED  BY <1>12, <2>1, <2>2, <2>3
<1>14. \A k \in 1..L : s[k] = all[a + k]
  <2> SUFFICES ASSUME NEW k \in 1..L PROVE s[k] = all[a + k]
    OBVIOUS
  <2>1. A + k \in 1..Cardinality(U)
    BY <1>2, <1>4, <1>11, <1>12
  <2>2. s[k] = all[d + (A + k)]
    BY <1>2, <1>12, <2>1
  <2>3. d + (A + k) = a + k
    BY <1>2, <1>4, <1>11
  <2> QED  BY <2>2, <2>3
<1> HIDE DEF d, L, m
<1>15. a \in Nat /\ L \in Nat /\ m \in Nat /\ c \in Nat
  BY <1>3, <1>4, <1>6, <1>11
<1> HIDE DEF a, c
<1>16. c = IF a + L <= b THEN 0 ELSE IF a + L - b < m THEN a + L - b ELSE m
  BY DEF c
<1>17. /\ c <= m
       /\ m - c > 0 => b + c = a + L
       /\ a + (L + (m - c)) <= N
       /\ b + PageSize <= a + (L + (m - c)) \/ a + (L + (m - c)) = N
       /\ \A n \in 1..m : n <= c <=> b + n <= a + L
  BY <1>1, <1>3, <1>5, <1>13, <1>15, <1>16, Adjoins
<1>18. \A n \in 1..m : b + n \in 1..N
  BY <1>1, <1>3, <1>5, <1>15
<1>19. ASSUME NEW n \in 1..m
       PROVE  rows[n] \in ToSet(s) <=> n <= c
  <2>1. rows[n] = all[b + n] /\ b + n \in 1..N
    BY <1>5, <1>18 DEF m
  <2>2. rows[n] \in ToSet(s) <=> \E k \in 1..L : s[k] = rows[n]
    BY <1>4 DEF ToSet
  <2>3. \A i, j \in 1..N : all[i] = all[j] => i = j
    BY NewestDistinct DEF all, N
  <2>4. \A k \in 1..L : a + k \in 1..N
    BY <1>1, <1>13, <1>15
  <2>5. \A k \in 1..L : s[k] = rows[n] <=> a + k = b + n
    BY <1>14, <2>1, <2>3, <2>4
  <2>6. (\E k \in 1..L : a + k = b + n) <=> b + n <= a + L
    <3>1. \A k \in 1..L : a + k <= a + L
      BY <1>15
    <3>2. b + n <= a + L => (b + n) - a \in 1..L /\ a + ((b + n) - a) = b + n
      BY <1>3, <1>13, <1>15
    <3> QED  BY <3>1, <3>2
  <2> QED  BY <1>17, <2>2, <2>5, <2>6
<1>20. Len(W) = m - c /\ \A n \in 1..(m - c) : W[n] = rows[c + n]
  <2>1. c \in 0..Len(rows)
    BY <1>15, <1>17 DEF m
  <2>2. TakesFirst(c, rows, ToSet(s))
    BY <1>19 DEF m, TakesFirst
  <2>3. Drops(c, rows, W)
    BY <1>5, <2>1, <2>2, WithoutFirst DEF W
  <2> QED  BY <2>3 DEF Drops, m
<1>21. ASSUME NEW k \in 1..Len(t)
       PROVE  t[k] = all[a + k]
  <2>1. CASE k <= L
    BY <1>9, <1>14, <1>15, <2>1 DEF L
  <2>2. CASE ~(k <= L)
    <3> DEFINE n == k - L
    <3>1. n \in 1..(m - c) /\ k \in 1..(L + Len(W))
      <4>1. L \in Nat /\ m - c \in Nat /\ Len(W) = m - c
        BY <1>4, <1>15, <1>17, <1>20
      <4>2. k \in Int /\ 1 <= k /\ k <= L + Len(W)
        BY <1>9, <4>1
      <4> QED  BY <2>2, <4>1, <4>2
    <3>2. t[k] = W[n]
      BY <1>9, <2>2, <3>1 DEF L
    <3>3. c + n \in 1..m /\ b + (c + n) = a + k
      BY <1>3, <1>15, <1>17, <3>1
    <3>4. W[n] = all[b + (c + n)]
      BY <1>5, <1>20, <3>1, <3>3 DEF m
    <3> QED  BY <3>2, <3>3, <3>4
  <2> QED  BY <2>1, <2>2
<1>22. Len(t) = L + (m - c)
  BY <1>9, <1>20 DEF L
<1> QED  BY <1>3, <1>17, <1>21, <1>22

\* Loading the next page: nothing twice, and still in place.
LEMMA NextLoaded ==
    ASSUME NEW v \in Nat, NEW S \in SUBSET (1..v), NEW u \in Nat,
           NEW U, Until(U, S, u),
           NEW s \in Seq(U), IsInjective(s),
           NEW p \in Nat \ {0}, InPlace(U, s, p),
           NEW t, t = Appended(s, PageOf(Newest(S), p + 1))
    PROVE  t \in Seq(S) /\ IsInjective(t) /\ InPlace(S, t, p + 1)
<1> DEFINE next == p + 1
           rows == PageOf(Newest(S), next)
           W == Without(rows, ToSet(s))
<1>1. next \in Nat \ {0}
  OBVIOUS
<1>2. t = s \o W
  BY DEF Appended
<1> HIDE DEF next
<1>3. rows \in Seq(S) /\ IsInjective(rows) /\ InPlace(S, rows, next)
  BY <1>1, FirstInPlace
<1> HIDE DEF rows
<1>4. U \in SUBSET S
  BY DEF Until
<1>5. s \in Seq(S)
  BY <1>4, SeqMonotonic
<1>6. /\ DOMAIN s = 1..Len(s) /\ Len(s) \in Nat
      /\ DOMAIN rows = 1..Len(rows) /\ Len(rows) \in Nat
  BY <1>3, LenProperties
<1>7. /\ W \in Seq(S) /\ IsInjective(W)
      /\ \A n \in 1..Len(W) : W[n] \notin ToSet(s)
  BY <1>3, WithoutFacts
<1> HIDE DEF W
<1>8. DOMAIN W = 1..Len(W) /\ Len(W) \in Nat
  BY <1>7, LenProperties
<1>9. /\ t \in Seq(S) /\ Len(t) = Len(s) + Len(W)
      /\ \A k \in 1..(Len(s) + Len(W)) : t[k] = IF k <= Len(s) THEN s[k] ELSE W[k - Len(s)]
  BY <1>2, <1>5, <1>7, ConcatProperties
<1>10. DOMAIN t = 1..(Len(s) + Len(W))
  BY <1>9, LenProperties
<1>11. IsInjective(t)
  <2>1. \A k \in 1..Len(s) : s[k] \in ToSet(s)
    BY <1>6 DEF ToSet
  <2>2. \A i \in 1..(Len(s) + Len(W)) : ~(i <= Len(s)) => i - Len(s) \in 1..Len(W)
    BY <1>6, <1>8
  <2>3. \A i, j \in 1..Len(s) : s[i] = s[j] => i = j
    BY <1>6 DEF IsInjective
  <2>4. \A i, j \in 1..Len(W) : W[i] = W[j] => i = j
    BY <1>7, <1>8 DEF IsInjective
  <2> SUFFICES ASSUME NEW i \in 1..(Len(s) + Len(W)), NEW j \in 1..(Len(s) + Len(W)),
                      t[i] = t[j]
               PROVE  i = j
    BY <1>10 DEF IsInjective
  <2>5. CASE i <= Len(s) /\ j <= Len(s)
    BY <1>6, <1>9, <2>3, <2>5
  <2>6. CASE ~(i <= Len(s)) /\ ~(j <= Len(s))
    <3>1. i - Len(s) = j - Len(s)
      BY <1>9, <2>2, <2>4, <2>6
    <3> QED  BY <1>6, <1>8, <3>1
  <2>7. CASE i <= Len(s) /\ ~(j <= Len(s))
    <3>1. i \in 1..Len(s) /\ t[i] = s[i] /\ t[j] = W[j - Len(s)]
      <4>1. t[i] = s[i]
        BY <1>9, <2>7
      <4>2. t[j] = W[j - Len(s)]
        BY <1>9, <2>7
      <4>3. i \in 1..Len(s)
        BY <1>6, <1>8, <2>7
      <4> QED  BY <4>1, <4>2, <4>3
    <3> QED  BY <1>7, <2>1, <2>2, <2>7, <3>1
  <2>8. CASE ~(i <= Len(s)) /\ j <= Len(s)
    <3>1. j \in 1..Len(s) /\ t[j] = s[j] /\ t[i] = W[i - Len(s)]
      <4>1. t[j] = s[j]
        BY <1>9, <2>8
      <4>2. t[i] = W[i - Len(s)]
        BY <1>9, <2>8
      <4>3. j \in 1..Len(s)
        BY <1>6, <1>8, <2>8
      <4> QED  BY <4>1, <4>2, <4>3
    <3> QED  BY <1>7, <2>1, <2>2, <2>8, <3>1
  <2> QED  BY <2>5, <2>6, <2>7, <2>8
<1>12. CASE s = <<>>
  <2>1. Len(s) = 0 /\ 0 \in 0..Len(rows)
    BY <1>6, <1>12
  <2>2. TakesFirst(0, rows, ToSet(s))
    BY <1>6, <2>1 DEF TakesFirst, ToSet
  <2>3. Drops(0, rows, W)
    BY <1>3, <2>1, <2>2, WithoutFirst DEF W
  <2>4. Len(W) = Len(rows) /\ \A n \in 1..Len(rows) : W[n] = rows[n]
    BY <1>6, <2>3 DEF Drops
  <2>5. Len(t) = Len(rows)
    BY <1>8, <1>9, <2>1, <2>4
  <2>6. \A k \in 1..Len(rows) : t[k] = rows[k]
    BY <1>6, <1>8, <1>9, <2>1, <2>4
  <2>7. t = rows
    BY <1>3, <1>9, <2>5, <2>6, SeqEqual
  <2> QED  BY <1>3, <1>9, <1>11, <2>7 DEF next
<1>13. CASE s # <<>>
  <2>1. t = s \o Without(PageOf(Newest(S), p + 1), ToSet(s))
    BY <1>2 DEF W, rows, next
  <2>2. InPlace(S, t, p + 1)
    BY <1>13, <2>1, NextInPlace
  <2> QED  BY <1>9, <1>11, <2>2
<1> QED  BY <1>12, <1>13

\* A list in place shows all there is between its ends.
LEMMA SegmentShown ==
    ASSUME NEW v \in Nat, NEW S \in SUBSET (1..v), NEW u \in Nat,
           NEW U, Until(U, S, u),
           NEW s \in Seq(U), s # <<>>, NEW p, InPlace(U, s, p),
           Ahead(S, s[1]) <= PageSize
    PROVE  s = Newest({e \in S : s[Len(s)] <= e /\ e <= s[1]})
<1> DEFINE N == Cardinality(S)
           all == Newest(S)
           L == Len(s)
           Q == {e \in S : s[L] <= e /\ e <= s[1]}
           d == N - Cardinality(U)
           A == Ahead(U, s[1])
           a == A + d
<1>1. /\ all \in Seq(S) /\ Len(all) = N /\ N \in Nat
      /\ \A i \in S : Ahead(S, i) + 1 \in 1..N /\ all[Ahead(S, i) + 1] = i
      /\ \A i, j \in 1..N : i < j <=> all[j] < all[i]
  BY NewestFacts DEF Ahead
<1>2. /\ Cardinality(U) \in Nat /\ d \in Nat /\ U \in SUBSET S
      /\ \A e \in U : Ahead(S, e) = Ahead(U, e) + d
      /\ \A k \in 1..Cardinality(U) : all[d + k] = Newest(U)[k]
  <2>1. PushedBack(U, S)
    BY Shifted
  <2> QED  BY <2>1 DEF PushedBack
<1>3. L \in Nat \ {0} /\ \A k \in 1..L : s[k] \in U /\ s[k] \in S /\ s[k] \in 1..v
  <2>1. L \in Nat \ {0} /\ \A k \in 1..L : s[k] \in U
    BY EmptySeq, ElementOfSeq
  <2> QED  BY <1>2, <2>1
<1> HIDE DEF all, N
<1>4. A \in Nat /\ a \in Nat /\ Ahead(S, s[1]) = a
  <2>1. U \in SUBSET (1..v)
    BY <1>2
  <2>2. A \in Nat
    BY <2>1, NewestDistinct
  <2>3. Ahead(S, s[1]) = A + d
    BY <1>2, <1>3
  <2> QED  BY <1>2, <2>2, <2>3
<1>5. A + L <= Cardinality(U) /\ \A k \in 1..L : s[k] = Newest(U)[A + k]
  <2>1. PageSize \in Nat
    BY ShellAssumption
  <2>2. A <= PageSize
    BY <1>2, <1>4, <2>1
  <2> QED  BY <2>2 DEF InPlace
<1> HIDE DEF A
<1>6. \A k \in 1..L : s[k] = all[a + k] /\ a + k \in 1..N
  <2> SUFFICES ASSUME NEW k \in 1..L PROVE s[k] = all[a + k] /\ a + k \in 1..N
    OBVIOUS
  <2>1. A + k \in 1..Cardinality(U)
    BY <1>2, <1>3, <1>4, <1>5
  <2>2. s[k] = all[d + (A + k)]
    BY <1>2, <1>5, <2>1
  <2>3. d + (A + k) = a + k
    BY <1>2, <1>3, <1>4
  <2>4. N = Cardinality(U) + d
    BY <1>1, <1>2
  <2>5. a + k \in 1..N
    <3> HIDE DEF d, a, L
    <3> QED  BY <1>2, <1>4, <2>1, <2>3, <2>4
  <2> QED  BY <2>2, <2>3, <2>5
<1> HIDE DEF L, a, d
<1>7. \A i, j \in 1..L : i < j => s[j] < s[i]
  <2> SUFFICES ASSUME NEW i \in 1..L, NEW j \in 1..L, i < j PROVE s[j] < s[i]
    OBVIOUS
  <2>1. a + i < a + j
    BY <1>3, <1>4
  <2> QED  BY <1>1, <1>6, <2>1
<1>8. Collects(Q, s, L)
  <2>1. ASSUME NEW k \in 1..L PROVE s[k] \in Q
    <3>1. k = 1 \/ s[k] < s[1]
      BY <1>3, <1>7
    <3>2. k = L \/ s[L] < s[k]
      BY <1>3, <1>7
    <3>3. s[k] \in Int /\ s[1] \in Int /\ s[L] \in Int
      BY <1>3
    <3> QED  BY <1>3, <3>1, <3>2, <3>3
  <2>2. ASSUME NEW e \in Q PROVE \E k \in 1..L : e = s[k]
    <3> DEFINE i == Ahead(S, e) + 1
    <3>1. i \in 1..N /\ all[i] = e /\ e \in Int
      BY <1>1
    <3>2. s[1] = all[a + 1] /\ a + 1 \in 1..N /\ s[L] = all[a + L] /\ a + L \in 1..N
      BY <1>3, <1>6
    <3>3. s[1] \in Int /\ s[L] \in Int
      BY <1>3
    <3> HIDE DEF i
    <3>4. ~(i < a + 1) /\ ~(a + L < i)
      BY <1>1, <3>1, <3>2, <3>3
    <3>5. i - a \in 1..L /\ a + (i - a) = i
      BY <1>1, <1>3, <1>4, <3>1, <3>4
    <3> QED  BY <1>6, <3>1, <3>5
  <2> QED  BY <2>1, <2>2 DEF Collects
<1>9. s \in Seq(1..v)
  BY <1>2, SeqMonotonic
<1> HIDE DEF Q
<1>10. s = Newest(Q)
  BY <1>7, <1>8, <1>9, NewestOfList DEF L
<1> QED  BY <1>10 DEF Q, L

\* A list as long as there are events leaves none out.
LEMMA NothingLeft ==
    ASSUME NEW v \in Nat, NEW W \in SUBSET (1..v), NEW U \in SUBSET W,
           NEW s \in Seq(U), IsInjective(s), Cardinality(W) <= Len(s)
    PROVE  \A e \in U : e \in ToSet(s)
<1> DEFINE Q == ToSet(s)
<1>1. DOMAIN s = 1..Len(s) /\ Len(s) \in Nat /\ \A k \in 1..Len(s) : s[k] \in U
  BY LenProperties, ElementOfSeq
<1>2. Collects(Q, s, Len(s)) /\ DistinctTo(s, Len(s))
  BY <1>1 DEF Collects, DistinctTo, IsInjective, ToSet
<1>3. Q \in SUBSET W
  BY <1>1 DEF ToSet
<1> HIDE DEF Q
<1>4. Cardinality(Q) = Len(s)
  BY <1>1, <1>2, CountedOnce
<1>5. IsFiniteSet(W) /\ Cardinality(W) \in Nat
  BY NewestFacts
<1>6. Cardinality(Q) <= Cardinality(W) /\ (Cardinality(Q) = Cardinality(W) => Q = W)
  BY <1>3, <1>5, FS_Subset
<1>7. Q = W
  BY <1>1, <1>4, <1>5, <1>6
<1> QED  BY <1>7 DEF Q

-----------------------------------------------------------------------------
(* The history while others write.                                          *)

\* What was written stays.
Grown ==
    /\ history \in Seq(Writes) /\ history' \in Seq(Writes)
    /\ Len(history) <= Len(history')
    /\ \A i \in 1..Len(history) : history'[i] = history[i]

\* The events of the filter among the first v writes.
HeldIn(h, v, filter) == {i \in 1..v : h[i] \in Events /\ filter \in {NoFilter, h[i]}}

\* An earlier query saw the earlier part of what a later one sees.
LEMMA HeldFacts ==
    ASSUME NEW h, NEW filter, NEW v \in Nat
    PROVE  /\ HeldIn(h, v, filter) \in SUBSET (1..v)
           /\ \A u \in Nat : u <= v
                 => Until(HeldIn(h, u, filter), HeldIn(h, v, filter), u)
  BY DEF HeldIn, Until

\* What a query saw stays what it was when the server goes on.
LEMMA HeldKept ==
    ASSUME Grown, NEW v \in Instants, NEW filter
    PROVE  HeldIn(history', v, filter) = HeldIn(history, v, filter)
<1>1. Len(history) \in Nat
  BY LenProperties DEF Grown
<1>2. \A i \in 1..v : history'[i] = history[i]
  BY <1>1 DEF Grown, Instants, Now
<1> QED  BY <1>2 DEF HeldIn

\* Moments that have been stay moments of the history.
LEMMA InstantsGrow ==
    ASSUME Grown
    PROVE  Now \in Nat /\ Now' \in Nat /\ Instants \subseteq Instants' /\ Now \in Instants
<1>1. Len(history) \in Nat /\ Len(history') \in Nat
  BY LenProperties DEF Grown
<1> QED  BY <1>1 DEF Grown, Instants, Now

-----------------------------------------------------------------------------
(* Requests for a page.                                                     *)

\* A request after which another one was sent.
NoLonger(f) == [f EXCEPT !.last = FALSE]

\* Sending one leaves the others unchanged but for being the last.
Sends(s, request, n, F) ==
    /\ n \in Seq(F) /\ Len(n) = Len(s) + 1
    /\ n[Len(s) + 1] = request
    /\ \A k \in 1..Len(s) : n[k] = NoLonger(s[k])

\* Send does what Sends says, for the requests of either list.
LEMMA RequestSent ==
    ASSUME NEW F, NEW s \in Seq(F), NEW request \in F, \A f \in F : NoLonger(f) \in F
    PROVE  Sends(s, request, Send(s, request), F)
<1>1. Len(s) \in Nat /\ DOMAIN s = 1..Len(s) /\ \A k \in 1..Len(s) : s[k] \in F
  BY LenProperties, ElementOfSeq
<1> DEFINE old == Superseded(s)
<1>2. /\ old = [k \in 1..Len(s) |-> NoLonger(s[k])]
  BY <1>1 DEF Superseded, NoLonger
<1>3. old \in [1..Len(s) -> F] /\ \A k \in 1..Len(s) : old[k] = NoLonger(s[k])
  BY <1>1, <1>2
<1> HIDE DEF old
<1>4. old \in Seq(F) /\ Len(old) = Len(s)
  BY <1>1, <1>3
<1>5. /\ Append(old, request) \in Seq(F)
      /\ Len(Append(old, request)) = Len(old) + 1
      /\ \A k \in 1..Len(old) : Append(old, request)[k] = old[k]
      /\ Append(old, request)[Len(old) + 1] = request
  BY <1>4, AppendProperties
<1>6. Send(s, request) = Append(old, request)
  BY DEF Send, old
<1> QED  BY <1>3, <1>4, <1>5, <1>6 DEF Sends

-----------------------------------------------------------------------------
(* The event history: its requests and its list.                            *)

\* Only the last request may still change the list; it is for what the list
\* lacks and, once read, not older than the list.
Current(flight, filter, p, r) ==
    /\ flight.filter = filter
    /\ flight.rowsAt # Unread => flight.rowsAt >= r
    /\ IF flight.append THEN flight.page = p + 1 ELSE flight.page = 1 /\ p = 1

\* Of the requests of the history only the last one sent counts, and that one was
\* sent for the filter, the page and the rows on screen.
EventRequests ==
    /\ eventFlights \in Seq(EventFlight)
    /\ \A k \in 1..Len(eventFlights) :
         /\ eventFlights[k].rowsAt \in Instants \cup {Unread}
         /\ eventFlights[k].countAt \in Instants \cup {Unread}
         /\ eventFlights[k].last
            => k = Len(eventFlights) /\ Current(eventFlights[k], runFilter, page, asOf.rowsAt)

\* Each event on screen stands where the log had it when its page was read.
EventList ==
    /\ asOf \in [rowsAt : Instants, countAt : Instants]
    /\ page \in Nat \ {0} /\ runFilter \in Filters /\ loading \in BOOLEAN
    /\ total \in {NoTotal, Cardinality(HeldIn(history, asOf.countAt, runFilter))}
    /\ items \in Seq(HeldIn(history, asOf.rowsAt, runFilter))
    /\ IsInjective(items)
    /\ InPlace(HeldIn(history, asOf.rowsAt, runFilter), items, page)

\* The inductive invariant of the history.
TimelineInv == EventRequests /\ EventList

\* Steps of the others leave its requests as they were.
LEMMA EventRequestsKept ==
    ASSUME EventRequests, Grown, UNCHANGED <<eventFlights, page, runFilter, asOf>>
    PROVE  EventRequests'
<1>1. Instants \subseteq Instants'
  BY InstantsGrow
<1> QED  BY <1>1 DEF EventRequests

\* Steps of the others leave its list as it was.
LEMMA EventListKept ==
    ASSUME EventList, Grown, UNCHANGED <<items, page, total, runFilter, asOf>>,
           loading' \in BOOLEAN
    PROVE  EventList'
<1>1. asOf.rowsAt \in Instants /\ asOf.countAt \in Instants
  BY DEF EventList
<1>2. /\ HeldIn(history', asOf.rowsAt, runFilter) = HeldIn(history, asOf.rowsAt, runFilter)
      /\ HeldIn(history', asOf.countAt, runFilter) = HeldIn(history, asOf.countAt, runFilter)
  BY <1>1, HeldKept
<1>3. asOf' \in [rowsAt : Instants', countAt : Instants']
  BY InstantsGrow DEF EventList
<1> QED  BY <1>2, <1>3 DEF EventList

\* A list begun anew.
LEMMA EventListEmpty ==
    ASSUME Grown, items' = <<>>, page' = 1, total' = NoTotal, runFilter' \in Filters,
           loading' \in BOOLEAN, asOf' \in [rowsAt : Instants', countAt : Instants']
    PROVE  EventList'
<1>1. items' \in Seq(HeldIn(history', asOf'.rowsAt, runFilter'))
  BY EmptySeq
<1>2. IsInjective(items')
  BY DEF IsInjective
<1>3. InPlace(HeldIn(history', asOf'.rowsAt, runFilter'), items', page')
  BY DEF InPlace
<1> QED  BY <1>1, <1>2, <1>3 DEF EventList

\* Sending a request supersedes those under way.
LEMMA EventSent ==
    ASSUME EventRequests, Grown, NEW n \in Nat \ {0}, NEW append \in BOOLEAN,
           NEW filter \in Filters,
           eventFlights' = Send(eventFlights, NewEventFlight(n, append, filter)),
           runFilter' = filter,
           IF append THEN n = page' + 1 ELSE n = 1 /\ page' = 1
    PROVE  EventRequests'
<1> DEFINE request == NewEventFlight(n, append, filter)
<1>1. /\ request \in EventFlight /\ request.last = TRUE
      /\ request.rowsAt = Unread /\ request.countAt = Unread
      /\ request.filter = filter /\ request.append = append /\ request.page = n
  BY DEF NewEventFlight, EventFlight, Unread
<1>2. \A f \in EventFlight : /\ NoLonger(f) \in EventFlight /\ NoLonger(f).last = FALSE
                             /\ NoLonger(f).rowsAt = f.rowsAt
                             /\ NoLonger(f).countAt = f.countAt
  BY DEF EventFlight, NoLonger
<1> HIDE DEF request
<1>3. Sends(eventFlights, request, eventFlights', EventFlight)
  BY <1>1, <1>2, RequestSent DEF EventRequests, request
<1>4. Len(eventFlights) \in Nat /\ \A k \in 1..Len(eventFlights) : eventFlights[k] \in EventFlight
  BY LenProperties, ElementOfSeq DEF EventRequests
<1>5. Instants \subseteq Instants'
  BY InstantsGrow
<1>6. Current(request, runFilter', page', asOf'.rowsAt)
  BY <1>1 DEF Current, request
<1>7. ASSUME NEW k \in 1..Len(eventFlights')
      PROVE  /\ eventFlights'[k].rowsAt \in Instants' \cup {Unread}
             /\ eventFlights'[k].countAt \in Instants' \cup {Unread}
             /\ eventFlights'[k].last => k = Len(eventFlights') /\ eventFlights'[k] = request
  <2>1. CASE k = Len(eventFlights) + 1
    BY <1>1, <1>3, <2>1 DEF Sends
  <2>2. CASE k # Len(eventFlights) + 1
    <3>1. k \in 1..Len(eventFlights)
      BY <1>3, <1>4, <2>2 DEF Sends
    <3>2. eventFlights'[k] = NoLonger(eventFlights[k])
      BY <1>3, <3>1 DEF Sends
    <3>3. /\ eventFlights[k].rowsAt \in Instants \cup {Unread}
          /\ eventFlights[k].countAt \in Instants \cup {Unread}
      BY <3>1 DEF EventRequests
    <3> QED  BY <1>2, <1>4, <1>5, <3>1, <3>2, <3>3
  <2> QED  BY <2>1, <2>2
<1> QED  BY <1>3, <1>6, <1>7 DEF EventRequests, Sends

\* A request over; the list has changed only by the last one.
LEMMA EventOver ==
    ASSUME EventRequests, Grown, NEW k \in DOMAIN eventFlights, runFilter' = runFilter,
           eventFlights' = RemoveAt(eventFlights, k),
           eventFlights[k].last \/ UNCHANGED <<page, asOf>>
    PROVE  EventRequests'
<1>1. Len(eventFlights) \in Nat /\ DOMAIN eventFlights = 1..Len(eventFlights)
  BY LenProperties DEF EventRequests
<1>2. /\ eventFlights' \in Seq(EventFlight)
      /\ Len(eventFlights') = Len(eventFlights) - 1
      /\ \A j \in 1..(Len(eventFlights) - 1) :
            eventFlights'[j] = IF j < k THEN eventFlights[j] ELSE eventFlights[j + 1]
  BY <1>1, Removed DEF EventRequests
<1>3. Instants \subseteq Instants'
  BY InstantsGrow
<1>4. ASSUME NEW j \in 1..Len(eventFlights')
      PROVE  /\ eventFlights'[j].rowsAt \in Instants' \cup {Unread}
             /\ eventFlights'[j].countAt \in Instants' \cup {Unread}
             /\ eventFlights'[j].last
                => /\ j = Len(eventFlights')
                   /\ Current(eventFlights'[j], runFilter', page', asOf'.rowsAt)
  <2> DEFINE i == IF j < k THEN j ELSE j + 1
  <2>1. i \in 1..Len(eventFlights) /\ i # k /\ eventFlights'[j] = eventFlights[i]
    BY <1>1, <1>2
  <2>2. i = Len(eventFlights) => j = Len(eventFlights')
    <3>1. Len(eventFlights') = Len(eventFlights) - 1
      BY <1>2
    <3>2. j \in Int /\ j <= Len(eventFlights) - 1
      BY <1>1, <3>1
    <3>5. i = j \/ i = j + 1
      OBVIOUS
    <3> HIDE DEF i
    <3>3. CASE i = j
      BY <1>1, <3>2, <3>3
    <3>4. CASE i = j + 1
      <4>1. j = i - 1
        BY <3>2, <3>4
      <4> QED  BY <3>1, <4>1
    <3> QED  BY <3>3, <3>4, <3>5
  <2> HIDE DEF i
  <2>3. /\ eventFlights[i].rowsAt \in Instants \cup {Unread}
        /\ eventFlights[i].countAt \in Instants \cup {Unread}
        /\ eventFlights[i].last
           => i = Len(eventFlights) /\ Current(eventFlights[i], runFilter, page, asOf.rowsAt)
    BY <2>1 DEF EventRequests
  <2>4. eventFlights[k].last => k = Len(eventFlights)
    BY <1>1 DEF EventRequests
  <2>5. eventFlights[i].last => UNCHANGED <<page, asOf>>
    BY <2>1, <2>3, <2>4
  <2>6. eventFlights[i].last => Current(eventFlights[i], runFilter', page', asOf'.rowsAt)
    BY <2>3, <2>5
  <2> QED  BY <1>3, <2>1, <2>2, <2>3, <2>6
<1> QED  BY <1>2, <1>4 DEF EventRequests

\* One of the queries of a request runs.
LEMMA EventRead ==
    ASSUME EventRequests, EventList, Grown, history' = history, NEW k, ReadEvents(k)
    PROVE  EventRequests'
<1>1. /\ Len(eventFlights) \in Nat /\ DOMAIN eventFlights = 1..Len(eventFlights)
      /\ k \in 1..Len(eventFlights) /\ eventFlights[k] \in EventFlight
  <2>1. Len(eventFlights) \in Nat /\ DOMAIN eventFlights = 1..Len(eventFlights)
    BY LenProperties DEF EventRequests
  <2>2. k \in DOMAIN eventFlights
    BY DEF ReadEvents
  <2> QED  BY <2>1, <2>2, ElementOfSeq DEF EventRequests
<1>2. Now \in Nat /\ Now \in Instants /\ Instants' = Instants
  BY InstantsGrow DEF Instants, Now
<1>3. UNCHANGED <<page, runFilter, asOf>>
  BY DEF ReadEvents
<1>4. PICK f \in EventFlight :
        /\ eventFlights' = [eventFlights EXCEPT ![k] = f]
        /\ f.rowsAt \in {eventFlights[k].rowsAt, Now}
        /\ f.countAt \in {eventFlights[k].countAt, Now}
        /\ f.last = eventFlights[k].last /\ f.filter = eventFlights[k].filter
        /\ f.append = eventFlights[k].append /\ f.page = eventFlights[k].page
  <2>1. CASE eventFlights' = Answered(eventFlights, k, "rowsAt")
    <3> DEFINE f == [eventFlights[k] EXCEPT !.rowsAt = Now]
    <3>1. eventFlights' = [eventFlights EXCEPT ![k] = f]
      BY <2>1 DEF Answered
    <3>2. /\ f \in EventFlight /\ f.rowsAt = Now /\ f.countAt = eventFlights[k].countAt
          /\ f.last = eventFlights[k].last /\ f.filter = eventFlights[k].filter
          /\ f.append = eventFlights[k].append /\ f.page = eventFlights[k].page
      BY <1>1, <1>2 DEF EventFlight
    <3> HIDE DEF f
    <3> QED  BY <3>1, <3>2
  <2>2. CASE eventFlights' = Answered(eventFlights, k, "countAt")
    <3> DEFINE f == [eventFlights[k] EXCEPT !.countAt = Now]
    <3>1. eventFlights' = [eventFlights EXCEPT ![k] = f]
      BY <2>2 DEF Answered
    <3>2. /\ f \in EventFlight /\ f.countAt = Now /\ f.rowsAt = eventFlights[k].rowsAt
          /\ f.last = eventFlights[k].last /\ f.filter = eventFlights[k].filter
          /\ f.append = eventFlights[k].append /\ f.page = eventFlights[k].page
      BY <1>1, <1>2 DEF EventFlight
    <3> HIDE DEF f
    <3> QED  BY <3>1, <3>2
  <2>3. PICK query \in {"rowsAt", "countAt"} : eventFlights' = Answered(eventFlights, k, query)
    BY DEF ReadEvents
  <2> QED  BY <2>1, <2>2, <2>3
<1>5. /\ eventFlights' \in Seq(EventFlight) /\ Len(eventFlights') = Len(eventFlights)
      /\ \A j \in 1..Len(eventFlights) :
            eventFlights'[j] = IF j = k THEN f ELSE eventFlights[j]
  <2>1. f \in EventFlight /\ eventFlights' = [eventFlights EXCEPT ![k] = f]
    BY <1>4
  <2>2. eventFlights \in Seq(EventFlight)
    BY DEF EventRequests
  <2>3. eventFlights' \in Seq(EventFlight) /\ Len(eventFlights') = Len(eventFlights)
    BY <1>1, <2>1, <2>2, ExceptSeq
  <2>4. \A j \in 1..Len(eventFlights) :
           eventFlights'[j] = IF j = k THEN f ELSE eventFlights[j]
    BY <1>1, <2>1
  <2> QED  BY <2>3, <2>4
<1>6. asOf.rowsAt <= Now
  BY <1>2 DEF EventList, Instants
<1>7. Current(eventFlights[k], runFilter, page, asOf.rowsAt)
      => Current(f, runFilter, page, asOf.rowsAt)
  BY <1>2, <1>4, <1>6 DEF Current
<1>8. /\ f.rowsAt \in Instants \cup {Unread} /\ f.countAt \in Instants \cup {Unread}
      /\ f.last => k = Len(eventFlights) /\ Current(f, runFilter, page, asOf.rowsAt)
  BY <1>1, <1>2, <1>4, <1>7 DEF EventRequests
<1> QED  BY <1>2, <1>3, <1>5, <1>8 DEF EventRequests

\* What the route answers is a page of what was held then.
LEMMA PageHeld ==
    ASSUME NEW v, NEW filter, NEW n
    PROVE  /\ ListRecent(v, filter, n) = PageOf(Newest(HeldIn(history, v, filter)), n)
           /\ EventsAt(v, filter) = Newest(HeldIn(history, v, filter))
  BY DEF ListRecent, PageOf, EventsAt, HeldIn

\* The last request arrives.
LEMMA EventShown ==
    ASSUME EventRequests, EventList, Grown, history' = history,
           NEW k \in DOMAIN eventFlights, EventsArrive(k), eventFlights[k].last
    PROVE  EventList'
<1> DEFINE flight == eventFlights[k]
           v == flight.rowsAt
           S == HeldIn(history, v, runFilter)
           U == HeldIn(history, asOf.rowsAt, runFilter)
           rows == ListRecent(v, flight.filter, flight.page)
<1>1. /\ k \in 1..Len(eventFlights) /\ flight \in EventFlight
  BY LenProperties, ElementOfSeq DEF EventRequests
<1>2. /\ flight.rowsAt \in Instants /\ flight.countAt \in Instants
      /\ Current(flight, runFilter, page, asOf.rowsAt)
      /\ Instants' = Instants /\ Instants \subseteq Nat
      /\ v \in Nat /\ asOf.rowsAt \in Nat /\ asOf.rowsAt <= v
  <2>1. flight.rowsAt \in Instants /\ flight.countAt \in Instants
    BY <1>1 DEF EventRequests, EventsArrive
  <2>2. Current(flight, runFilter, page, asOf.rowsAt)
    BY <1>1 DEF EventRequests
  <2>3. Instants' = Instants /\ Instants \subseteq Nat
    BY InstantsGrow DEF Instants, Now
  <2>4. asOf.rowsAt \in Instants
    BY DEF EventList
  <2>5. flight.rowsAt # Unread
    BY DEF EventsArrive
  <2> QED  BY <2>1, <2>2, <2>3, <2>4, <2>5 DEF Current
<1>3. /\ total' = Count(flight.countAt, flight.filter)
      /\ items' = IF flight.append THEN Appended(items, rows) ELSE rows
      /\ page' = IF flight.append THEN flight.page ELSE page
      /\ loading' = FALSE /\ runFilter' = runFilter
      /\ asOf' = [rowsAt |-> flight.rowsAt, countAt |-> flight.countAt]
  BY DEF EventsArrive
<1>4. /\ S \in SUBSET (1..v) /\ Until(U, S, asOf.rowsAt)
  BY <1>2, HeldFacts
<1>5. rows = PageOf(Newest(S), flight.page) /\ flight.filter = runFilter
  BY <1>2, PageHeld DEF Current
<1>6. total' = Cardinality(HeldIn(history, flight.countAt, runFilter))
  <2>1. flight.countAt \in Nat
    BY <1>2
  <2>2. HeldIn(history, flight.countAt, runFilter) \in SUBSET (1..flight.countAt)
    BY <2>1, HeldFacts
  <2>3. Len(Newest(HeldIn(history, flight.countAt, runFilter)))
          = Cardinality(HeldIn(history, flight.countAt, runFilter))
    BY <2>1, <2>2, NewestFacts
  <2> QED  BY <1>3, <1>5, <2>3, PageHeld DEF Count
<1>7. asOf' \in [rowsAt : Instants, countAt : Instants] /\ asOf'.rowsAt = v
      /\ asOf'.countAt = flight.countAt
  BY <1>2, <1>3
<1>8. page \in Nat \ {0} /\ runFilter \in Filters
  BY DEF EventList
<1> HIDE DEF S, U, rows, v
<1>9. items \in Seq(U) /\ IsInjective(items) /\ InPlace(U, items, page)
  BY DEF EventList, U
<1>10. /\ items' \in Seq(S) /\ IsInjective(items') /\ InPlace(S, items', page')
       /\ page' \in Nat \ {0}
  <2>1. CASE flight.append
    <3>1. flight.page = page + 1
      BY <1>2, <2>1 DEF Current
    <3>2. items' = Appended(items, PageOf(Newest(S), page + 1)) /\ page' = page + 1
      BY <1>3, <1>5, <2>1, <3>1
    <3>3. items' \in Seq(S) /\ IsInjective(items') /\ InPlace(S, items', page + 1)
      BY <1>2, <1>4, <1>8, <1>9, <3>2, NextLoaded
    <3> QED  BY <1>8, <3>2, <3>3
  <2>2. CASE ~flight.append
    <3>1. flight.page = 1 /\ page = 1
      BY <1>2, <2>2 DEF Current
    <3>2. items' = PageOf(Newest(S), 1) /\ page' = 1
      BY <1>3, <1>5, <2>2, <3>1
    <3> DEFINE n == 1
    <3>3. n \in Nat \ {0}
      OBVIOUS
    <3> HIDE DEF n
    <3>4. /\ PageOf(Newest(S), n) \in Seq(S) /\ IsInjective(PageOf(Newest(S), n))
          /\ InPlace(S, PageOf(Newest(S), n), n)
      BY <1>2, <1>4, <3>3, FirstInPlace
    <3> QED  BY <3>2, <3>4 DEF n
  <2> QED  BY <2>1, <2>2
<1> QED  BY <1>2, <1>3, <1>6, <1>7, <1>8, <1>10 DEF EventList, S, v

-----------------------------------------------------------------------------
(* The activity list: its requests and its list.                            *)

\* The last request, if it appends, is for the page counted last.
FeedRequests ==
    /\ feedFlights \in Seq(FeedFlight)
    /\ \A k \in 1..Len(feedFlights) :
         /\ feedFlights[k].readAt \in Instants \cup {Unread}
         /\ feedFlights[k].last =>
              /\ k = Len(feedFlights)
              /\ feedFlights[k].page = IF feedFlights[k].append THEN feedPage ELSE 1

\* Of the activity list only the types are needed.
FeedList ==
    /\ listed \in Seq(Items) /\ feedPage \in Nat \ {0}
    /\ feedTotal \in Int /\ feedLoading \in BOOLEAN
    /\ marks \in Seq(Mark) /\ listedAt \in Instants

\* The inductive invariant of the activity list.
FeedInv == FeedRequests /\ FeedList

\* A query for the activity list returns a list of items.
LEMMA FeedAtType ==
    ASSUME history \in Seq(Writes), NEW v \in Instants
    PROVE  FeedAt(v) \in Seq(Items) /\ Len(FeedAt(v)) \in Nat
<1> DEFINE S == {n \in 1..v : /\ history[n] \in Items
                              /\ \A later \in (n + 1)..v : history[later] # history[n]}
           N == Cardinality(S)
<1>1. v \in Nat
  BY LenProperties DEF Instants, Now
<1>2. S \in SUBSET (1..v) /\ \A n \in S : history[n] \in Items
  OBVIOUS
<1>3. LastTouched(v) = Newest(S)
  BY DEF LastTouched
<1> HIDE DEF S
<1>4. N \in Nat /\ Newest(S) \in Seq(S) /\ Len(Newest(S)) = N
  BY <1>1, <1>2, NewestFacts
<1>5. DOMAIN Newest(S) = 1..N /\ \A k \in 1..N : Newest(S)[k] \in S
  BY <1>4, LenProperties, ElementOfSeq
<1> HIDE DEF N
<1>6. FeedAt(v) = [k \in 1..N |-> history[Newest(S)[k]]]
  BY <1>3, <1>5 DEF FeedAt
<1>7. FeedAt(v) \in [1..N -> Items]
  BY <1>2, <1>5, <1>6
<1>8. FeedAt(v) \in Seq(Items)
  BY <1>4, <1>7
<1> QED  BY <1>8, LenProperties

\* A page of the activity list is a page by offset.
LEMMA FeedPageOf == ASSUME NEW v, NEW n PROVE FeedPage(v, n) = PageOf(FeedAt(v), n)
  BY DEF FeedPage, PageOf

\* Steps of the others leave its requests as they were.
LEMMA FeedRequestsKept ==
    ASSUME FeedRequests, Grown, UNCHANGED <<feedFlights, feedPage>>
    PROVE  FeedRequests'
<1>1. Instants \subseteq Instants'
  BY InstantsGrow
<1> QED  BY <1>1 DEF FeedRequests

\* Steps of the others leave its list as it was.
LEMMA FeedListKept ==
    ASSUME FeedList, Grown, UNCHANGED <<listed, feedPage, feedTotal, marks, listedAt>>,
           feedLoading' \in BOOLEAN
    PROVE  FeedList'
<1>1. Instants \subseteq Instants'
  BY InstantsGrow
<1> QED  BY <1>1 DEF FeedList

\* Sending a request supersedes those under way.
LEMMA FeedSent ==
    ASSUME FeedRequests, Grown, NEW n \in Nat \ {0}, NEW append \in BOOLEAN,
           feedFlights' = Send(feedFlights, NewFeedFlight(n, append)),
           n = IF append THEN feedPage' ELSE 1
    PROVE  FeedRequests'
<1> DEFINE request == NewFeedFlight(n, append)
<1>1. /\ request \in FeedFlight /\ request.readAt = Unread
      /\ request.append = append /\ request.page = n
  BY DEF NewFeedFlight, FeedFlight, Unread
<1>2. \A f \in FeedFlight : /\ NoLonger(f) \in FeedFlight /\ NoLonger(f).last = FALSE
                            /\ NoLonger(f).readAt = f.readAt
  BY DEF FeedFlight, NoLonger
<1> HIDE DEF request
<1>3. Sends(feedFlights, request, feedFlights', FeedFlight)
  BY <1>1, <1>2, RequestSent DEF FeedRequests, request
<1>4. Len(feedFlights) \in Nat /\ \A k \in 1..Len(feedFlights) : feedFlights[k] \in FeedFlight
  BY LenProperties, ElementOfSeq DEF FeedRequests
<1>5. Instants \subseteq Instants'
  BY InstantsGrow
<1>6. ASSUME NEW k \in 1..Len(feedFlights')
      PROVE  /\ feedFlights'[k].readAt \in Instants' \cup {Unread}
             /\ feedFlights'[k].last => k = Len(feedFlights') /\ feedFlights'[k] = request
  <2>1. CASE k = Len(feedFlights) + 1
    BY <1>1, <1>3, <2>1 DEF Sends
  <2>2. CASE k # Len(feedFlights) + 1
    <3>1. k \in 1..Len(feedFlights)
      BY <1>3, <1>4, <2>2 DEF Sends
    <3>2. feedFlights'[k] = NoLonger(feedFlights[k])
      BY <1>3, <3>1 DEF Sends
    <3>3. feedFlights[k].readAt \in Instants \cup {Unread}
      BY <3>1 DEF FeedRequests
    <3> QED  BY <1>2, <1>4, <1>5, <3>1, <3>2, <3>3
  <2> QED  BY <2>1, <2>2
<1>7. request.page = IF request.append THEN feedPage' ELSE 1
  BY <1>1
<1> QED  BY <1>3, <1>6, <1>7 DEF FeedRequests, Sends

\* A query runs for a request under way.
LEMMA FeedRead ==
    ASSUME FeedRequests, Grown, NEW k \in DOMAIN feedFlights, ReadFeed(k)
    PROVE  FeedRequests'
<1>1. /\ Len(feedFlights) \in Nat /\ DOMAIN feedFlights = 1..Len(feedFlights)
      /\ k \in 1..Len(feedFlights) /\ feedFlights[k] \in FeedFlight
  BY LenProperties, ElementOfSeq DEF FeedRequests
<1>2. Now \in Nat /\ Now \in Instants /\ Instants' = Instants /\ feedPage' = feedPage
  BY InstantsGrow DEF ReadFeed, Instants, Now
<1> DEFINE f == [feedFlights[k] EXCEPT !.readAt = Now]
<1>3. feedFlights' = [feedFlights EXCEPT ![k] = f]
  BY DEF ReadFeed, Answered
<1>4. /\ f \in FeedFlight /\ f.readAt = Now /\ f.last = feedFlights[k].last
      /\ f.append = feedFlights[k].append /\ f.page = feedFlights[k].page
  BY <1>1, <1>2 DEF FeedFlight
<1> HIDE DEF f
<1>5. /\ feedFlights' \in Seq(FeedFlight) /\ Len(feedFlights') = Len(feedFlights)
      /\ \A j \in 1..Len(feedFlights) : feedFlights'[j] = IF j = k THEN f ELSE feedFlights[j]
  BY <1>1, <1>3, <1>4, ExceptSeq DEF FeedRequests
<1>6. ASSUME NEW j \in 1..Len(feedFlights')
      PROVE  /\ feedFlights'[j].readAt \in Instants' \cup {Unread}
             /\ feedFlights'[j].last =>
                  /\ j = Len(feedFlights')
                  /\ feedFlights'[j].page = IF feedFlights'[j].append THEN feedPage' ELSE 1
  <2>1. /\ feedFlights[j].readAt \in Instants \cup {Unread}
        /\ feedFlights[j].last =>
             /\ j = Len(feedFlights)
             /\ feedFlights[j].page = IF feedFlights[j].append THEN feedPage ELSE 1
    BY <1>5 DEF FeedRequests
  <2>2. CASE j = k
    BY <1>2, <1>4, <1>5, <2>1, <2>2
  <2>3. CASE j # k
    BY <1>2, <1>5, <2>1, <2>3
  <2> QED  BY <2>2, <2>3
<1> QED  BY <1>5, <1>6 DEF FeedRequests

\* A request that ended is forgotten.
LEMMA FeedOver ==
    ASSUME FeedRequests, Grown, NEW k \in DOMAIN feedFlights, feedPage' = feedPage,
           feedFlights' = RemoveAt(feedFlights, k)
    PROVE  FeedRequests'
<1>1. Len(feedFlights) \in Nat /\ DOMAIN feedFlights = 1..Len(feedFlights)
  BY LenProperties DEF FeedRequests
<1>2. /\ feedFlights' \in Seq(FeedFlight)
      /\ Len(feedFlights') = Len(feedFlights) - 1
      /\ \A j \in 1..(Len(feedFlights) - 1) :
            feedFlights'[j] = IF j < k THEN feedFlights[j] ELSE feedFlights[j + 1]
  BY <1>1, Removed DEF FeedRequests
<1>3. Instants \subseteq Instants'
  BY InstantsGrow
<1>4. ASSUME NEW j \in 1..Len(feedFlights')
      PROVE  \E i \in 1..Len(feedFlights) :
                /\ feedFlights'[j] = feedFlights[i]
                /\ i = Len(feedFlights) => j = Len(feedFlights')
  <2>1. j \in Int /\ 1 <= j /\ j <= Len(feedFlights) - 1 /\ k \in Int /\ 1 <= k
    BY <1>1, <1>2
  <2>2. CASE j < k
    <3>1. j \in 1..Len(feedFlights) /\ j < Len(feedFlights)
      BY <1>1, <2>1
    <3>2. feedFlights'[j] = feedFlights[j]
      BY <1>1, <1>2, <2>1, <2>2
    <3>3. ASSUME j = Len(feedFlights) PROVE FALSE
      <4> DEFINE n == Len(feedFlights)
      <4>1. j \in Int /\ n \in Int /\ j < n /\ j = n
        BY <1>1, <2>1, <3>1, <3>3
      <4> HIDE DEF n
      <4> QED  BY <4>1
    <3> QED  BY <3>1, <3>2, <3>3
  <2>3. CASE ~(j < k)
    <3> DEFINE i == j + 1
    <3>1. i \in 1..Len(feedFlights) /\ j = i - 1
      BY <1>1, <2>1
    <3>2. feedFlights'[j] = feedFlights[i]
      BY <1>2, <2>3
    <3> HIDE DEF i
    <3> QED  BY <1>2, <3>1, <3>2
  <2> QED  BY <2>2, <2>3
<1> QED  BY <1>2, <1>3, <1>4 DEF FeedRequests

-----------------------------------------------------------------------------
(* The dashboard as a whole.                                                *)

\* The inductive invariant of the page.
BoardInv ==
    /\ history \in Seq(Writes) /\ tab \in Tabs /\ followed \in Panels
    /\ PanelInv /\ FeedInv /\ TimelineInv

\* Whoever writes only adds to the history.
LEMMA Appends ==
    ASSUME history \in Seq(Writes), NEW w \in Writes, Commit(w)
    PROVE  Grown
<1>1. Len(history) \in Nat
  BY LenProperties
<1>2. /\ history' \in Seq(Writes) /\ Len(history') = Len(history) + 1
      /\ \A i \in 1..Len(history) : history'[i] = history[i]
  BY AppendProperties DEF Commit
<1> QED  BY <1>1, <1>2 DEF Grown

\* No write, nothing taken from the history.
LEMMA SameHistory == ASSUME history \in Seq(Writes), history' = history PROVE Grown
  BY LenProperties DEF Grown

\* The steps of the summary only add to the history.
LEMMA PanelWrites ==
    ASSUME history \in Seq(Writes), followed = "summary", PanelInv, PanelNext
    PROVE  Grown
<1>1. CASE history' = history
  BY <1>1, SameHistory
<1>2. CASE \E k \in DOMAIN openWrites : ServerCommits(k)
  <2>1. PICK k \in DOMAIN openWrites : ServerCommits(k)
    BY <1>2
  <2>2. openWrites[k] \in OpenWrite
    BY <2>1, LenProperties, ElementOfSeq DEF PanelInv, UnderWay
  <2>3. \E w \in Writes : Commit(w)
    BY <2>1, <2>2 DEF ServerCommits, OpenWrite, Kinds, QueueWrites, Writes, Events
  <2> QED  BY <2>3, Appends
<1> QED
  BY <1>1, <1>2
  DEF PanelNext, Move, MoveToTop, RetriggerNow, Confirm, Cancel, TogglePaused, Poll,
      ReadState, StateArrives, StateFails, WriteAnswered, WriteFails,
      ConfigArrives, ConfigFails, FirstReminder

\* The steps of the activity list only add to the history.
LEMMA FeedWrites ==
    ASSUME history \in Seq(Writes), FeedInv, FeedNext
    PROVE  Grown
<1>1. CASE history' = history
  BY <1>1, SameHistory
<1>2. CASE \E k \in DOMAIN marks : ServerMarks(k)
  <2>1. PICK k \in DOMAIN marks : ServerMarks(k)
    BY <1>2
  <2>2. marks[k] \in Mark
    BY <2>1, LenProperties, ElementOfSeq DEF FeedInv, FeedList
  <2>3. \E w \in Writes : Commit(w)
    BY <2>1, <2>2 DEF ServerMarks, Mark, Writes
  <2> QED  BY <2>3, Appends
<1> QED
  BY <1>1, <1>2
  DEF FeedNext, PollFeed, SelectDuration, LoadMoreFeed, MarkResolved, ReadFeed,
      FeedArrives, FeedFails, MarkAnswered, MarkFails

\* No step takes anything from the history.
LEMMA HistoryStep ==
    ASSUME BoardInv, [Next]_vars
    PROVE  Grown
<1> USE DEF BoardInv
<1>1. CASE UNCHANGED vars
  BY <1>1, SameHistory DEF vars
<1>2. CASE followed = "summary" /\ PanelNext
  BY <1>2, PanelWrites
<1>3. CASE FeedNext
  BY <1>3, FeedWrites
<1>4. CASE TimelineNext
  <2>1. history' = history
    BY <1>4 DEF TimelineNext, LoadMore, ApplyRunFilter, ReadEvents, EventsArrive, EventsFail
  <2> QED  BY <2>1, SameHistory
<1>5. CASE \E t \in Tabs : SelectTab(t)
  BY <1>5, SameHistory DEF SelectTab
<1>6. CASE Others
  <2>1. PICK w \in Told : Commit(w)
    BY <1>6 DEF Others, OthersWrite
  <2>2. w \in Writes
    <3>1. CASE followed = "summary"
      BY <3>1 DEF Told, Writes
    <3>2. CASE followed = "activity"
      BY <3>2 DEF Told, Writes
    <3>3. CASE followed = "events"
      BY <3>3 DEF Told, Writes
    <3> QED  BY <3>1, <3>2, <3>3 DEF Panels
  <2> QED  BY <2>1, <2>2, Appends
<1> QED  BY <1>1, <1>2, <1>3, <1>4, <1>5, <1>6 DEF Next

\* The panel of the event history is left, or mounted anew.
LEMMA TimelineMounted ==
    ASSUME Grown, NEW t \in Tabs, SelectTab(t)
    PROVE  TimelineInv'
<1> DEFINE first == NewEventFlight(1, FALSE, NoFilter)
<1>1. /\ items' = <<>> /\ page' = 1 /\ total' = NoTotal /\ runFilter' = NoFilter
      /\ loading' = TRUE /\ asOf' = [rowsAt |-> 0, countAt |-> 0]
      /\ eventFlights' \in {<<>>, <<first>>}
  BY DEF SelectTab, TimelineRemounts
<1>2. 0 \in Instants' /\ NoFilter \in Filters
  BY InstantsGrow DEF Instants, Filters
<1>3. EventList'
  <2>1. asOf' \in [rowsAt : Instants', countAt : Instants']
    BY <1>1, <1>2
  <2> QED  BY <1>1, <1>2, <2>1, EventListEmpty
<1>4. first \in EventFlight /\ first.rowsAt = Unread /\ first.countAt = Unread
      /\ first.filter = NoFilter /\ first.append = FALSE /\ first.page = 1
  BY <1>2 DEF NewEventFlight, EventFlight, Unread
<1> HIDE DEF first
<1>5. CASE eventFlights' = <<>>
  <2>1. eventFlights' \in Seq(EventFlight) /\ 1..Len(eventFlights') = {}
    BY <1>5, EmptySeq
  <2> QED  BY <1>3, <2>1 DEF EventRequests, TimelineInv
<1>6. CASE eventFlights' = <<first>>
  <2>1. /\ eventFlights' \in Seq(EventFlight) /\ Len(eventFlights') = 1
        /\ eventFlights'[1] = first
    BY <1>4, <1>6
  <2>2. \A k \in 1..Len(eventFlights') : k = Len(eventFlights') /\ eventFlights'[k] = first
    BY <2>1
  <2>3. Current(first, runFilter', page', asOf'.rowsAt)
    BY <1>1, <1>4 DEF Current
  <2> QED  BY <1>3, <1>4, <2>1, <2>2, <2>3 DEF EventRequests, TimelineInv
<1> QED  BY <1>1, <1>5, <1>6

\* Every step of the event history.
LEMMA TimelineStep ==
    ASSUME TimelineInv, Grown, history' = history, TimelineNext
    PROVE  TimelineInv'
<1>1. EventRequests /\ EventList
  BY DEF TimelineInv
<1>2. page \in Nat \ {0} /\ runFilter \in Filters
  BY <1>1 DEF EventList
<1>3. CASE LoadMore
  <2> DEFINE next == page + 1
  <2>1. next \in Nat \ {0} /\ next = page' + 1 /\ runFilter' = runFilter
    BY <1>2, <1>3 DEF LoadMore
  <2>2. eventFlights' = Send(eventFlights, NewEventFlight(next, TRUE, runFilter))
    BY <1>3 DEF LoadMore, FetchEvents
  <2> HIDE DEF next
  <2>3. EventRequests'
    BY <1>1, <1>2, <2>1, <2>2, EventSent
  <2>4. EventList'
    BY <1>1, <1>3, EventListKept DEF LoadMore, FetchEvents
  <2> QED  BY <2>3, <2>4 DEF TimelineInv
<1>4. CASE \E filter \in Filters : ApplyRunFilter(filter)
  <2>1. PICK filter \in Filters : ApplyRunFilter(filter)
    BY <1>4
  <2>2. /\ page' = 1 /\ items' = <<>> /\ total' = NoTotal /\ runFilter' = filter
        /\ loading' = TRUE /\ asOf' = asOf
        /\ eventFlights' = Send(eventFlights, NewEventFlight(1, FALSE, filter))
    BY <2>1 DEF ApplyRunFilter, Reload, FetchEvents
  <2>3. EventRequests'
    <3> DEFINE n == 1
               append == FALSE
    <3>1. n \in Nat \ {0} /\ append \in BOOLEAN
          /\ IF append THEN n = page' + 1 ELSE n = 1 /\ page' = 1
      BY <2>2
    <3>2. eventFlights' = Send(eventFlights, NewEventFlight(n, append, filter))
      BY <2>2
    <3> HIDE DEF n, append
    <3> QED  BY <1>1, <2>2, <3>1, <3>2, EventSent
  <2>4. EventList'
    <3>1. asOf' \in [rowsAt : Instants', countAt : Instants']
      BY <1>1, <2>2, InstantsGrow DEF EventList
    <3> QED  BY <2>2, <3>1, EventListEmpty
  <2> QED  BY <2>3, <2>4 DEF TimelineInv
<1>5. ASSUME NEW k \in DOMAIN eventFlights, ReadEvents(k)
      PROVE  TimelineInv'
  <2>1. EventRequests'
    BY <1>1, <1>5, EventRead
  <2>2. EventList'
    BY <1>1, <1>5, EventListKept DEF ReadEvents, EventList
  <2> QED  BY <2>1, <2>2 DEF TimelineInv
<1>6. ASSUME NEW k \in DOMAIN eventFlights, EventsArrive(k)
      PROVE  TimelineInv'
  <2>1. eventFlights' = RemoveAt(eventFlights, k) /\ runFilter' = runFilter
    BY <1>6 DEF EventsArrive
  <2>2. ~eventFlights[k].last => UNCHANGED <<total, items, page, loading, asOf>>
    BY <1>6 DEF EventsArrive
  <2>3. EventRequests'
    BY <1>1, <2>1, <2>2, EventOver
  <2>4. EventList'
    <3>1. CASE eventFlights[k].last
      BY <1>1, <1>6, <3>1, EventShown
    <3>2. CASE ~eventFlights[k].last
      BY <1>1, <2>1, <2>2, <3>2, EventListKept DEF EventList
    <3> QED  BY <3>1, <3>2
  <2> QED  BY <2>3, <2>4 DEF TimelineInv
<1>7. ASSUME NEW k \in DOMAIN eventFlights, EventsFail(k)
      PROVE  TimelineInv'
  <2>1. EventRequests'
    BY <1>1, <1>7, EventOver DEF EventsFail
  <2>2. EventList'
    BY <1>1, <1>7, EventListKept DEF EventsFail
  <2> QED  BY <2>1, <2>2 DEF TimelineInv
<1> QED  BY <1>3, <1>4, <1>5, <1>6, <1>7 DEF TimelineNext

\* A tab selected mounts an empty activity list or none.
LEMMA FeedMounted ==
    ASSUME Grown, NEW t \in Tabs, SelectTab(t)
    PROVE  FeedInv'
<1> DEFINE first == NewFeedFlight(1, FALSE)
<1>1. /\ listed' = <<>> /\ feedPage' = 1 /\ feedTotal' = 0 /\ feedLoading' = TRUE
      /\ marks' = <<>> /\ listedAt' = 0
      /\ feedFlights' \in {<<>>, <<first>>}
  BY DEF SelectTab, FeedRemounts
<1>2. 0 \in Instants'
  BY InstantsGrow DEF Instants
<1>3. FeedList'
  <2>1. listed' \in Seq(Items) /\ marks' \in Seq(Mark)
    BY <1>1, EmptySeq
  <2> QED  BY <1>1, <1>2, <2>1 DEF FeedList
<1>4. first \in FeedFlight /\ first.readAt = Unread /\ first.append = FALSE /\ first.page = 1
  BY DEF NewFeedFlight, FeedFlight, Unread
<1> HIDE DEF first
<1>5. CASE feedFlights' = <<>>
  <2>1. feedFlights' \in Seq(FeedFlight) /\ 1..Len(feedFlights') = {}
    BY <1>5, EmptySeq
  <2> QED  BY <1>3, <2>1 DEF FeedRequests, FeedInv
<1>6. CASE feedFlights' = <<first>>
  <2>1. /\ feedFlights' \in Seq(FeedFlight) /\ Len(feedFlights') = 1
        /\ feedFlights'[1] = first
    BY <1>4, <1>6
  <2>2. \A k \in 1..Len(feedFlights') : k = Len(feedFlights') /\ feedFlights'[k] = first
    BY <2>1
  <2> QED  BY <1>3, <1>4, <2>1, <2>2 DEF FeedRequests, FeedInv
<1> QED  BY <1>1, <1>5, <1>6

\* A mark under way over, or begun, or committed.
LEMMA MarkGone ==
    ASSUME marks \in Seq(Mark), NEW k \in DOMAIN marks
    PROVE  RemoveAt(marks, k) \in Seq(Mark)
<1>1. k \in 1..Len(marks)
  BY LenProperties
<1> QED  BY <1>1, Removed

\* The rows of a page.
LEMMA FeedRows ==
    ASSUME history \in Seq(Writes), FeedRequests, NEW k \in DOMAIN feedFlights,
           feedFlights[k].readAt # Unread
    PROVE  /\ feedFlights[k].readAt \in Instants /\ feedFlights[k].page \in Nat \ {0}
           /\ FeedPage(feedFlights[k].readAt, feedFlights[k].page) \in Seq(Items)
           /\ Len(FeedAt(feedFlights[k].readAt)) \in Nat
<1>1. k \in 1..Len(feedFlights) /\ feedFlights[k] \in FeedFlight
  BY LenProperties, ElementOfSeq DEF FeedRequests
<1> DEFINE v == feedFlights[k].readAt
           n == feedFlights[k].page
<1>2. v \in Instants /\ n \in Nat \ {0}
  BY <1>1 DEF FeedRequests, FeedFlight
<1> HIDE DEF v, n
<1>3. FeedAt(v) \in Seq(Items) /\ Len(FeedAt(v)) \in Nat
  BY <1>2, FeedAtType
<1>4. PageOf(FeedAt(v), n) \in Seq(Items)
  BY <1>2, <1>3, PageFacts
<1> QED  BY <1>2, <1>3, <1>4, FeedPageOf DEF v, n

\* What a button or a poll does to the list.
LEMMA FeedClicked ==
    ASSUME history \in Seq(Writes), Grown, FeedInv,
           \/ PollFeed \/ SelectDuration \/ LoadMoreFeed
           \/ \E item \in ToSet(listed) : MarkResolved(item)
    PROVE  FeedInv'
<1>1. FeedRequests /\ FeedList
  BY DEF FeedInv
<1> DEFINE one == 1
           no == FALSE
<1>2. one \in Nat \ {0} /\ no \in BOOLEAN /\ one = (IF no THEN feedPage' ELSE 1)
  OBVIOUS
<1>3. feedFlights' = Send(feedFlights, NewFeedFlight(1, FALSE)) => FeedRequests'
  <2> SUFFICES ASSUME feedFlights' = Send(feedFlights, NewFeedFlight(one, no))
               PROVE  FeedRequests'
    OBVIOUS
  <2> HIDE DEF one, no
  <2> QED  BY <1>1, <1>2, FeedSent
<1>4. CASE PollFeed
  <2>1. FeedRequests'
    BY <1>3, <1>4 DEF PollFeed, FetchFeed
  <2>2. FeedList'
    BY <1>1, <1>4, FeedListKept DEF PollFeed, FetchFeed
  <2> QED  BY <2>1, <2>2 DEF FeedInv
<1>5. CASE SelectDuration
  <2>1. FeedRequests'
    BY <1>3, <1>5 DEF SelectDuration, FetchFeed
  <2>2. Instants' = Instants
    BY <1>5 DEF SelectDuration, Instants, Now
  <2>3. listed' = <<>> /\ feedPage' = 1 /\ feedLoading' = TRUE
        /\ UNCHANGED <<feedTotal, marks, listedAt>>
    BY <1>5 DEF SelectDuration, FetchFeed
  <2>4. listed' \in Seq(Items)
    BY <2>3, EmptySeq
  <2>5. FeedList'
    BY <1>1, <2>2, <2>3, <2>4 DEF FeedList
  <2> QED  BY <2>1, <2>5 DEF FeedInv
<1>6. CASE LoadMoreFeed
  <2> DEFINE next == feedPage + 1
             yes == TRUE
  <2>1. /\ next \in Nat \ {0} /\ feedPage' = next /\ feedLoading' = TRUE
        /\ feedFlights' = Send(feedFlights, NewFeedFlight(next, TRUE))
        /\ UNCHANGED <<listed, feedTotal, marks, listedAt>>
    BY <1>1, <1>6 DEF LoadMoreFeed, FetchFeed, FeedList
  <2>2. /\ feedFlights' = Send(feedFlights, NewFeedFlight(next, yes)) /\ yes \in BOOLEAN
        /\ next = IF yes THEN feedPage' ELSE 1
    BY <2>1
  <2> HIDE DEF next
  <2>3. FeedRequests'
    <3> HIDE DEF yes
    <3> QED  BY <1>1, <2>1, <2>2, FeedSent
  <2>4. Instants' = Instants
    BY <1>6 DEF LoadMoreFeed, Instants, Now
  <2>5. FeedList'
    BY <1>1, <2>1, <2>4 DEF FeedList
  <2> QED  BY <2>3, <2>5 DEF FeedInv
<1>7. CASE \E item \in ToSet(listed) : MarkResolved(item)
  <2>1. PICK item \in ToSet(listed) : MarkResolved(item)
    BY <1>7
  <2>2. listed \in Seq(Items) /\ item \in Items
    <3>1. listed \in Seq(Items) /\ DOMAIN listed = 1..Len(listed)
      BY <1>1, LenProperties DEF FeedList
    <3>2. \A k \in 1..Len(listed) : listed[k] \in Items
      BY <3>1, ElementOfSeq
    <3> QED  BY <3>1, <3>2 DEF ToSet
  <2> DEFINE mark == [item |-> item, committed |-> FALSE]
  <2>3. /\ listed' = Without(listed, {item}) /\ feedTotal' = feedTotal - 1
        /\ marks' = Append(marks, mark)
        /\ UNCHANGED <<history, feedPage, feedLoading, feedFlights, listedAt>>
    BY <2>1 DEF MarkResolved
  <2>4. mark \in Mark
    BY <2>2 DEF Mark
  <2> HIDE DEF mark
  <2>5. listed' \in Seq(Items)
    BY <2>2, <2>3, WithoutFacts
  <2>6. marks' \in Seq(Mark)
    BY <1>1, <2>3, <2>4, AppendProperties DEF FeedList
  <2>7. Instants' = Instants
    BY <2>3 DEF Instants, Now
  <2>8. FeedList'
    BY <1>1, <2>3, <2>5, <2>6, <2>7 DEF FeedList
  <2>9. FeedRequests'
    BY <1>1, <2>3, FeedRequestsKept
  <2> QED  BY <2>8, <2>9 DEF FeedInv
<1> QED  BY <1>4, <1>5, <1>6, <1>7

\* What an answer does to it.
LEMMA FeedAnswered ==
    ASSUME history \in Seq(Writes), Grown, FeedInv, NEW k \in DOMAIN feedFlights,
           ReadFeed(k) \/ FeedArrives(k) \/ FeedFails(k)
    PROVE  FeedInv'
<1>1. FeedRequests /\ FeedList
  BY DEF FeedInv
<1>2. CASE ReadFeed(k)
  <2>1. FeedRequests'
    BY <1>1, <1>2, FeedRead
  <2>2. FeedList'
    BY <1>1, <1>2, FeedListKept DEF ReadFeed, FeedList
  <2> QED  BY <2>1, <2>2 DEF FeedInv
<1>3. CASE FeedArrives(k)
  <2> DEFINE flight == feedFlights[k]
             rows == FeedPage(flight.readAt, flight.page)
  <2>1. FeedRequests'
    BY <1>1, <1>3, FeedOver DEF FeedArrives
  <2>2. /\ flight.readAt # Unread
        /\ UNCHANGED <<history, feedPage, marks>>
        /\ flight.last =>
             /\ feedTotal' = Len(FeedAt(flight.readAt))
             /\ listed' = IF flight.append THEN listed \o rows ELSE rows
             /\ feedLoading' = FALSE
             /\ listedAt' = flight.readAt
        /\ ~flight.last => UNCHANGED <<feedTotal, listed, feedLoading, listedAt>>
    BY <1>3 DEF FeedArrives
  <2>3. /\ flight.readAt \in Instants /\ rows \in Seq(Items)
        /\ Len(FeedAt(flight.readAt)) \in Nat
    BY <1>1, <2>2, FeedRows
  <2>4. Instants' = Instants
    BY <2>2 DEF Instants, Now
  <2> HIDE DEF rows
  <2>5. CASE flight.last
    <3>1. listed \o rows \in Seq(Items)
      BY <1>1, <2>3, ConcatProperties DEF FeedList
    <3>2. listed' \in Seq(Items)
      BY <2>2, <2>3, <2>5, <3>1
    <3>3. feedTotal' \in Nat /\ feedLoading' = FALSE /\ listedAt' \in Instants
      BY <2>2, <2>3, <2>5
    <3>4. feedTotal' \in Int
      BY <3>3
    <3>5. FeedList'
      BY <1>1, <2>2, <2>4, <3>2, <3>3, <3>4 DEF FeedList
    <3> QED  BY <2>1, <3>5 DEF FeedInv
  <2>6. CASE ~flight.last
    <3>1. FeedList'
      BY <1>1, <2>2, <2>6, FeedListKept DEF FeedList
    <3> QED  BY <2>1, <3>1 DEF FeedInv
  <2> QED  BY <2>5, <2>6
<1>4. CASE FeedFails(k)
  <2>1. FeedRequests'
    BY <1>1, <1>4, FeedOver DEF FeedFails
  <2>2. FeedList'
    BY <1>1, <1>4, FeedListKept DEF FeedFails
  <2> QED  BY <2>1, <2>2 DEF FeedInv
<1> QED  BY <1>2, <1>3, <1>4

\* What the answer of a mark does to it.
LEMMA FeedMarked ==
    ASSUME history \in Seq(Writes), Grown, FeedInv, NEW k \in DOMAIN marks,
           ServerMarks(k) \/ MarkAnswered(k) \/ MarkFails(k)
    PROVE  FeedInv'
<1>1. FeedRequests /\ FeedList /\ marks \in Seq(Mark) /\ k \in 1..Len(marks)
  BY LenProperties DEF FeedInv, FeedList
<1>2. Instants \subseteq Instants'
  BY InstantsGrow
<1>3. CASE ServerMarks(k)
  <2> DEFINE mark == [marks[k] EXCEPT !.committed = TRUE]
  <2>1. marks' = [marks EXCEPT ![k] = mark]
    BY <1>3 DEF ServerMarks
  <2>2. mark \in Mark
    <3>1. marks[k] \in Mark
      BY <1>1, ElementOfSeq
    <3> QED  BY <3>1 DEF Mark
  <2> HIDE DEF mark
  <2>3. marks' \in Seq(Mark)
    BY <1>1, <2>1, <2>2, ExceptSeq
  <2>4. UNCHANGED <<listed, feedPage, feedTotal, feedLoading, feedFlights, listedAt>>
    BY <1>3 DEF ServerMarks
  <2>5. FeedList'
    BY <1>1, <1>2, <2>3, <2>4 DEF FeedList
  <2>6. FeedRequests'
    BY <1>1, <2>4, FeedRequestsKept
  <2> QED  BY <2>5, <2>6 DEF FeedInv
<1>4. CASE MarkAnswered(k)
  <2>1. marks' \in Seq(Mark)
    BY <1>1, <1>4, MarkGone DEF MarkAnswered
  <2>2. UNCHANGED <<listed, feedPage, feedTotal, feedLoading, feedFlights, listedAt>>
    BY <1>4 DEF MarkAnswered
  <2>3. FeedList'
    BY <1>1, <1>2, <2>1, <2>2 DEF FeedList
  <2>4. FeedRequests'
    BY <1>1, <2>2, FeedRequestsKept
  <2> QED  BY <2>3, <2>4 DEF FeedInv
<1>5. CASE MarkFails(k)
  <2>1. marks' \in Seq(Mark)
    BY <1>1, <1>5, MarkGone DEF MarkFails
  <2>2. UNCHANGED <<listed, feedPage, feedTotal, listedAt>> /\ feedLoading' = TRUE
    BY <1>5 DEF MarkFails, FetchFeed
  <2>3. FeedList'
    BY <1>1, <1>2, <2>1, <2>2 DEF FeedList
  <2>4. FeedRequests'
    <3> DEFINE one == 1
               no == FALSE
    <3>1. /\ feedFlights' = Send(feedFlights, NewFeedFlight(one, no))
          /\ one \in Nat \ {0} /\ no \in BOOLEAN /\ one = (IF no THEN feedPage' ELSE 1)
      BY <1>5 DEF MarkFails, FetchFeed
    <3> HIDE DEF one, no
    <3> QED  BY <1>1, <3>1, FeedSent
  <2> QED  BY <2>3, <2>4 DEF FeedInv
<1> QED  BY <1>3, <1>4, <1>5

\* Every step of the dashboard.
LEMMA BoardStep == ASSUME BoardInv, [Next]_vars PROVE BoardInv'
<1>1. Grown
  BY HistoryStep
<1>2. PanelInv' /\ FeedInv /\ TimelineInv /\ history \in Seq(Writes)
  BY PanelStep DEF BoardInv
<1>3. history' \in Seq(Writes)
  BY <1>1 DEF Grown
<1>4. tab' \in Tabs /\ followed' \in Panels
  <2>1. followed' = followed
    BY DEF vars, Next
  <2>2. tab' = tab \/ \E t \in Tabs : tab' = t
    BY DEF vars, Next, SelectTab, Others,
           PanelNext, Move, MoveToTop, RetriggerNow, Confirm, Cancel, TogglePaused, Poll,
           ReadState, StateArrives, StateFails, ServerCommits, WriteAnswered, WriteFails,
           ConfigArrives, ConfigFails, FirstReminder,
           FeedNext, PollFeed, SelectDuration, LoadMoreFeed, MarkResolved, ReadFeed,
           FeedArrives, FeedFails, ServerMarks, MarkAnswered, MarkFails,
           TimelineNext, LoadMore, ApplyRunFilter, ReadEvents, EventsArrive, EventsFail
  <2> QED  BY <2>1, <2>2 DEF BoardInv
<1>5. ASSUME UNCHANGED feedVars PROVE FeedInv'
  <2>1. FeedRequests'
    BY <1>1, <1>2, <1>5, FeedRequestsKept DEF feedVars, FeedInv
  <2>2. FeedList'
    BY <1>1, <1>2, <1>5, FeedListKept DEF feedVars, FeedInv, FeedList
  <2> QED  BY <2>1, <2>2 DEF FeedInv
<1>6. ASSUME UNCHANGED timelineVars PROVE TimelineInv'
  <2>1. EventRequests'
    BY <1>1, <1>2, <1>6, EventRequestsKept DEF timelineVars, TimelineInv
  <2>2. EventList'
    BY <1>1, <1>2, <1>6, EventListKept DEF timelineVars, TimelineInv, EventList
  <2> QED  BY <2>1, <2>2 DEF TimelineInv
<1>7. FeedInv' /\ TimelineInv'
  <2>1. CASE UNCHANGED vars
    BY <1>5, <1>6, <2>1 DEF vars
  <2>2. CASE UNCHANGED <<feedVars, timelineVars>>
    BY <1>5, <1>6, <2>2
  <2>3. CASE FeedNext /\ UNCHANGED timelineVars
    <3>1. FeedInv'
      BY <1>1, <1>2, <2>3, FeedClicked, FeedAnswered, FeedMarked DEF FeedNext
    <3> QED  BY <1>6, <2>3, <3>1
  <2>4. CASE TimelineNext /\ UNCHANGED feedVars
    <3>1. history' = history
      BY <2>4 DEF TimelineNext, LoadMore, ApplyRunFilter, ReadEvents, EventsArrive, EventsFail
    <3>2. TimelineInv'
      BY <1>1, <1>2, <2>4, <3>1, TimelineStep
    <3> QED  BY <1>5, <2>4, <3>2
  <2>5. CASE \E t \in Tabs : SelectTab(t)
    BY <1>1, <2>5, FeedMounted, TimelineMounted
  <2>6. CASE Others
    BY <1>5, <1>6, <2>6 DEF Others
  <2> QED  BY <2>1, <2>2, <2>3, <2>4, <2>5, <2>6 DEF Next
<1> QED  BY <1>2, <1>3, <1>4, <1>7 DEF BoardInv

\* The page starts in the invariant.
LEMMA BoardInitial == Init => BoardInv
<1> SUFFICES ASSUME Init PROVE BoardInv
  OBVIOUS
<1>1. /\ history = <<>> /\ history \in Seq(Writes) /\ Len(history) = 0
      /\ tab \in Tabs /\ followed \in Panels /\ 0 \in Instants
  BY EmptySeq DEF Init, ShellInit, Tabs, Instants, Now
<1>2. PanelInv
  BY PanelInitial
<1>3. FeedInv
  <2> DEFINE first == NewFeedFlight(1, FALSE)
  <2>1. /\ listed = <<>> /\ feedPage = 1 /\ feedTotal = 0 /\ feedLoading = TRUE
        /\ marks = <<>> /\ listedAt = 0 /\ feedFlights = <<first>>
    BY DEF Init, FeedInit
  <2>2. first \in FeedFlight /\ first.readAt = Unread /\ first.append = FALSE /\ first.page = 1
    BY DEF NewFeedFlight, FeedFlight, Unread
  <2> HIDE DEF first
  <2>3. listed \in Seq(Items) /\ marks \in Seq(Mark)
    BY <2>1, EmptySeq
  <2>4. feedFlights \in Seq(FeedFlight) /\ Len(feedFlights) = 1 /\ feedFlights[1] = first
    BY <2>1, <2>2
  <2>5. \A k \in 1..Len(feedFlights) : k = Len(feedFlights) /\ feedFlights[k] = first
    BY <2>4
  <2>6. FeedRequests
    BY <2>2, <2>4, <2>5 DEF FeedRequests
  <2> QED  BY <1>1, <2>1, <2>3, <2>6 DEF FeedInv, FeedList
<1>4. TimelineInv
  <2>1. /\ items = <<>> /\ page = 1 /\ total = NoTotal /\ runFilter = NoFilter
        /\ loading = TRUE /\ eventFlights = <<>> /\ asOf = [rowsAt |-> 0, countAt |-> 0]
    BY DEF Init, TimelineInit
  <2>2. eventFlights \in Seq(EventFlight) /\ 1..Len(eventFlights) = {}
    BY <2>1, EmptySeq
  <2>3. items \in Seq(HeldIn(history, asOf.rowsAt, runFilter)) /\ IsInjective(items)
    BY <2>1, EmptySeq DEF IsInjective
  <2>4. InPlace(HeldIn(history, asOf.rowsAt, runFilter), items, page)
    BY <2>1 DEF InPlace
  <2>5. asOf \in [rowsAt : Instants, countAt : Instants] /\ runFilter \in Filters
    BY <1>1, <2>1 DEF Filters
  <2> QED  BY <2>1, <2>2, <2>3, <2>4, <2>5 DEF TimelineInv, EventRequests, EventList
<1> QED  BY <1>1, <1>2, <1>3, <1>4 DEF BoardInv

\* It holds throughout.
LEMMA BoardHolds == Spec => []BoardInv
<1>1. BoardInv /\ [Next]_vars => BoardInv'
  BY BoardStep
<1> QED  BY <1>1, BoardInitial, PTL DEF Spec

-----------------------------------------------------------------------------
(* The theorems about the lists.                                            *)

\* Every variable of the dashboard keeps its type.
THEOREM BoardTypes == Spec => []TypeOK
<1>1. BoardInv => TypeOK
  <2> SUFFICES ASSUME BoardInv PROVE TypeOK
    OBVIOUS
  <2>1. ShellTypeOK
    BY DEF ShellTypeOK, BoardInv
  <2>2. PanelTypeOK
    <3>1. Len(history) \in Nat
      BY LenProperties DEF BoardInv
    <3>2. CASE followed = "summary"
      <4>1. Flights /\ UnderWay /\ Reminders
        BY <3>2 DEF BoardInv, PanelInv
      <4>2. acked \in Nat
        BY <3>1, <4>1 DEF Flights, Instants, Now
      <4> QED  BY <4>1, <4>2 DEF Flights, UnderWay, Reminders, PanelTypeOK
    <3>3. CASE followed # "summary"
      <4>1. Idle
        BY <3>3 DEF BoardInv, PanelInv
      <4>2. NewStateFlight \in StateFlight
        BY DEF NewStateFlight, StateFlight, Unread
      <4>3. <<NewStateFlight>> \in Seq(StateFlight) /\ <<>> \in Seq(StateFlight)
        BY <4>2, EmptySeq
      <4>4. stateFlights \in Seq(StateFlight)
        BY <4>1, <4>3 DEF Idle
      <4>5. openWrites \in Seq(OpenWrite) /\ alarms \in Seq({"initial", "repeat"})
        BY <4>1, EmptySeq DEF Idle
      <4> QED  BY <4>1, <4>4, <4>5 DEF Idle, PanelTypeOK
    <3> QED  BY <3>2, <3>3
  <2>3. FeedTypeOK
    BY DEF BoardInv, FeedInv, FeedRequests, FeedList, FeedTypeOK
  <2>4. TimelineTypeOK
    <3>1. Len(history) \in Nat
      BY LenProperties DEF BoardInv
    <3>2. EventList /\ EventRequests
      BY DEF BoardInv, TimelineInv
    <3>3. /\ asOf.rowsAt \in Nat /\ asOf.countAt \in Nat /\ asOf.rowsAt <= Now
          /\ asOf \in [rowsAt : Nat, countAt : Nat]
      BY <3>1, <3>2 DEF EventList, Instants, Now
    <3>4. total \in Nat \cup {NoTotal}
      <4>1. HeldIn(history, asOf.countAt, runFilter) \in SUBSET (1..asOf.countAt)
        BY <3>3, HeldFacts
      <4>2. Cardinality(HeldIn(history, asOf.countAt, runFilter)) \in Nat
        BY <3>3, <4>1, NewestFacts
      <4> QED  BY <3>2, <4>2 DEF EventList
    <3>5. items \in Seq(1..Now)
      <4>1. HeldIn(history, asOf.rowsAt, runFilter) \subseteq 1..Now
        BY <3>1, <3>3, HeldFacts DEF Now
      <4> QED  BY <3>2, <4>1, SeqMonotonic DEF EventList
    <3> QED  BY <3>2, <3>3, <3>4, <3>5 DEF EventList, EventRequests, TimelineTypeOK
  <2> QED  BY <2>1, <2>2, <2>3, <2>4 DEF TypeOK
<1> QED  BY <1>1, BoardHolds, PTL

\* Between the first and the last event shown none is left out and none is
\* shown twice, while the list was not pushed back by more than a page
\* (EventHistory.tsx, the filter of what was loaded before).
THEOREM SegmentOfEvents == Spec => []TimelineIsSegment
<1>1. BoardInv => TimelineIsSegment
  <2> SUFFICES ASSUME BoardInv, items # <<>>, Cardinality(Newer) <= PageSize
               PROVE  items = Newest({e \in ToSet(Matching) :
                                         Last(items) <= e /\ e <= Head(items)})
    BY DEF TimelineIsSegment
  <2> DEFINE S == HeldIn(history, Now, runFilter)
             U == HeldIn(history, asOf.rowsAt, runFilter)
  <2>1. Len(history) \in Nat /\ EventList
    BY LenProperties DEF BoardInv, TimelineInv
  <2>2. Now \in Nat /\ asOf.rowsAt \in Nat /\ asOf.rowsAt <= Now
    BY <2>1 DEF EventList, Instants, Now
  <2>3. S \in SUBSET (1..Now) /\ Until(U, S, asOf.rowsAt)
    BY <2>2, HeldFacts
  <2>4. Matching = Newest(S)
    BY PageHeld DEF Matching
  <2>5. items \in Seq(U) /\ InPlace(U, items, page)
    BY <2>1 DEF EventList
  <2> HIDE DEF S, U
  <2>6. ToSet(Matching) = S
    BY <2>2, <2>3, <2>4, NewestSet
  <2>7. U \in SUBSET S
    BY <2>3 DEF Until
  <2>8. Head(items) = items[1] /\ Last(items) = items[Len(items)] /\ items[1] \in Int
    <3>1. 1 \in 1..Len(items)
      BY <2>5, EmptySeq
    <3>2. items[1] \in U
      BY <2>5, <3>1, ElementOfSeq
    <3>3. Head(items) = items[1]
      BY DEF Head
    <3>4. Last(items) = items[Len(items)]
      BY DEF Last
    <3>5. items[1] \in S
      BY <2>7, <3>2
    <3>6. items[1] \in 1..Now
      BY <2>3, <3>5
    <3>7. items[1] \in Int
      BY <2>2, <3>6
    <3> QED  BY <3>3, <3>4, <3>7
  <2>9. Newer = {j \in S : items[1] < j}
    BY <2>3, <2>6, <2>8 DEF Newer
  <2>10. Ahead(S, items[1]) <= PageSize
    BY <2>9 DEF Ahead
  <2>11. items = Newest({e \in S : items[Len(items)] <= e /\ e <= items[1]})
    BY <2>2, <2>3, <2>5, <2>10, SegmentShown
  <2> QED  BY <2>6, <2>8, <2>11
<1> QED  BY <1>1, BoardHolds, PTL

\* When no further page is on offer no event is left, whatever was written
\* while the pages were loaded (EventHistory.tsx, hasMore).
THEOREM EndOfEvents == Spec => []EndMeansAll
<1>1. BoardInv => EndMeansAll
  <2> SUFFICES ASSUME BoardInv, total # NoTotal, ~HasMore, asOf.countAt >= asOf.rowsAt
               PROVE  \A e \in ToSet(EventsAt(asOf.rowsAt, runFilter)) : e \in ToSet(items)
    BY DEF EndMeansAll
  <2> DEFINE W == HeldIn(history, asOf.countAt, runFilter)
             U == HeldIn(history, asOf.rowsAt, runFilter)
  <2>1. EventList /\ Len(history) \in Nat
    BY LenProperties DEF BoardInv, TimelineInv
  <2>2. asOf.countAt \in Nat /\ asOf.rowsAt \in Nat /\ asOf.rowsAt <= asOf.countAt
    BY <2>1 DEF EventList, Instants, Now
  <2>3. /\ W \in SUBSET (1..asOf.countAt) /\ U \in SUBSET (1..asOf.rowsAt)
        /\ Until(U, W, asOf.rowsAt)
    BY <2>2, HeldFacts
  <2>4. items \in Seq(U) /\ IsInjective(items) /\ total = Cardinality(W)
    BY <2>1 DEF EventList
  <2>5. EventsAt(asOf.rowsAt, runFilter) = Newest(U)
    BY PageHeld
  <2> HIDE DEF W, U
  <2>6. U \in SUBSET W
    BY <2>3 DEF Until
  <2>7. Cardinality(W) <= Len(items)
    <3>1. Cardinality(W) \in Nat
      BY <2>2, <2>3, NewestFacts
    <3>2. Len(items) \in Nat
      BY <2>4, LenProperties
    <3> QED  BY <2>4, <3>1, <3>2 DEF HasMore
  <2>8. ToSet(Newest(U)) = U
    BY <2>2, <2>3, NewestSet
  <2> QED  BY <2>2, <2>3, <2>4, <2>5, <2>6, <2>7, <2>8, NothingLeft
<1> QED  BY <1>1, BoardHolds, PTL

-----------------------------------------------------------------------------
(* Loading more of the activity list.                                       *)

\* A prefix, element by element.
LEMMA PrefixElements ==
    ASSUME NEW T, NEW s \in Seq(T), NEW t \in Seq(T)
    PROVE  IsPrefix(s, t) <=> Len(s) <= Len(t) /\ \A k \in 1..Len(s) : s[k] = t[k]
<1>1. /\ Len(s) \in Nat /\ Len(t) \in Nat
      /\ \A k \in 1..Len(s) : s[k] \in T
      /\ \A k \in 1..Len(t) : t[k] \in T
  BY LenProperties, ElementOfSeq
<1> SUFFICES ASSUME Len(s) <= Len(t)
             PROVE  SubSeq(s, 1, Len(s)) = SubSeq(t, 1, Len(s))
                      <=> \A k \in 1..Len(s) : s[k] = t[k]
  BY DEF IsPrefix
<1> DEFINE a == SubSeq(s, 1, Len(s))
           b == SubSeq(t, 1, Len(s))
<1>2. a \in Seq(T) /\ Len(a) = Len(s) /\ \A k \in 1..Len(s) : a[k] = s[k]
  BY <1>1, SubSeqProperties
<1>3. b \in Seq(T) /\ Len(b) = Len(s) /\ \A k \in 1..Len(s) : b[k] = t[k]
  <2>1. \A k \in 1..Len(s) : t[k] \in T
    BY <1>1
  <2> QED  BY <1>1, <2>1, SubSeqProperties
<1> HIDE DEF a, b
<1>4. (\A k \in 1..Len(s) : s[k] = t[k]) => a = b
  BY <1>2, <1>3, SeqEqual
<1>5. a = b => \A k \in 1..Len(s) : s[k] = t[k]
  BY <1>2, <1>3
<1> QED  BY <1>4, <1>5 DEF a, b

\* The rows of page n, after all the pages before, are the list up to page n.
LEMMA PageContinues ==
    ASSUME NEW T, NEW all \in Seq(T), NEW s \in Seq(T), IsPrefix(s, all),
           NEW n \in Nat \ {0}, Len(s) = (n - 1) * PageSize
    PROVE  IsPrefix(s \o PageOf(all, n), all)
<1> DEFINE rows == PageOf(all, n)
           b == (n - 1) * PageSize
           e == n * PageSize
           t == s \o rows
<1>1. Len(s) \in Nat /\ Len(all) \in Nat /\ Len(rows) \in Nat /\ PageSize \in Nat \ {0}
  BY PageFacts, PageBounds, LenProperties
<1>2. b \in Nat /\ e = b + PageSize
  BY PageBounds
<1>3. /\ rows \in Seq(T)
      /\ Len(rows) = IF b >= Len(all) THEN 0
                     ELSE IF e < Len(all) THEN PageSize ELSE Len(all) - b
      /\ \A k \in 1..Len(rows) : rows[k] = all[b + k]
  BY PageFacts
<1>4. Len(s) <= Len(all) /\ \A k \in 1..Len(s) : s[k] = all[k]
  BY PrefixElements
<1> HIDE DEF rows
<1>5. /\ t \in Seq(T) /\ Len(t) = Len(s) + Len(rows)
      /\ \A k \in 1..(Len(s) + Len(rows)) : t[k] = IF k <= Len(s) THEN s[k] ELSE rows[k - Len(s)]
  BY <1>3, ConcatProperties
<1> HIDE DEF b, e, t
<1>6. Len(s) = b
  BY DEF b
<1>7. Len(t) <= Len(all)
  <2>1. Len(rows) <= Len(all) - b
    BY <1>1, <1>2, <1>3, <1>4, <1>6
  <2> QED  BY <1>1, <1>2, <1>5, <1>6, <2>1
<1>8. ASSUME NEW k \in 1..Len(t)
      PROVE  t[k] = all[k]
  <2>1. CASE k <= Len(s)
    BY <1>1, <1>4, <1>5, <2>1
  <2>2. CASE ~(k <= Len(s))
    <3> DEFINE i == k - Len(s)
    <3>1. i \in 1..Len(rows) /\ b + i = k
      BY <1>1, <1>2, <1>5, <1>6, <2>2
    <3>2. t[k] = rows[i]
      BY <1>5, <2>2
    <3> HIDE DEF i
    <3> QED  BY <1>3, <3>1, <3>2
  <2> QED  BY <2>1, <2>2
<1> QED  BY <1>5, <1>7, <1>8, PrefixElements DEF t, rows

\* The first page is a prefix.
LEMMA FirstPagePrefix ==
    ASSUME NEW T, NEW all \in Seq(T)
    PROVE  IsPrefix(PageOf(all, 1), all)
<1> DEFINE one == 1
<1>1. one \in Nat \ {0} /\ one - 1 = 0 /\ (one - 1) * PageSize = 0
  BY ShellAssumption
<1>2. <<>> \in Seq(T) /\ Len(<<>>) = 0
  BY EmptySeq
<1>3. IsPrefix(<<>>, all)
  <2>1. Len(all) \in Nat
    BY LenProperties
  <2>2. SubSeq(<<>>, 1, 0) = <<>> /\ SubSeq(all, 1, 0) = <<>>
    BY SubSeqEmpty
  <2> QED  BY <1>2, <2>1, <2>2 DEF IsPrefix
<1> HIDE DEF one
<1>4. Len(<<>>) = (one - 1) * PageSize
  BY <1>1, <1>2
<1>5. IsPrefix(<<>> \o PageOf(all, one), all)
  BY <1>1, <1>2, <1>3, <1>4, PageContinues
<1>6. PageOf(all, one) \in Seq(T)
  BY <1>1, PageFacts
<1>7. <<>> \o PageOf(all, one) = PageOf(all, one)
  BY <1>6, ConcatEmptySeq
<1> QED  BY <1>5, <1>7 DEF one

\* What NextPageContinues says of a step.
Continues ==
    /\ listed # <<>> /\ IsStrictPrefix(listed, listed')
    /\ Len(listed) = (feedPage - 1) * PageSize
    /\ IsPrefix(listed, FeedAt(Now)) /\ listedAt' = Now
    => IsPrefix(listed', FeedAt(Now))

\* Nothing but an answer makes the list longer.
LEMMA OnlyAnswersExtend ==
    ASSUME BoardInv, [Next]_vars, listed # <<>>, IsStrictPrefix(listed, listed')
    PROVE  \E k \in DOMAIN feedFlights : FeedArrives(k)
<1>1. listed \in Seq(Items) /\ Len(listed) \in Nat \ {0}
  BY EmptySeq DEF BoardInv, FeedInv, FeedList
<1>2. listed' # listed /\ Len(listed) <= Len(listed')
  BY DEF IsStrictPrefix, IsPrefix
<1>3. listed' # <<>>
  BY <1>1, <1>2, EmptySeq
<1>4. ~ \E item \in ToSet(listed) : MarkResolved(item)
  <2> SUFFICES ASSUME NEW item \in ToSet(listed), MarkResolved(item) PROVE FALSE
    OBVIOUS
  <2>1. listed' = Without(listed, {item})
    BY DEF MarkResolved
  <2>2. \E k \in 1..Len(listed) : listed[k] \in {item}
    BY <1>1, LenProperties DEF ToSet
  <2>3. Len(Without(listed, {item})) < Len(listed)
    BY <1>1, <2>2, WithoutFacts
  <2>4. Len(Without(listed, {item})) \in Nat
    BY <1>1, WithoutFacts, LenProperties
  <2> QED  BY <1>1, <1>2, <2>1, <2>3, <2>4
<1>5. CASE FeedNext
  BY <1>2, <1>3, <1>4, <1>5
  DEF FeedNext, PollFeed, SelectDuration, LoadMoreFeed, ReadFeed, FeedFails,
      ServerMarks, MarkAnswered, MarkFails
<1>6. ~ \E t \in Tabs : SelectTab(t)
  BY <1>3 DEF SelectTab, FeedRemounts
<1>7. ~ UNCHANGED feedVars
  BY <1>2 DEF feedVars
<1> QED  BY <1>5, <1>6, <1>7 DEF Next, Others, vars

\* A page that extends the list goes on with what the server has.
LEMMA StepContinues == ASSUME BoardInv, [Next]_vars PROVE Continues
<1> SUFFICES ASSUME listed # <<>>, IsStrictPrefix(listed, listed'),
                    Len(listed) = (feedPage - 1) * PageSize,
                    IsPrefix(listed, FeedAt(Now)), listedAt' = Now
             PROVE  IsPrefix(listed', FeedAt(Now))
  BY DEF Continues
<1>1. PICK k \in DOMAIN feedFlights : FeedArrives(k)
  BY OnlyAnswersExtend
<1> DEFINE flight == feedFlights[k]
           all == FeedAt(Now)
<1>2. /\ history \in Seq(Writes) /\ FeedRequests /\ listed \in Seq(Items)
      /\ feedPage \in Nat \ {0}
  BY DEF BoardInv, FeedInv, FeedList
<1>3. k \in 1..Len(feedFlights)
  BY <1>2, LenProperties DEF FeedRequests
<1>4. flight.last
  BY <1>1 DEF FeedArrives, IsStrictPrefix
<1>5. /\ flight.readAt = Now
      /\ listed' = IF flight.append THEN listed \o FeedPage(Now, flight.page)
                   ELSE FeedPage(Now, flight.page)
  BY <1>1, <1>4 DEF FeedArrives
<1>6. flight.page = IF flight.append THEN feedPage ELSE 1
  BY <1>2, <1>3, <1>4 DEF FeedRequests
<1>7. all \in Seq(Items)
  <2>1. Now \in Instants
    BY <1>2, LenProperties DEF Instants, Now
  <2> QED  BY <1>2, <2>1, FeedAtType
<1>8. CASE flight.append
  <2>1. listed' = listed \o PageOf(all, feedPage)
    BY <1>5, <1>6, <1>8, FeedPageOf
  <2> QED  BY <1>2, <1>7, <2>1, PageContinues
<1>9. CASE ~flight.append
  <2>1. listed' = PageOf(all, 1)
    BY <1>5, <1>6, <1>9, FeedPageOf
  <2> QED  BY <1>7, <2>1, FirstPagePrefix
<1> QED  BY <1>8, <1>9

\* Loading more appends what comes next (ActivityList.tsx, handleLoadMore, and
\* the page its answer was asked for): whatever polls, marks and failures came
\* before, a list of all pages so far stays the beginning of the server's.
THEOREM FeedContinues == Spec => NextPageContinues
<1>1. BoardInv /\ [Next]_vars => [Continues]_feedVars
  BY StepContinues
<1>2. BoardInv /\ [Next]_vars => BoardInv'
  BY BoardStep
<1> QED  BY <1>1, <1>2, BoardInitial, PTL DEF Spec, NextPageContinues, Continues
=============================================================================
