--------------------------- MODULE Lifecycle_proofs ---------------------------
(****************************************************************************)
(* Lifecycle for any number of signals and of dashboard requests: types,    *)
(* ticks that never overlap, a database that is disconnected only when every *)
(* tick is over, and requests that a single signal lets end.                *)
(****************************************************************************)
EXTENDS Lifecycle, TLAPS

\* A chain that has reached the stage of a service has stopped it, and one past
\* that stage leaves it quiet for good, since the guard never lets a stopped
\* service start a tick again; and the handlers exist only when every service
\* has been started.
PastStages ==
    \A g \in Signals : \A k \in 1..3 :
        /\ stage[g] >= k => Nth[k] \in stopped
        /\ stage[g] > k => Nth[k] \notin tickPromise

BootOrder ==
    /\ \A k \in 1..3 : Nth[k] \in timer => k < boot
    /\ \A k \in 1..3 : Nth[k] \in tickPromise => k <= boot
    /\ \A g \in Signals : stage[g] # NotCalled => boot = Running

DisconnectLast == ~connected => \E g \in Signals : stage[g] >= Disconnect

Inv == TypeOK /\ PromiseTracksTick /\ PastStages /\ BootOrder /\ DisconnectLast

\* The names of the services in the order of main (main.ts).
LEMMA NthService ==
    /\ Nth[1] = "detector" /\ Nth[2] = "reviewDetector" /\ Nth[3] = "scheduler"
    /\ \A k \in 1..3 : Nth[k] \in Services
    /\ \A s \in Services : \E k \in 1..3 : s = Nth[k]
    /\ \A j, k \in 1..3 : Nth[j] = Nth[k] => j = k
  BY DEF Nth, Services

\* The first state of the process satisfies the invariant.
LEMMA InvInit == Init => Inv
<1> SUFFICES ASSUME Init PROVE Inv
  OBVIOUS
<1>1. TypeOK
  <2>1. ticks \in [Services -> 0..1]
    BY DEF Init
  <2>2. stage \in [Signals -> 0..Exit]
    BY DEF Init, NotCalled, Exit
  <2>3. timer \subseteq Services /\ stopped \subseteq Services
    BY DEF Init
  <2>4. tickPromise \subseteq Services
    BY DEF Init, Services
  <2>5. requests \in 0..MaxRequests
    BY LifecycleAssumption DEF Init
  <2>6. boot \in 1..Running /\ closer \in {Unstarted, Open} \cup Signals
    BY DEF Init, Running
  <2>7. held \in BOOLEAN /\ connected \in BOOLEAN /\ exited \in BOOLEAN
    BY DEF Init
  <2> QED  BY <2>1, <2>2, <2>3, <2>4, <2>5, <2>6, <2>7 DEF TypeOK
<1>2. PromiseTracksTick
  BY DEF Init, PromiseTracksTick
<1>3. PastStages
  BY DEF Init, PastStages, NotCalled
<1>4. BootOrder
  BY NthService DEF Init, BootOrder, NotCalled
<1>5. DisconnectLast
  BY DEF Init, DisconnectLast
<1> QED  BY <1>1, <1>2, <1>3, <1>4, <1>5 DEF Inv

\* Beginning and ending ticks keeps the promise beside the tick.
LEMMA TickInv ==
    ASSUME Inv, NEW s \in Services, Tick(s) \/ TickResolves(s) \/ TickRejects(s)
    PROVE  Inv'
<1>1. CASE Tick(s)
  <2>1. s \notin tickPromise /\ s \notin stopped /\ ticks[s] = 0
    BY <1>1 DEF Tick, TickGuard, Inv, PromiseTracksTick
  <2>2. TypeOK' /\ PromiseTracksTick'
    BY <1>1, <2>1 DEF Tick, StartTick, Inv, TypeOK, PromiseTracksTick
  <2>3. PastStages'
    <3>1. stage' = stage /\ stopped' = stopped /\ tickPromise' = tickPromise \cup {s}
      BY <1>1 DEF Tick, StartTick
    <3>2. \A g \in Signals : stage[g] \in Nat
      BY DEF Inv, TypeOK, Exit
    <3> QED  BY <2>1, <3>1, <3>2 DEF Inv, PastStages
  <2>4. BootOrder'
    BY <1>1, NthService DEF Tick, StartTick, Inv, TypeOK, BootOrder, Running
  <2>5. DisconnectLast'
    BY <1>1 DEF Tick, Inv, DisconnectLast
  <2> QED  BY <2>2, <2>3, <2>4, <2>5 DEF Inv
<1>2. CASE EndTick(s) /\ tickPromise' = tickPromise \ {s} /\ held' \in BOOLEAN
  <2>1. s \in tickPromise /\ ticks[s] = 1
    BY <1>2 DEF EndTick, Inv, PromiseTracksTick
  <2>2. TypeOK' /\ PromiseTracksTick'
    BY <1>2, <2>1 DEF EndTick, Inv, TypeOK, PromiseTracksTick
  <2>3. PastStages'
    BY <1>2 DEF EndTick, Inv, PastStages
  <2>4. BootOrder'
    BY <1>2 DEF EndTick, Inv, BootOrder
  <2>5. DisconnectLast'
    BY <1>2 DEF EndTick, Inv, DisconnectLast
  <2> QED  BY <2>2, <2>3, <2>4, <2>5 DEF Inv
<1>3. held' \in BOOLEAN
  BY DEF Inv, TypeOK, Tick, TickResolves, TickRejects
<1> QED  BY <1>1, <1>2, <1>3 DEF TickResolves, TickRejects

\* Booting starts each service once, and no chain exists yet.
LEMMA BootInv ==
    ASSUME Inv, ServiceStarted \/ ServerStarted \/ BootDies
    PROVE  Inv'
<1>1. CASE ServiceStarted
  <2>0. boot \in 1..3 /\ Nth[boot] \in Services
    BY <1>1, NthService DEF ServiceStarted, Inv, TypeOK, Server, Running
  <2>1. \A g \in Signals : stage[g] = NotCalled
    <3>1. \A g \in Signals : stage[g] # NotCalled => boot = 5
      BY DEF Inv, BootOrder, Running
    <3>2. boot # 5
      BY <2>0
    <3> QED  BY <3>1, <3>2
  <2>2. CASE boot + 1 < Server
    <3>1. boot + 1 \in 1..3 /\ Nth[boot + 1] \in Services /\ Nth[boot + 1] \notin tickPromise
      BY <2>0, <2>2, NthService DEF Inv, BootOrder, Server
    <3>2. ticks[Nth[boot + 1]] = 0
      BY <3>1 DEF Inv, PromiseTracksTick
    <3>3. TypeOK' /\ PromiseTracksTick'
      BY <1>1, <2>0, <2>2, <3>1, <3>2
      DEF ServiceStarted, StartTick, Inv, TypeOK, PromiseTracksTick, Running, Server
    <3>4. PastStages'
      BY <1>1, <2>1 DEF ServiceStarted, PastStages, NotCalled
    <3>5. BootOrder'
      BY <1>1, <2>0, <2>1, <2>2, <3>1, NthService
      DEF ServiceStarted, StartTick, Inv, BootOrder
    <3>6. DisconnectLast'
      BY <1>1 DEF ServiceStarted, Inv, DisconnectLast
    <3> QED  BY <3>3, <3>4, <3>5, <3>6 DEF Inv
  <2>3. CASE ~(boot + 1 < Server)
    <3>1. TypeOK' /\ PromiseTracksTick'
      BY <1>1, <2>0, <2>3
      DEF ServiceStarted, Inv, TypeOK, PromiseTracksTick, Running, Server
    <3>2. PastStages'
      BY <1>1, <2>1 DEF ServiceStarted, PastStages, NotCalled
    <3>3. BootOrder'
      BY <1>1, <2>0, <2>1, <2>3, NthService DEF ServiceStarted, Inv, BootOrder
    <3>4. DisconnectLast'
      BY <1>1 DEF ServiceStarted, Inv, DisconnectLast
    <3> QED  BY <3>1, <3>2, <3>3, <3>4 DEF Inv
  <2> QED  BY <2>2, <2>3
<1>2. CASE ServerStarted \/ BootDies
  <2>1. TypeOK' /\ PromiseTracksTick'
    <3>1. boot' \in 1..Running
      BY <1>2 DEF ServerStarted, BootDies, Inv, TypeOK, Running
    <3>2. closer' \in {Unstarted, Open} \cup Signals
      BY <1>2 DEF ServerStarted, BootDies, Inv, TypeOK
    <3>3. exited' \in BOOLEAN
      BY <1>2 DEF ServerStarted, BootDies, Inv, TypeOK
    <3>4. UNCHANGED <<timer, stopped, tickPromise, ticks, held, requests, stage,
                      connected>>
      BY <1>2 DEF ServerStarted, BootDies
    <3> QED  BY <3>1, <3>2, <3>3, <3>4 DEF Inv, TypeOK, PromiseTracksTick
  <2>2. PastStages' /\ DisconnectLast'
    BY <1>2 DEF ServerStarted, BootDies, Inv, PastStages, DisconnectLast
  <2>3. BootOrder'
    BY <1>2 DEF ServerStarted, BootDies, Inv, TypeOK, BootOrder, Running, Server
  <2> QED  BY <2>1, <2>2, <2>3 DEF Inv
<1> QED  BY <1>1, <1>2

\* The rate limit and the dashboard do not touch ticks, chains or the boot.
LEMMA AsideInv ==
    ASSUME Inv, RateLimitResets \/ StartRequest \/ EndRequest
    PROVE  Inv'
<1>1. /\ UNCHANGED <<boot, timer, stopped, tickPromise, ticks, stage, connected>>
      /\ UNCHANGED <<closer, exited>>
  BY DEF RateLimitResets, StartRequest, EndRequest
<1>2. TypeOK'
  <2>1. requests' \in 0..MaxRequests
    BY LifecycleAssumption DEF Inv, TypeOK, RateLimitResets, StartRequest, EndRequest
  <2>2. held' \in BOOLEAN
    BY DEF Inv, TypeOK, RateLimitResets, StartRequest, EndRequest
  <2> QED  BY <1>1, <2>1, <2>2 DEF Inv, TypeOK
<1> QED
  BY <1>1, <1>2
  DEF Inv, PromiseTracksTick, PastStages, BootOrder, DisconnectLast

\* A chain calls its next stage only when what it awaits has settled, and once
\* there are handlers every service has been started.
LEMMA ChainInv ==
    ASSUME Inv, NEW g \in Signals, Signal(g) \/ Advance(g)
    PROVE  Inv'
<1> DEFINE n == stage[g] + 1
<1>1. /\ stage[g] \in 0..5 /\ n \in 1..6 /\ Call(g, n) /\ boot = Running
      /\ UNCHANGED <<boot, tickPromise, ticks, held, requests>>
  BY DEF Signal, Advance, Inv, TypeOK, BootOrder, NotCalled, Disconnect, Running, Exit
<1>2. \A k \in 1..3 : stage[g] = k => Nth[k] \notin tickPromise
  BY DEF Signal, Advance, Settled, Server, NotCalled
<1>3. TypeOK'
  <2>1. stage' \in [Signals -> 0..Exit]
    BY <1>1 DEF Call, Inv, TypeOK, Exit
  <2>2. timer' \subseteq Services /\ stopped' \subseteq Services
    BY <1>1, NthService DEF Call, Inv, TypeOK, Server
  <2>3. closer' \in {Unstarted, Open} \cup Signals
    BY <1>1 DEF Call, Inv, TypeOK
  <2>4. connected' \in BOOLEAN /\ exited' \in BOOLEAN
    BY <1>1 DEF Call
  <2> QED  BY <1>1, <2>1, <2>2, <2>3, <2>4 DEF Inv, TypeOK
<1>4. PromiseTracksTick'
  BY <1>1 DEF Inv, PromiseTracksTick
<1>5. PastStages'
  <2> SUFFICES ASSUME NEW h \in Signals, NEW k \in 1..3
               PROVE  /\ stage'[h] >= k => Nth[k] \in stopped'
                      /\ stage'[h] > k => Nth[k] \notin tickPromise'
    BY DEF PastStages
  <2>1. stopped \subseteq stopped' /\ (n = k => Nth[k] \in stopped')
    BY <1>1 DEF Call, Server
  <2>2. stage'[h] = IF h = g THEN n ELSE stage[h]
    BY <1>1 DEF Call, Inv, TypeOK
  <2> QED  BY <1>1, <1>2, <2>1, <2>2 DEF Inv, PastStages
<1>6. BootOrder'
  <2>1. timer' \subseteq timer
    BY <1>1 DEF Call
  <2> QED  BY <1>1, <2>1, NthService DEF Inv, BootOrder
<1>7. DisconnectLast'
  <2>1. ASSUME NEW h \in Signals, stage[h] >= Disconnect
        PROVE  stage'[h] >= Disconnect
    BY <1>1, <2>1 DEF Call, Inv, TypeOK, Disconnect
  <2>2. ~connected' => ~connected \/ n = Disconnect
    BY <1>1 DEF Call
  <2>3. stage'[g] = n
    BY <1>1 DEF Call, Inv, TypeOK
  <2> QED  BY <2>1, <2>2, <2>3 DEF Inv, DisconnectLast, Disconnect
<1> QED  BY <1>3, <1>4, <1>5, <1>6, <1>7 DEF Inv

\* Every step of the process preserves the invariant.
LEMMA InvStep == Inv /\ [Next]_vars => Inv'
<1> SUFFICES ASSUME Inv, [Next]_vars PROVE Inv'
  OBVIOUS
<1>1. ASSUME NEW s \in Services, Tick(s) \/ TickResolves(s) \/ TickRejects(s)
      PROVE  Inv'
  BY <1>1, TickInv
<1>2. CASE ServiceStarted \/ ServerStarted \/ BootDies
  BY <1>2, BootInv
<1>3. CASE RateLimitResets \/ StartRequest \/ EndRequest
  BY <1>3, AsideInv
<1>4. ASSUME NEW g \in Signals, Signal(g) \/ Advance(g)
      PROVE  Inv'
  BY <1>4, ChainInv
<1>5. CASE UNCHANGED vars
  BY <1>5
  DEF vars, Inv, TypeOK, PromiseTracksTick, PastStages, BootOrder, DisconnectLast
<1> QED  BY <1>1, <1>2, <1>3, <1>4, <1>5 DEF Next

\* The invariant holds in every state of every behaviour.
LEMMA InvHolds == Spec => []Inv
  BY InvInit, InvStep, PTL DEF Spec

\* Type correctness of Lifecycle, in which no service has two ticks in flight.
THEOREM LifecycleTypes == Spec => []TypeOK
<1>1. Inv => TypeOK
  BY DEF Inv
<1> QED  BY <1>1, InvHolds, PTL

\* tickPromise is there exactly while one tick of the service is in flight
\* (IntervalService.tick), for any number of signals and requests.
THEOREM TicksTracked == Spec => []PromiseTracksTick
<1>1. Inv => PromiseTracksTick
  BY DEF Inv
<1> QED  BY <1>1, InvHolds, PTL

\* No tick is in flight once the database is disconnected, however many signals
\* have started a chain (createGracefulShutdown).
THEOREM QuietDisconnect == Spec => []NoTickWhenDisconnected
<1>1. Inv => NoTickWhenDisconnected
  <2> SUFFICES ASSUME Inv, ~connected, NEW s \in Services PROVE ticks[s] = 0
    BY DEF NoTickWhenDisconnected
  <2>1. PICK g \in Signals : stage[g] >= Disconnect
    BY DEF Inv, DisconnectLast
  <2>2. PICK k \in 1..3 : s = Nth[k]
    BY NthService
  <2>3. s \notin tickPromise
    BY <2>1, <2>2 DEF Inv, TypeOK, PastStages, Disconnect, Exit
  <2> QED  BY <2>3 DEF Inv, PromiseTracksTick
<1> QED  BY <1>1, InvHolds, PTL

\* What a chain past close() leaves behind, if it is the one that closed the
\* server: a second close() fails at once and waits for nobody.
Drained ==
    /\ closer = Unstarted => boot # Running
    /\ closer = Open => \A g \in Signals : stage[g] < Server
    /\ closer \in Signals => /\ stage[closer] >= Server
                             /\ stage[closer] > Server => requests = 0

\* Before the server listens nothing is closed.
LEMMA DrainedInit == Init => Drained
  BY LifecycleAssumption DEF Init, Drained, Running, Unstarted, Open

\* Requests begin only while the server is open, and its closer goes on only
\* when the last one has ended.
LEMMA DrainedStep == Inv /\ Drained /\ [Next]_vars => Drained'
<1> SUFFICES ASSUME Inv, Drained, [Next]_vars PROVE Drained'
  OBVIOUS
<1>0. \A h \in Signals : stage[h] \in 0..6
  BY DEF Inv, TypeOK, Exit
<1>1. CASE UNCHANGED <<boot, closer, stage, requests>>
  BY <1>1 DEF Drained
<1>2. CASE ServiceStarted \/ ServerStarted
  <2>1. \A g \in Signals : stage[g] = NotCalled /\ stage'[g] = NotCalled
    BY <1>2 DEF ServiceStarted, ServerStarted, Inv, BootOrder, Running, Server
  <2>2. CASE ServerStarted
    BY <2>1, <2>2, LifecycleAssumption
    DEF ServerStarted, Drained, Open, Unstarted, NotCalled, Server
  <2>3. CASE ServiceStarted
    BY <2>1, <2>3
    DEF ServiceStarted, Drained, Inv, TypeOK, NotCalled, Server, Running
  <2> QED  BY <1>2, <2>2, <2>3
<1>3. CASE StartRequest
  BY <1>3, LifecycleAssumption DEF StartRequest, Drained, Open
<1>4. CASE EndRequest
  BY <1>4 DEF EndRequest, Drained, Inv, TypeOK
<1>5. ASSUME NEW g \in Signals, Signal(g) \/ Advance(g)
      PROVE  Drained'
  <2> DEFINE n == stage[g] + 1
  <2>1. /\ n \in 1..6 /\ Call(g, n) /\ boot = Running
        /\ UNCHANGED <<boot, requests>>
    BY <1>5 DEF Signal, Advance, Inv, TypeOK, BootOrder, NotCalled, Disconnect, Running, Exit
  <2>2. n = 5 => closer # g \/ requests = 0
    BY <1>5 DEF Signal, Advance, Settled, Server, NotCalled
  <2>3. \A h \in Signals : stage'[h] = IF h = g THEN n ELSE stage[h]
    BY <2>1 DEF Call, Inv, TypeOK
  <2>4. closer' = IF n = 4 /\ closer = Open THEN g ELSE closer
    BY <2>1 DEF Call, Server
  <2>5. closer # Unstarted
    BY <2>1 DEF Drained
  <2>6. closer = Open => n <= 4
    BY <1>0 DEF Drained, Server
  <2> QED
    BY <1>0, <2>1, <2>2, <2>3, <2>4, <2>5, <2>6, LifecycleAssumption
    DEF Drained, Server, Open, Unstarted
<1> QED
  BY <1>1, <1>2, <1>3, <1>4, <1>5
  DEF Next, vars, Tick, TickResolves, TickRejects, EndTick, RateLimitResets, BootDies

\* After a single signal no dashboard request is cut off by the disconnect
\* (createGracefulShutdown); a second signal would not wait for it.
THEOREM SingleDrains == Spec => []SingleSignalDrains
<1>1. Inv /\ Drained => SingleSignalDrains
  <2> SUFFICES ASSUME Inv, Drained, ~connected,
                      \A g, h \in Signals :
                          stage[g] # NotCalled /\ stage[h] # NotCalled => g = h
               PROVE  requests = 0
    BY DEF SingleSignalDrains
  <2>1. PICK g \in Signals : stage[g] >= Disconnect
    BY DEF Inv, DisconnectLast
  <2>2. stage[g] # NotCalled /\ stage[g] > Server /\ boot = Running
    BY <2>1 DEF Inv, TypeOK, BootOrder, NotCalled, Disconnect, Server, Exit
  <2>3. closer \in Signals
    BY <2>2 DEF Drained, Inv, TypeOK, Server, Exit
  <2>4. stage[closer] # NotCalled
    BY <2>3 DEF Drained, Inv, TypeOK, NotCalled, Server, Exit
  <2>5. closer = g
    BY <2>2, <2>3, <2>4
  <2> QED  BY <2>2, <2>3, <2>5 DEF Drained
<1> QED  BY <1>1, InvHolds, DrainedInit, DrainedStep, PTL DEF Spec
===============================================================================
