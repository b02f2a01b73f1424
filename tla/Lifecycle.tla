------------------------------- MODULE Lifecycle -------------------------------
(****************************************************************************)
(* The life of the process: main starts three interval services one after   *)
(* the other, then the dashboard server, then handles signals; each signal  *)
(* runs its own chain that stops them again and exits                       *)
(* (src/IntervalService.ts, src/gracefulShutdown.ts, src/main.ts).          *)
(*                                                                          *)
(* What a tick or a request does is the business of the other modules; here *)
(* each is only in flight or not, and may end well or throw.                *)
(****************************************************************************)
EXTENDS Naturals

CONSTANTS
    Signals,            \* deliveries of SIGTERM or SIGINT once they are handled
    MaxRequests         \* bound on dashboard requests in flight at once

ASSUME LifecycleAssumption ==
    /\ MaxRequests \in Nat
    /\ Signals \cap {"unstarted", "open"} = {}

VARIABLES
    boot,               \* what main awaits: a bootstrap tick, the server, nothing
    timer,              \* services whose interval is set
    stopped,            \* services whose stop() has been called
    tickPromise,        \* services with a tickPromise
    ticks,              \* how many executeTick calls of a service are in flight
    held,               \* the detector waits for GitHub's rate limit to reset
    requests,           \* dashboard requests in flight
    closer,             \* the chain whose server.close() closed the server
    stage,              \* how far the chain of a signal is
    connected,          \* $disconnect has not been called
    exited

vars == <<boot, timer, stopped, tickPromise, ticks, held, requests, closer,
          stage, connected, exited>>

Services == {"detector", "reviewDetector", "scheduler"}
Nth == <<"detector", "reviewDetector", "scheduler">>    \* started and stopped in this order

\* The awaits of main and the stages of a chain, numbered after the services.
Server == 4
Running == 5                      \* main has returned, signals are handled
Disconnect == 5
Exit == 6
NotCalled == 0

Open == "open"
Unstarted == "unstarted"

TypeOK ==
    /\ boot \in 1..Running
    /\ timer \subseteq Services /\ stopped \subseteq Services
    /\ tickPromise \subseteq Services
    /\ ticks \in [Services -> 0..1]
    /\ held \in BOOLEAN
    /\ requests \in 0..MaxRequests
    /\ closer \in {Unstarted, Open} \cup Signals
    /\ stage \in [Signals -> 0..Exit]
    /\ connected \in BOOLEAN /\ exited \in BOOLEAN

\* main has just called detector.start(), whose bootstrap tick is in flight.
Init ==
    /\ boot = 1
    /\ timer = {} /\ stopped = {}
    /\ tickPromise = {"detector"}
    /\ ticks = [s \in Services |-> IF s = "detector" THEN 1 ELSE 0]
    /\ held = FALSE
    /\ requests = 0
    /\ closer = Unstarted
    /\ stage = [g \in Signals |-> NotCalled]
    /\ connected = TRUE /\ exited = FALSE

-----------------------------------------------------------------------------
(* Ticks of the interval services.                                          *)

TickGuardMutant(s) ==             \* a tick in flight is not looked at
    s \notin stopped /\ (s = "detector" => ~held)

TickGuard(s) ==
    /\ s \notin stopped /\ s \notin tickPromise
    /\ s = "detector" => ~held

StartTick(s) ==
    /\ tickPromise' = tickPromise \cup {s}
    /\ ticks' = [ticks EXCEPT ![s] = @ + 1]

\* The interval fires; the callback returns at once when the guard is false.
Tick(s) ==
    /\ ~exited
    /\ s \in timer
    /\ TickGuard(s)
    /\ StartTick(s)
    /\ UNCHANGED <<boot, timer, stopped, held, requests, closer, stage,
                   connected, exited>>

EndTick(s) ==
    /\ ~exited
    /\ ticks[s] > 0
    /\ ticks' = [ticks EXCEPT ![s] = @ - 1]
    /\ UNCHANGED <<boot, timer, stopped, requests, closer, stage, connected, exited>>

\* The detector may have hit GitHub's rate limit, which it does not throw.
TickResolves(s) ==
    /\ EndTick(s)
    /\ tickPromise' = tickPromise \ {s}
    /\ held' \in IF s = "detector" THEN BOOLEAN ELSE {held}

TickRejectsMutant(s) ==           \* no finally: the promise stays behind
    /\ EndTick(s)
    /\ UNCHANGED <<tickPromise, held>>

\* The error is logged; whoever awaits the tick in stop() gets it too.
TickRejects(s) ==
    /\ EndTick(s)
    /\ tickPromise' = tickPromise \ {s}
    /\ UNCHANGED held

RateLimitResets ==
    /\ ~exited
    /\ held
    /\ held' = FALSE
    /\ UNCHANGED <<boot, timer, stopped, tickPromise, ticks, requests, closer,
                   stage, connected, exited>>

-----------------------------------------------------------------------------
(* Boot.                                                                    *)

\* start() of the service returns: its interval is set, and main calls start()
\* of the next one, which begins its bootstrap tick.
ServiceStarted ==
    /\ ~exited
    /\ boot < Server
    /\ Nth[boot] \notin tickPromise
    /\ timer' = timer \cup {Nth[boot]}
    /\ boot' = boot + 1
    /\ IF boot + 1 < Server THEN StartTick(Nth[boot + 1])
       ELSE UNCHANGED <<tickPromise, ticks>>
    /\ UNCHANGED <<stopped, held, requests, closer, stage, connected, exited>>

\* The server listens; the signal handlers are installed in the same turn.
ServerStarted ==
    /\ ~exited
    /\ boot = Server
    /\ boot' = Running
    /\ closer' = Open
    /\ UNCHANGED <<timer, stopped, tickPromise, ticks, held, requests, stage,
                   connected, exited>>

\* A signal before there are handlers kills the process, and so does a port
\* that cannot be listened on.
BootDies ==
    /\ ~exited
    /\ boot # Running
    /\ exited' = TRUE
    /\ UNCHANGED <<boot, timer, stopped, tickPromise, ticks, held, requests,
                   closer, stage, connected>>

-----------------------------------------------------------------------------
(* Dashboard requests.                                                      *)

StartRequest ==
    /\ ~exited
    /\ closer = Open
    /\ requests < MaxRequests
    /\ requests' = requests + 1
    /\ UNCHANGED <<boot, timer, stopped, tickPromise, ticks, held, closer, stage,
                   connected, exited>>

EndRequest ==
    /\ ~exited
    /\ requests > 0
    /\ requests' = requests - 1
    /\ UNCHANGED <<boot, timer, stopped, tickPromise, ticks, held, closer, stage,
                   connected, exited>>

-----------------------------------------------------------------------------
(* Shutdown: a chain of promises per signal, in which every catch goes on.  *)

\* What the call at stage n of the chain of signal g does at once.
Call(g, n) ==
    /\ stage' = [stage EXCEPT ![g] = n]
    /\ IF n < Server THEN stopped' = stopped \cup {Nth[n]} /\ timer' = timer \ {Nth[n]}
       ELSE UNCHANGED <<stopped, timer>>
    /\ closer' = IF n = Server /\ closer = Open THEN g ELSE closer
    /\ connected' = (connected /\ n # Disconnect)
    /\ exited' = (n = Exit)

SettledMutant(g) ==               \* stop() does not wait for the tick
    stage[g] = Server => closer # g \/ requests = 0

StaleSettledMutant(g) ==          \* close() is not awaited
    stage[g] < Server => Nth[stage[g]] \notin tickPromise

\* The promise the chain awaits has settled, one way or the other.  stop()
\* waits for a tick in flight, close() for the requests in flight, and a
\* second close() fails at once.
Settled(g) ==
    /\ stage[g] < Server => Nth[stage[g]] \notin tickPromise
    /\ stage[g] = Server => closer # g \/ requests = 0

Signal(g) ==
    /\ ~exited
    /\ boot = Running
    /\ stage[g] = NotCalled
    /\ Call(g, 1)
    /\ UNCHANGED <<boot, tickPromise, ticks, held, requests>>

Advance(g) ==
    /\ ~exited
    /\ stage[g] \in 1..Disconnect
    /\ Settled(g)
    /\ Call(g, stage[g] + 1)
    /\ UNCHANGED <<boot, tickPromise, ticks, held, requests>>

Next ==
    \/ \E s \in Services : Tick(s) \/ TickResolves(s) \/ TickRejects(s)
    \/ RateLimitResets
    \/ ServiceStarted \/ ServerStarted \/ BootDies
    \/ StartRequest \/ EndRequest
    \/ \E g \in Signals : Signal(g) \/ Advance(g)

Spec == Init /\ [][Next]_vars

\* Intervals fire, promises settle: every call to GitHub and to the database
\* ends, if only with an error, and the rate limit resets.
FairSpec ==
    /\ Spec
    /\ \A s \in Services : /\ WF_vars(Tick(s))
                           /\ WF_vars(TickResolves(s) \/ TickRejects(s))
    /\ WF_vars(RateLimitResets)
    /\ WF_vars(ServiceStarted) /\ WF_vars(ServerStarted)
    /\ WF_vars(EndRequest)
    /\ \A g \in Signals : WF_vars(Advance(g))

-----------------------------------------------------------------------------
(* Properties *)

\* Ticks of one service never overlap, and tickPromise is there exactly while
\* one is in flight, whether the interval or start() began it and whether or not
\* it throws: what stop() awaits is the tick that still runs
\* (IntervalService.tickGuard; the other modules rely on it).
PromiseTracksTick ==
    \A s \in Services : ticks[s] = IF s \in tickPromise THEN 1 ELSE 0

\* The database is disconnected only when no tick is left that would use it,
\* however many signals arrive and whatever the ticks throw.
NoTickWhenDisconnected == ~connected => \A s \in Services : ticks[s] = 0

\* After a single signal no dashboard request is cut off either: a request
\* that has posted to GitHub gets to record it.
SingleSignalDrains ==
    /\ ~connected
    /\ \A g, h \in Signals : stage[g] # NotCalled /\ stage[h] # NotCalled => g = h
    => requests = 0

\* A tick that throws, or that meets the rate limit, does not silence its
\* service: it ticks again and again until it is told to stop.
KeepsTicking ==
    \A s \in Services : []<>(ticks[s] > 0 \/ s \in stopped \/ exited)

\* Every handled signal ends in exit, although ticks may throw, the services
\* may be held by the rate limit and requests may be in flight.
SignalExits == \A g \in Signals : (stage[g] # NotCalled) ~> exited
=============================================================================
