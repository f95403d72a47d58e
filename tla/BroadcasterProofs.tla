--------------------------- MODULE BroadcasterProofs ---------------------------
(***************************************************************************)
(* Proofs about Broadcaster.  Its steps are steps of WSServer and of       *)
(* RelayClient, so what is proved of these two holds of it as well; an     *)
(* invariant of its own links a worker's job to the calls made for it.     *)
(***************************************************************************)
EXTENDS Broadcaster, FiniteSetTheorems, TLAPS

\* The two parts once more, with the theorems about them.
SP == INSTANCE WSServerProofs
RP == INSTANCE RelayClientProofs

-----------------------------------------------------------------------------
(* The theorems of a part are about the part *)

\* The server that Broadcaster names is the one WSServerProofs is about.
LEMMA SameServer ==
  /\ Server!Init <=> SP!Init
  /\ [Server!Next]_(Server!vars) <=> [SP!Next]_(SP!vars)
<1>1. Server!Init <=> SP!Init
  BY DEF Server!Init, SP!Init
<1>2. Server!Next <=> SP!Next
  BY DEF Server!lifecycle, SP!lifecycle, Server!handlers, SP!handlers,
       Server!workers, SP!workers, Server!history, SP!history,
       Server!vars, SP!vars, Server!Alive, SP!Alive, Server!Listen,
       SP!Listen, Server!ListenFails, SP!ListenFails, Server!Connect,
       SP!Connect, Server!Disconnect, SP!Disconnect,
       Server!CountReceived, SP!CountReceived, Server!Receive,
       SP!Receive, Server!MayAdmit, SP!MayAdmit, Server!Admit,
       SP!Admit, Server!LetGo, SP!LetGo, Server!RefuseClosed,
       SP!RefuseClosed, Server!QueueAccepts, SP!QueueAccepts,
       Server!HasRoom, SP!HasRoom, Server!Enqueue, SP!Enqueue,
       Server!DropFull, SP!DropFull, Server!PanicOnSend,
       SP!PanicOnSend, Server!TakeHead, SP!TakeHead, Server!Take,
       SP!Take, Server!FinishBroadcast, SP!FinishBroadcast,
       Server!MayLeave, SP!MayLeave, Server!Leave, SP!Leave,
       Server!MainStep, SP!MainStep, Server!Quit, SP!Quit,
       Server!Expire, SP!Expire, Server!StoreClosed, SP!StoreClosed,
       Server!Cancel, SP!Cancel, Server!CloseQueue, SP!CloseQueue,
       Server!WorkersDone, SP!WorkersDone, Server!ShutdownReturns,
       SP!ShutdownReturns, Server!HttpShutdown, SP!HttpShutdown,
       Server!StopTracker, SP!StopTracker, Server!Exit, SP!Exit,
       Server!Main, SP!Main, Server!Ended, SP!Ended, Server!Next,
       SP!Next
<1>3. QED
  BY <1>1, <1>2
     DEF Server!lifecycle, SP!lifecycle, Server!handlers, SP!handlers,
       Server!workers, SP!workers, Server!history, SP!history,
       Server!vars, SP!vars

\* The relay clients of Broadcaster are those of RelayClientProofs.
LEMMA SameRelay ==
  /\ Relay!Init <=> RP!Init
  /\ [Relay!Next]_(Relay!vars) <=> [RP!Next]_(RP!vars)
<1>1. Relay!Init <=> RP!Init
  BY DEF Relay!Init, RP!Init, Relay!Pairs, RP!Pairs
<1>2. Relay!Next <=> RP!Next
  BY DEF Relay!env, RP!env, Relay!local, RP!local, Relay!buffers,
       RP!buffers, Relay!counters, RP!counters, Relay!network,
       RP!network, Relay!vars, RP!vars, Relay!Pairs, RP!Pairs,
       Relay!Statuses, RP!Statuses, Relay!Cooldown, RP!Cooldown,
       Relay!Inc, RP!Inc, Relay!Goto, RP!Goto, Relay!Continue,
       RP!Continue, Relay!End, RP!End, Relay!Limit, RP!Limit,
       Relay!Fail, RP!Fail, Relay!StartBroadcast, RP!StartBroadcast,
       Relay!AllReturned, RP!AllReturned, Relay!FinishBroadcast,
       RP!FinishBroadcast, Relay!Cooling, RP!Cooling, Relay!Skip,
       RP!Skip, Relay!Pass, RP!Pass, Relay!BuildFails, RP!BuildFails,
       Relay!Get, RP!Get, Relay!Build, RP!Build, Relay!Do, RP!Do,
       Relay!Reach, RP!Reach, Relay!LateReach, RP!LateReach,
       Relay!Answer, RP!Answer, Relay!InFlight, RP!InFlight,
       Relay!Forsake, RP!Forsake, Relay!GiveUp, RP!GiveUp,
       Relay!MayRetry, RP!MayRetry,
       Relay!Retry, RP!Retry, Relay!ConnFails, RP!ConnFails,
       Relay!Bounded, RP!Bounded, Relay!Final, RP!Final,
       Relay!TimesOut, RP!TimesOut, Relay!Interrupted, RP!Interrupted,
       Relay!OtherError, RP!OtherError, Relay!Accepted, RP!Accepted,
       Relay!Rejected, RP!Rejected, Relay!CooldownEnd, RP!CooldownEnd,
       Relay!ReadClock, RP!ReadClock, Relay!Cool, RP!Cool,
       Relay!StoreCooldown, RP!StoreCooldown, Relay!Cancel, RP!Cancel,
       Relay!Tick, RP!Tick, Relay!Idle, RP!Idle, Relay!Run, RP!Run,
       Relay!Network, RP!Network, Relay!Next, RP!Next
<1>3. QED
  BY <1>1, <1>2
     DEF Relay!env, RP!env, Relay!local, RP!local, Relay!buffers,
       RP!buffers, Relay!counters, RP!counters, Relay!network,
       RP!network, Relay!vars, RP!vars

-----------------------------------------------------------------------------
(* The steps of the whole are steps of the parts *)

\* No step of a call, of the network or of the clock touches the context.
LEMMA ContextKept ==
  ASSUME NEW p,
         Relay!Run(p) \/ Relay!TimesOut(p) \/ Relay!Network(p) \/ Relay!Tick
  PROVE  UNCHANGED cancelled
BY DEF Relay!Run, Relay!TimesOut, Relay!Network, Relay!Tick, Relay!Skip,
     Relay!Pass, Relay!BuildFails, Relay!Build, Relay!Do, Relay!Accepted,
     Relay!Rejected, Relay!ReadClock, Relay!StoreCooldown, Relay!Reach,
     Relay!Answer, Relay!LateReach, Relay!ConnFails, Relay!Interrupted,
     Relay!OtherError, Relay!GiveUp, Relay!env

\* Each step is a step of the server, or none.
LEMMA ServerStep == [Next]_vars => [Server!Next]_(Server!vars)
<1> SUFFICES ASSUME [Next]_vars PROVE Server!Next \/ UNCHANGED Server!vars
  OBVIOUS
<1>1. ASSUME UNCHANGED <<serverOnly, cancelled>> PROVE UNCHANGED Server!vars
  BY <1>1 DEF serverOnly, Server!vars, Server!lifecycle, Server!handlers,
       Server!workers, Server!history
<1>2. CASE ServerAlone
  BY <1>2 DEF ServerAlone, Server!Next
<1>3. CASE MainAlone \/ Cancels
  BY <1>3 DEF MainAlone, Cancels, Server!Main, Server!Next
<1>4. CASE TimePasses
  BY <1>1, <1>4, ContextKept DEF TimePasses
<1>5. CASE Ended \/ UNCHANGED vars
  BY <1>1, <1>5 DEF Ended, vars
<1>6. ASSUME NEW w \in Workers, Takes(w) \/ Returns(w) \/ Leaves(w)
      PROVE  Server!Next
  BY <1>6 DEF Takes, Returns, Leaves, Server!Next
<1>7. ASSUME NEW p \in Relay!Pairs, CallProceeds(p) \/ NetworkActs(p)
      PROVE  UNCHANGED Server!vars
  BY <1>1, <1>7, ContextKept DEF CallProceeds, NetworkActs
<1>8. QED
  BY <1>2, <1>3, <1>4, <1>5, <1>6, <1>7 DEF Next

\* Without the relays, Broadcaster is the server of WSServer, as far as
\* safety goes: this is the first half of ServerIsImplemented.
THEOREM ServerImplemented == Spec => Server!Spec
<1>1. Init => Server!Init
  BY DEF Init
<1>2. QED
  BY <1>1, ServerStep, PTL DEF Spec, Server!Spec

\* What WSServerProofs shows of the server holds of the whole.
LEMMA ServerAlways ==
  Spec => [](/\ Server!TypeOK /\ Server!InOnePlace
             /\ SP!WorkersGone /\ SP!Accounted)
<1>1. /\ SP!TypeOK => Server!TypeOK
      /\ SP!InOnePlace => Server!InOnePlace
  <2>1. SP!TypeOK => Server!TypeOK
    BY DEF SP!TypeOK, Server!TypeOK, SP!MainPlaces, Server!MainPlaces,
         SP!Fates, Server!Fates
  <2>2. SP!InOnePlace => Server!InOnePlace
    BY DEF SP!InOnePlace, Server!InOnePlace, SP!NoneLost, Server!NoneLost,
         SP!NoTwoPlaces, Server!NoTwoPlaces, SP!Queued, Server!Queued,
         SP!Held, Server!Held, SP!OnJob, Server!OnJob
  <2>3. QED
    BY <2>1, <2>2
<1>2. Server!Spec => SP!Spec
  BY SameServer, PTL DEF Server!Spec, SP!Spec
<1>3. SP!Spec => [](/\ SP!TypeOK /\ SP!InOnePlace
                    /\ SP!WorkersGone /\ SP!Accounted)
  BY SP!TypeCorrect, SP!PlacesCorrect, SP!WorkersGoneAlways, SP!AccountedAlways,
     ServerAssumption, PTL
<1>4. QED
  BY <1>1, <1>2, <1>3, ServerImplemented, PTL

\* The whole keeps the promise of BundleLife too, as far as safety goes: with
\* the relays in place, a bundle is still served at most once, only if it was
\* accepted, and nothing is accepted after close(s.queue).
THEOREM WholeKeepsPromise == Spec => SP!Life!SafeSpec
<1>1. Server!Spec => SP!Spec
  BY SameServer, PTL DEF Server!Spec, SP!Spec
<1>2. QED
  BY <1>1, ServerImplemented, SP!PromiseIsSafe, ServerAssumption, PTL

\* Each step is a step of the relay clients, or none.
LEMMA RelayStep == Server!TypeOK /\ [Next]_vars => [Relay!Next]_(Relay!vars)
<1> SUFFICES ASSUME Server!TypeOK, [Next]_vars
             PROVE  Relay!Next \/ UNCHANGED Relay!vars
  OBVIOUS
<1>1. ASSUME UNCHANGED <<cancelled, relayOnly>> PROVE UNCHANGED Relay!vars
  BY <1>1 DEF relayOnly, Relay!vars, Relay!env, Relay!local, Relay!buffers,
       Relay!counters, Relay!network
<1>2. CASE ServerAlone
  <2>1. UNCHANGED cancelled
    BY <1>2 DEF ServerAlone, Server!Listen, Server!ListenFails, Server!Quit,
         Server!Expire, Server!Connect, Server!Disconnect, Server!Receive,
         Server!Admit, Server!RefuseClosed, Server!Enqueue, Server!DropFull,
         Server!PanicOnSend, Server!LetGo, Server!lifecycle
  <2>2. QED
    BY <1>1, <1>2, <2>1 DEF ServerAlone
<1>3. CASE MainAlone
  BY <1>1, <1>3 DEF MainAlone, Server!StoreClosed, Server!CloseQueue,
       Server!ShutdownReturns, Server!HttpShutdown, Server!StopTracker,
       Server!Exit
<1>4. CASE Cancels
  BY <1>4 DEF Cancels, Relay!Next
<1>5. CASE TimePasses
  BY <1>5 DEF TimePasses, Relay!Next
<1>6. CASE Ended \/ UNCHANGED vars
  BY <1>1, <1>6 DEF Ended, vars
<1>7. ASSUME NEW w \in Workers, Takes(w) PROVE Relay!Next
  <2>1. Head(queue) \in Bundles
    BY <1>7 DEF Takes, Server!Take, Server!TypeOK
  <2>2. QED
    BY <1>7, <2>1 DEF Takes, Relay!Next
<1>8. ASSUME NEW w \in Workers, Returns(w) PROVE Relay!Next
  <2>1. job[w] \in Bundles
    BY <1>8 DEF Returns, Server!FinishBroadcast, Server!TypeOK
  <2>2. QED
    BY <1>8, <2>1 DEF Returns, Relay!Next
<1>9. ASSUME NEW w \in Workers, Leaves(w) PROVE UNCHANGED Relay!vars
  BY <1>1, <1>9 DEF Leaves, Server!Leave, Server!lifecycle
<1>10. ASSUME NEW p \in Relay!Pairs, CallProceeds(p) \/ NetworkActs(p)
       PROVE  Relay!Next
  BY <1>10 DEF CallProceeds, NetworkActs, Relay!Next
<1>11. QED
  BY <1>2, <1>3, <1>4, <1>5, <1>6, <1>7, <1>8, <1>9, <1>10 DEF Next

\* Without the server, Broadcaster is the relay clients of RelayClient: the
\* server never starts a bundle's calls twice, nor returns before they have.
THEOREM RelayImplemented == Spec => Relay!Spec
<1>1. Init => Relay!Init
  BY DEF Init
<1>2. QED
  BY <1>1, ServerAlways, RelayStep, PTL DEF Spec, Relay!Spec

\* What RelayClientProofs shows of the calls holds of the whole.
LEMMA RelayAlways ==
  Spec => [](/\ Relay!TypeOK /\ RP!CallsFit /\ RP!CountersFit
             /\ RP!Typed /\ RP!RequestsAreAttempts /\ RP!TracesFit)
<1>1. RP!TypeOK => Relay!TypeOK
  BY DEF RP!TypeOK, Relay!TypeOK, RP!Pairs, Relay!Pairs, RP!Places,
       Relay!Places, RP!Statuses, Relay!Statuses, RP!Verdicts, Relay!Verdicts
<1>2. Relay!Spec => RP!Spec
  BY SameRelay, PTL DEF Relay!Spec, RP!Spec
<1>3. RP!Spec => [](/\ RP!TypeOK /\ RP!CallsFit /\ RP!CountersFit
                    /\ RP!Typed /\ RP!RequestsAreAttempts /\ RP!TracesFit)
  BY RP!TypeCorrect, RP!CallsFitAlways, RP!CountersAlways, RP!TracesAlways,
     RelayAssumption, PTL
<1>4. QED
  BY <1>1, <1>2, <1>3, RelayImplemented, PTL

\* In the service as a whole the parts keep their own promises: a late bundle
\* is refused, duplicates are bounded, cooldowns neither add up nor spread to
\* other relays, a buffer holds one request, and no settled call tries again.
THEOREM PartsBehave ==
  Spec => /\ [](/\ Server!LateIsRefused
                /\ Relay!DuplicatesAreBounded /\ Relay!CooldownsDoNotAddUp
                /\ Relay!CooldownIsPerRelay /\ Relay!BufferIsExclusive)
          /\ Relay!NoAttemptAfterSettled
<1>1. SP!LateIsRefused => Server!LateIsRefused
  BY DEF SP!LateIsRefused, Server!LateIsRefused
<1>2. /\ RP!DuplicatesAreBounded => Relay!DuplicatesAreBounded
      /\ RP!CooldownIsPerRelay => Relay!CooldownIsPerRelay
      /\ RP!BufferIsExclusive => Relay!BufferIsExclusive
  BY DEF RP!DuplicatesAreBounded, Relay!DuplicatesAreBounded,
       RP!CooldownIsPerRelay, Relay!CooldownIsPerRelay,
       RP!BufferIsExclusive, Relay!BufferIsExclusive, RP!Holds, Relay!Holds,
       RP!Pairs, Relay!Pairs
<1>3. RP!CooldownsDoNotAddUp => Relay!CooldownsDoNotAddUp
  BY DEF RP!CooldownsDoNotAddUp, Relay!CooldownsDoNotAddUp, RP!Cooldown,
       Relay!Cooldown
<1>4. [\A p \in settled : attempts'[p] = attempts[p]]_(RP!vars)
        => [\A p \in settled : attempts'[p] = attempts[p]]_(Relay!vars)
  BY DEF RP!vars, Relay!vars, RP!env, Relay!env, RP!local, Relay!local,
       RP!buffers, Relay!buffers, RP!counters, Relay!counters, RP!network,
       Relay!network
<1>5. (Server!Spec => SP!Spec) /\ (Relay!Spec => RP!Spec)
  BY SameServer, SameRelay, PTL DEF Server!Spec, SP!Spec, Relay!Spec, RP!Spec
<1>6. SP!Spec => []SP!LateIsRefused
  BY SP!LateCorrect, ServerAssumption
<1>7. RP!Spec => /\ []RP!DuplicatesAreBounded /\ []RP!CooldownsDoNotAddUp
                 /\ []RP!CooldownIsPerRelay /\ []RP!BufferIsExclusive
                 /\ RP!NoAttemptAfterSettled
  BY RP!DuplicatesBounded, RP!CooldownsBounded, RP!CooldownPerRelay,
     RP!BuffersExclusive, RP!NoAttemptAfterAnswer, RelayAssumption
<1>8. QED
  BY <1>1, <1>2, <1>3, <1>4, <1>5, <1>6, <1>7, ServerImplemented,
     RelayImplemented, PTL
     DEF RP!NoAttemptAfterSettled, Relay!NoAttemptAfterSettled

-----------------------------------------------------------------------------
(* A worker's job and the calls made for it *)

\* A bundle's broadcast is running just while some worker has the bundle, and
\* it is over just when the bundle has an outcome of a broadcast.
Linked ==
  \A b \in Bundles :
    /\ cast[b] = "running" <=> Server!OnJob(b)
    /\ cast[b] = "done" <=> fate[b] \in {"broadcast", "interrupted"}

\* A call, the network and the clock leave all broadcasts as they are.
LEMMA CastKept ==
  ASSUME NEW p,
         Relay!Run(p) \/ Relay!TimesOut(p) \/ Relay!Network(p) \/ Relay!Tick
  PROVE  UNCHANGED cast
BY DEF Relay!Run, Relay!TimesOut, Relay!Network, Relay!Tick, Relay!Skip,
     Relay!Pass, Relay!BuildFails, Relay!Build, Relay!Do, Relay!Accepted,
     Relay!Rejected, Relay!ReadClock, Relay!StoreCooldown, Relay!Reach,
     Relay!Answer, Relay!LateReach, Relay!ConnFails, Relay!Interrupted,
     Relay!OtherError, Relay!GiveUp

\* A worker starts the broadcast of the bundle it takes and of no other, and
\* no step but its return ends that broadcast.
LEMMA LinkedStep ==
  Server!TypeOK /\ Server!InOnePlace /\ Relay!TypeOK /\ Linked /\ [Next]_vars
    => Linked'
<1> SUFFICES ASSUME Server!TypeOK, Server!InOnePlace, Relay!TypeOK, Linked,
                    [Next]_vars
             PROVE  Linked'
  OBVIOUS
<1>a. /\ cast \in [Bundles -> {"off", "running", "done"}]
      /\ job \in [Workers -> Bundles \union {None}]
      /\ fate \in [Bundles -> Server!Fates]
      /\ None \notin Bundles
  BY ServerAssumption DEF Server!TypeOK, Relay!TypeOK
<1>1. ASSUME UNCHANGED <<cast, job, fate>> PROVE Linked'
  BY <1>1 DEF Linked, Server!OnJob
<1>2. ASSUME NEW b \in Bundles,
             NEW f \in {"inflight", "refused", "overflowed", "panicked"},
             fate[b] \in {"unsent", "inflight"}, UNCHANGED <<cast, job>>,
             fate' = [fate EXCEPT ![b] = f]
      PROVE  Linked'
  BY <1>a, <1>2 DEF Linked, Server!OnJob
<1>3. ASSUME NEW c \in Conns, NEW b \in Bundles, Server!Receive(c, b),
             UNCHANGED relayOnly
      PROVE  Linked'
  BY <1>2, <1>3 DEF Server!Receive, Server!workers, relayOnly
<1>4. ASSUME NEW c \in Conns, UNCHANGED relayOnly,
             \/ Server!RefuseClosed(c) \/ Server!Enqueue(c)
             \/ Server!DropFull(c) \/ Server!PanicOnSend(c)
      PROVE  Linked'
  <2>1. held[c] \in Bundles /\ Server!Held(held[c])
    BY <1>4 DEF Server!RefuseClosed, Server!Enqueue, Server!DropFull,
         Server!PanicOnSend, Server!TypeOK, Server!Held
  <2>2. fate[held[c]] = "inflight"
    BY <2>1 DEF Server!InOnePlace, Server!NoneLost
  <2>3. /\ UNCHANGED <<cast, job>>
        /\ \E f \in {"inflight", "refused", "overflowed", "panicked"} :
             fate' = [fate EXCEPT ![held[c]] = f]
    BY <1>4 DEF Server!RefuseClosed, Server!Enqueue, Server!DropFull,
         Server!PanicOnSend, Server!LetGo, Server!workers, relayOnly
  <2>4. QED
    BY <1>2, <2>1, <2>2, <2>3
<1>5. CASE ServerAlone
  <2>1. CASE Server!Listen \/ Server!ListenFails \/ Server!Quit \/ Server!Expire
    BY <1>1, <1>5, <2>1 DEF ServerAlone, Server!Listen, Server!ListenFails,
         Server!Quit, Server!Expire, Server!MainStep, Server!workers,
         Server!history, relayOnly
  <2>2. ASSUME NEW c \in Conns,
               Server!Connect(c) \/ Server!Disconnect(c) \/ Server!Admit(c)
        PROVE  Linked'
    BY <1>1, <1>5, <2>2 DEF ServerAlone, Server!Connect, Server!Disconnect,
         Server!Admit, Server!workers, Server!history, relayOnly
  <2>3. QED
    BY <1>3, <1>4, <1>5, <2>1, <2>2 DEF ServerAlone
<1>6. CASE MainAlone
  BY <1>1, <1>6 DEF MainAlone, Server!StoreClosed, Server!CloseQueue,
       Server!ShutdownReturns, Server!HttpShutdown, Server!StopTracker,
       Server!Exit, Server!MainStep, Server!workers, Server!history, relayOnly
<1>7. CASE Cancels
  BY <1>1, <1>7 DEF Cancels, Server!Cancel, Server!MainStep, Server!workers,
       Server!history, Relay!Cancel
<1>8. CASE TimePasses
  BY <1>1, <1>8, CastKept DEF TimePasses, serverOnly
<1>9. CASE Ended \/ UNCHANGED vars
  BY <1>1, <1>9 DEF Ended, vars, serverOnly, relayOnly
<1>10. ASSUME NEW w \in Workers, Takes(w) PROVE Linked'
  <2>1. PICK b \in Bundles : b = Head(queue)
    BY <1>10 DEF Takes, Server!Take, Server!TypeOK
  <2>2. /\ job[w] = None /\ job' = [job EXCEPT ![w] = b]
        /\ cast[b] = "off" /\ cast' = [cast EXCEPT ![b] = "running"]
        /\ UNCHANGED fate
    BY <1>10, <2>1 DEF Takes, Server!Take, Server!history, Server!TypeOK,
         Relay!StartBroadcast
  <2>3. \A d \in Bundles : Server!OnJob(d)' <=> Server!OnJob(d) \/ d = b
    BY <1>a, <2>2 DEF Server!OnJob
  <2>4. QED
    BY <1>a, <2>2, <2>3 DEF Linked
<1>11. ASSUME NEW w \in Workers, Returns(w) PROVE Linked'
  <2>1. PICK b \in Bundles : b = job[w]
    BY <1>11 DEF Returns, Server!FinishBroadcast, Server!TypeOK
  <2>2. /\ job' = [job EXCEPT ![w] = None]
        /\ cast' = [cast EXCEPT ![b] = "done"]
        /\ fate' = [fate EXCEPT ![b] =
                      IF cancelled THEN "interrupted" ELSE "broadcast"]
    BY <1>11, <2>1 DEF Returns, Server!FinishBroadcast, Relay!FinishBroadcast
  <2>3. \A v \in Workers : job[v] = b => v = w
    BY <1>a, <2>1 DEF Server!InOnePlace, Server!NoTwoPlaces
  <2>4. \A d \in Bundles : Server!OnJob(d)' <=> Server!OnJob(d) /\ d # b
    BY <1>a, <2>1, <2>2, <2>3 DEF Server!OnJob
  <2>5. QED
    BY <1>a, <2>2, <2>4 DEF Linked
<1>12. ASSUME NEW w \in Workers, Leaves(w) PROVE Linked'
  BY <1>1, <1>12 DEF Leaves, Server!Leave, Server!history, relayOnly
<1>13. ASSUME NEW p \in Relay!Pairs, CallProceeds(p) \/ NetworkActs(p)
       PROVE  Linked'
  BY <1>1, <1>13, CastKept DEF CallProceeds, NetworkActs, serverOnly
<1>14. QED
  BY <1>5, <1>6, <1>7, <1>8, <1>9, <1>10, <1>11, <1>12, <1>13 DEF Next

\* The link holds from start to exit.
LEMMA LinkedAlways == Spec => []Linked
<1>1. Init => Linked
  <2> SUFFICES ASSUME Init PROVE Linked
    OBVIOUS
  <2>1. /\ cast = [b \in Bundles |-> "off"]
        /\ job = [w \in Workers |-> None]
        /\ fate = [b \in Bundles |-> "unsent"]
    BY DEF Init, Server!Init, Relay!Init
  <2>2. QED
    BY <2>1, ServerAssumption DEF Linked, Server!OnJob
<1>2. QED
  BY <1>1, LinkedStep, ServerAlways, RelayAlways, PTL DEF Spec

\* Unless shutdownCtx expired, no call is under way once WSServer.Shutdown
\* has returned: with all workers gone no broadcast is running, and a
\* broadcast that is over has no call under way.
THEOREM NoCallsLeft == Spec => []NoCallAfterShutdown
<1>1. Server!TypeOK /\ SP!WorkersGone /\ Relay!TypeOK
        /\ RP!CallsFit /\ Linked
        => NoCallAfterShutdown
  <2> SUFFICES ASSUME Server!TypeOK, SP!WorkersGone,
                      Relay!TypeOK, RP!CallsFit, Linked, ~expired,
                      main \in {"wsDown", "httpDown", "trackerStopped",
                                "exited"},
                      NEW p \in Relay!Pairs
               PROVE  call[p] \in {"off", "done"}
    BY DEF NoCallAfterShutdown
  <2>1. p[1] \in Bundles /\ cast[p[1]] \in {"off", "running", "done"}
    BY DEF Relay!Pairs, Relay!TypeOK
  <2>2. ~Server!OnJob(p[1])
    <3>1. \A w \in Workers : job[w] = None
      BY DEF Server!TypeOK, SP!WorkersGone
    <3>2. QED
      BY <2>1, <3>1, ServerAssumption DEF Server!OnJob
  <2>3. cast[p[1]] \in {"off", "done"}
    BY <2>1, <2>2 DEF Linked
  <2>4. QED
    BY <2>3 DEF RP!CallsFit, Relay!Pairs, RP!Pairs
<1>2. QED
  BY <1>1, ServerAlways, RelayAlways, LinkedAlways, PTL

\* A bundle of which an attempt was made, which a relay has received or may yet
\* receive, is with a worker or has the outcome of a broadcast.
OnlyServedIsSent ==
  \A b \in Bundles, r \in Relays :
    \/ attempts[<<b, r>>] = 0 /\ reached[<<b, r>>] = 0 /\ loose[<<b, r>>] = 0
    \/ Server!OnJob(b) \/ fate[b] \in {"broadcast", "interrupted"}

\* A bundle that was refused, overflowed the queue or met the closed channel,
\* and one that is still waiting, never reaches any relay, not even late.
THEOREM NothingElseSent == Spec => []OnlyServedIsSent
<1>1. Relay!TypeOK /\ RP!CallsFit /\ RP!RequestsAreAttempts /\ RP!TracesFit
        /\ Linked
        => OnlyServedIsSent
  <2> SUFFICES ASSUME Relay!TypeOK, RP!CallsFit, RP!RequestsAreAttempts,
                      RP!TracesFit, Linked, NEW b \in Bundles, NEW r \in Relays,
                      ~Server!OnJob(b), fate[b] \notin {"broadcast", "interrupted"}
               PROVE  /\ attempts[<<b, r>>] = 0
                      /\ reached[<<b, r>>] = 0 /\ loose[<<b, r>>] = 0
    BY DEF OnlyServedIsSent
  <2>1. <<b, r>> \in RP!Pairs /\ <<b, r>> \in Relay!Pairs /\ <<b, r>>[1] = b
    BY DEF RP!Pairs, Relay!Pairs
  <2>2. cast[b] = "off"
    BY DEF Linked, Relay!TypeOK
  <2>3. call[<<b, r>>] = "off"
    BY <2>1, <2>2 DEF RP!CallsFit
  <2>4. attempts[<<b, r>>] = 0
    BY <2>1, <2>3 DEF RP!TracesFit
  <2>5. reached[<<b, r>>] \in Nat /\ loose[<<b, r>>] \in Nat
    BY <2>1 DEF Relay!TypeOK
  <2>6. reached[<<b, r>>] + loose[<<b, r>>]
          + (IF call[<<b, r>>] = "flight" THEN 1 ELSE 0) <= attempts[<<b, r>>]
    BY <2>1 DEF RP!RequestsAreAttempts
  <2>7. QED
    BY <2>3, <2>4, <2>5, <2>6
<1>2. QED
  BY <1>1, RelayAlways, LinkedAlways, PTL

\* WSServer.Shutdown has returned, and not because shutdownCtx expired.
Drained == ~expired /\ main \in {"wsDown", "httpDown", "trackerStopped", "exited"}

\* What the relay clients have done by then is final.
ShutdownIsFinal ==
  [][Drained => UNCHANGED <<attempts, verdict, sent, failed, limited, events>>]_vars

\* Once Shutdown has returned no attempt is made, no counter increased and
\* nothing more given to the tracker, which main stops next.
THEOREM NothingAfterShutdown == Spec => ShutdownIsFinal
<1>1. Server!TypeOK /\ RP!Typed /\ NoCallAfterShutdown /\ [Next]_vars
        => [Drained
              => UNCHANGED <<attempts, verdict, sent, failed, limited, events>>]_vars
  <2> SUFFICES ASSUME Server!TypeOK, RP!Typed, NoCallAfterShutdown, [Next]_vars,
                      Drained
               PROVE  UNCHANGED <<attempts, verdict, sent, failed, limited, events>>
    OBVIOUS
  <2>1. [RP!Next]_(RP!vars)
    BY RelayStep, SameRelay
  <2>2. \A p \in RP!Pairs : call[p] \in {"off", "done"}
    BY DEF NoCallAfterShutdown, Drained, Relay!Pairs, RP!Pairs
  <2>3. UNCHANGED <<verdict, sent, failed, limited, events>>
    <3>1. RP!Quiet \/ \E p \in RP!Pairs : RP!Counts(p)
      BY <2>1, RP!ReturnsAreCounted, RelayAssumption
    <3>2. RP!Quiet
      BY <2>2, <3>1 DEF RP!Counts
    <3>3. QED
      BY <3>2 DEF RP!Quiet, RP!counters
  <2>4. UNCHANGED attempts
    <3>1. \A p \in RP!Pairs : attempts'[p] = attempts[p]
      BY <2>1, <2>2, RP!OnlyDoAttempts, RelayAssumption
    <3>2. /\ attempts  \in [RP!Pairs -> 0 .. MaxRetries]
          /\ attempts' \in [RP!Pairs -> 0 .. MaxRetries]
      BY <2>1, RP!TypedStep, RelayAssumption DEF RP!Typed, RP!TypeOK
    <3>3. QED
      BY <3>1, <3>2
  <2>5. QED
    BY <2>3, <2>4
<1>2. QED
  BY <1>1, ServerAlways, RelayAlways, NoCallsLeft, PTL
     DEF Spec, ShutdownIsFinal

\* A bundle counts as broadcast, and its worker moves on, only when the bundle
\* has a verdict at every relay.
THEOREM EveryRelayServed == Spec => []ServedAtEveryRelay
<1>1. RP!CallsFit /\ RP!CountersFit /\ Linked => ServedAtEveryRelay
  <2> SUFFICES ASSUME RP!CallsFit, RP!CountersFit, Linked, NEW b \in Bundles,
                      fate[b] \in {"broadcast", "interrupted"}, NEW r \in Relays
               PROVE  verdict[<<b, r>>] # "none"
    BY DEF ServedAtEveryRelay
  <2>1. <<b, r>> \in RP!Pairs /\ <<b, r>>[1] = b
    BY DEF RP!Pairs
  <2>2. cast[b] = "done"
    BY DEF Linked
  <2>3. call[<<b, r>>] = "done"
    BY <2>1, <2>2 DEF RP!CallsFit
  <2>4. QED
    BY <2>1, <2>3 DEF RP!CountersFit, RP!VerdictAtEnd
<1>2. QED
  BY <1>1, RelayAlways, LinkedAlways, PTL

-----------------------------------------------------------------------------
(* The metrics *)

\* The parts count the elements of a set as Broadcaster does.
LEMMA SameCounting ==
  ASSUME NEW S
  PROVE  /\ SP!IsFiniteSet(S) <=> IsFiniteSet(S)
         /\ RP!IsFiniteSet(S) <=> IsFiniteSet(S)
         /\ SP!Cardinality(S) = Cardinality(S)
         /\ RP!Cardinality(S) = Cardinality(S)
<1>1. SP!IsFiniteSet(S) <=> IsFiniteSet(S)
  BY DEF SP!IsFiniteSet, IsFiniteSet
<1>2. RP!IsFiniteSet(S) <=> IsFiniteSet(S)
  BY DEF RP!IsFiniteSet, IsFiniteSet
<1>3. SP!Cardinality(S) = Cardinality(S)
  BY DEF SP!Cardinality, Cardinality
<1>4. RP!Cardinality(S) = Cardinality(S)
  BY DEF RP!Cardinality, Cardinality
<1>5. QED
  BY <1>1, <1>2, <1>3, <1>4

\* What the two parts count: the server its backlog and outcomes, a relay the
\* calls that have returned.
LEMMA PartsCount ==
  /\ SP!Accounted =>
       /\ IsFiniteSet(SP!Holding) /\ IsFiniteSet(SP!AtWork)
       /\ IsFiniteSet(SP!Settled)
       /\ received = Len(queue) + Cardinality(SP!Holding)
                       + Cardinality(SP!AtWork) + Cardinality(SP!Settled)
  /\ RP!CountersFit =>
       \A r \in Relays : /\ IsFiniteSet(RP!DoneAt(r))
                         /\ Cardinality(RP!DoneAt(r)) = Returned(r)
<1>1. /\ \A S : SP!IsFiniteSet(S) <=> IsFiniteSet(S)
      /\ \A S : RP!IsFiniteSet(S) <=> IsFiniteSet(S)
      /\ \A S : SP!Cardinality(S) = Cardinality(S)
      /\ \A S : RP!Cardinality(S) = Cardinality(S)
  BY SameCounting
<1>2. QED
  BY <1>1 DEF SP!Accounted, RP!CountersFit, RP!Tally, Returned

\* A set is as large as the set that a function maps it to one to one.
LEMMA AsManyValues ==
  ASSUME NEW f, NEW S, NEW T, IsFiniteSet(S), f \in [S -> T],
         \A x, y \in S : f[x] = f[y] => x = y,
         \A t \in T : \E x \in S : f[x] = t
  PROVE  IsFiniteSet(T) /\ Cardinality(T) = Cardinality(S)
<1>1. f \in Bijection(S, T)
  BY DEF Bijection, Injection, Surjection, IsInjective
<1>2. QED
  BY <1>1, FS_Bijection DEF ExistsBijection

\* Two disjoint sets together have as many elements as the two by themselves.
LEMMA DisjointUnion ==
  ASSUME NEW S, NEW T, IsFiniteSet(S), IsFiniteSet(T), S \intersect T = {}
  PROVE  /\ IsFiniteSet(S \union T)
         /\ Cardinality(S \union T) = Cardinality(S) + Cardinality(T)
<1>1. Cardinality(S) \in Nat /\ Cardinality(T) \in Nat
  BY FS_CardinalityType
<1>2. /\ IsFiniteSet(S \union T)
      /\ Cardinality(S \union T)
           = Cardinality(S) + Cardinality(T) - Cardinality(S \intersect T)
  BY FS_Union
<1>3. QED
  BY <1>1, <1>2, FS_EmptySet

\* The sets of bundles the metrics count: on a worker, served, and turned away.
OnWorkers  == {b \in Bundles : Server!OnJob(b)}
Served     == {b \in Bundles : fate[b] \in {"broadcast", "interrupted"}}
TurnedAway == {b \in Bundles : fate[b] \in {"refused", "overflowed", "panicked"}}

\* There are as many bundles on workers as there are workers with a bundle.
LEMMA OneEach ==
  ASSUME Server!TypeOK, Server!InOnePlace, IsFiniteSet(SP!AtWork)
  PROVE  /\ IsFiniteSet(OnWorkers)
         /\ Cardinality(OnWorkers) = Cardinality(SP!AtWork)
<1> DEFINE f == [w \in SP!AtWork |-> job[w]]
<1>1. f \in [SP!AtWork -> OnWorkers]
  BY DEF Server!TypeOK, SP!AtWork, OnWorkers, Server!OnJob
<1>2. \A v, w \in SP!AtWork : f[v] = f[w] => v = w
  BY DEF SP!AtWork, Server!InOnePlace, Server!NoTwoPlaces
<1>3. \A b \in OnWorkers : \E w \in SP!AtWork : f[w] = b
  BY ServerAssumption DEF SP!AtWork, OnWorkers, Server!OnJob
<1> HIDE DEF f
<1>4. QED
  BY <1>1, <1>2, <1>3, AsManyValues

\* For each relay, the calls counted as sent, failed or limited and the calls
\* under way are the bundles received, less those that no worker has taken
\* yet and those turned away.
THEOREM MetricsAgree == Spec => []MetricsReconcile
<1>1. Server!TypeOK /\ Server!InOnePlace /\ SP!Accounted /\ Relay!TypeOK
        /\ RP!CallsFit /\ RP!CountersFit /\ Linked
        => MetricsReconcile
  <2> SUFFICES ASSUME Server!TypeOK, Server!InOnePlace, SP!Accounted,
                      Relay!TypeOK, RP!CallsFit, RP!CountersFit, Linked,
                      NEW r \in Relays
               PROVE  Returned(r)
                        + Cardinality({b \in Bundles :
                                         call[<<b, r>>] \notin {"off", "done"}})
                        = received - Len(queue)
                            - Cardinality({c \in Conns : held[c] # None})
                            - Cardinality(TurnedAway)
    BY DEF MetricsReconcile, TurnedAway
  <2> DEFINE done     == RP!DoneAt(r)
             underway == {b \in Bundles : call[<<b, r>>] \notin {"off", "done"}}
  <2>1. IsFiniteSet(done) /\ Cardinality(done) = Returned(r)
    BY PartsCount
  <2>2. \A b \in Bundles : /\ <<b, r>> \in RP!Pairs /\ <<b, r>>[1] = b
                           /\ cast[b] \in {"off", "running", "done"}
                           /\ fate[b] \in Server!Fates
    BY DEF RP!Pairs, Relay!TypeOK, Server!TypeOK
  <2>3. done \union underway = Served \union OnWorkers
    <3>1. \A b \in Bundles : call[<<b, r>>] # "off" <=> cast[b] # "off"
      BY <2>2 DEF RP!CallsFit
    <3>2. \A b \in Bundles : cast[b] # "off" <=> b \in Served \union OnWorkers
      BY <2>2 DEF Linked, Served, OnWorkers
    <3>3. done \union underway = {b \in Bundles : call[<<b, r>>] # "off"}
      BY DEF RP!DoneAt
    <3>4. QED
      BY <3>1, <3>2, <3>3 DEF Served, OnWorkers
  <2>4. done \intersect underway = {}
    BY DEF RP!DoneAt
  <2>5. Served \intersect OnWorkers = {}
    BY <2>2 DEF Linked, Served, OnWorkers
  <2>6. /\ SP!Settled = Served \union TurnedAway
        /\ Served \intersect TurnedAway = {}
    BY <2>2 DEF SP!Settled, Served, TurnedAway, Server!Fates
  <2>7. IsFiniteSet(Served) /\ IsFiniteSet(TurnedAway)
    BY <2>6, FS_Subset, PartsCount
  <2>8. /\ IsFiniteSet(OnWorkers)
        /\ Cardinality(OnWorkers) = Cardinality(SP!AtWork)
    BY OneEach, PartsCount
  <2>9. /\ IsFiniteSet(done \union underway)
        /\ Cardinality(done \union underway)
             = Cardinality(Served) + Cardinality(OnWorkers)
    BY <2>3, <2>5, <2>7, <2>8, DisjointUnion
  <2>10. IsFiniteSet(underway)
    BY <2>9, FS_Subset
  <2>11. Cardinality(done \union underway)
           = Cardinality(done) + Cardinality(underway)
    BY <2>1, <2>4, <2>10, DisjointUnion
  <2>12. Cardinality(SP!Settled) = Cardinality(Served) + Cardinality(TurnedAway)
    BY <2>6, <2>7, DisjointUnion
  <2>13. SP!Holding = {c \in Conns : held[c] # None}
    BY DEF SP!Holding
  <2>14. received = Len(queue) + Cardinality(SP!Holding)
                      + Cardinality(SP!AtWork) + Cardinality(SP!Settled)
    BY PartsCount
  <2>15. /\ Cardinality(SP!Holding) \in Nat /\ Cardinality(SP!AtWork) \in Nat
         /\ Cardinality(Served) \in Nat /\ Cardinality(TurnedAway) \in Nat
         /\ Len(queue) \in Nat
    BY <2>7, FS_CardinalityType, PartsCount DEF Server!TypeOK
  <2>16. Returned(r) + Cardinality(underway)
           = Cardinality(Served) + Cardinality(SP!AtWork)
    BY <2>1, <2>8, <2>9, <2>11
  <2>17. QED
    BY <2>12, <2>13, <2>14, <2>15, <2>16
<1>2. QED
  BY <1>1, ServerAlways, RelayAlways, LinkedAlways, PTL
=============================================================================
