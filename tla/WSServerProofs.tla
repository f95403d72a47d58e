--------------------------- MODULE WSServerProofs ---------------------------
(***************************************************************************)
(* Proofs about WSServer, for any number of connections, workers and       *)
(* bundles and any queue capacity.                                         *)
(***************************************************************************)
EXTENDS WSServer, ChannelProofs, FiniteSetTheorems, TLAPS

\* Every variable of WSServer always has its type, a handler holds a bundle
\* exactly between the read and the end of the select, a worker exactly
\* while it broadcasts, and the queue keeps within its capacity.
THEOREM TypeCorrect == Spec => []TypeOK
<1>1. Init => TypeOK
  <2> SUFFICES ASSUME Init PROVE TypeOK
    OBVIOUS
  <2> USE DEF Init
  <2>1. queue \in Seq(Bundles) /\ Len(queue) <= QueueCapacity
    BY QueueCapacityAssumption
  <2>2. /\ held \in [Conns -> Bundles \union {None}]
        /\ job \in [Workers -> Bundles \union {None}]
    OBVIOUS
  <2>3. /\ handler \in [Conns -> {"off", "reading", "received", "admitted"}]
        /\ worker \in [Workers -> {"select", "broadcast", "done"}]
        /\ fate \in [Bundles -> Fates]
    BY DEF Fates
  <2>4. QED
    BY <2>1, <2>2, <2>3 DEF TypeOK, MainPlaces
<1>2. TypeOK /\ [Next]_vars => TypeOK'
  <2> SUFFICES ASSUME TypeOK, [Next]_vars PROVE TypeOK'
    OBVIOUS
  <2> USE DEF TypeOK
  <2>1. CASE Listen
    BY <2>1 DEF Listen, handlers, workers, history
  <2>2. CASE ListenFails
    BY <2>2 DEF ListenFails, MainPlaces, handlers, workers, history
  <2>3. CASE Quit
    BY <2>3 DEF Quit, MainStep, MainPlaces, handlers, workers, history
  <2>4. CASE Expire
    BY <2>4 DEF Expire, handlers, workers, history
  <2>5. CASE Main
    BY <2>5 DEF Main, StoreClosed, Cancel, CloseQueue, ShutdownReturns,
         HttpShutdown, StopTracker, Exit, MainStep, MainPlaces, handlers,
         workers, history
  <2>6. CASE Ended
    BY <2>6 DEF Ended, vars, lifecycle, handlers, workers, history
  <2>7. ASSUME NEW c \in Conns, Connect(c) PROVE TypeOK'
    BY <2>7 DEF Connect, lifecycle, workers, history
  <2>8. ASSUME NEW c \in Conns, Disconnect(c) PROVE TypeOK'
    BY <2>8 DEF Disconnect, lifecycle, workers, history
  <2>9. ASSUME NEW c \in Conns, NEW b \in Bundles, Receive(c, b)
        PROVE TypeOK'
    BY <2>9, NoneAssumption DEF Receive, CountReceived, Fates, lifecycle,
         workers
  <2>10. ASSUME NEW c \in Conns, Admit(c) PROVE TypeOK'
    BY <2>10 DEF Admit, lifecycle, workers, history
  <2>11. ASSUME NEW c \in Conns, RefuseClosed(c) PROVE TypeOK'
    BY <2>11 DEF RefuseClosed, LetGo, Fates, lifecycle, workers
  <2>12. ASSUME NEW c \in Conns, Enqueue(c) PROVE TypeOK'
    <3>1. held[c] \in Bundles
      BY <2>12 DEF Enqueue
    <3>2. queue' \in Seq(Bundles) /\ Len(queue') <= QueueCapacity
      BY <2>12, <3>1, QueueCapacityAssumption DEF Enqueue, HasRoom
    <3>3. QED
      BY <2>12, <3>1, <3>2 DEF Enqueue, LetGo, Fates, lifecycle, workers
  <2>13. ASSUME NEW c \in Conns, DropFull(c) PROVE TypeOK'
    BY <2>13 DEF DropFull, LetGo, Fates, lifecycle, workers
  <2>14. ASSUME NEW c \in Conns, PanicOnSend(c) PROVE TypeOK'
    BY <2>14 DEF PanicOnSend, LetGo, Fates, lifecycle, workers
  <2>15. ASSUME NEW w \in Workers, Take(w) PROVE TypeOK'
    <3>1. Head(queue) \in Bundles
      BY <2>15 DEF Take
    <3>2. queue' \in Seq(Bundles) /\ Len(queue') <= QueueCapacity
      BY <2>15, QueueCapacityAssumption DEF Take, TakeHead
    <3>3. QED
      BY <2>15, <3>1, <3>2, NoneAssumption DEF Take, lifecycle, handlers,
           history
  <2>16. ASSUME NEW w \in Workers, FinishBroadcast(w) PROVE TypeOK'
    BY <2>16 DEF FinishBroadcast, Fates, lifecycle, handlers
  <2>17. ASSUME NEW w \in Workers, Leave(w) PROVE TypeOK'
    BY <2>17 DEF Leave, lifecycle, handlers, history
  <2>18. CASE UNCHANGED vars
    BY <2>18 DEF vars, lifecycle, handlers, workers, history
  <2>19. QED
    BY <2>1, <2>2, <2>3, <2>4, <2>5, <2>6, <2>7, <2>8, <2>9, <2>10, <2>11,
       <2>12, <2>13, <2>14, <2>15, <2>16, <2>17, <2>18 DEF Next
<1>3. QED
  BY <1>1, <1>2, PTL DEF Spec

-----------------------------------------------------------------------------
(* No bundle is lost, none is at two places *)

\* A handler lets go of its bundle, with an outcome.
LEMMA LetGoKeepsPlaces ==
  ASSUME TypeOK, InOnePlace, NEW c \in Conns, NEW next,
         NEW f \in Fates \ {"inflight"},
         held[c] # None, LetGo(c, next, f), UNCHANGED queue
  PROVE  InOnePlace'
<1> USE DEF TypeOK
<1>1. /\ held[c] \in Bundles /\ Held(held[c]) /\ UNCHANGED <<job, queue>>
      /\ held' = [held EXCEPT ![c] = None]
      /\ fate' = [fate EXCEPT ![held[c]] = f]
  BY DEF LetGo, Held, workers
<1>2. \A b \in Bundles : Held(b)' <=> Held(b) /\ b # held[c]
  BY <1>1, NoneAssumption DEF Held, InOnePlace, NoTwoPlaces
<1>3. \A b \in Bundles : (Queued(b)' <=> Queued(b)) /\ (OnJob(b)' <=> OnJob(b))
  BY <1>1 DEF Queued, OnJob
<1>4. NoneLost'
  BY <1>1, <1>2, <1>3 DEF InOnePlace, NoneLost, NoTwoPlaces
<1>5. NoTwoPlaces'
  BY <1>1, <1>2, <1>3 DEF InOnePlace, NoTwoPlaces
<1>6. QED
  BY <1>4, <1>5 DEF InOnePlace

\* Every step keeps the bundles in flight at one place each.
LEMMA PlacesInductive == TypeOK /\ InOnePlace /\ [Next]_vars => InOnePlace'
<1> SUFFICES ASSUME TypeOK, InOnePlace, [Next]_vars PROVE InOnePlace'
  OBVIOUS
<1> USE DEF TypeOK
<1>a. \A b : Queued(b) <=> Occurs(b, queue)
  BY DEF Queued, Occurs
<1>b. Distinct(queue)
  BY DEF Distinct, InOnePlace, NoTwoPlaces
<1>1. ASSUME UNCHANGED <<queue, held, job, fate>> PROVE InOnePlace'
  BY <1>1 DEF InOnePlace, NoneLost, NoTwoPlaces, Queued, Held, OnJob
<1>2. ASSUME NEW c \in Conns, NEW b \in Bundles, Receive(c, b)
      PROVE InOnePlace'
  <2>1. /\ held[c] = None /\ fate[b] = "unsent" /\ UNCHANGED <<queue, job>>
        /\ held' = [held EXCEPT ![c] = b]
        /\ fate' = [fate EXCEPT ![b] = "inflight"]
    BY <1>2 DEF Receive, workers
  <2>2. ~Queued(b) /\ ~Held(b) /\ ~OnJob(b)
    BY <2>1 DEF InOnePlace, NoneLost
  <2>3. \A d \in Bundles : /\ Held(d)' <=> Held(d) \/ d = b
                           /\ Queued(d)' <=> Queued(d)
                           /\ OnJob(d)' <=> OnJob(d)
    BY <2>1, NoneAssumption DEF Held, Queued, OnJob
  <2>4. NoneLost'
    BY <2>1, <2>3 DEF InOnePlace, NoneLost
  <2>5. NoTwoPlaces'
    BY <2>1, <2>2, <2>3 DEF InOnePlace, NoTwoPlaces, Held
  <2>6. QED
    BY <2>4, <2>5 DEF InOnePlace
<1>3. ASSUME NEW c \in Conns, RefuseClosed(c) PROVE InOnePlace'
  BY <1>3, LetGoKeepsPlaces DEF RefuseClosed, Fates
<1>4. ASSUME NEW c \in Conns, DropFull(c) PROVE InOnePlace'
  BY <1>4, LetGoKeepsPlaces DEF DropFull, Fates
<1>5. ASSUME NEW c \in Conns, PanicOnSend(c) PROVE InOnePlace'
  BY <1>5, LetGoKeepsPlaces DEF PanicOnSend, Fates
<1>6. ASSUME NEW c \in Conns, Enqueue(c) PROVE InOnePlace'
  <2> DEFINE b == held[c]
  <2>1. /\ b \in Bundles /\ Held(b) /\ UNCHANGED job
        /\ held' = [held EXCEPT ![c] = None]
        /\ fate' = [fate EXCEPT ![b] = "inflight"]
        /\ queue' = Append(queue, b)
    BY <1>6 DEF Enqueue, LetGo, workers, Held
  <2>2. fate[b] = "inflight" /\ ~Queued(b) /\ ~OnJob(b)
    BY <2>1 DEF InOnePlace, NoneLost, NoTwoPlaces
  <2>3. \A d \in Bundles : Held(d)' <=> Held(d) /\ d # b
    BY <2>1, NoneAssumption DEF Held, InOnePlace, NoTwoPlaces
  <2>4. \A d \in Bundles : Queued(d)' <=> Queued(d) \/ d = b
    BY <2>1, <1>a, SendAdds DEF Queued, Occurs
  <2>5. \A d \in Bundles : OnJob(d)' <=> OnJob(d)
    BY <2>1 DEF OnJob
  <2>6. NoneLost'
    BY <2>1, <2>2, <2>3, <2>4, <2>5 DEF InOnePlace, NoneLost
  <2>7. Distinct(queue')
    BY <2>1, <2>2, <1>a, <1>b, SendKeepsDistinct
  <2>8. NoTwoPlaces'
    BY <2>1, <2>2, <2>3, <2>4, <2>5, <2>7
       DEF InOnePlace, NoTwoPlaces, Distinct
  <2>9. QED
    BY <2>6, <2>8 DEF InOnePlace
<1>7. ASSUME NEW w \in Workers, Take(w) PROVE InOnePlace'
  <2> DEFINE b == Head(queue)
  <2>1. /\ queue # <<>> /\ b \in Bundles /\ job[w] = None
        /\ job' = [job EXCEPT ![w] = b]
        /\ queue' = Tail(queue)
        /\ UNCHANGED <<held, fate>>
    BY <1>7 DEF Take, TakeHead, handlers, history
  <2>2. /\ Distinct(queue')
        /\ Queued(b)
        /\ \A d \in Bundles : Queued(d)' <=> Queued(d) /\ d # b
    <3>1. /\ Distinct(Tail(queue))
          /\ Occurs(b, queue)
          /\ \A d : Occurs(d, Tail(queue)) <=> Occurs(d, queue) /\ d # b
      BY <2>1, <1>b, ReceiveRemovesHead
    <3>2. \A d : Queued(d)' <=> Occurs(d, queue')
      BY DEF Queued, Occurs
    <3>3. QED
      BY <2>1, <3>1, <3>2, <1>a
  <2>3. ~Held(b) /\ ~OnJob(b)
    BY <2>1, <2>2 DEF InOnePlace, NoTwoPlaces
  <2>4. \A d \in Bundles : /\ Held(d)' <=> Held(d)
                           /\ OnJob(d)' <=> OnJob(d) \/ d = b
    BY <2>1, NoneAssumption DEF Held, OnJob
  <2>5. NoneLost'
    BY <2>1, <2>2, <2>4 DEF InOnePlace, NoneLost
  <2>6. NoTwoPlaces'
    BY <2>1, <2>2, <2>3, <2>4 DEF InOnePlace, NoTwoPlaces, Distinct, OnJob
  <2>7. QED
    BY <2>5, <2>6 DEF InOnePlace
<1>8. ASSUME NEW w \in Workers, FinishBroadcast(w) PROVE InOnePlace'
  <2> DEFINE b == job[w]
  <2>1. /\ b \in Bundles /\ OnJob(b) /\ UNCHANGED <<queue, held>>
        /\ job' = [job EXCEPT ![w] = None]
        /\ fate'[b] # "inflight"
        /\ \A d \in Bundles \ {b} : fate'[d] = fate[d]
    BY <1>8 DEF FinishBroadcast, handlers, OnJob
  <2>2. ~Queued(b) /\ ~Held(b)
    BY <2>1 DEF InOnePlace, NoTwoPlaces
  <2>3. \A d \in Bundles : /\ Queued(d)' <=> Queued(d)
                           /\ Held(d)' <=> Held(d)
                           /\ OnJob(d)' <=> OnJob(d) /\ d # b
    BY <2>1, NoneAssumption DEF Queued, Held, OnJob, InOnePlace, NoTwoPlaces
  <2>4. NoneLost'
    BY <2>1, <2>2, <2>3 DEF InOnePlace, NoneLost
  <2>5. NoTwoPlaces'
    BY <2>1, <2>3 DEF InOnePlace, NoTwoPlaces
  <2>6. QED
    BY <2>4, <2>5 DEF InOnePlace
<1>9. CASE Listen \/ ListenFails \/ Quit \/ Expire \/ Main
  BY <1>1, <1>9 DEF Listen, ListenFails, Quit, Expire, Main, StoreClosed,
       Cancel, CloseQueue, ShutdownReturns, HttpShutdown, StopTracker, Exit,
       MainStep, handlers, workers, history
<1>10. CASE Ended \/ UNCHANGED vars
  BY <1>1, <1>10 DEF Ended, vars, handlers, workers, history
<1>11. ASSUME NEW c \in Conns, Connect(c) \/ Disconnect(c) \/ Admit(c)
       PROVE  InOnePlace'
  BY <1>1, <1>11 DEF Connect, Disconnect, Admit, workers, history
<1>12. ASSUME NEW w \in Workers, Leave(w) PROVE InOnePlace'
  BY <1>1, <1>12 DEF Leave, handlers, history
<1>13. QED
  BY <1>2, <1>3, <1>4, <1>5, <1>6, <1>7, <1>8, <1>9, <1>10, <1>11, <1>12
     DEF Next

\* Each bundle that was read and has no outcome is at exactly one place: the
\* handoffs between HandleWS, the queue and the workers neither lose nor
\* duplicate a bundle, in any interleaving with the shutdown.
THEOREM PlacesCorrect == Spec => []InOnePlace
<1>1. Init => InOnePlace
  BY NoneAssumption DEF Init, InOnePlace, NoneLost, NoTwoPlaces, Queued, Held,
       OnJob
<1>2. QED
  BY <1>1, TypeCorrect, PlacesInductive, PTL DEF Spec

-----------------------------------------------------------------------------
(* Shutdown *)

\* Bundles are late only once s.closed is set, and it stays set.
LateAfterClosed == late # {} => closed

\* No step takes a late bundle past the check of s.closed.
LEMMA LateInductive ==
  TypeOK /\ InOnePlace /\ LateAfterClosed /\ LateIsRefused /\ [Next]_vars
    => LateAfterClosed' /\ LateIsRefused'
<1> SUFFICES ASSUME TypeOK, InOnePlace, LateAfterClosed, LateIsRefused,
                    [Next]_vars
             PROVE  LateAfterClosed' /\ LateIsRefused'
  OBVIOUS
<1> USE DEF TypeOK, LateAfterClosed
<1>1. ASSUME UNCHANGED <<handler, held, fate, late>>, closed => closed'
      PROVE  LateAfterClosed' /\ LateIsRefused'
  BY <1>1 DEF LateIsRefused
<1>2. ASSUME NEW c \in Conns, NEW b \in Bundles, Receive(c, b)
      PROVE  LateAfterClosed' /\ LateIsRefused'
  <2>1. /\ handler[c] = "reading" /\ fate[b] = "unsent"
        /\ handler' = [handler EXCEPT ![c] = "received"]
        /\ held' = [held EXCEPT ![c] = b]
        /\ fate' = [fate EXCEPT ![b] = "inflight"]
        /\ late' = IF closed THEN late \union {b} ELSE late
        /\ UNCHANGED closed
    BY <1>2 DEF Receive, lifecycle
  <2>2. LateAfterClosed'
    BY <2>1
  <2>3. ASSUME NEW d \in late, d # b
        PROVE  \/ fate'[d] = "refused"
               \/ /\ fate'[d] = "inflight"
                  /\ \E e \in Conns : held'[e] = d /\ handler'[e] = "received"
    BY <2>1, <2>3 DEF LateIsRefused
  <2>4. /\ fate'[b] = "inflight"
        /\ held'[c] = b /\ handler'[c] = "received"
    BY <2>1
  <2>5. QED
    BY <2>1, <2>2, <2>3, <2>4 DEF LateIsRefused
<1>3. ASSUME NEW c \in Conns, Connect(c) \/ Disconnect(c)
      PROVE  LateAfterClosed' /\ LateIsRefused'
  BY <1>3 DEF Connect, Disconnect, LateIsRefused, lifecycle, history
<1>4. ASSUME NEW c \in Conns, Admit(c)
      PROVE  LateAfterClosed' /\ LateIsRefused'
  BY <1>4 DEF Admit, MayAdmit, LateIsRefused, lifecycle, history
<1>5. ASSUME NEW c \in Conns, RefuseClosed(c)
      PROVE  LateAfterClosed' /\ LateIsRefused'
  BY <1>5 DEF RefuseClosed, LetGo, LateIsRefused, lifecycle
<1>6. ASSUME NEW c \in Conns, handler[c] = "admitted", NEW next, NEW f,
             LetGo(c, next, f)
      PROVE  LateAfterClosed' /\ LateIsRefused'
  <2>1. held[c] \in Bundles /\ held[c] \notin late
    <3>1. held[c] \in Bundles /\ Held(held[c])
      BY <1>6 DEF Held
    <3>2. fate[held[c]] = "inflight"
      BY <3>1 DEF InOnePlace, NoneLost
    <3>3. \A d \in Conns : held[d] = held[c] => handler[d] = "admitted"
      BY <1>6, <3>1, NoneAssumption DEF InOnePlace, NoTwoPlaces
    <3>4. QED
      BY <3>1, <3>2, <3>3 DEF LateIsRefused
  <2>2. QED
    BY <1>6, <2>1 DEF LetGo, LateIsRefused, lifecycle
<1>7. ASSUME NEW c \in Conns, Enqueue(c) \/ DropFull(c) \/ PanicOnSend(c)
      PROVE  LateAfterClosed' /\ LateIsRefused'
  BY <1>6, <1>7 DEF Enqueue, DropFull, PanicOnSend
<1>8. ASSUME NEW w \in Workers, FinishBroadcast(w)
      PROVE  LateAfterClosed' /\ LateIsRefused'
  <2>1. job[w] \in Bundles /\ OnJob(job[w])
    BY <1>8 DEF FinishBroadcast, OnJob
  <2>2. fate[job[w]] = "inflight" /\ ~Held(job[w])
    BY <2>1 DEF InOnePlace, NoneLost, NoTwoPlaces
  <2>3. job[w] \notin late
    BY <2>1, <2>2 DEF LateIsRefused, Held
  <2>4. QED
    BY <1>8, <2>3 DEF FinishBroadcast, LateIsRefused, lifecycle, handlers
<1>9. ASSUME NEW w \in Workers, Take(w) \/ Leave(w)
      PROVE  LateAfterClosed' /\ LateIsRefused'
  BY <1>1, <1>9 DEF Take, Leave, lifecycle, handlers, history
<1>10. CASE Listen \/ ListenFails \/ Quit \/ Expire \/ Main
  BY <1>1, <1>10 DEF Listen, ListenFails, Quit, Expire, Main, StoreClosed,
       Cancel, CloseQueue, ShutdownReturns, HttpShutdown, StopTracker, Exit,
       MainStep, handlers, history
<1>11. CASE Ended \/ UNCHANGED vars
  BY <1>1, <1>11 DEF Ended, vars, lifecycle, handlers, history
<1>12. QED
  BY <1>2, <1>3, <1>4, <1>5, <1>7, <1>8, <1>9, <1>10, <1>11 DEF Next

\* A bundle read after s.closed was set is refused: it never gets past the
\* check, however the handler is interleaved with Shutdown.
THEOREM LateCorrect == Spec => []LateIsRefused
<1>1. Init => LateAfterClosed /\ LateIsRefused
  BY DEF Init, LateAfterClosed, LateIsRefused
<1>2. QED
  BY <1>1, TypeCorrect, PlacesCorrect, LateInductive, PTL DEF Spec

\* Once WSServer.Shutdown has returned before shutdownCtx expired, no worker
\* is at work.
WorkersGone ==
  main \in {"wsDown", "httpDown", "trackerStopped", "exited"} /\ ~expired
    => \A w \in Workers : worker[w] = "done"

\* Shutdown waits for all workers unless shutdownCtx expires, and none starts
\* again.  (That no call is under way then is shown in BroadcasterProofs; a
\* simulation, which no worker waits for, may be.)
LEMMA WorkersGoneAlways == Spec => []WorkersGone
<1>1. Init => WorkersGone
  BY DEF Init, WorkersGone
<1>2. TypeOK /\ WorkersGone /\ [Next]_vars => WorkersGone'
  <2> SUFFICES ASSUME TypeOK, WorkersGone, [Next]_vars
               PROVE  WorkersGone'
    OBVIOUS
  <2> USE DEF TypeOK, WorkersGone
  <2>1. ASSUME UNCHANGED <<main, expired>>,
               \A w \in Workers : worker[w] = "done" => worker'[w] = "done"
        PROVE  WorkersGone'
    BY <2>1
  <2>2. CASE Main
    BY <2>2 DEF Main, StoreClosed, Cancel, CloseQueue, ShutdownReturns,
         WorkersDone, HttpShutdown, StopTracker, Exit, MainStep, workers
  <2>3. CASE ListenFails \/ Quit
    BY <2>3 DEF ListenFails, Quit, MainStep
  <2>4. CASE Expire
    BY <2>4 DEF Expire
  <2>5. CASE Listen
    BY <2>1, <2>5 DEF Listen, workers
  <2>6. CASE Ended \/ UNCHANGED vars
    BY <2>1, <2>6 DEF Ended, vars, lifecycle, workers
  <2>7. ASSUME NEW c \in Conns, NEW b \in Bundles, Receive(c, b)
        PROVE  WorkersGone'
    BY <2>1, <2>7 DEF Receive, lifecycle, workers
  <2>8. ASSUME NEW c \in Conns,
               Connect(c) \/ Disconnect(c) \/ Admit(c) \/ RefuseClosed(c)
                 \/ Enqueue(c) \/ DropFull(c) \/ PanicOnSend(c)
        PROVE  WorkersGone'
    BY <2>1, <2>8 DEF Connect, Disconnect, Admit, RefuseClosed, Enqueue,
         DropFull, PanicOnSend, LetGo, lifecycle, workers
  <2>9. ASSUME NEW w \in Workers, Take(w) \/ FinishBroadcast(w) \/ Leave(w)
        PROVE  WorkersGone'
    BY <2>1, <2>9 DEF Take, FinishBroadcast, Leave, lifecycle
  <2>10. QED
    BY <2>2, <2>3, <2>4, <2>5, <2>6, <2>7, <2>8, <2>9 DEF Next
<1>3. QED
  BY <1>1, <1>2, TypeCorrect, PTL DEF Spec

-----------------------------------------------------------------------------
(* The received counter *)

Holding == {c \in Conns : held[c] # None}
AtWork  == {w \in Workers : job[w] # None}
Settled == {b \in Bundles : fate[b] \notin {"unsent", "inflight"}}

\* The inductive form of ReceivedIsAccounted: the sets it counts are finite
\* in every state, whether or not there are finitely many bundles.
Accounted ==
  /\ IsFiniteSet(Holding) /\ IsFiniteSet(AtWork) /\ IsFiniteSet(Settled)
  /\ received = Len(queue) + Cardinality(Holding) + Cardinality(AtWork)
                + Cardinality(Settled)

\* A handler that lets go of its bundle no longer counts; the bundle counts
\* as settled instead, unless it is still in flight.
LEMMA LetGoCounts ==
  ASSUME TypeOK, InOnePlace, Accounted, NEW c \in Conns, held[c] # None,
         NEW next, NEW f \in Fates \ {"unsent"}, LetGo(c, next, f)
  PROVE  /\ IsFiniteSet(Holding') /\ AtWork' = AtWork /\ IsFiniteSet(Settled')
         /\ Cardinality(Holding') = Cardinality(Holding) - 1
         /\ f = "inflight" => Settled' = Settled
         /\ f # "inflight" => Cardinality(Settled') = Cardinality(Settled) + 1
<1> DEFINE b == held[c]
<1>1. /\ b \in Bundles /\ UNCHANGED job
      /\ held' = [held EXCEPT ![c] = None]
      /\ fate' = [fate EXCEPT ![b] = f]
  BY DEF LetGo, workers, TypeOK
<1>2. fate[b] = "inflight"
  BY <1>1 DEF InOnePlace, NoneLost, Held
<1>3. c \in Holding /\ Holding' = Holding \ {c}
  BY <1>1 DEF Holding, TypeOK
<1>4. b \notin Settled
  BY <1>2 DEF Settled
<1>5. f = "inflight" => Settled' = Settled
  BY <1>1, <1>2 DEF Settled, TypeOK
<1>6. f # "inflight" => Settled' = Settled \union {b}
  BY <1>1, <1>2 DEF Settled, TypeOK
<1>7. AtWork' = AtWork
  BY <1>1 DEF AtWork
<1>8. IsFiniteSet(Holding') /\ Cardinality(Holding') = Cardinality(Holding) - 1
  BY <1>3, FS_RemoveElement DEF Accounted
<1>9. f # "inflight" => /\ IsFiniteSet(Settled')
                        /\ Cardinality(Settled') = Cardinality(Settled) + 1
  BY <1>4, <1>6, FS_AddElement DEF Accounted
<1>10. QED
  BY <1>5, <1>7, <1>8, <1>9 DEF Accounted

\* Every step moves a bundle between the parts of the sum, or adds one.
LEMMA AccountedInductive ==
  TypeOK /\ InOnePlace /\ Accounted /\ [Next]_vars => Accounted'
<1> SUFFICES ASSUME TypeOK, InOnePlace, Accounted, [Next]_vars
             PROVE  Accounted'
  OBVIOUS
<1>a. /\ Len(queue) \in Nat /\ Cardinality(Holding) \in Nat
      /\ Cardinality(AtWork) \in Nat /\ Cardinality(Settled) \in Nat
  BY FS_CardinalityType DEF Accounted, TypeOK
<1>1. ASSUME UNCHANGED <<received, held, job, fate>>, Len(queue') = Len(queue)
      PROVE  Accounted'
  BY <1>1 DEF Accounted, Holding, AtWork, Settled
<1>2. ASSUME NEW c \in Conns, NEW b \in Bundles, Receive(c, b)
      PROVE  Accounted'
  <2>1. /\ held[c] = None /\ fate[b] = "unsent" /\ UNCHANGED <<queue, job>>
        /\ held' = [held EXCEPT ![c] = b]
        /\ fate' = [fate EXCEPT ![b] = "inflight"]
        /\ received' = received + 1
    BY <1>2 DEF Receive, CountReceived, workers, TypeOK
  <2>2. c \notin Holding /\ Holding' = Holding \union {c}
    BY <2>1, NoneAssumption DEF Holding, TypeOK
  <2>3. AtWork' = AtWork /\ Settled' = Settled
    BY <2>1 DEF AtWork, Settled, TypeOK
  <2>4. /\ IsFiniteSet(Holding')
        /\ Cardinality(Holding') = Cardinality(Holding) + 1
    BY <2>2, FS_AddElement DEF Accounted
  <2>5. QED
    BY <1>a, <2>1, <2>3, <2>4 DEF Accounted
<1>3. ASSUME NEW c \in Conns, RefuseClosed(c) \/ DropFull(c) \/ PanicOnSend(c)
      PROVE  Accounted'
  <2>1. /\ held[c] # None
        /\ UNCHANGED <<queue, received>>
        /\ \E next, f \in {"reading", "off", "refused", "overflowed",
                           "panicked"} :
             f \in Fates \ {"unsent", "inflight"} /\ LetGo(c, next, f)
    BY <1>3 DEF RefuseClosed, DropFull, PanicOnSend, LetGo, Fates, TypeOK
  <2>2. /\ IsFiniteSet(Holding') /\ AtWork' = AtWork /\ IsFiniteSet(Settled')
        /\ Cardinality(Holding') = Cardinality(Holding) - 1
        /\ Cardinality(Settled') = Cardinality(Settled) + 1
    BY <2>1, LetGoCounts
  <2>3. QED
    BY <1>a, <2>1, <2>2 DEF Accounted
<1>4. ASSUME NEW c \in Conns, Enqueue(c) PROVE Accounted'
  <2>1. /\ held[c] # None /\ held[c] \in Bundles /\ UNCHANGED received
        /\ queue' = Append(queue, held[c])
        /\ LetGo(c, "reading", "inflight")
    BY <1>4 DEF Enqueue, LetGo, TypeOK
  <2>2. Len(queue') = Len(queue) + 1
    BY <2>1 DEF TypeOK
  <2>3. /\ IsFiniteSet(Holding') /\ AtWork' = AtWork /\ Settled' = Settled
        /\ Cardinality(Holding') = Cardinality(Holding) - 1
    BY <2>1, LetGoCounts DEF Fates
  <2>4. QED
    BY <1>a, <2>1, <2>2, <2>3 DEF Accounted
<1>5. ASSUME NEW w \in Workers, Take(w) PROVE Accounted'
  <2>1. /\ job[w] = None /\ queue # <<>> /\ Head(queue) \in Bundles
        /\ queue' = Tail(queue) /\ UNCHANGED <<received, held, fate>>
        /\ job' = [job EXCEPT ![w] = Head(queue)]
    BY <1>5 DEF Take, TakeHead, handlers, history, TypeOK
  <2>2. Len(queue') = Len(queue) - 1
    BY <2>1 DEF TypeOK
  <2>3. w \notin AtWork /\ AtWork' = AtWork \union {w}
    BY <2>1, NoneAssumption DEF AtWork, TypeOK
  <2>4. Holding' = Holding /\ Settled' = Settled
    BY <2>1 DEF Holding, Settled
  <2>5. IsFiniteSet(AtWork') /\ Cardinality(AtWork') = Cardinality(AtWork) + 1
    BY <2>3, FS_AddElement DEF Accounted
  <2>6. QED
    BY <1>a, <2>1, <2>2, <2>4, <2>5 DEF Accounted
<1>6. ASSUME NEW w \in Workers, FinishBroadcast(w) PROVE Accounted'
  <2> DEFINE b == job[w]
  <2>1. /\ b # None /\ b \in Bundles /\ UNCHANGED <<queue, received, held>>
        /\ job' = [job EXCEPT ![w] = None]
        /\ fate' = [fate EXCEPT ![b] =
                      IF cancelled THEN "interrupted" ELSE "broadcast"]
    BY <1>6 DEF FinishBroadcast, handlers, TypeOK
  <2>2. fate[b] = "inflight"
    BY <2>1 DEF InOnePlace, NoneLost, OnJob
  <2>3. w \in AtWork /\ AtWork' = AtWork \ {w}
    BY <2>1 DEF AtWork, TypeOK
  <2>4. b \notin Settled /\ Settled' = Settled \union {b}
    BY <2>1, <2>2 DEF Settled, TypeOK
  <2>5. Holding' = Holding
    BY <2>1 DEF Holding
  <2>6. /\ IsFiniteSet(AtWork')
        /\ Cardinality(AtWork') = Cardinality(AtWork) - 1
    BY <2>3, FS_RemoveElement DEF Accounted
  <2>7. /\ IsFiniteSet(Settled')
        /\ Cardinality(Settled') = Cardinality(Settled) + 1
    BY <2>4, FS_AddElement DEF Accounted
  <2>8. QED
    BY <1>a, <2>1, <2>5, <2>6, <2>7 DEF Accounted
<1>7. CASE Listen \/ ListenFails \/ Quit \/ Expire \/ Main
  BY <1>1, <1>7 DEF Listen, ListenFails, Quit, Expire, Main, StoreClosed,
       Cancel, CloseQueue, ShutdownReturns, HttpShutdown, StopTracker, Exit,
       MainStep, handlers, workers, history
<1>8. ASSUME NEW c \in Conns, Connect(c) \/ Disconnect(c) \/ Admit(c)
      PROVE  Accounted'
  BY <1>1, <1>8 DEF Connect, Disconnect, Admit, workers, history
<1>9. ASSUME NEW w \in Workers, Leave(w) PROVE Accounted'
  BY <1>1, <1>9 DEF Leave, handlers, history
<1>10. CASE Ended \/ UNCHANGED vars
  BY <1>1, <1>10 DEF Ended, vars, handlers, workers, history
<1>11. QED
  BY <1>2, <1>3, <1>4, <1>5, <1>6, <1>7, <1>8, <1>9, <1>10 DEF Next

\* The sum is right in every state.
LEMMA AccountedAlways == Spec => []Accounted
<1>1. Init => Accounted
  <2> SUFFICES ASSUME Init PROVE Accounted
    OBVIOUS
  <2>1. Holding = {} /\ AtWork = {} /\ Settled = {} /\ Len(queue) = 0
    BY DEF Init, Holding, AtWork, Settled
  <2>2. QED
    BY <2>1, FS_EmptySet DEF Init, Accounted
<1>2. QED
  BY <1>1, TypeCorrect, PlacesCorrect, AccountedInductive, PTL DEF Spec

\* The received counter equals the backlog plus the bundles with an outcome,
\* during the shutdown too.
THEOREM AccountedFor == Spec => []ReceivedIsAccounted
<1>1. Accounted => ReceivedIsAccounted
  BY DEF Accounted, ReceivedIsAccounted, Holding, AtWork, Settled
<1>2. QED
  BY <1>1, AccountedAlways, PTL

-----------------------------------------------------------------------------
(* Every step of the server is a step that BundleLife allows *)

\* close(s.queue) comes after s.cancel().
CancelledFirst ==
  /\ queueClosed => cancelled
  /\ main = "cancelling" => cancelled

\* Only main cancels and closes, in this order.
LEMMA CancelledFirstInductive == CancelledFirst /\ [Next]_vars => CancelledFirst'
<1> SUFFICES ASSUME CancelledFirst, [Next]_vars PROVE CancelledFirst'
  OBVIOUS
<1> USE DEF CancelledFirst, lifecycle
<1>1. CASE Main
  BY <1>1 DEF Main, StoreClosed, Cancel, CloseQueue, ShutdownReturns,
       HttpShutdown, StopTracker, Exit, MainStep
<1>2. CASE Listen \/ ListenFails \/ Quit \/ Expire
  BY <1>2 DEF Listen, ListenFails, Quit, Expire, MainStep
<1>3. ASSUME NEW c \in Conns, NEW b \in Bundles, Receive(c, b)
      PROVE  CancelledFirst'
  BY <1>3 DEF Receive
<1>4. ASSUME NEW c \in Conns,
             Connect(c) \/ Disconnect(c) \/ Admit(c) \/ RefuseClosed(c)
               \/ Enqueue(c) \/ DropFull(c) \/ PanicOnSend(c)
      PROVE  CancelledFirst'
  BY <1>4 DEF Connect, Disconnect, Admit, RefuseClosed, Enqueue, DropFull,
       PanicOnSend, LetGo
<1>5. ASSUME NEW w \in Workers, Take(w) \/ FinishBroadcast(w) \/ Leave(w)
      PROVE  CancelledFirst'
  BY <1>5 DEF Take, FinishBroadcast, Leave
<1>6. CASE Ended \/ UNCHANGED vars
  BY <1>6 DEF Ended, vars
<1>7. QED
  BY <1>1, <1>2, <1>3, <1>4, <1>5, <1>6 DEF Next

\* A step that takes one bundle to another stage, and leaves the others and
\* the phase, is a Move of BundleLife.
LEMMA OneMoves ==
  ASSUME NEW b \in Bundles, NEW to,
         \A d \in Bundles : StageOf(d)' = IF d = b THEN to ELSE StageOf(d),
         UNCHANGED <<queueClosed, cancelled>>
  PROVE  Life!Move(b, StageOf(b), to)
<1> DEFINE stage == [d \in Bundles |-> StageOf(d)]
<1>1. stage[b] = StageOf(b)
  OBVIOUS
<1>2. stage' = [stage EXCEPT ![b] = to]
  OBVIOUS
<1>3. QED
  BY <1>1, <1>2 DEF Life!Move

\* A step that changes no stage and no phase is a stutter of BundleLife.
LEMMA NoneMoves ==
  ASSUME \A d \in Bundles : StageOf(d)' = StageOf(d),
         UNCHANGED <<queueClosed, cancelled>>
  PROVE  UNCHANGED Life!vars
BY DEF Life!vars

\* Whatever leaves the bundles and the handlers alone moves no bundle.
LEMMA SameStages ==
  ASSUME UNCHANGED <<held, fate>>
  PROVE  \A d \in Bundles : StageOf(d)' = StageOf(d)
BY DEF StageOf, Held

\* A handler lets go of an offered bundle, which moves to another stage.
LEMMA LetGoMoves ==
  ASSUME TypeOK, InOnePlace, NEW c \in Conns, NEW b \in Bundles, held[c] = b,
         NEW next, NEW f \in Fates \ {"unsent"}, LetGo(c, next, f)
  PROVE  /\ StageOf(b) = "offered"
         /\ \A d \in Bundles \ {b} : StageOf(d)' = StageOf(d)
         /\ f = "inflight" => StageOf(b)' = "accepted"
         /\ f \in {"refused", "overflowed", "panicked"}
              => StageOf(b)' = "lost"
         /\ UNCHANGED <<queueClosed, cancelled>>
<1>1. /\ held' = [held EXCEPT ![c] = None]
      /\ fate' = [fate EXCEPT ![b] = f]
      /\ UNCHANGED <<queueClosed, cancelled>>
  BY DEF LetGo, lifecycle, TypeOK
<1>2. Held(b) /\ fate[b] = "inflight"
  BY <1>1 DEF InOnePlace, NoneLost, Held
<1>3. /\ ~Held(b)'
      /\ \A d \in Bundles \ {b} : Held(d)' <=> Held(d)
  <2>1. \A e \in Conns : e # c => held[e] # b
    BY NoneAssumption DEF InOnePlace, NoTwoPlaces
  <2>2. held'[c] = None /\ \A e \in Conns : e # c => held'[e] = held[e]
    BY <1>1 DEF TypeOK
  <2>3. QED
    BY <2>1, <2>2, NoneAssumption DEF Held
<1>4. fate'[b] = f /\ \A d \in Bundles \ {b} : fate'[d] = fate[d]
  BY <1>1 DEF TypeOK
<1>5. StageOf(b) = "offered"
  BY <1>2 DEF StageOf
<1>6. \A d \in Bundles \ {b} : StageOf(d)' = StageOf(d)
  BY <1>3, <1>4 DEF StageOf
<1>7. f = "inflight" => StageOf(b)' = "accepted"
  BY <1>3, <1>4 DEF StageOf
<1>8. f \in {"refused", "overflowed", "panicked"} => StageOf(b)' = "lost"
  BY <1>4 DEF StageOf
<1>9. QED
  BY <1>1, <1>5, <1>6, <1>7, <1>8

\* Every step of the server maps to a step of BundleLife or to a stutter.
LEMMA StepKeepsPromise ==
  TypeOK /\ InOnePlace /\ CancelledFirst /\ [Next]_vars
    => [Life!Next]_(Life!vars)
<1> SUFFICES ASSUME TypeOK, InOnePlace, CancelledFirst, [Next]_vars
             PROVE  Life!Next \/ UNCHANGED Life!vars
  OBVIOUS
<1>1. ASSUME UNCHANGED <<held, fate, queueClosed, cancelled>>
      PROVE  UNCHANGED Life!vars
  BY <1>1, SameStages, NoneMoves
<1>2. ASSUME NEW c \in Conns, NEW b \in Bundles, Receive(c, b)
      PROVE  Life!Offer(b)
  <2>1. /\ held[c] = None /\ fate[b] = "unsent"
        /\ held' = [held EXCEPT ![c] = b]
        /\ fate' = [fate EXCEPT ![b] = "inflight"]
        /\ UNCHANGED <<queueClosed, cancelled>>
    BY <1>2 DEF Receive, lifecycle, TypeOK
  <2>2. Held(b)' /\ \A d \in Bundles \ {b} : Held(d)' <=> Held(d)
    BY <2>1, NoneAssumption DEF Held, TypeOK
  <2>3. fate'[b] = "inflight" /\ \A d \in Bundles \ {b} : fate'[d] = fate[d]
    BY <2>1 DEF TypeOK
  <2>4. StageOf(b) = "unsent" /\ StageOf(b)' = "offered"
    BY <2>1, <2>2, <2>3 DEF StageOf
  <2>5. \A d \in Bundles \ {b} : StageOf(d)' = StageOf(d)
    BY <2>2, <2>3 DEF StageOf
  <2>6. Life!Move(b, StageOf(b), "offered")
    BY <2>1, <2>4, <2>5, OneMoves
  <2>7. QED
    BY <2>4, <2>6 DEF Life!Offer
<1>3. ASSUME NEW c \in Conns, RefuseClosed(c) \/ DropFull(c) \/ PanicOnSend(c)
      PROVE  \E b \in Bundles : Life!TurnAway(b)
  <2>b. PICK b \in Bundles : held[c] = b
    BY <1>3 DEF RefuseClosed, DropFull, PanicOnSend, TypeOK
  <2>1. PICK next \in {"reading", "off"},
             f \in {"refused", "overflowed", "panicked"} : LetGo(c, next, f)
    BY <1>3 DEF RefuseClosed, DropFull, PanicOnSend
  <2>2. f \in Fates \ {"unsent"}
    BY DEF Fates
  <2>3. /\ StageOf(b) = "offered" /\ StageOf(b)' = "lost"
        /\ \A d \in Bundles \ {b} : StageOf(d)' = StageOf(d)
        /\ UNCHANGED <<queueClosed, cancelled>>
    BY <2>b, <2>1, <2>2, LetGoMoves
  <2>4. Life!Move(b, StageOf(b), "lost")
    BY <2>3, OneMoves
  <2>5. QED
    BY <2>3, <2>4 DEF Life!TurnAway
<1>4. ASSUME NEW c \in Conns, Enqueue(c)
      PROVE  \E b \in Bundles : Life!Accept(b)
  <2>b. PICK b \in Bundles : held[c] = b
    BY <1>4 DEF Enqueue, TypeOK
  <2>1. ~queueClosed /\ LetGo(c, "reading", "inflight")
    BY <1>4 DEF Enqueue, QueueAccepts
  <2>2. /\ StageOf(b) = "offered"
        /\ StageOf(b)' = "accepted"
        /\ \A d \in Bundles \ {b} : StageOf(d)' = StageOf(d)
        /\ UNCHANGED <<queueClosed, cancelled>>
    BY <2>b, <2>1, LetGoMoves DEF Fates
  <2>3. Life!Move(b, StageOf(b), "accepted")
    BY <2>2, OneMoves
  <2>4. QED
    BY <2>1, <2>2, <2>3 DEF Life!Accept
<1>5. ASSUME NEW w \in Workers, FinishBroadcast(w)
      PROVE  \E b \in Bundles : Life!Serve(b) \/ Life!Cut(b)
  <2>b. PICK b \in Bundles : job[w] = b
    BY <1>5 DEF FinishBroadcast, TypeOK
  <2>t. PICK to \in {"cut", "served"} : to = IF cancelled THEN "cut" ELSE "served"
    OBVIOUS
  <2>1. /\ OnJob(b) /\ UNCHANGED held
        /\ fate' = [fate EXCEPT ![b] =
                      IF cancelled THEN "interrupted" ELSE "broadcast"]
        /\ UNCHANGED <<queueClosed, cancelled>>
    BY <1>5, <2>b DEF FinishBroadcast, handlers, lifecycle, OnJob
  <2>2. fate[b] = "inflight" /\ ~Held(b)
    BY <2>1 DEF InOnePlace, NoneLost, NoTwoPlaces
  <2>3. \A d \in Bundles : Held(d)' <=> Held(d)
    BY <2>1 DEF Held
  <2>4. StageOf(b) = "accepted"
    BY <2>2 DEF StageOf
  <2>5. StageOf(b)' = to
    BY <2>1, <2>t DEF StageOf, TypeOK
  <2>6. \A d \in Bundles \ {b} : StageOf(d)' = StageOf(d)
    BY <2>1, <2>3 DEF StageOf, TypeOK
  <2>7. Life!Move(b, StageOf(b), to)
    BY <2>1, <2>5, <2>6, OneMoves
  <2>8. QED
    BY <2>t, <2>4, <2>7 DEF Life!Serve, Life!Cut, CancelledFirst
<1>6. CASE Cancel
  <2>1. /\ UNCHANGED <<held, fate, queueClosed>> /\ cancelled' = TRUE
    BY <1>6 DEF Cancel, MainStep, handlers, history
  <2>2. CASE cancelled
    BY <1>1, <2>1, <2>2
  <2>3. CASE ~cancelled
    <3>1. UNCHANGED [d \in Bundles |-> StageOf(d)]
      BY <2>1, SameStages
    <3>2. Life!Stop
      BY <2>1, <2>3, <3>1 DEF Life!Stop, CancelledFirst
    <3>3. QED
      BY <3>2 DEF Life!Next
  <2>4. QED
    BY <2>2, <2>3
<1>7. CASE CloseQueue
  <2>1. /\ UNCHANGED <<held, fate, cancelled>> /\ queueClosed' = TRUE
        /\ cancelled
    BY <1>7 DEF CloseQueue, MainStep, handlers, history, CancelledFirst
  <2>2. CASE queueClosed
    BY <1>1, <2>1, <2>2
  <2>3. CASE ~queueClosed
    <3>1. UNCHANGED [d \in Bundles |-> StageOf(d)]
      BY <2>1, SameStages
    <3>2. Life!Close
      BY <2>1, <2>3, <3>1 DEF Life!Close
    <3>3. QED
      BY <3>2 DEF Life!Next
  <2>4. QED
    BY <2>2, <2>3
<1>8. CASE \/ StoreClosed \/ ShutdownReturns \/ HttpShutdown \/ StopTracker
           \/ Exit \/ Listen \/ ListenFails \/ Quit \/ Expire
  BY <1>1, <1>8 DEF StoreClosed, ShutdownReturns, HttpShutdown, StopTracker,
       Exit, MainStep, Listen, ListenFails, Quit, Expire, handlers, history
<1>9. ASSUME NEW c \in Conns, Connect(c) \/ Disconnect(c) \/ Admit(c)
      PROVE  UNCHANGED Life!vars
  BY <1>1, <1>9 DEF Connect, Disconnect, Admit, lifecycle, history
<1>10. ASSUME NEW w \in Workers, Take(w) \/ Leave(w)
       PROVE  UNCHANGED Life!vars
  BY <1>1, <1>10 DEF Take, Leave, lifecycle, handlers, history
<1>11. CASE Ended \/ UNCHANGED vars
  BY <1>1, <1>11 DEF Ended, vars, lifecycle, handlers, history
<1>12. QED
  BY <1>2, <1>3, <1>4, <1>5, <1>6, <1>7, <1>8, <1>9, <1>10, <1>11
     DEF Next, Main, Life!Next

\* The server implements BundleLife as far as safety goes: each bundle is
\* offered, then turned away or accepted, and an accepted one is served once
\* or cut short; nothing is accepted once the queue is closed.
THEOREM PromiseIsSafe == Spec => Life!SafeSpec
<1>1. Init => Life!Init /\ CancelledFirst
  <2> SUFFICES ASSUME Init PROVE Life!Init /\ CancelledFirst
    OBVIOUS
  <2>1. \A b \in Bundles : StageOf(b) = "unsent"
    BY DEF Init, StageOf
  <2>2. QED
    BY <2>1 DEF Init, Life!Init, CancelledFirst
<1>2. QED
  BY <1>1, TypeCorrect, PlacesCorrect, CancelledFirstInductive,
     StepKeepsPromise, PTL DEF Spec, Life!SafeSpec
=============================================================================
