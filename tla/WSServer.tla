------------------------------ MODULE WSServer ------------------------------
(***************************************************************************)
(* ws_server.go and the lifecycle in main.go: the goroutine that runs      *)
(* HandleWS for each WebSocket connection, the bounded channel s.queue,    *)
(* the pool of workers that drain it, and the main goroutine that, after   *)
(* SIGINT or SIGTERM, calls WSServer.Shutdown, http.Server.Shutdown and    *)
(* RelayManager.Shutdown in this order and returns.                        *)
(*                                                                         *)
(* RelayManager.Broadcast is one long step here: a worker is in place      *)
(* "broadcast" from the receive until Broadcast returns.                   *)
(***************************************************************************)
EXTENDS Naturals, Sequences, FiniteSets

CONSTANTS
  Conns,          \* connection slots, each served by one HandleWS goroutine
  Workers,        \* the workerCount worker goroutines
  Bundles,        \* the messages bots send; each element is sent once
  QueueCapacity,  \* queueCapacity
  None            \* no bundle

ASSUME QueueCapacityAssumption == QueueCapacity \in Nat \ {0}
ASSUME NoneAssumption == None \notin Bundles

VARIABLES
  main,         \* place of the main goroutine
  expired,      \* shutdownCtx has passed its 30 seconds
  listener,     \* the http.Server: "starting", "open" or "closed"
  closed,       \* s.closed
  cancelled,    \* s.ctx is done
  queue,        \* s.queue, its buffered bundles
  queueClosed,  \* close(s.queue) has run
  handler,      \* place of each HandleWS goroutine
  held,         \* HandleWS's local `bundle`
  worker,       \* place of each worker
  job,          \* the worker's local `bundle`
  received,     \* BundleReceivedTotal
  fate,         \* history: what became of each bundle
  late          \* history: the bundles read after s.closed was set

lifecycle == <<main, expired, listener, closed, cancelled, queueClosed>>
handlers  == <<handler, held>>
workers   == <<worker, job>>
history   == <<received, fate, late>>
vars      == <<lifecycle, queue, handlers, workers, history>>

MainPlaces == {"serving", "quit", "refusing", "cancelling", "waiting",
               "wsDown", "httpDown", "trackerStopped", "exited", "fatal"}
Fates      == {"unsent", "inflight", "refused", "overflowed", "panicked",
               "broadcast", "interrupted"}

\* The process runs until main returns or logger.Fatal exits.
Alive == main \notin {"exited", "fatal"}

\* NewWSServer and Start have run: nothing is connected before they return.
Init ==
  /\ main = "serving"
  /\ expired = FALSE
  /\ listener = "starting"
  /\ closed = FALSE
  /\ cancelled = FALSE
  /\ queue = <<>>
  /\ queueClosed = FALSE
  /\ handler = [c \in Conns |-> "off"]
  /\ held = [c \in Conns |-> None]
  /\ worker = [w \in Workers |-> "select"]
  /\ job = [w \in Workers |-> None]
  /\ received = 0
  /\ fate = [b \in Bundles |-> "unsent"]
  /\ late = {}

-----------------------------------------------------------------------------
(* HandleWS *)

Listen ==
  /\ Alive /\ listener = "starting"
  /\ listener' = "open"
  /\ UNCHANGED <<main, expired, closed, cancelled, queueClosed, queue,
                 handlers, workers, history>>

\* The address cannot be bound: logger.Fatal ends the process.
ListenFails ==
  /\ Alive /\ listener = "starting"
  /\ main' = "fatal"
  /\ UNCHANGED <<expired, listener, closed, cancelled, queueClosed, queue,
                 handlers, workers, history>>

Connect(c) ==
  /\ Alive /\ listener = "open" /\ handler[c] = "off"
  /\ handler' = [handler EXCEPT ![c] = "reading"]
  /\ UNCHANGED <<lifecycle, queue, held, workers, history>>

\* ReadMessage fails: the peer went away.  A handler that holds a bundle
\* notices only at its next read.
Disconnect(c) ==
  /\ Alive /\ handler[c] = "reading"
  /\ handler' = [handler EXCEPT ![c] = "off"]
  /\ UNCHANGED <<lifecycle, queue, held, workers, history>>

\* (mutant of CountReceived: the counter moved after the closed check)
CountUnlessClosed == received' = IF closed THEN received ELSE received + 1
CountReceived == received' = received + 1

\* A message is read and parses, and the counter is incremented.  A message
\* that is not valid JSON is logged and leaves every variable as it is.
Receive(c, b) ==
  /\ Alive /\ handler[c] = "reading" /\ fate[b] = "unsent"
  /\ handler' = [handler EXCEPT ![c] = "received"]
  /\ held' = [held EXCEPT ![c] = b]
  /\ fate' = [fate EXCEPT ![b] = "inflight"]
  /\ CountReceived
  /\ late' = IF closed THEN late \union {b} ELSE late
  /\ UNCHANGED <<lifecycle, queue, workers>>

\* (mutant of MayAdmit: the check of s.closed dropped)
MayAdmitAlways == TRUE
MayAdmit == ~closed

\* s.closed.Load() returned false.
Admit(c) ==
  /\ Alive /\ handler[c] = "received" /\ MayAdmit
  /\ handler' = [handler EXCEPT ![c] = "admitted"]
  /\ UNCHANGED <<lifecycle, queue, held, workers, history>>

\* The handler lets go of its bundle, which ends as f.
LetGo(c, next, f) ==
  /\ handler' = [handler EXCEPT ![c] = next]
  /\ held' = [held EXCEPT ![c] = None]
  /\ fate' = [fate EXCEPT ![held[c]] = f]
  /\ UNCHANGED <<lifecycle, workers, received, late>>

\* s.closed.Load() returned true.
RefuseClosed(c) ==
  /\ Alive /\ handler[c] = "received" /\ ~MayAdmit
  /\ LetGo(c, "reading", "refused")
  /\ UNCHANGED queue

\* The select statement, in the order in which the runtime looks at the
\* channel: closed, then room in the buffer, then the default branch.
\* (mutant of QueueAccepts: a queue that is never really closed)
QueueAcceptsAlways == TRUE

QueueAccepts == ~queueClosed

\* (mutant of HasRoom: one bundle too many)
HasRoomForOneMore == Len(queue) <= QueueCapacity

HasRoom == Len(queue) < QueueCapacity

Enqueue(c) ==
  /\ Alive /\ handler[c] = "admitted" /\ QueueAccepts /\ HasRoom
  /\ queue' = Append(queue, held[c])
  /\ LetGo(c, "reading", "inflight")

DropFull(c) ==
  /\ Alive /\ handler[c] = "admitted" /\ ~queueClosed /\ ~HasRoom
  /\ LetGo(c, "reading", "overflowed")
  /\ UNCHANGED queue

\* A send on a closed channel panics; net/http recovers the panic and the
\* deferred conn.Close ends the connection.
PanicOnSend(c) ==
  /\ Alive /\ handler[c] = "admitted" /\ queueClosed
  /\ LetGo(c, "off", "panicked")
  /\ UNCHANGED queue

-----------------------------------------------------------------------------
(* worker *)

\* (mutant of TakeHead: the receive leaves the bundle in the buffer)
PeekHead == queue' = queue
TakeHead == queue' = Tail(queue)

Take(w) ==
  /\ Alive /\ worker[w] = "select" /\ queue # <<>>
  /\ TakeHead
  /\ job' = [job EXCEPT ![w] = Head(queue)]
  /\ worker' = [worker EXCEPT ![w] = "broadcast"]
  /\ UNCHANGED <<lifecycle, handlers, history>>

\* Broadcast returns.  Under a cancelled context its requests may have been
\* cut short.
FinishBroadcast(w) ==
  /\ Alive /\ worker[w] = "broadcast"
  /\ worker' = [worker EXCEPT ![w] = "select"]
  /\ job' = [job EXCEPT ![w] = None]
  /\ fate' = [fate EXCEPT ![job[w]] =
                IF cancelled THEN "interrupted" ELSE "broadcast"]
  /\ UNCHANGED <<lifecycle, queue, handlers, received, late>>

\* (mutant of MayLeave: a select that does not wait)
LeaveWhenIdle == cancelled \/ queue = <<>>

\* The two ways out of worker's loop.  With s.ctx done and bundles in the
\* queue, select chooses between leaving and Take at random.
MayLeave ==
  \/ cancelled
  \/ queueClosed /\ queue = <<>>

Leave(w) ==
  /\ Alive /\ worker[w] = "select" /\ MayLeave
  /\ worker' = [worker EXCEPT ![w] = "done"]
  /\ UNCHANGED <<lifecycle, queue, handlers, job, history>>

-----------------------------------------------------------------------------
(* main *)

MainStep(from, to) ==
  /\ main = from
  /\ main' = to
  /\ UNCHANGED <<queue, handlers, workers, history>>

Quit ==
  /\ MainStep("serving", "quit")
  /\ UNCHANGED <<expired, listener, closed, cancelled, queueClosed>>

Expire ==
  /\ Alive /\ main # "serving" /\ ~expired
  /\ expired' = TRUE
  /\ UNCHANGED <<main, listener, closed, cancelled, queueClosed, queue,
                 handlers, workers, history>>

StoreClosed ==
  /\ MainStep("quit", "refusing")
  /\ closed' = TRUE
  /\ UNCHANGED <<expired, listener, cancelled, queueClosed>>

Cancel ==
  /\ MainStep("refusing", "cancelling")
  /\ cancelled' = TRUE
  /\ UNCHANGED <<expired, listener, closed, queueClosed>>

CloseQueue ==
  /\ MainStep("cancelling", "waiting")
  /\ queueClosed' = TRUE
  /\ UNCHANGED <<expired, listener, closed, cancelled>>

\* s.wg has reached zero.
WorkersDone == \A w \in Workers : worker[w] = "done"

\* WSServer.Shutdown returns, because of done or of ctx.Done().
ShutdownReturns ==
  /\ MainStep("waiting", "wsDown")
  /\ WorkersDone \/ expired
  /\ UNCHANGED <<expired, listener, closed, cancelled, queueClosed>>

\* http.Server.Shutdown closes the listener.  It does not wait for upgraded
\* connections, so the HandleWS goroutines go on.
HttpShutdown ==
  /\ MainStep("wsDown", "httpDown")
  /\ listener' = "closed"
  /\ UNCHANGED <<expired, closed, cancelled, queueClosed>>

StopTracker ==
  /\ MainStep("httpDown", "trackerStopped")
  /\ UNCHANGED <<expired, listener, closed, cancelled, queueClosed>>

Exit ==
  /\ MainStep("trackerStopped", "exited")
  /\ UNCHANGED <<expired, listener, closed, cancelled, queueClosed>>

Main ==
  \/ StoreClosed \/ Cancel \/ CloseQueue \/ ShutdownReturns
  \/ HttpShutdown \/ StopTracker \/ Exit

\* Nothing happens after the process has ended.
Ended == ~Alive /\ UNCHANGED vars

Next ==
  \/ Listen \/ ListenFails \/ Quit \/ Expire \/ Main \/ Ended
  \/ \E c \in Conns :
       \/ Connect(c) \/ Disconnect(c)
       \/ \E b \in Bundles : Receive(c, b)
       \/ Admit(c) \/ RefuseClosed(c)
       \/ Enqueue(c) \/ DropFull(c) \/ PanicOnSend(c)
  \/ \E w \in Workers : Take(w) \/ FinishBroadcast(w) \/ Leave(w)

\* The Go scheduler runs every runnable goroutine, and every HTTP attempt of
\* a broadcast is bounded by httpTimeout.  Nothing obliges bots to send, the
\* operator to stop the service or shutdownCtx to expire.
Fairness ==
  /\ WF_vars(Main)
  /\ \A w \in Workers :
       WF_vars(Take(w)) /\ WF_vars(FinishBroadcast(w)) /\ WF_vars(Leave(w))

Spec == Init /\ [][Next]_vars

FairSpec == Spec /\ Fairness

-----------------------------------------------------------------------------
(* Properties *)

TypeOK ==
  /\ main \in MainPlaces
  /\ expired \in BOOLEAN /\ closed \in BOOLEAN
  /\ cancelled \in BOOLEAN /\ queueClosed \in BOOLEAN
  /\ listener \in {"starting", "open", "closed"}
  /\ queue \in Seq(Bundles) /\ Len(queue) <= QueueCapacity
  /\ handler \in [Conns -> {"off", "reading", "received", "admitted"}]
  /\ held \in [Conns -> Bundles \union {None}]
  /\ \A c \in Conns : held[c] # None <=> handler[c] \in {"received", "admitted"}
  /\ worker \in [Workers -> {"select", "broadcast", "done"}]
  /\ job \in [Workers -> Bundles \union {None}]
  /\ \A w \in Workers : job[w] # None <=> worker[w] = "broadcast"
  /\ received \in Nat
  /\ fate \in [Bundles -> Fates]
  /\ late \in SUBSET Bundles

Queued(b) == \E i \in 1 .. Len(queue) : queue[i] = b
Held(b)   == \E c \in Conns : held[c] = b
OnJob(b)  == \E w \in Workers : job[w] = b

\* A bundle whose fate is open is in some handler, in the queue or at some
\* worker: the handoffs of HandleWS and worker lose none silently.
NoneLost ==
  \A b \in Bundles :
    fate[b] = "inflight" <=> Queued(b) \/ Held(b) \/ OnJob(b)

NoTwoPlaces ==
  /\ \A c, d \in Conns : held[c] = held[d] /\ held[c] # None => c = d
  /\ \A i, j \in 1 .. Len(queue) : queue[i] = queue[j] => i = j
  /\ \A v, w \in Workers : job[v] = job[w] /\ job[v] # None => v = w
  /\ \A b \in Bundles : ~(Queued(b) /\ Held(b))
                        /\ ~(Queued(b) /\ OnJob(b)) /\ ~(Held(b) /\ OnJob(b))

\* Each bundle that was read and has no outcome yet is at exactly one place:
\* no interleaving of handlers, workers and shutdown loses a bundle without
\* an outcome or gives one bundle to two workers, which would send it twice.
InOnePlace == NoneLost /\ NoTwoPlaces

\* BundleReceivedTotal equals the backlog (handlers, queue and workers) plus
\* the bundles with an outcome, during the shutdown too: the metric an
\* operator compares with the relays' counters is exact.
ReceivedIsAccounted ==
  received = Len(queue)
             + Cardinality({c \in Conns : held[c] # None})
             + Cardinality({w \in Workers : job[w] # None})
             + Cardinality({b \in Bundles : fate[b] \notin {"unsent", "inflight"}})

\* A bundle read after Shutdown has set s.closed never gets past the check
\* of s.closed: it reaches neither the queue nor a worker.
LateIsRefused ==
  \A b \in late :
    \/ fate[b] = "refused"
    \/ fate[b] = "inflight"
       /\ \E c \in Conns : held[c] = b /\ handler[c] = "received"

\* What the check of s.closed is there for: a bundle that arrives while the
\* server shuts down is dropped with a warning, it does not bring its
\* handler down.
NoSendOnClosedQueue == \A b \in Bundles : fate[b] # "panicked"

\* A bundle that was accepted into the queue is broadcast, unless the
\* operator stops the service.
AcceptedIsServed ==
  \A b \in Bundles :
    (\E i \in 1 .. Len(queue) : queue[i] = b)
      ~> fate[b] = "broadcast" \/ main # "serving"

\* After the signal the process ends, with no help from the 30 second limit.
QuitEnds == main = "quit" ~> ~Alive

StageOf(b) ==
  CASE fate[b] = "unsent" -> "unsent"
    [] fate[b] = "inflight" /\ Held(b) -> "offered"
    [] fate[b] = "inflight" /\ ~Held(b) -> "accepted"
    [] fate[b] = "broadcast" -> "served"
    [] fate[b] = "interrupted" -> "cut"
    [] OTHER -> "lost"

Life == INSTANCE BundleLife WITH
  stage <- [b \in Bundles |-> StageOf(b)],
  phase <- IF queueClosed THEN "closed"
           ELSE IF cancelled THEN "stopping" ELSE "open"

\* The server keeps the promise of BundleLife: at most one service, none
\* after the stop, acceptance only before close(s.queue), and service of all
\* that was accepted while the server stays open.
KeepsPromise == Life!Spec
=============================================================================
