---------------------------- MODULE Broadcaster ----------------------------
(***************************************************************************)
(* The service as a whole: the server and worker pool of WSServer and the  *)
(* calls of RelayClient, brought together at the three places where they   *)
(* meet in the code.  A worker that takes a bundle calls                   *)
(* RelayManager.Broadcast, it comes back when the calls to all relays have *)
(* returned, and the context it passes on is the one Shutdown cancels.     *)
(***************************************************************************)
EXTENDS Integers, Sequences, FiniteSets

CONSTANTS
  Conns, Workers, Bundles, QueueCapacity, None,
  Relays, BadRelays, TrackedRelays, MaxRetries, CooldownConfig,
  DefaultCooldown, MaxTime, Buffers

\* What WSServer and RelayClient assume.
ASSUME ServerAssumption ==
  QueueCapacity \in Nat \ {0} /\ None \notin Bundles
ASSUME RelayAssumption ==
  /\ BadRelays \subseteq Relays /\ TrackedRelays \subseteq Relays
  /\ MaxRetries \in Nat \ {0}
  /\ CooldownConfig \in [Relays -> Int] /\ DefaultCooldown \in Nat \ {0}
  /\ MaxTime \in Nat /\ None \notin Buffers

VARIABLES
  main, expired, listener, closed, queue, queueClosed, handler, held, worker,
  job, received, fate, late,                                   \* WSServer
  cancelled,                                                   \* shared
  now, cast, call, attempts, status, until, pool, buf, rateLimitedUntil,
  sent, failed, limited, events, loose, reached, settled,
  verdict                                                      \* RelayClient

Server == INSTANCE WSServer
Relay  == INSTANCE RelayClient

\* The variables that only one of the two parts has.
serverOnly == <<main, expired, listener, closed, queue, queueClosed, handler,
                held, worker, job, received, fate, late>>
relayOnly  == <<now, cast, call, attempts, status, until, pool, buf,
                rateLimitedUntil, sent, failed, limited, events, loose,
                reached, settled, verdict>>
serverVars == <<serverOnly, cancelled>>
vars       == <<serverOnly, cancelled, relayOnly>>

Init == Server!Init /\ Relay!Init

\* The bundle a worker receives is the bundle it hands to Broadcast.
Takes(w) == Server!Take(w) /\ Relay!StartBroadcast(Head(queue))

\* (mutant of Returns: the fan-out is not waited for)
ReturnsEarly(w) == Server!FinishBroadcast(w) /\ UNCHANGED relayOnly

\* Broadcast returns to the worker when its WaitGroup is at zero.
Returns(w) == Server!FinishBroadcast(w) /\ Relay!FinishBroadcast(job[w])

\* s.cancel: the context of all workers, and so of all requests, is done.
Cancels == Server!Cancel /\ Relay!Cancel

\* The server's other steps: the relay clients have no part in them.
MainAlone ==
  /\ \/ Server!StoreClosed \/ Server!CloseQueue \/ Server!ShutdownReturns
     \/ Server!HttpShutdown \/ Server!StopTracker \/ Server!Exit
  /\ UNCHANGED relayOnly

ServerAlone ==
  /\ \/ Server!Listen \/ Server!ListenFails \/ Server!Quit \/ Server!Expire
     \/ \E c \in Conns :
          \/ Server!Connect(c) \/ Server!Disconnect(c)
          \/ \E b \in Bundles : Server!Receive(c, b)
          \/ Server!Admit(c) \/ Server!RefuseClosed(c)
          \/ Server!Enqueue(c) \/ Server!DropFull(c) \/ Server!PanicOnSend(c)
  /\ UNCHANGED relayOnly

Leaves(w) == Server!Leave(w) /\ UNCHANGED relayOnly

\* What a call under way does next, while the process runs: its own steps and the
\* timeout of an attempt, or what the relay and the network decide.
CallProceeds(p) ==
  /\ Server!Alive /\ call[p] \notin {"off", "done"}
  /\ UNCHANGED serverOnly
  /\ Relay!Run(p) \/ Relay!TimesOut(p)

NetworkActs(p) == Server!Alive /\ Relay!Network(p) /\ UNCHANGED serverOnly

TimePasses == Server!Alive /\ Relay!Tick /\ UNCHANGED serverOnly

Ended == ~Server!Alive /\ UNCHANGED vars

Next ==
  \/ ServerAlone \/ MainAlone \/ Cancels \/ TimePasses \/ Ended
  \/ \E w \in Workers : Takes(w) \/ Returns(w) \/ Leaves(w)
  \/ \E p \in Relay!Pairs : CallProceeds(p) \/ NetworkActs(p)

\* Some goroutine among those that can go on does: each has finitely many
\* steps, so that is enough.  httpTimeout ends an attempt that nothing else
\* ends.  A worker whose WaitGroup is at zero comes back.  That Broadcast
\* returns is not assumed: it has to follow.  (Each of these steps changes the
\* place of a call, or the job of a worker.)
Fairness ==
  /\ WF_call(\E p \in Relay!Pairs : CallProceeds(p))
  /\ \A w \in Workers : WF_job(Returns(w))

Spec == Init /\ [][Next]_vars /\ Fairness

-----------------------------------------------------------------------------
(* Properties *)

\* With the relays in place of its one long step Broadcast, the server
\* behaves as WSServer says, and the fairness WSServer assumes of that step
\* follows: the timeouts and the bounded retries of the calls, in every
\* worker, make Broadcast return.
ServerIsImplemented ==
  /\ Server!Spec
  /\ \A w \in Workers : WF_serverVars(Server!FinishBroadcast(w))

\* Unless shutdownCtx expired, no request is under way once Shutdown has
\* returned: the last counter is increased and the last hash recorded before
\* the tracker is stopped and the process exits.
NoCallAfterShutdown ==
  main \in {"wsDown", "httpDown", "trackerStopped", "exited"} /\ ~expired
    => \A p \in Relay!Pairs : call[p] \in {"off", "done"}

Returned(r) == sent[r] + failed[r] + limited[r]

\* The metrics agree from end to end: a relay's sent, failed and limited
\* bundles and the calls under way are the bundles received, less those that
\* are still to be taken by a worker and those the server turned away.
MetricsReconcile ==
  \A r \in Relays :
    Returned(r) + Cardinality({b \in Bundles : call[<<b, r>>] \notin {"off", "done"}})
      = received
        - Len(queue) - Cardinality({c \in Conns : held[c] # None})
        - Cardinality({b \in Bundles :
                         fate[b] \in {"refused", "overflowed", "panicked"}})

\* A bundle counts as broadcast, and its worker takes the next one, only when
\* it has a verdict at every relay.  With ServerIsImplemented, by which the
\* broadcast of an accepted bundle does end, a relay that never answers
\* neither keeps a bundle from the others nor holds up the bundles behind it.
ServedAtEveryRelay ==
  \A b \in Bundles :
    fate[b] \in {"broadcast", "interrupted"}
      => \A r \in Relays : verdict[<<b, r>>] # "none"
=============================================================================
