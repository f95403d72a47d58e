---------------------------- MODULE RelayClient ----------------------------
(***************************************************************************)
(* relay_client.go and the fan-out of relay_manager.go.  For each bundle   *)
(* RelayManager.Broadcast starts one goroutine per relay, each running     *)
(* RelayClient.Broadcast, and waits for all of them.  The goroutines that  *)
(* serve different bundles at the same relay share the relay's counters    *)
(* and its 429 cooldown, rateLimitedUntil, with no lock around the check,  *)
(* the request and the update; all goroutines share the pool of buffers    *)
(* in which requests are encoded.                                          *)
(*                                                                         *)
(* Time is a count of ticks.  The relay and the network are external: a    *)
(* request in flight reaches the relay or not, at once or after its        *)
(* attempt was given up, and the attempt ends with an HTTP status, a       *)
(* connection error or another error.                                      *)
(***************************************************************************)
EXTENDS Integers, FiniteSets

CONSTANTS
  Bundles,          \* the bundles given to RelayManager.Broadcast
  Relays,           \* the configured relays that have a builder
  BadRelays,        \* relays whose URL makes http.NewRequest fail
  TrackedRelays,    \* relays with a tracker attached
  MaxRetries,       \* maxRetries
  CooldownConfig,   \* RateLimitCooldownMs of each relay, in ticks
  DefaultCooldown,  \* defaultCooldownMs, in ticks
  MaxTime,          \* bound: the last tick
  Buffers,          \* the buffers jsonEncoderPool can give out
  None              \* no buffer

ASSUME RelaysAssumption ==
  BadRelays \subseteq Relays /\ TrackedRelays \subseteq Relays
ASSUME RetriesAssumption == MaxRetries \in Nat \ {0}
ASSUME CooldownAssumption ==
  /\ CooldownConfig \in [Relays -> Int]
  /\ DefaultCooldown \in Nat \ {0}
ASSUME TimeAssumption == MaxTime \in Nat
ASSUME BuffersAssumption == None \notin Buffers

VARIABLES
  now,               \* time.Now, in ticks
  cancelled,         \* the context given to Broadcast is done
  cast,              \* place of RelayManager.Broadcast, per bundle
  call,              \* place of RelayClient.Broadcast, per bundle and relay
  attempts,          \* calls of client.Do so far
  status,            \* the status of the answer a call has read
  until,             \* the end of cooldown a call has computed
  pool,              \* jsonEncoderPool: the buffers a Get may return
  buf,               \* the buffer a call has encoded its request in, if any
  rateLimitedUntil,  \* the shared deadline of each relay, 0 when never set
  sent, failed, limited,  \* the Prometheus counters of each relay
  events,            \* the calls that gave a HashEvent to the tracker
  loose,             \* external: requests nobody waits for that may yet arrive
  reached,           \* history: requests of a call that reached the relay
  settled,           \* history: the calls that were answered or timed out
  verdict            \* history: how each call ended

env      == <<now, cancelled>>
local    == <<attempts, status, until>>
buffers  == <<pool, buf>>
counters == <<sent, failed, limited>>
network  == <<loose, reached>>
vars     == <<env, cast, call, local, buffers, rateLimitedUntil, counters,
              events, network, settled, verdict>>

Pairs == Bundles \X Relays

Statuses == {"2xx", "429", "other"}
Places   == {"off", "check", "build", "do", "flight", "arrived", "answered",
             "store", "done"}
Verdicts == {"none", "sent", "failed", "skipped", "limited"}

Cooldown(r) ==
  IF CooldownConfig[r] > 0 THEN CooldownConfig[r] ELSE DefaultCooldown

Init ==
  /\ now = 1
  /\ cancelled = FALSE
  /\ cast = [b \in Bundles |-> "off"]
  /\ call = [p \in Pairs |-> "off"]
  /\ attempts = [p \in Pairs |-> 0]
  /\ status = [p \in Pairs |-> "none"]
  /\ until = [p \in Pairs |-> 0]
  /\ pool = Buffers
  /\ buf = [p \in Pairs |-> None]
  /\ rateLimitedUntil = [r \in Relays |-> 0]
  /\ sent = [r \in Relays |-> 0]
  /\ failed = [r \in Relays |-> 0]
  /\ limited = [r \in Relays |-> 0]
  /\ events = {}
  /\ loose = [p \in Pairs |-> 0]
  /\ reached = [p \in Pairs |-> 0]
  /\ settled = {}
  /\ verdict = [p \in Pairs |-> "none"]

Inc(f, x) == [f EXCEPT ![x] = @ + 1]

Goto(p, place) == call' = [call EXCEPT ![p] = place]

\* The call goes on at another place.
Continue(p, place) ==
  Goto(p, place) /\ UNCHANGED <<verdict, buffers, counters>>

\* The call returns, and its deferred Put gives the buffer back.  Of a request
\* that is loose the transport may go on reading it: the first attempt is read
\* from the buffer itself, only the others from a copy.
End(p, v) ==
  /\ Goto(p, "done")
  /\ verdict' = [verdict EXCEPT ![p] = v]
  /\ pool' = pool \union ({buf[p]} \ {None})
  /\ UNCHANGED buf

\* (mutant of Limit: a 429 counted as a failed request too)
LimitAndFail(p) ==
  limited' = Inc(limited, p[2]) /\ failed' = Inc(failed, p[2]) /\ UNCHANGED sent

Limit(p) == limited' = Inc(limited, p[2]) /\ UNCHANGED <<sent, failed>>

Fail(p) ==
  /\ End(p, "failed")
  /\ failed' = Inc(failed, p[2])
  /\ UNCHANGED <<sent, limited>>

-----------------------------------------------------------------------------
(* RelayManager.Broadcast *)

\* A worker calls Broadcast and one goroutine per relay starts.
StartBroadcast(b) ==
  /\ cast[b] = "off"
  /\ cast' = [cast EXCEPT ![b] = "running"]
  /\ call' = [p \in Pairs |-> IF p[1] = b THEN "check" ELSE call[p]]
  /\ UNCHANGED <<env, local, buffers, rateLimitedUntil, counters, events,
                 network, settled, verdict>>

\* (mutant of AllReturned: a WaitGroup that releases on the first Done)
SomeReturned(b) == \E r \in Relays : call[<<b, r>>] = "done"

AllReturned(b) == \A r \in Relays : call[<<b, r>>] = "done"

FinishBroadcast(b) ==
  /\ cast[b] = "running" /\ AllReturned(b)
  /\ cast' = [cast EXCEPT ![b] = "done"]
  /\ UNCHANGED <<env, call, local, buffers, rateLimitedUntil, counters,
                 events, network, settled, verdict>>

-----------------------------------------------------------------------------
(* RelayClient.Broadcast *)

Cooling(r) == now < rateLimitedUntil[r]

Skip(p) ==
  /\ call[p] = "check" /\ Cooling(p[2])
  /\ End(p, "skipped")
  /\ Limit(p)
  /\ UNCHANGED <<env, cast, local, rateLimitedUntil, events, network, settled>>

Pass(p) ==
  /\ call[p] = "check" /\ ~Cooling(p[2])
  /\ Continue(p, "build")
  /\ UNCHANGED <<env, cast, local, rateLimitedUntil, events, network, settled>>

\* BuildRequest, encoding and signing do not fail for any registered relay;
\* http.NewRequest fails when the URL is malformed.  The buffer is taken and
\* given back.
BuildFails(p) ==
  /\ call[p] = "build" /\ p[2] \in BadRelays
  /\ Fail(p)
  /\ UNCHANGED <<env, cast, local, rateLimitedUntil, events, network, settled>>

\* (mutant of Get: the buffer is put back as soon as it is encoded)
GetAndPut(x) == pool' = pool

\* The pool gives out a buffer that is free, or a new one.
Get(x) == x \in pool /\ pool' = pool \ {x}

\* The request is encoded in a buffer of the pool, and signed.
Build(p) ==
  /\ call[p] = "build" /\ p[2] \notin BadRelays
  /\ Goto(p, "do")
  /\ \E x \in pool : Get(x) /\ buf' = [buf EXCEPT ![p] = x]
  /\ UNCHANGED <<env, cast, local, rateLimitedUntil, counters, events,
                 network, settled, verdict>>

\* client.Do is entered.  Under a context that is already done it returns at
\* once and nothing is sent.
Do(p) ==
  /\ call[p] = "do"
  /\ attempts' = Inc(attempts, p)
  /\ \/ ~cancelled /\ Continue(p, "flight")
     \/ cancelled /\ Fail(p)
  /\ UNCHANGED <<env, cast, status, until, rateLimitedUntil, events, network,
                 settled>>

\* External: the relay has received the whole request.
Reach(p) ==
  /\ call[p] = "flight"
  /\ Continue(p, "arrived")
  /\ reached' = Inc(reached, p)
  /\ UNCHANGED <<env, cast, local, rateLimitedUntil, events, loose, settled>>

\* External: a request that was given up reaches the relay after all, while
\* the next attempt is under way or after the call has ended.
LateReach(p) ==
  /\ loose[p] > 0
  /\ loose' = [loose EXCEPT ![p] = @ - 1]
  /\ reached' = Inc(reached, p)
  /\ UNCHANGED <<env, cast, call, local, buffers, rateLimitedUntil, counters,
                 events, settled, verdict>>

\* Nobody waits for the request any more.  If it has not arrived, it may still
\* do so.
Forsake(p) ==
  loose' = IF call[p] = "flight" THEN Inc(loose, p) ELSE loose

\* External: the relay answers with a status, and Do returns a response.  It
\* may reject a request, but not accept it, before it has received all of it.
Answer(p, s) ==
  /\ call[p] = "arrived" \/ (call[p] = "flight" /\ s # "2xx")
  /\ Continue(p, "answered")
  /\ status' = [status EXCEPT ![p] = s]
  /\ settled' = settled \union {p}
  /\ Forsake(p)
  /\ UNCHANGED <<env, cast, attempts, until, rateLimitedUntil, events, reached>>

InFlight(p) == call[p] \in {"flight", "arrived"}

\* Do returns an error.
GiveUp(p) ==
  /\ Forsake(p)
  /\ UNCHANGED <<env, cast, local, rateLimitedUntil, events, reached>>

\* (mutant of MayRetry: one attempt too many)
MayRetryOnce(p) == attempts[p] <= MaxRetries

MayRetry(p) == attempts[p] < MaxRetries

\* The next attempt, or the end when there have been maxRetries.
Retry(p) == IF MayRetry(p) THEN Continue(p, "do") ELSE Fail(p)

\* A connection error for which isRetryableConnError holds.
ConnFails(p) ==
  /\ InFlight(p)
  /\ GiveUp(p) /\ UNCHANGED settled
  /\ Retry(p)

\* (mutant of Bounded: a limit for connecting and sending only)
BoundedWhileSending(p) == call[p] = "flight"

\* The attempts that httpTimeout limits: all of them, until the response.
Bounded(p) == InFlight(p)

\* (mutant of Final: a timeout is retried like a connection error)
FinalOnlyAtLast(p) == Retry(p)

\* The loop ends, at whatever attempt.
Final(p) == Fail(p)

\* httpTimeout ends the attempt with context.DeadlineExceeded.  A timeout that
\* the transport reports as a connection error is a ConnFails.
TimesOut(p) ==
  /\ Bounded(p)
  /\ GiveUp(p) /\ settled' = settled \union {p}
  /\ Final(p)

Interrupted(p) ==
  /\ InFlight(p) /\ cancelled
  /\ GiveUp(p) /\ UNCHANGED settled
  /\ Final(p)

OtherError(p) ==
  /\ InFlight(p)
  /\ GiveUp(p) /\ UNCHANGED settled
  /\ Final(p)

\* A 2xx answer.  The body may hold no bundle hash: then nothing is tracked.
Accepted(p) ==
  /\ call[p] = "answered" /\ status[p] = "2xx"
  /\ End(p, "sent")
  /\ sent' = Inc(sent, p[2])
  /\ \/ p[2] \in TrackedRelays /\ events' = events \union {p}
     \/ UNCHANGED events
  /\ UNCHANGED <<env, cast, local, rateLimitedUntil, failed, limited, network,
                 settled>>

Rejected(p) ==
  /\ call[p] = "answered" /\ status[p] = "other"
  /\ Fail(p)
  /\ UNCHANGED <<env, cast, local, rateLimitedUntil, events, network, settled>>

\* (mutant of CooldownEnd: a cooldown that starts at the end of the last)
CooldownAfterLast(r) ==
  (IF Cooling(r) THEN rateLimitedUntil[r] ELSE now) + Cooldown(r)

CooldownEnd(r) == now + Cooldown(r)

\* A 429 answer, first half: time.Now is read.
ReadClock(p) ==
  /\ call[p] = "answered" /\ status[p] = "429"
  /\ Continue(p, "store")
  /\ until' = [until EXCEPT ![p] = CooldownEnd(p[2])]
  /\ UNCHANGED <<env, cast, attempts, status, rateLimitedUntil, events,
                 network, settled>>

\* (mutant of Cool: one deadline for all relays)
CoolAll(p) == rateLimitedUntil' = [r \in Relays |-> until[p]]

Cool(p) == rateLimitedUntil' = [rateLimitedUntil EXCEPT ![p[2]] = until[p]]

\* Second half: the deadline is stored, whatever has been stored since.
StoreCooldown(p) ==
  /\ call[p] = "store"
  /\ Cool(p)
  /\ End(p, "limited")
  /\ Limit(p)
  /\ UNCHANGED <<env, cast, local, events, network, settled>>

-----------------------------------------------------------------------------

\* The worker's context is cancelled by WSServer.Shutdown.
Cancel ==
  /\ ~cancelled
  /\ cancelled' = TRUE
  /\ UNCHANGED <<now, cast, call, local, buffers, rateLimitedUntil, counters,
                 events, network, settled, verdict>>

Tick ==
  /\ now < MaxTime
  /\ now' = now + 1
  /\ UNCHANGED <<cancelled, cast, call, local, buffers, rateLimitedUntil,
                 counters, events, network, settled, verdict>>

\* All the work there is has been done.
Idle == (\A b \in Bundles : cast[b] = "done") /\ UNCHANGED vars

\* The steps of RelayClient.Broadcast that wait for nobody.
Run(p) ==
  \/ Skip(p) \/ Pass(p) \/ BuildFails(p) \/ Build(p) \/ Do(p)
  \/ Accepted(p) \/ Rejected(p) \/ ReadClock(p) \/ StoreCooldown(p)

\* The ways in which client.Do ends that nothing obliges to happen.
Network(p) ==
  \/ Reach(p) \/ (\E s \in Statuses : Answer(p, s))
  \/ LateReach(p) \/ ConnFails(p) \/ Interrupted(p) \/ OtherError(p)

Next ==
  \/ Cancel \/ Tick \/ Idle
  \/ \E b \in Bundles : StartBroadcast(b) \/ FinishBroadcast(b)
  \/ \E p \in Pairs : Run(p) \/ TimesOut(p) \/ Network(p)

Spec == Init /\ [][Next]_vars

-----------------------------------------------------------------------------
(* Properties *)

TypeOK ==
  /\ now \in Nat
  /\ cancelled \in BOOLEAN
  /\ cast \in [Bundles -> {"off", "running", "done"}]
  /\ call \in [Pairs -> Places]
  /\ attempts \in [Pairs -> 0 .. MaxRetries]
  /\ status \in [Pairs -> Statuses \union {"none"}]
  /\ until \in [Pairs -> Nat]
  /\ pool \in SUBSET Buffers
  /\ buf \in [Pairs -> Buffers \union {None}]
  /\ rateLimitedUntil \in [Relays -> Nat]
  /\ sent \in [Relays -> Nat]
  /\ failed \in [Relays -> Nat]
  /\ limited \in [Relays -> Nat]
  /\ events \in SUBSET Pairs
  /\ loose \in [Pairs -> Nat]
  /\ reached \in [Pairs -> Nat]
  /\ settled \in SUBSET Pairs
  /\ verdict \in [Pairs -> Verdicts]

Ended(r, vs) == Cardinality({b \in Bundles : verdict[<<b, r>>] \in vs})

\* Each call increments exactly one counter of its relay, exactly once, on
\* every path through retries, errors and cooldown: sent, failed and limited
\* add up to the calls that have returned.
EachCallCountedOnce ==
  \A r \in Relays :
    /\ sent[r] = Ended(r, {"sent"})
    /\ failed[r] = Ended(r, {"failed"})
    /\ limited[r] = Ended(r, {"skipped", "limited"})
    /\ sent[r] + failed[r] + limited[r]
         = Cardinality({b \in Bundles : call[<<b, r>>] = "done"})

\* A connection error hides whether the relay has the bundle, so a bundle
\* may reach a relay more than once, but at most maxRetries times, those
\* requests included that arrive after their attempt was given up.
DuplicatesAreBounded == \A p \in Pairs : reached[p] <= MaxRetries

\* Once the relay has answered a call with any status, or an attempt has
\* ended with context.DeadlineExceeded, the call makes no further attempt:
\* only connection errors are retried.  (Its log line gives maxRetries as their
\* number all the same, and DOCS.md has the timeout "after 3 attempts".)
NoAttemptAfterSettled ==
  [][\A p \in settled : attempts'[p] = attempts[p]]_vars

\* The call is under way, with its request in its buffer.
Holds(p) == buf[p] # None /\ call[p] # "done"

\* While a call is under way its buffer holds its own request: no other call
\* encodes into it, and the pool does not give it out, so all the call sends is
\* its own.  Nothing is said of a call that has returned: its buffer may be
\* another's while the transport still reads a loose first attempt from it.
BufferIsExclusive ==
  \A p \in Pairs :
    Holds(p) => /\ buf[p] \notin pool
                /\ \A q \in Pairs : Holds(q) /\ buf[q] = buf[p] => q = p

\* However many calls run into a 429 at once, their cooldowns do not add up:
\* a relay is never closed for longer than one cooldown from now.
CooldownsDoNotAddUp ==
  \A r \in Relays : rateLimitedUntil[r] <= now + Cooldown(r)

\* A relay is only ever cooled down or skipped because that same relay
\* answered 429; the others are unaffected.
CooldownIsPerRelay ==
  \A r \in Relays :
    rateLimitedUntil[r] > 0 \/ limited[r] > 0
      => \E b \in Bundles : status[<<b, r>>] = "429"
=============================================================================
