------------------------------ MODULE Tracker ------------------------------
(***************************************************************************)
(* tracker.go: relay clients give the tracker the bundle hashes they got   *)
(* (HashEvent), the simulator its results (SimEvent).  Both go through     *)
(* bounded channels to one goroutine, run, which joins them by bundle_id   *)
(* and appends one line per hash to the builder's file.  Stop, called by   *)
(* main on its way out, only closes doneCh.                                *)
(*                                                                         *)
(* Time is counted in periods of run's ticker.  Ages stop growing at the   *)
(* first value that no comparison in flush can tell from a larger one.     *)
(***************************************************************************)
EXTENDS Naturals, Sequences, FiniteSets

CONSTANTS
  Ids,       \* bundle_ids; a bot may use one for several bundles
  Builders,  \* the tracked relays
  Hashes,    \* the hashes a builder returns for one bundle_id
  Sims,      \* the simulation results for one bundle_id
  Events,    \* the HashEvents that occur: ((bundle_id, builder), hash)
  None,      \* no hash, no simulation result
  HashCap,   \* capacity of hashCh
  SimCap,    \* capacity of simCh
  FlushAge,  \* 2 seconds, in ticker periods
  SimTTL     \* 30 seconds, in ticker periods

ASSUME EventsAssumption == Events \subseteq (Ids \X Builders) \X Hashes
ASSUME NoneAssumption == None \notin Hashes /\ None \notin Sims
ASSUME CapAssumption == HashCap \in Nat \ {0} /\ SimCap \in Nat \ {0}
ASSUME AgeAssumption ==
  FlushAge \in Nat \ {0} /\ SimTTL \in Nat /\ FlushAge < SimTTL

VARIABLES
  proc,      \* the process: "up", "stopping" (Stop was called), "exited"
  run,       \* the tracker's goroutine: "starting", "loop", "failed", "flushed"
  hashCh,    \* t.hashCh
  simCh,     \* t.simCh
  ticked,    \* ticker.C holds a tick
  pending,   \* run's map of the hashes that wait for a result or for flush
  simCache,  \* run's map of simulation results
  lines,     \* the tracking files: the lines of each hash event
  fate,      \* history: what became of each hash event
  simmed     \* history: the simulation results sent so far

channels == <<hashCh, simCh>>
maps     == <<pending, simCache>>
vars     == <<proc, run, channels, ticked, maps, lines, fate, simmed>>

Keys   == Ids \X Builders          \* the keys of pending
SimEvents == Ids \X Sims           \* SimEvents

MaxAge == SimTTL + 1
Ages   == 0 .. MaxAge

NoEntry == [hash |-> None, sim |-> None, age |-> 0]
NoSim   == [sim |-> None, age |-> 0]

Fates == {"none", "queued", "dropped", "pending", "overwritten", "written",
          "unwritten"}

Init ==
  /\ proc = "up"
  /\ run = "starting"
  /\ hashCh = <<>>
  /\ simCh = <<>>
  /\ ticked = FALSE
  /\ pending = [k \in Keys |-> NoEntry]
  /\ simCache = [i \in Ids |-> NoSim]
  /\ lines = [e \in Events |-> <<>>]
  /\ fate = [e \in Events |-> "none"]
  /\ simmed = {}

Waits(k) == pending[k].hash # None

-----------------------------------------------------------------------------
(* RecordHash and RecordSim, called by relay clients and the simulator *)

\* (mutant of Room: one event more than the channel holds)
RoomForOneMore(ch, cap) == Len(ch) <= cap

\* The send case of the select is ready; otherwise default is taken.
Room(ch, cap) == Len(ch) < cap

RecordHash(e) ==
  /\ proc # "exited" /\ fate[e] = "none"
  /\ \/ /\ Room(hashCh, HashCap)
        /\ hashCh' = Append(hashCh, e)
        /\ fate' = [fate EXCEPT ![e] = "queued"]
     \/ /\ ~Room(hashCh, HashCap)
        /\ fate' = [fate EXCEPT ![e] = "dropped"]
        /\ UNCHANGED hashCh
  /\ UNCHANGED <<proc, run, simCh, ticked, maps, lines, simmed>>

RecordSim(s) ==
  /\ proc # "exited" /\ s \notin simmed
  /\ simmed' = simmed \union {s}
  /\ \/ Room(simCh, SimCap) /\ simCh' = Append(simCh, s)
     \/ ~Room(simCh, SimCap) /\ UNCHANGED simCh
  /\ UNCHANGED <<proc, run, hashCh, ticked, maps, lines, fate>>

-----------------------------------------------------------------------------
(* run *)

Running == proc # "exited" /\ run = "loop"

\* MkdirAll fails: the goroutine returns, and the channels fill up.
Begin ==
  /\ proc # "exited" /\ run = "starting"
  /\ run' \in {"loop", "failed"}
  /\ UNCHANGED <<proc, channels, ticked, maps, lines, fate, simmed>>

\* The result that a hash finds in the cache on its arrival.
Prefilled(i) == simCache[i].sim

TakeHash ==
  /\ Running /\ hashCh # <<>>
  /\ hashCh' = Tail(hashCh)
  /\ LET e == Head(hashCh)
         k == e[1]
         old == <<k, pending[k].hash>>
     IN /\ pending' = [pending EXCEPT ![k] =
              [hash |-> e[2], sim |-> Prefilled(k[1]), age |-> 0]]
        /\ fate' = [f \in Events |->
              IF f = e THEN "pending"
              ELSE IF Waits(k) /\ f = old THEN "overwritten"
              ELSE fate[f]]
  /\ UNCHANGED <<proc, run, simCh, ticked, simCache, lines, simmed>>

\* (mutant of Enriched: a result does not reach the hashes that wait for it)
NotEnriched(k, s) == pending[k]

Enriched(k, s) ==
  IF k[1] = s[1] /\ Waits(k) THEN [pending[k] EXCEPT !.sim = s[2]]
  ELSE pending[k]

TakeSim ==
  /\ Running /\ simCh # <<>>
  /\ simCh' = Tail(simCh)
  /\ LET s == Head(simCh)
     IN /\ simCache' = [simCache EXCEPT ![s[1]] = [sim |-> s[2], age |-> 0]]
        /\ pending' = [k \in Keys |-> Enriched(k, s)]
  /\ UNCHANGED <<proc, run, hashCh, ticked, lines, fate, simmed>>

\* (mutant of Due: records are written by the final flush only)
DueAtStop(force) == {k \in Keys : Waits(k) /\ force}

\* The entries flush takes; all of them when force is set.
Due(force) == {k \in Keys : Waits(k) /\ (force \/ pending[k].age >= FlushAge)}

\* (mutant of FlushedSim: the record takes what the cache holds now)
FlushedFromCache(k) == simCache[k[1]].sim

\* The result a record is written with: flush looks in the cache once more.
FlushedSim(k) ==
  IF simCache[k[1]].sim # None THEN simCache[k[1]].sim ELSE pending[k].sim

\* (mutant of Forget: a record is written and stays in the map)
KeepAll(ks) == pending

Forget(ks) == [k \in Keys |-> IF k \in ks THEN NoEntry ELSE pending[k]]

\* (mutant of Evicted: the cache is never cleaned)
NeverEvicted == simCache

Evicted ==
  [i \in Ids |-> IF simCache[i].age > SimTTL THEN NoSim ELSE simCache[i]]

\* flush: the keys in bad are those whose file cannot be opened or written;
\* their records are dropped from the map all the same.
Flush(force) ==
  \E bad \in SUBSET Due(force) :
    LET ks == Due(force) IN
    /\ lines' = [e \in Events |->
         IF e[1] \in ks \ bad /\ pending[e[1]].hash = e[2]
         THEN Append(lines[e], FlushedSim(e[1])) ELSE lines[e]]
    /\ fate' = [e \in Events |->
         IF e[1] \in ks /\ pending[e[1]].hash = e[2]
         THEN IF e[1] \in bad THEN "unwritten" ELSE "written"
         ELSE fate[e]]
    /\ pending' = Forget(ks)
    /\ simCache' = Evicted

PeriodicFlush ==
  /\ Running /\ ticked
  /\ ticked' = FALSE
  /\ Flush(FALSE)
  /\ UNCHANGED <<proc, run, channels, simmed>>

\* doneCh is closed: select may choose it while the channels hold events.
FinalFlush ==
  /\ Running /\ proc = "stopping"
  /\ run' = "flushed"
  /\ Flush(TRUE)
  /\ UNCHANGED <<proc, channels, ticked, simmed>>

-----------------------------------------------------------------------------
(* The clock and main *)

\* An age grows by a period.  MaxAge is a bound of the model: the code compares
\* times, and an age beyond MaxAge compares as MaxAge does.
Older(age) == IF age < MaxAge THEN age + 1 ELSE age

\* A ticker period goes by.  The ticker drops a tick that run has not taken.
Tick ==
  /\ Running
  /\ ticked' = TRUE
  /\ pending' = [k \in Keys |->
       IF Waits(k) THEN [pending[k] EXCEPT !.age = Older(@)] ELSE pending[k]]
  /\ simCache' = [i \in Ids |->
       IF simCache[i].sim # None THEN [simCache[i] EXCEPT !.age = Older(@)]
       ELSE simCache[i]]
  /\ UNCHANGED <<proc, run, channels, lines, fate, simmed>>

\* RelayManager.Shutdown calls Stop, which closes doneCh.
Stop ==
  /\ proc = "up"
  /\ proc' = "stopping"
  /\ UNCHANGED <<run, channels, ticked, maps, lines, fate, simmed>>

\* main returns, with no wait for run.
Exit ==
  /\ proc = "stopping"
  /\ proc' = "exited"
  /\ UNCHANGED <<run, channels, ticked, maps, lines, fate, simmed>>

Ended == proc = "exited" /\ UNCHANGED vars

Loop == TakeHash \/ TakeSim \/ PeriodicFlush \/ FinalFlush

Next ==
  \/ \E e \in Events : RecordHash(e)
  \/ \E s \in SimEvents : RecordSim(s)
  \/ Begin \/ TakeHash \/ TakeSim \/ PeriodicFlush \/ FinalFlush
  \/ Tick \/ Stop \/ Exit \/ Ended

\* select is fair among its ready cases, and time passes.
Fairness ==
  /\ WF_vars(Begin) /\ WF_vars(Tick)
  /\ SF_vars(TakeHash) /\ SF_vars(TakeSim)
  /\ SF_vars(PeriodicFlush) /\ SF_vars(FinalFlush)

Spec == Init /\ [][Next]_vars

FairSpec == Spec /\ Fairness

-----------------------------------------------------------------------------
(* Properties *)

TypeOK ==
  /\ proc \in {"up", "stopping", "exited"}
  /\ run \in {"starting", "loop", "failed", "flushed"}
  /\ hashCh \in Seq(Events) /\ Len(hashCh) <= HashCap
  /\ simCh \in Seq(SimEvents) /\ Len(simCh) <= SimCap
  /\ ticked \in BOOLEAN
  /\ pending \in [Keys -> [hash : Hashes \union {None},
                           sim : Sims \union {None}, age : Ages]]
  /\ simCache \in [Ids -> [sim : Sims \union {None}, age : Ages]]
  /\ lines \in [Events -> Seq(Sims \union {None})]
  /\ fate \in [Events -> Fates]
  /\ simmed \in SUBSET SimEvents

\* A hash event whose fate is open is at exactly the place its fate names,
\* and a closed one is in neither the channel nor the map.
EventInOnePlace ==
  /\ \A e \in Events :
       /\ fate[e] = "queued" <=> \E i \in 1 .. Len(hashCh) : hashCh[i] = e
       /\ fate[e] = "pending" <=> pending[e[1]].hash = e[2]
  /\ \A i, j \in 1 .. Len(hashCh) : hashCh[i] = hashCh[j] => i = j

\* A hash event is on disk exactly once if it was written, and not at all
\* otherwise: no flush repeats or invents a line.
WrittenOnce ==
  \A e \in Events :
    Len(lines[e]) = IF fate[e] = "written" THEN 1 ELSE 0

\* Whichever of hash and result comes first, a record that waits carries the
\* result that is in the cache.
PendingMatchesCache ==
  \A k \in Keys :
    Waits(k) /\ simCache[k[1]].sim # None
      => pending[k].sim = simCache[k[1]].sim

\* A result joined to a waiting record is never lost again, although the
\* cache may evict it first.
JoinIsKept ==
  [][\A e \in Events :
       fate[e] = "pending" /\ pending[e[1]].sim # None
         => \/ fate'[e] = "pending" /\ pending'[e[1]].sim # None
            \/ fate'[e] = "written" /\ lines'[e][1] # None
            \/ fate'[e] \in {"overwritten", "unwritten"}]_vars

\* No record waits for ever: a queued or waiting hash gets its outcome, unless
\* the process exits first.  The one exception is a hash still in the channel
\* of a goroutine that has returned: its directory could not be made, or select
\* chose doneCh over the hash.
HashGetsOutcome ==
  \A e \in Events :
    fate[e] \in {"queued", "pending"}
      ~> \/ fate[e] \notin {"queued", "pending"}
         \/ proc = "exited"
         \/ fate[e] = "queued" /\ run \in {"failed", "flushed"}

\* A cached result is evicted in the end: the cache does not grow with the
\* number of bundles.
CacheIsEmptied ==
  \A i \in Ids :
    simCache[i].sim # None
      ~> simCache[i].sim = None \/ proc = "exited" \/ run = "flushed"

\* "every bundle hash returned by a tracked builder is stored"
NoHashOverwritten == \A e \in Events : fate[e] # "overwritten"

\* "Flush pending tracking records to disk before exit."
FlushedBeforeExit ==
  proc = "exited" /\ run # "failed"
    => \A e \in Events : fate[e] \notin {"queued", "pending"}
=============================================================================
