---------------------------- MODULE TrackerProofs ----------------------------
(***************************************************************************)
(* Theorems about Tracker, for any bundle_ids, builders, hashes, channel   *)
(* capacities and periods: each hash event is at one place, is written     *)
(* once or never, and is written with the result it was joined with.       *)
(***************************************************************************)
EXTENDS Tracker, ChannelProofs, TLAPS

Entries == [hash : Hashes \union {None}, sim : Sims \union {None}, age : Ages]
Cached  == [sim : Sims \union {None}, age : Ages]

\* A hash event is a hash for a key of the map pending.
LEMMA EventParts ==
  \A e \in Events : /\ e = <<e[1], e[2]>> /\ e[1] \in Keys /\ e[1][1] \in Ids
                    /\ e[2] \in Hashes /\ e[2] # None
BY EventsAssumption, NoneAssumption DEF Keys

\* A capped age stays among the ages.
LEMMA OlderType == \A a \in Ages : Older(a) \in Ages /\ 0 \in Ages
BY AgeAssumption DEF Ages, Older, MaxAge

\* The entries that maps start with, or are left with, have the type.
LEMMA NoEntryType == NoEntry \in Entries /\ NoSim \in Cached
BY OlderType, AgeAssumption DEF NoEntry, NoSim, Entries, Cached, Ages, MaxAge

-----------------------------------------------------------------------------
(* Types *)

\* A flush keeps the types of the maps, of the files and of the outcomes.
LEMMA FlushType ==
  ASSUME TypeOK, NEW force \in BOOLEAN, Flush(force)
  PROVE  /\ pending' \in [Keys -> Entries] /\ simCache' \in [Ids -> Cached]
         /\ lines' \in [Events -> Seq(Sims \union {None})]
         /\ fate' \in [Events -> Fates]
<1>1. PICK bad \in SUBSET Due(force) :
        /\ lines' = [e \in Events |->
             IF e[1] \in Due(force) \ bad /\ pending[e[1]].hash = e[2]
             THEN Append(lines[e], FlushedSim(e[1])) ELSE lines[e]]
        /\ fate' = [e \in Events |->
             IF e[1] \in Due(force) /\ pending[e[1]].hash = e[2]
             THEN IF e[1] \in bad THEN "unwritten" ELSE "written"
             ELSE fate[e]]
        /\ pending' = Forget(Due(force))
        /\ simCache' = Evicted
  BY DEF Flush
<1>2. pending' \in [Keys -> Entries]
  BY <1>1, NoEntryType DEF TypeOK, Forget, Entries
<1>3. simCache' \in [Ids -> Cached]
  BY <1>1, NoEntryType DEF TypeOK, Evicted, Cached
<1>4. ASSUME NEW e \in Events PROVE FlushedSim(e[1]) \in Sims \union {None}
  BY EventParts DEF TypeOK, FlushedSim
<1>5. lines' \in [Events -> Seq(Sims \union {None})]
  BY <1>1, <1>4 DEF TypeOK
<1>6. fate' \in [Events -> Fates]
  BY <1>1 DEF TypeOK, Fates
<1>7. QED
  BY <1>2, <1>3, <1>5, <1>6

\* Every step keeps the types.
LEMMA TypeInductive == TypeOK /\ [Next]_vars => TypeOK'
<1> SUFFICES ASSUME TypeOK, [Next]_vars PROVE TypeOK'
  OBVIOUS
<1> USE DEF TypeOK, Entries, Cached, channels, maps
<1>1. ASSUME NEW e \in Events, RecordHash(e) PROVE TypeOK'
  <2>1. hashCh' \in Seq(Events) /\ Len(hashCh') <= HashCap
    <3>1. CASE UNCHANGED hashCh
      BY <3>1
    <3>2. CASE Len(hashCh) < HashCap /\ hashCh' = Append(hashCh, e)
      BY <3>2, CapAssumption, SendFits
    <3>3. QED
      BY <1>1, <3>1, <3>2 DEF RecordHash, Room
  <2>2. fate' \in [Events -> Fates]
    BY <1>1 DEF RecordHash, Fates
  <2>3. QED
    BY <1>1, <2>1, <2>2 DEF RecordHash
<1>2. ASSUME NEW s \in SimEvents, RecordSim(s) PROVE TypeOK'
  <2>1. simCh' \in Seq(SimEvents) /\ Len(simCh') <= SimCap
    <3>1. CASE UNCHANGED simCh
      BY <3>1
    <3>2. CASE Len(simCh) < SimCap /\ simCh' = Append(simCh, s)
      BY <3>2, CapAssumption, SendFits
    <3>3. QED
      BY <1>2, <3>1, <3>2 DEF RecordSim, Room
  <2>2. QED
    BY <1>2, <2>1 DEF RecordSim
<1>3. CASE Begin
  BY <1>3 DEF Begin
<1>4. CASE TakeHash
  <2>1. /\ Head(hashCh) \in Events
        /\ hashCh' \in Seq(Events) /\ Len(hashCh') <= HashCap
    BY <1>4, CapAssumption DEF TakeHash
  <2>2. pending' \in [Keys -> Entries]
    BY <1>4, <2>1, EventParts, OlderType DEF TakeHash, Prefilled, Ages
  <2>3. fate' \in [Events -> Fates]
    BY <1>4 DEF TakeHash, Fates
  <2>4. QED
    BY <1>4, <2>1, <2>2, <2>3 DEF TakeHash
<1>5. CASE TakeSim
  <2>1. /\ Head(simCh) \in SimEvents
        /\ simCh' \in Seq(SimEvents) /\ Len(simCh') <= SimCap
    BY <1>5, CapAssumption DEF TakeSim
  <2>2. Head(simCh)[1] \in Ids /\ Head(simCh)[2] \in Sims
    BY <2>1 DEF SimEvents
  <2>3. pending' \in [Keys -> Entries]
    BY <1>5, <2>2 DEF TakeSim, Enriched
  <2>4. simCache' \in [Ids -> Cached]
    BY <1>5, <2>2, OlderType DEF TakeSim
  <2>5. QED
    BY <1>5, <2>1, <2>3, <2>4 DEF TakeSim
<1>6. CASE PeriodicFlush
  BY <1>6, FlushType DEF PeriodicFlush
<1>7. CASE FinalFlush
  BY <1>7, FlushType DEF FinalFlush
<1>8. CASE Tick
  <2>1. pending' \in [Keys -> Entries]
    BY <1>8, OlderType DEF Tick
  <2>2. simCache' \in [Ids -> Cached]
    BY <1>8, OlderType DEF Tick
  <2>3. QED
    BY <1>8, <2>1, <2>2 DEF Tick
<1>9. CASE Stop \/ Exit
  BY <1>9 DEF Stop, Exit
<1>10. CASE Ended \/ UNCHANGED vars
  BY <1>10 DEF Ended, vars
<1>11. QED
  BY <1>1, <1>2, <1>3, <1>4, <1>5, <1>6, <1>7, <1>8, <1>9, <1>10 DEF Next

\* Every variable of Tracker always has its type, and the channels keep
\* within their capacities.
THEOREM TypeCorrect == Spec => []TypeOK
<1>1. Init => TypeOK
  <2> SUFFICES ASSUME Init PROVE TypeOK
    OBVIOUS
  <2>1. /\ pending \in [Keys -> Entries] /\ simCache \in [Ids -> Cached]
    BY NoEntryType DEF Init
  <2>2. /\ hashCh \in Seq(Events) /\ Len(hashCh) <= HashCap
        /\ simCh \in Seq(SimEvents) /\ Len(simCh) <= SimCap
    BY CapAssumption DEF Init
  <2>3. /\ lines \in [Events -> Seq(Sims \union {None})]
        /\ fate \in [Events -> Fates]
    BY DEF Init, Fates
  <2>4. QED
    BY <2>1, <2>2, <2>3 DEF Init, TypeOK, Entries, Cached
<1>2. QED
  BY <1>1, TypeInductive, PTL DEF Spec

-----------------------------------------------------------------------------
(* Where a hash event is *)

InChannel(e) == Occurs(e, hashCh)
InMap(e)     == pending[e[1]].hash = e[2]

\* EventInOnePlace in the words of ChannelProofs.
Placed ==
  /\ Distinct(hashCh)
  /\ \A e \in Events : /\ fate[e] = "queued" <=> InChannel(e)
                       /\ fate[e] = "pending" <=> InMap(e)

\* A flush leaves the channel alone, and takes from the map what it gives an
\* outcome.
LEMMA FlushPlaces ==
  ASSUME TypeOK, Placed, NEW force \in BOOLEAN, Flush(force), UNCHANGED hashCh
  PROVE  Placed'
<1>1. PICK bad \in SUBSET Due(force) :
        /\ fate' = [e \in Events |->
             IF e[1] \in Due(force) /\ pending[e[1]].hash = e[2]
             THEN IF e[1] \in bad THEN "unwritten" ELSE "written"
             ELSE fate[e]]
        /\ pending' = Forget(Due(force))
  BY DEF Flush
<1>2. ASSUME NEW e \in Events, e[1] \in Due(force)
      PROVE  /\ ~InMap(e)'
             /\ InMap(e) => fate'[e] \in {"unwritten", "written"}
             /\ ~InMap(e) => fate'[e] = fate[e]
  BY <1>1, <1>2, EventParts DEF InMap, Forget, NoEntry
<1>3. ASSUME NEW e \in Events, e[1] \notin Due(force)
      PROVE  (InMap(e)' <=> InMap(e)) /\ fate'[e] = fate[e]
  BY <1>1, <1>3, EventParts DEF InMap, Forget
<1>4. \A e \in Events : InChannel(e)' <=> InChannel(e)
  BY DEF InChannel
<1>5. Distinct(hashCh')
  BY DEF Placed
<1>6. ASSUME NEW e \in Events
      PROVE  /\ fate'[e] = "queued" <=> InChannel(e)'
             /\ fate'[e] = "pending" <=> InMap(e)'
  <2>1. CASE e[1] \in Due(force)
    BY <1>2, <1>4, <2>1 DEF Placed
  <2>2. CASE e[1] \notin Due(force)
    BY <1>3, <1>4, <2>2 DEF Placed
  <2>3. QED
    BY <2>1, <2>2
<1>7. QED
  BY <1>5, <1>6 DEF Placed

\* Every step moves a hash event to the place its fate names.
LEMMA PlacedInductive == TypeOK /\ Placed /\ [Next]_vars => Placed'
<1> SUFFICES ASSUME TypeOK, Placed, [Next]_vars PROVE Placed'
  OBVIOUS
<1>1. ASSUME UNCHANGED <<hashCh, fate>>,
             \A k \in Keys : pending'[k].hash = pending[k].hash
      PROVE  Placed'
  BY <1>1, EventParts DEF Placed, InChannel, InMap
<1>2. ASSUME NEW e \in Events, RecordHash(e) PROVE Placed'
  <2>1. /\ fate[e] = "none" /\ UNCHANGED pending
        /\ ~InChannel(e) /\ ~InMap(e)
    BY <1>2 DEF RecordHash, maps, Placed
  <2>2. \A f \in Events : InMap(f)' <=> InMap(f)
    BY <2>1 DEF InMap
  <2>3. CASE hashCh' = Append(hashCh, e) /\ fate' = [fate EXCEPT ![e] = "queued"]
    <3>1. \A f : InChannel(f)' <=> InChannel(f) \/ f = e
      BY <2>3, SendAdds DEF InChannel, TypeOK
    <3>2. Distinct(hashCh')
      BY <2>1, <2>3, SendKeepsDistinct DEF InChannel, Placed, TypeOK
    <3>3. QED
      BY <2>1, <2>2, <2>3, <3>1, <3>2 DEF Placed, TypeOK
  <2>4. CASE UNCHANGED hashCh /\ fate' = [fate EXCEPT ![e] = "dropped"]
    <3>1. \A f \in Events : InChannel(f)' <=> InChannel(f)
      BY <2>4 DEF InChannel
    <3>2. QED
      BY <2>1, <2>2, <2>4, <3>1 DEF Placed, TypeOK
  <2>5. QED
    BY <1>2, <2>3, <2>4 DEF RecordHash
<1>3. CASE TakeHash
  <2> DEFINE e == Head(hashCh)
             k == e[1]
             old == <<k, pending[k].hash>>
  <2>1. /\ hashCh # <<>> /\ hashCh' = Tail(hashCh) /\ e \in Events
        /\ pending' = [pending EXCEPT ![k] =
              [hash |-> e[2], sim |-> Prefilled(k[1]), age |-> 0]]
        /\ fate' = [f \in Events |->
              IF f = e THEN "pending"
              ELSE IF Waits(k) /\ f = old THEN "overwritten"
              ELSE fate[f]]
    BY <1>3 DEF TakeHash, TypeOK
  <2>2. /\ Distinct(hashCh') /\ InChannel(e)
        /\ \A f : InChannel(f)' <=> InChannel(f) /\ f # e
    BY <2>1, ReceiveRemovesHead DEF InChannel, Placed, TypeOK
  <2> HIDE DEF e
  <2>3. fate[e] = "queued" /\ ~InMap(e)
    BY <2>1, <2>2 DEF Placed
  <2>4. ASSUME NEW f \in Events
        PROVE  InMap(f)' <=> f = e \/ (f[1] # k /\ InMap(f))
    BY <2>1, EventParts DEF InMap, TypeOK
  <2>5. ASSUME NEW f \in Events, f # e, f[1] = k
        PROVE  InMap(f) <=> Waits(k) /\ f = old
    BY <2>1, <2>5, EventParts DEF InMap, Waits
  <2>6. ASSUME NEW f \in Events, f = old PROVE f[1] = k
    BY <2>6
  <2>7. ASSUME NEW f \in Events
        PROVE  /\ fate'[f] = "queued" <=> InChannel(f)'
               /\ fate'[f] = "pending" <=> InMap(f)'
    <3>1. CASE f = e
      BY <2>1, <2>2, <2>4, <3>1
    <3>2. CASE f # e /\ f[1] = k
      BY <2>1, <2>2, <2>4, <2>5, <3>2 DEF Placed
    <3>3. CASE f # e /\ f[1] # k
      BY <2>1, <2>2, <2>4, <2>6, <3>3 DEF Placed
    <3>4. QED
      BY <3>1, <3>2, <3>3
  <2>8. QED
    BY <2>2, <2>7 DEF Placed
<1>4. CASE TakeSim
  BY <1>1, <1>4 DEF TakeSim, Enriched, TypeOK
<1>5. CASE PeriodicFlush
  BY <1>5, FlushPlaces DEF PeriodicFlush, channels
<1>6. CASE FinalFlush
  BY <1>6, FlushPlaces DEF FinalFlush, channels
<1>7. CASE Tick
  BY <1>1, <1>7 DEF Tick, TypeOK, channels
<1>8. ASSUME NEW s \in SimEvents, RecordSim(s) PROVE Placed'
  BY <1>1, <1>8 DEF RecordSim, maps
<1>9. CASE Begin \/ Stop \/ Exit \/ Ended \/ UNCHANGED vars
  BY <1>1, <1>9 DEF Begin, Stop, Exit, Ended, vars, maps, channels
<1>10. QED
  BY <1>2, <1>3, <1>4, <1>5, <1>6, <1>7, <1>8, <1>9 DEF Next

\* Placed holds in every state.
LEMMA PlacedAlways == Spec => []Placed
<1>1. Init => Placed
  BY EventParts DEF Init, Placed, InChannel, InMap, Occurs, Distinct, NoEntry
<1>2. QED
  BY <1>1, TypeCorrect, PlacedInductive, PTL DEF Spec

\* A hash event whose fate is open is at exactly the place its fate names.
THEOREM OnePlace == Spec => []EventInOnePlace
<1>1. Placed => EventInOnePlace
  BY DEF Placed, EventInOnePlace, InChannel, InMap, Occurs, Distinct
<1>2. QED
  BY <1>1, PlacedAlways, PTL

-----------------------------------------------------------------------------
(* What is on disk *)

\* A flush writes the record of each hash it takes, in a file that has none.
LEMMA FlushWrites ==
  ASSUME TypeOK, Placed, WrittenOnce, NEW force \in BOOLEAN, Flush(force)
  PROVE  WrittenOnce'
<1>1. PICK bad \in SUBSET Due(force) :
        /\ lines' = [e \in Events |->
             IF e[1] \in Due(force) \ bad /\ pending[e[1]].hash = e[2]
             THEN Append(lines[e], FlushedSim(e[1])) ELSE lines[e]]
        /\ fate' = [e \in Events |->
             IF e[1] \in Due(force) /\ pending[e[1]].hash = e[2]
             THEN IF e[1] \in bad THEN "unwritten" ELSE "written"
             ELSE fate[e]]
  BY DEF Flush
<1>2. ASSUME NEW e \in Events
      PROVE  Len(lines'[e]) = IF fate'[e] = "written" THEN 1 ELSE 0
  <2>1. lines[e] \in Seq(Sims \union {None})
    BY DEF TypeOK
  <2>2. CASE e[1] \in Due(force) /\ InMap(e)
    <3>1. Len(lines[e]) = 0
      BY <2>2 DEF Placed, WrittenOnce
    <3>2. FlushedSim(e[1]) \in Sims \union {None}
      BY EventParts DEF TypeOK, FlushedSim
    <3>3. Len(Append(lines[e], FlushedSim(e[1]))) = 1
      BY <2>1, <3>1, <3>2
    <3>4. QED
      BY <1>1, <2>2, <3>1, <3>3 DEF InMap
  <2>3. CASE ~ (e[1] \in Due(force) /\ InMap(e))
    BY <1>1, <2>3 DEF InMap, WrittenOnce
  <2>4. QED
    BY <2>2, <2>3
<1>3. QED
  BY <1>2 DEF WrittenOnce

\* Only a flush writes, or gives an event the outcome "written".
LEMMA WrittenInductive ==
  TypeOK /\ Placed /\ WrittenOnce /\ [Next]_vars => WrittenOnce'
<1> SUFFICES ASSUME TypeOK, Placed, WrittenOnce, [Next]_vars PROVE WrittenOnce'
  OBVIOUS
<1>1. ASSUME UNCHANGED lines,
             \A e \in Events : fate'[e] = "written" <=> fate[e] = "written"
      PROVE  WrittenOnce'
  BY <1>1 DEF WrittenOnce
<1>2. ASSUME NEW e \in Events, RecordHash(e) PROVE WrittenOnce'
  BY <1>1, <1>2 DEF RecordHash, TypeOK
<1>3. CASE TakeHash
  <2>1. Head(hashCh) \in Events /\ fate[Head(hashCh)] = "queued"
    <3>1. Occurs(Head(hashCh), hashCh)
      BY <1>3, ReceiveRemovesHead DEF TakeHash, TypeOK, Placed
    <3>2. Head(hashCh) \in Events
      BY <1>3 DEF TakeHash, TypeOK
    <3>3. QED
      BY <3>1, <3>2 DEF Placed, InChannel
  <2>2. ASSUME NEW e \in Events, Waits(e[1]), e = <<e[1], pending[e[1]].hash>>
        PROVE  fate[e] = "pending"
    BY <2>2, EventParts DEF Placed, InMap
  <2>3. ASSUME NEW e \in Events
        PROVE  fate'[e] = "written" <=> fate[e] = "written"
    <3> DEFINE h == Head(hashCh)
               old == <<h[1], pending[h[1]].hash>>
    <3>1. fate'[e] = IF e = h THEN "pending"
                     ELSE IF Waits(h[1]) /\ e = old THEN "overwritten"
                     ELSE fate[e]
      BY <1>3 DEF TakeHash
    <3>2. CASE e = h
      BY <2>1, <3>1, <3>2
    <3>3. CASE e # h /\ Waits(h[1]) /\ e = old
      BY <2>2, <3>1, <3>3
    <3>4. CASE e # h /\ ~(Waits(h[1]) /\ e = old)
      BY <3>1, <3>4
    <3>5. QED
      BY <3>2, <3>3, <3>4
  <2>4. QED
    BY <1>1, <1>3, <2>3 DEF TakeHash
<1>4. CASE PeriodicFlush \/ FinalFlush
  BY <1>4, FlushWrites DEF PeriodicFlush, FinalFlush
<1>5. ASSUME NEW s \in SimEvents, RecordSim(s) PROVE WrittenOnce'
  BY <1>1, <1>5 DEF RecordSim
<1>6. CASE Begin \/ TakeSim \/ Tick \/ Stop \/ Exit
  BY <1>1, <1>6 DEF Begin, TakeSim, Tick, Stop, Exit
<1>7. CASE Ended \/ UNCHANGED vars
  BY <1>1, <1>7 DEF Ended, vars
<1>8. QED
  BY <1>2, <1>3, <1>4, <1>5, <1>6, <1>7 DEF Next

\* A hash event is on disk exactly once if it was written, and else not at
\* all: no flush repeats or invents a line.
THEOREM WrittenAtMostOnce == Spec => []WrittenOnce
<1>1. Init => WrittenOnce
  BY DEF Init, WrittenOnce
<1>2. QED
  BY <1>1, TypeCorrect, PlacedAlways, WrittenInductive, PTL DEF Spec

-----------------------------------------------------------------------------
(* Hashes and results *)

\* A flush forgets what it takes, and the cache only loses results.
LEMMA FlushKeepsMatch ==
  ASSUME TypeOK, PendingMatchesCache, NEW force \in BOOLEAN, Flush(force)
  PROVE  PendingMatchesCache'
<1>1. pending' = Forget(Due(force)) /\ simCache' = Evicted
  BY DEF Flush
<1>2. SUFFICES ASSUME NEW k \in Keys, Waits(k)', simCache'[k[1]].sim # None
               PROVE  pending'[k].sim = simCache'[k[1]].sim
  BY DEF PendingMatchesCache
<1>3. k[1] \in Ids
  BY DEF Keys
<1>4. pending'[k] = pending[k]
  BY <1>1, <1>2 DEF Waits, Forget, NoEntry
<1>5. simCache'[k[1]] = simCache[k[1]]
  BY <1>1, <1>2, <1>3 DEF Evicted, NoSim
<1>6. QED
  BY <1>2, <1>4, <1>5 DEF PendingMatchesCache, Waits

\* Both orders of arrival bring the result to the record.
LEMMA MatchInductive ==
  TypeOK /\ PendingMatchesCache /\ [Next]_vars => PendingMatchesCache'
<1> SUFFICES ASSUME TypeOK, PendingMatchesCache, [Next]_vars
             PROVE  PendingMatchesCache'
  OBVIOUS
<1>a. \A k \in Keys : k[1] \in Ids
  BY DEF Keys
<1>1. ASSUME UNCHANGED maps PROVE PendingMatchesCache'
  BY <1>1 DEF maps, PendingMatchesCache, Waits
<1>2. CASE TakeHash
  BY <1>2, <1>a DEF TakeHash, Prefilled, PendingMatchesCache, Waits, TypeOK
<1>3. CASE TakeSim
  <2> DEFINE s == Head(simCh)
  <2>1. /\ s[1] \in Ids
        /\ simCache' = [simCache EXCEPT ![s[1]] = [sim |-> s[2], age |-> 0]]
        /\ pending' = [k \in Keys |-> Enriched(k, s)]
    BY <1>3 DEF TakeSim, TypeOK, SimEvents
  <2>2. SUFFICES ASSUME NEW k \in Keys, Waits(k)', simCache'[k[1]].sim # None
                 PROVE  pending'[k].sim = simCache'[k[1]].sim
    BY DEF PendingMatchesCache
  <2>3. Waits(k)
    BY <2>1, <2>2 DEF Waits, Enriched
  <2>4. CASE k[1] = s[1]
    BY <2>1, <2>3, <2>4, <1>a DEF Enriched, TypeOK
  <2>5. CASE k[1] # s[1]
    BY <2>1, <2>2, <2>3, <2>5, <1>a
       DEF Enriched, TypeOK, PendingMatchesCache
  <2>6. QED
    BY <2>4, <2>5
<1>4. CASE PeriodicFlush \/ FinalFlush
  BY <1>4, FlushKeepsMatch DEF PeriodicFlush, FinalFlush
<1>5. CASE Tick
  BY <1>5, <1>a DEF Tick, PendingMatchesCache, Waits, TypeOK
<1>6. ASSUME NEW e \in Events, RecordHash(e) PROVE PendingMatchesCache'
  BY <1>1, <1>6 DEF RecordHash
<1>7. CASE Begin \/ Stop \/ Exit
  BY <1>1, <1>7 DEF Begin, Stop, Exit
<1>8. CASE Ended \/ UNCHANGED vars
  BY <1>1, <1>8 DEF Ended, vars
<1>9. ASSUME NEW s \in SimEvents, RecordSim(s) PROVE PendingMatchesCache'
  BY <1>1, <1>9 DEF RecordSim
<1>10. QED
  BY <1>2, <1>3, <1>4, <1>5, <1>6, <1>7, <1>8, <1>9 DEF Next

\* Whichever of hash and result comes first, a record that waits carries the
\* result that is in the cache.
THEOREM MatchesCache == Spec => []PendingMatchesCache
<1>1. Init => PendingMatchesCache
  BY DEF Init, PendingMatchesCache, Waits, NoEntry
<1>2. QED
  BY <1>1, TypeCorrect, MatchInductive, PTL DEF Spec

\* The record of e waits and carries a result.
Joined(e) == fate[e] = "pending" /\ pending[e[1]].sim # None

\* What a step may do to a joined record.
KeepsJoin(e) ==
  \/ fate'[e] = "pending" /\ pending'[e[1]].sim # None
  \/ fate'[e] = "written" /\ lines'[e][1] # None
  \/ fate'[e] \in {"overwritten", "unwritten"}

\* A flush writes the result that was joined, or the one in the cache.
LEMMA FlushKeepsJoin ==
  ASSUME TypeOK, Placed, WrittenOnce, NEW force \in BOOLEAN, Flush(force),
         NEW e \in Events, Joined(e)
  PROVE  KeepsJoin(e)
<1>1. PICK bad \in SUBSET Due(force) :
        /\ lines' = [d \in Events |->
             IF d[1] \in Due(force) \ bad /\ pending[d[1]].hash = d[2]
             THEN Append(lines[d], FlushedSim(d[1])) ELSE lines[d]]
        /\ fate' = [d \in Events |->
             IF d[1] \in Due(force) /\ pending[d[1]].hash = d[2]
             THEN IF d[1] \in bad THEN "unwritten" ELSE "written"
             ELSE fate[d]]
        /\ pending' = Forget(Due(force))
  BY DEF Flush
<1>2. InMap(e)
  BY DEF Joined, Placed
<1>3. CASE e[1] \notin Due(force)
  BY <1>1, <1>3, EventParts DEF Joined, KeepsJoin, Forget
<1>4. CASE e[1] \in bad
  BY <1>1, <1>2, <1>4 DEF InMap, KeepsJoin
<1>5. CASE e[1] \in Due(force) \ bad
  <2>1. lines[e] \in Seq(Sims \union {None}) /\ Len(lines[e]) = 0
    BY DEF Joined, WrittenOnce, TypeOK
  <2>2. /\ FlushedSim(e[1]) \in Sims \union {None}
        /\ FlushedSim(e[1]) # None
    BY EventParts DEF Joined, FlushedSim, TypeOK
  <2>3. Append(lines[e], FlushedSim(e[1]))[1] = FlushedSim(e[1])
    BY <2>1, <2>2
  <2>4. QED
    BY <1>1, <1>2, <1>5, <2>2, <2>3 DEF InMap, KeepsJoin
<1>6. QED
  BY <1>3, <1>4, <1>5

\* No step takes its result from a record that waits.
LEMMA JoinStep ==
  ASSUME TypeOK, Placed, WrittenOnce, [Next]_vars, NEW e \in Events, Joined(e)
  PROVE  KeepsJoin(e)
<1>a. e[1] \in Keys /\ InMap(e) /\ Waits(e[1])
  BY EventParts DEF Joined, Placed, InMap, Waits
<1>1. ASSUME UNCHANGED pending, fate'[e] = fate[e] PROVE KeepsJoin(e)
  BY <1>1 DEF Joined, KeepsJoin
<1>2. ASSUME NEW f \in Events, RecordHash(f) PROVE KeepsJoin(e)
  BY <1>1, <1>2 DEF RecordHash, Joined, TypeOK, maps
<1>3. CASE TakeHash
  <2> DEFINE h == Head(hashCh)
  <2>1. h \in Events /\ fate[h] = "queued"
    <3>1. Occurs(h, hashCh)
      BY <1>3, ReceiveRemovesHead DEF TakeHash, TypeOK, Placed
    <3>2. h \in Events
      BY <1>3 DEF TakeHash, TypeOK
    <3>3. QED
      BY <3>1, <3>2 DEF Placed, InChannel
  <2>2. e # h
    BY <2>1 DEF Joined
  <2>3. CASE h[1] = e[1]
    <3>1. e = <<h[1], pending[h[1]].hash>>
      BY <1>a, <2>3, EventParts DEF InMap
    <3>2. QED
      BY <1>3, <1>a, <2>2, <2>3, <3>1 DEF TakeHash, KeepsJoin
  <2>4. CASE h[1] # e[1]
    BY <1>3, <1>a, <2>1, <2>2, <2>4, EventParts
       DEF TakeHash, Joined, KeepsJoin, TypeOK
  <2>5. QED
    BY <2>3, <2>4
<1>4. CASE TakeSim
  <2>1. Head(simCh)[2] \in Sims
    BY <1>4 DEF TakeSim, TypeOK, SimEvents
  <2>2. pending'[e[1]].sim # None
    BY <1>4, <1>a, <2>1, NoneAssumption DEF TakeSim, Enriched, Joined, TypeOK
  <2>3. QED
    BY <1>4, <2>2 DEF TakeSim, Joined, KeepsJoin
<1>5. CASE PeriodicFlush \/ FinalFlush
  BY <1>5, FlushKeepsJoin DEF PeriodicFlush, FinalFlush
<1>6. CASE Tick
  BY <1>6, <1>a DEF Tick, Joined, KeepsJoin, TypeOK
<1>7. ASSUME NEW s \in SimEvents, RecordSim(s) PROVE KeepsJoin(e)
  BY <1>1, <1>7 DEF RecordSim, maps
<1>8. CASE Begin \/ Stop \/ Exit
  BY <1>1, <1>8 DEF Begin, Stop, Exit, maps
<1>9. CASE Ended \/ UNCHANGED vars
  BY <1>1, <1>9 DEF Ended, vars, maps
<1>10. QED
  BY <1>2, <1>3, <1>4, <1>5, <1>6, <1>7, <1>8, <1>9 DEF Next

\* A result joined to a waiting record stays with it until the record is
\* written, whatever the cache evicts meanwhile.
THEOREM JoinKept == Spec => JoinIsKept
<1>1. TypeOK /\ Placed /\ WrittenOnce /\ [Next]_vars
        => [\A e \in Events :
              fate[e] = "pending" /\ pending[e[1]].sim # None
                => \/ fate'[e] = "pending" /\ pending'[e[1]].sim # None
                   \/ fate'[e] = "written" /\ lines'[e][1] # None
                   \/ fate'[e] \in {"overwritten", "unwritten"}]_vars
  BY JoinStep DEF Joined, KeepsJoin
<1>2. QED
  BY <1>1, TypeCorrect, PlacedAlways, WrittenAtMostOnce, PTL
     DEF Spec, JoinIsKept
=============================================================================
