-------------------------- MODULE RelayClientProofs --------------------------
(***************************************************************************)
(* Proofs about RelayClient, for any sets of bundles, relays and buffers,  *)
(* any number of attempts, any cooldowns and any end of time.              *)
(***************************************************************************)
EXTENDS RelayClient, FiniteSetTheorems, TLAPS

\* A call is one bundle at one relay.
LEMMA PairParts ==
  ASSUME NEW p \in Pairs
  PROVE  p[1] \in Bundles /\ p[2] \in Relays /\ p = <<p[1], p[2]>>
BY DEF Pairs

\* A cooldown takes some time, whether it is configured or the default.
LEMMA CooldownType ==
  ASSUME NEW r \in Relays
  PROVE  Cooldown(r) \in Nat \ {0}
BY CooldownAssumption DEF Cooldown

-----------------------------------------------------------------------------
(* Types *)

\* A bundle whose broadcast has not begun has no calls.
NotStarted == \A p \in Pairs : cast[p[1]] = "off" => call[p] = "off"

\* A call that can still enter client.Do has an attempt left.
AttemptLeft ==
  \A p \in Pairs :
    call[p] \in {"off", "check", "build", "do"} => attempts[p] < MaxRetries

Typed == TypeOK /\ NotStarted /\ AttemptLeft

\* The initial state has its types.
LEMMA TypedInit == Init => Typed
<1> SUFFICES ASSUME Init PROVE Typed
  OBVIOUS
<1> USE DEF Init
<1>1. NotStarted /\ AttemptLeft
  BY RetriesAssumption DEF NotStarted, AttemptLeft
<1>2. /\ now \in Nat /\ cancelled \in BOOLEAN
      /\ cast \in [Bundles -> {"off", "running", "done"}]
      /\ call \in [Pairs -> Places]
  BY DEF Places
<1>3. /\ attempts \in [Pairs -> 0 .. MaxRetries]
      /\ status \in [Pairs -> Statuses \union {"none"}]
      /\ until \in [Pairs -> Nat]
      /\ pool \in SUBSET Buffers
      /\ buf \in [Pairs -> Buffers \union {None}]
  BY RetriesAssumption
<1>4. /\ rateLimitedUntil \in [Relays -> Nat]
      /\ sent \in [Relays -> Nat]
      /\ failed \in [Relays -> Nat]
      /\ limited \in [Relays -> Nat]
  OBVIOUS
<1>5. /\ events \in SUBSET Pairs
      /\ loose \in [Pairs -> Nat]
      /\ reached \in [Pairs -> Nat]
      /\ settled \in SUBSET Pairs
      /\ verdict \in [Pairs -> Verdicts]
  BY DEF Verdicts
<1>6. QED
  BY <1>1, <1>2, <1>3, <1>4, <1>5 DEF Typed, TypeOK

\* Every step keeps the types, and the places they depend on.
LEMMA TypedStep == Typed /\ [Next]_vars => Typed'
<1> SUFFICES ASSUME Typed, [Next]_vars PROVE Typed'
  OBVIOUS
<1> USE DEF Typed, TypeOK, NotStarted, AttemptLeft, env, local, buffers,
            counters, network, Goto, Continue, Inc
<1>1. ASSUME NEW b \in Bundles, StartBroadcast(b) PROVE Typed'
  BY <1>1, PairParts DEF StartBroadcast, Places
<1>2. ASSUME NEW b \in Bundles, FinishBroadcast(b) PROVE Typed'
  BY <1>2, PairParts DEF FinishBroadcast
<1>3. ASSUME NEW p \in Pairs, Skip(p) PROVE Typed'
  BY <1>3, PairParts DEF Skip, End, Limit, Places, Verdicts
<1>4. ASSUME NEW p \in Pairs, Pass(p) PROVE Typed'
  BY <1>4 DEF Pass, Places
<1>5. ASSUME NEW p \in Pairs, BuildFails(p) PROVE Typed'
  BY <1>5, PairParts DEF BuildFails, Fail, End, Places, Verdicts
<1>6. ASSUME NEW p \in Pairs, Build(p) PROVE Typed'
  BY <1>6 DEF Build, Get, Places
<1>7. ASSUME NEW p \in Pairs, Do(p) PROVE Typed'
  <2>1. attempts' \in [Pairs -> 0 .. MaxRetries]
    BY <1>7, RetriesAssumption DEF Do
  <2>2. CASE Continue(p, "flight")
    BY <1>7, <2>1, <2>2 DEF Do, Places
  <2>3. CASE Fail(p)
    BY <1>7, <2>1, <2>3, PairParts DEF Do, Fail, End, Places, Verdicts
  <2>4. QED
    BY <1>7, <2>2, <2>3 DEF Do
<1>8. ASSUME NEW p \in Pairs, Reach(p) PROVE Typed'
  BY <1>8 DEF Reach, Places
<1>9. ASSUME NEW p \in Pairs, LateReach(p) PROVE Typed'
  BY <1>9 DEF LateReach
<1>10. ASSUME NEW p \in Pairs, NEW s \in Statuses, Answer(p, s) PROVE Typed'
  BY <1>10 DEF Answer, Forsake, Places
<1>11. ASSUME NEW p \in Pairs, ConnFails(p) PROVE Typed'
  <2>1. loose' \in [Pairs -> Nat]
    BY <1>11 DEF ConnFails, GiveUp, Forsake
  <2>2. CASE MayRetry(p) /\ Continue(p, "do")
    BY <1>11, <2>1, <2>2 DEF ConnFails, InFlight, GiveUp, Forsake, MayRetry, Places
  <2>3. CASE Fail(p)
    BY <1>11, <2>1, <2>3, PairParts
       DEF ConnFails, InFlight, GiveUp, Forsake, Fail, End, Places, Verdicts
  <2>4. QED
    BY <1>11, <2>2, <2>3 DEF ConnFails, Retry
<1>12. ASSUME NEW p \in Pairs, TimesOut(p) PROVE Typed'
  BY <1>12, PairParts DEF TimesOut, Bounded, InFlight, GiveUp, Forsake, Final, Fail,
       End, Places, Verdicts
<1>13. ASSUME NEW p \in Pairs, Interrupted(p) PROVE Typed'
  BY <1>13, PairParts DEF Interrupted, InFlight, GiveUp, Forsake, Final, Fail, End,
       Places, Verdicts
<1>14. ASSUME NEW p \in Pairs, OtherError(p) PROVE Typed'
  BY <1>14, PairParts DEF OtherError, InFlight, GiveUp, Forsake, Final, Fail, End,
       Places, Verdicts
<1>15. ASSUME NEW p \in Pairs, Accepted(p) PROVE Typed'
  BY <1>15, PairParts DEF Accepted, End, Places, Verdicts
<1>16. ASSUME NEW p \in Pairs, Rejected(p) PROVE Typed'
  BY <1>16, PairParts DEF Rejected, Fail, End, Places, Verdicts
<1>17. ASSUME NEW p \in Pairs, ReadClock(p) PROVE Typed'
  BY <1>17, PairParts, CooldownType DEF ReadClock, CooldownEnd, Places
<1>18. ASSUME NEW p \in Pairs, StoreCooldown(p) PROVE Typed'
  BY <1>18, PairParts DEF StoreCooldown, Cool, End, Limit, Places, Verdicts
<1>19. CASE Cancel
  BY <1>19 DEF Cancel
<1>20. CASE Tick
  BY <1>20 DEF Tick
<1>21. CASE Idle \/ UNCHANGED vars
  BY <1>21 DEF Idle, vars
<1>22. QED
  BY <1>1, <1>2, <1>3, <1>4, <1>5, <1>6, <1>7, <1>8, <1>9, <1>10, <1>11,
       <1>12, <1>13, <1>14, <1>15, <1>16, <1>17, <1>18, <1>19, <1>20, <1>21
       DEF Next, Run, Network

\* Every variable of RelayClient always has its type; in particular no call
\* makes more than maxRetries attempts.
THEOREM TypeCorrect == Spec => []TypeOK
<1>1. Spec => []Typed
  BY TypedInit, TypedStep, PTL DEF Spec
<1>2. Typed => TypeOK
  BY DEF Typed
<1>3. QED
  BY <1>1, <1>2, PTL

-----------------------------------------------------------------------------
(* Attempts *)

\* Each request that arrived, is loose or is in flight was an attempt.
RequestsAreAttempts ==
  \A p \in Pairs :
    reached[p] + loose[p] + (IF call[p] = "flight" THEN 1 ELSE 0) <= attempts[p]

\* Every step keeps the requests within the attempts.
LEMMA RequestsStep ==
  Typed /\ RequestsAreAttempts /\ [Next]_vars => RequestsAreAttempts'
<1> SUFFICES ASSUME Typed, RequestsAreAttempts, [Next]_vars
             PROVE  RequestsAreAttempts'
  OBVIOUS
<1> USE DEF Typed, TypeOK, NotStarted, RequestsAreAttempts, env, local,
            network, Goto, Continue, Inc
<1>1. ASSUME NEW b \in Bundles, StartBroadcast(b) PROVE RequestsAreAttempts'
  BY <1>1, PairParts DEF StartBroadcast
<1>2. ASSUME NEW b \in Bundles, FinishBroadcast(b) PROVE RequestsAreAttempts'
  BY <1>2 DEF FinishBroadcast
<1>3. ASSUME NEW p \in Pairs, Skip(p) PROVE RequestsAreAttempts'
  BY <1>3 DEF Skip, End
<1>4. ASSUME NEW p \in Pairs, Pass(p) PROVE RequestsAreAttempts'
  BY <1>4 DEF Pass
<1>5. ASSUME NEW p \in Pairs, BuildFails(p) PROVE RequestsAreAttempts'
  BY <1>5 DEF BuildFails, Fail, End
<1>6. ASSUME NEW p \in Pairs, Build(p) PROVE RequestsAreAttempts'
  BY <1>6 DEF Build
<1>7. ASSUME NEW p \in Pairs, Do(p) PROVE RequestsAreAttempts'
  BY <1>7 DEF Do, Fail, End
<1>8. ASSUME NEW p \in Pairs, Reach(p) PROVE RequestsAreAttempts'
  BY <1>8 DEF Reach
<1>9. ASSUME NEW p \in Pairs, LateReach(p) PROVE RequestsAreAttempts'
  BY <1>9 DEF LateReach
<1>10. ASSUME NEW p \in Pairs, NEW s \in Statuses, Answer(p, s)
       PROVE  RequestsAreAttempts'
  BY <1>10 DEF Answer, Forsake
<1>11. ASSUME NEW p \in Pairs, ConnFails(p) PROVE RequestsAreAttempts'
  BY <1>11 DEF ConnFails, InFlight, GiveUp, Forsake, Retry, Fail, End
<1>12. ASSUME NEW p \in Pairs, TimesOut(p) PROVE RequestsAreAttempts'
  BY <1>12 DEF TimesOut, Bounded, InFlight, GiveUp, Forsake, Final, Fail, End
<1>13. ASSUME NEW p \in Pairs, Interrupted(p) PROVE RequestsAreAttempts'
  BY <1>13 DEF Interrupted, InFlight, GiveUp, Forsake, Final, Fail, End
<1>14. ASSUME NEW p \in Pairs, OtherError(p) PROVE RequestsAreAttempts'
  BY <1>14 DEF OtherError, InFlight, GiveUp, Forsake, Final, Fail, End
<1>15. ASSUME NEW p \in Pairs, Accepted(p) PROVE RequestsAreAttempts'
  BY <1>15 DEF Accepted, End
<1>16. ASSUME NEW p \in Pairs, Rejected(p) PROVE RequestsAreAttempts'
  BY <1>16 DEF Rejected, Fail, End
<1>17. ASSUME NEW p \in Pairs, ReadClock(p) PROVE RequestsAreAttempts'
  BY <1>17 DEF ReadClock
<1>18. ASSUME NEW p \in Pairs, StoreCooldown(p) PROVE RequestsAreAttempts'
  BY <1>18 DEF StoreCooldown, End
<1>19. CASE Cancel
  BY <1>19 DEF Cancel
<1>20. CASE Tick
  BY <1>20 DEF Tick
<1>21. CASE Idle \/ UNCHANGED vars
  BY <1>21 DEF Idle, vars
<1>22. QED
  BY <1>1, <1>2, <1>3, <1>4, <1>5, <1>6, <1>7, <1>8, <1>9, <1>10, <1>11,
       <1>12, <1>13, <1>14, <1>15, <1>16, <1>17, <1>18, <1>19, <1>20, <1>21
       DEF Next, Run, Network

\* A bundle reaches a relay at most maxRetries times, late requests included.
THEOREM DuplicatesBounded == Spec => []DuplicatesAreBounded
<1>1. Init => RequestsAreAttempts
  BY DEF Init, RequestsAreAttempts
<1>2. Typed /\ RequestsAreAttempts => DuplicatesAreBounded
  BY RetriesAssumption
     DEF Typed, TypeOK, RequestsAreAttempts, DuplicatesAreBounded
<1>3. QED
  BY <1>1, <1>2, TypedInit, TypedStep, RequestsStep, PTL DEF Spec

\* A call that was answered or has timed out is past its last client.Do.
SettledIsLast == \A p \in settled : call[p] \in {"answered", "store", "done"}

\* A settled call never gets back to a place from which it can try again.
LEMMA SettledStep ==
  Typed /\ SettledIsLast /\ [Next]_vars => SettledIsLast'
<1> SUFFICES ASSUME Typed, SettledIsLast, [Next]_vars PROVE SettledIsLast'
  OBVIOUS
<1> USE DEF Typed, TypeOK, NotStarted, SettledIsLast, Goto, Continue
<1>1. ASSUME NEW b \in Bundles, StartBroadcast(b) PROVE SettledIsLast'
  BY <1>1, PairParts DEF StartBroadcast
<1>2. ASSUME NEW b \in Bundles, FinishBroadcast(b) PROVE SettledIsLast'
  BY <1>2 DEF FinishBroadcast
<1>3. ASSUME NEW p \in Pairs, Skip(p) PROVE SettledIsLast'
  BY <1>3 DEF Skip, End
<1>4. ASSUME NEW p \in Pairs, Pass(p) PROVE SettledIsLast'
  BY <1>4 DEF Pass
<1>5. ASSUME NEW p \in Pairs, BuildFails(p) PROVE SettledIsLast'
  BY <1>5 DEF BuildFails, Fail, End
<1>6. ASSUME NEW p \in Pairs, Build(p) PROVE SettledIsLast'
  BY <1>6 DEF Build
<1>7. ASSUME NEW p \in Pairs, Do(p) PROVE SettledIsLast'
  BY <1>7 DEF Do, Fail, End
<1>8. ASSUME NEW p \in Pairs, Reach(p) PROVE SettledIsLast'
  BY <1>8 DEF Reach
<1>9. ASSUME NEW p \in Pairs, LateReach(p) PROVE SettledIsLast'
  BY <1>9 DEF LateReach
<1>10. ASSUME NEW p \in Pairs, NEW s \in Statuses, Answer(p, s) PROVE SettledIsLast'
  BY <1>10 DEF Answer
<1>11. ASSUME NEW p \in Pairs, ConnFails(p) PROVE SettledIsLast'
  BY <1>11 DEF ConnFails, InFlight, GiveUp, Retry, Fail, End
<1>12. ASSUME NEW p \in Pairs, TimesOut(p) PROVE SettledIsLast'
  BY <1>12 DEF TimesOut, Bounded, InFlight, GiveUp, Final, Fail, End
<1>13. ASSUME NEW p \in Pairs, Interrupted(p) PROVE SettledIsLast'
  BY <1>13 DEF Interrupted, InFlight, GiveUp, Final, Fail, End
<1>14. ASSUME NEW p \in Pairs, OtherError(p) PROVE SettledIsLast'
  BY <1>14 DEF OtherError, InFlight, GiveUp, Final, Fail, End
<1>15. ASSUME NEW p \in Pairs, Accepted(p) PROVE SettledIsLast'
  BY <1>15 DEF Accepted, End
<1>16. ASSUME NEW p \in Pairs, Rejected(p) PROVE SettledIsLast'
  BY <1>16 DEF Rejected, Fail, End
<1>17. ASSUME NEW p \in Pairs, ReadClock(p) PROVE SettledIsLast'
  BY <1>17 DEF ReadClock
<1>18. ASSUME NEW p \in Pairs, StoreCooldown(p) PROVE SettledIsLast'
  BY <1>18 DEF StoreCooldown, End
<1>19. CASE Cancel
  BY <1>19 DEF Cancel
<1>20. CASE Tick
  BY <1>20 DEF Tick
<1>21. CASE Idle \/ UNCHANGED vars
  BY <1>21 DEF Idle, vars
<1>22. QED
  BY <1>1, <1>2, <1>3, <1>4, <1>5, <1>6, <1>7, <1>8, <1>9, <1>10, <1>11,
       <1>12, <1>13, <1>14, <1>15, <1>16, <1>17, <1>18, <1>19, <1>20, <1>21
       DEF Next, Run, Network

\* Only a call that is about to enter client.Do makes an attempt.
LEMMA OnlyDoAttempts ==
  Typed /\ [Next]_vars
    => \A q \in Pairs : call[q] = "do" \/ attempts'[q] = attempts[q]
<1> SUFFICES ASSUME Typed, [Next]_vars, NEW q \in Pairs
             PROVE  call[q] = "do" \/ attempts'[q] = attempts[q]
  OBVIOUS
<1> DEFINE Attempts == call[q] = "do" \/ attempts'[q] = attempts[q]
<1> USE DEF Typed, TypeOK, local
<1>1. ASSUME NEW b \in Bundles, StartBroadcast(b) PROVE Attempts
  BY <1>1 DEF StartBroadcast
<1>2. ASSUME NEW b \in Bundles, FinishBroadcast(b) PROVE Attempts
  BY <1>2 DEF FinishBroadcast
<1>3. ASSUME NEW p \in Pairs, Skip(p) PROVE Attempts
  BY <1>3 DEF Skip
<1>4. ASSUME NEW p \in Pairs, Pass(p) PROVE Attempts
  BY <1>4 DEF Pass
<1>5. ASSUME NEW p \in Pairs, BuildFails(p) PROVE Attempts
  BY <1>5 DEF BuildFails
<1>6. ASSUME NEW p \in Pairs, Build(p) PROVE Attempts
  BY <1>6 DEF Build
<1>7. ASSUME NEW p \in Pairs, Do(p) PROVE Attempts
  BY <1>7 DEF Do, Inc
<1>8. ASSUME NEW p \in Pairs, Reach(p) PROVE Attempts
  BY <1>8 DEF Reach
<1>9. ASSUME NEW p \in Pairs, LateReach(p) PROVE Attempts
  BY <1>9 DEF LateReach
<1>10. ASSUME NEW p \in Pairs, NEW s \in Statuses, Answer(p, s) PROVE Attempts
  BY <1>10 DEF Answer
<1>11. ASSUME NEW p \in Pairs, ConnFails(p) PROVE Attempts
  BY <1>11 DEF ConnFails, GiveUp
<1>12. ASSUME NEW p \in Pairs, TimesOut(p) PROVE Attempts
  BY <1>12 DEF TimesOut, GiveUp
<1>13. ASSUME NEW p \in Pairs, Interrupted(p) PROVE Attempts
  BY <1>13 DEF Interrupted, GiveUp
<1>14. ASSUME NEW p \in Pairs, OtherError(p) PROVE Attempts
  BY <1>14 DEF OtherError, GiveUp
<1>15. ASSUME NEW p \in Pairs, Accepted(p) PROVE Attempts
  BY <1>15 DEF Accepted
<1>16. ASSUME NEW p \in Pairs, Rejected(p) PROVE Attempts
  BY <1>16 DEF Rejected
<1>17. ASSUME NEW p \in Pairs, ReadClock(p) PROVE Attempts
  BY <1>17 DEF ReadClock
<1>18. ASSUME NEW p \in Pairs, StoreCooldown(p) PROVE Attempts
  BY <1>18 DEF StoreCooldown
<1>19. CASE Cancel
  BY <1>19 DEF Cancel
<1>20. CASE Tick
  BY <1>20 DEF Tick
<1>21. CASE Idle \/ UNCHANGED vars
  BY <1>21 DEF Idle, vars
<1>22. QED
  BY <1>1, <1>2, <1>3, <1>4, <1>5, <1>6, <1>7, <1>8, <1>9, <1>10, <1>11,
       <1>12, <1>13, <1>14, <1>15, <1>16, <1>17, <1>18, <1>19, <1>20, <1>21
       DEF Next, Run, Network

\* Once the relay has answered, or an attempt has run into its deadline, the
\* call makes no further attempt.
THEOREM NoAttemptAfterAnswer == Spec => NoAttemptAfterSettled
<1>1. Init => SettledIsLast
  BY DEF Init, SettledIsLast
<1>2. Typed /\ SettledIsLast /\ [Next]_vars
        => [\A p \in settled : attempts'[p] = attempts[p]]_vars
  BY OnlyDoAttempts DEF Typed, TypeOK, SettledIsLast
<1>3. QED
  BY <1>1, <1>2, TypedInit, TypedStep, SettledStep, PTL
     DEF Spec, NoAttemptAfterSettled

-----------------------------------------------------------------------------
(* Buffers *)

\* Every step keeps the buffers apart: only Get takes one, from the pool.
LEMMA BuffersStep ==
  Typed /\ BufferIsExclusive /\ [Next]_vars => BufferIsExclusive'
<1> SUFFICES ASSUME Typed, BufferIsExclusive, [Next]_vars
             PROVE  BufferIsExclusive'
  OBVIOUS
<1> USE DEF Typed, TypeOK, BufferIsExclusive, Holds, buffers, Continue,
            Goto
<1>a. ASSUME NEW p \in Pairs, NEW v, call[p] # "done", End(p, v)
      PROVE  BufferIsExclusive'
  BY <1>a, BuffersAssumption DEF End
<1>b. ASSUME UNCHANGED buffers,
             \A p \in Pairs : call[p] = "done" => call'[p] = "done"
      PROVE  BufferIsExclusive'
  BY <1>b
<1>1. ASSUME NEW b \in Bundles, StartBroadcast(b) PROVE BufferIsExclusive'
  BY <1>1, <1>b, PairParts DEF StartBroadcast, NotStarted
<1>2. ASSUME NEW b \in Bundles, FinishBroadcast(b) PROVE BufferIsExclusive'
  BY <1>2, <1>b DEF FinishBroadcast
<1>3. ASSUME NEW p \in Pairs, Skip(p) PROVE BufferIsExclusive'
  BY <1>3, <1>a DEF Skip
<1>4. ASSUME NEW p \in Pairs, Pass(p) PROVE BufferIsExclusive'
  BY <1>4, <1>b DEF Pass
<1>5. ASSUME NEW p \in Pairs, BuildFails(p) PROVE BufferIsExclusive'
  BY <1>5, <1>a DEF BuildFails, Fail
<1>6. ASSUME NEW p \in Pairs, Build(p) PROVE BufferIsExclusive'
  BY <1>6, BuffersAssumption DEF Build, Get
<1>7. ASSUME NEW p \in Pairs, Do(p) PROVE BufferIsExclusive'
  BY <1>7, <1>a, <1>b DEF Do, Fail
<1>8. ASSUME NEW p \in Pairs, Reach(p) PROVE BufferIsExclusive'
  BY <1>8, <1>b DEF Reach
<1>9. ASSUME NEW p \in Pairs, LateReach(p) PROVE BufferIsExclusive'
  BY <1>9, <1>b DEF LateReach
<1>10. ASSUME NEW p \in Pairs, NEW s \in Statuses, Answer(p, s)
       PROVE  BufferIsExclusive'
  BY <1>10, <1>b DEF Answer
<1>11. ASSUME NEW p \in Pairs, ConnFails(p) PROVE BufferIsExclusive'
  BY <1>11, <1>a, <1>b DEF ConnFails, InFlight, Retry, Fail
<1>12. ASSUME NEW p \in Pairs, TimesOut(p) PROVE BufferIsExclusive'
  BY <1>12, <1>a DEF TimesOut, Bounded, InFlight, Final, Fail
<1>13. ASSUME NEW p \in Pairs, Interrupted(p) PROVE BufferIsExclusive'
  BY <1>13, <1>a DEF Interrupted, InFlight, Final, Fail
<1>14. ASSUME NEW p \in Pairs, OtherError(p) PROVE BufferIsExclusive'
  BY <1>14, <1>a DEF OtherError, InFlight, Final, Fail
<1>15. ASSUME NEW p \in Pairs, Accepted(p) PROVE BufferIsExclusive'
  BY <1>15, <1>a DEF Accepted
<1>16. ASSUME NEW p \in Pairs, Rejected(p) PROVE BufferIsExclusive'
  BY <1>16, <1>a DEF Rejected, Fail
<1>17. ASSUME NEW p \in Pairs, ReadClock(p) PROVE BufferIsExclusive'
  BY <1>17, <1>b DEF ReadClock
<1>18. ASSUME NEW p \in Pairs, StoreCooldown(p) PROVE BufferIsExclusive'
  BY <1>18, <1>a DEF StoreCooldown
<1>19. CASE Cancel
  BY <1>19, <1>b DEF Cancel
<1>20. CASE Tick
  BY <1>20, <1>b DEF Tick
<1>21. CASE Idle \/ UNCHANGED vars
  BY <1>21, <1>b DEF Idle, vars
<1>22. QED
  BY <1>1, <1>2, <1>3, <1>4, <1>5, <1>6, <1>7, <1>8, <1>9, <1>10, <1>11,
       <1>12, <1>13, <1>14, <1>15, <1>16, <1>17, <1>18, <1>19, <1>20, <1>21
       DEF Next, Run, Network

\* A buffer holds the request of one call that is under way at a time, and the
\* pool does not give it out before that call has ended.
THEOREM BuffersExclusive == Spec => []BufferIsExclusive
<1>1. Init => BufferIsExclusive
  BY DEF Init, BufferIsExclusive, Holds
<1>2. QED
  BY <1>1, TypedInit, TypedStep, BuffersStep, PTL DEF Spec

-----------------------------------------------------------------------------
(* Cooldowns *)

\* An end of cooldown that was computed, stored or not yet, lies at most one
\* cooldown ahead.
EndsAreNear ==
  /\ \A p \in Pairs : until[p] <= now + Cooldown(p[2])
  /\ CooldownsDoNotAddUp

\* Every step keeps the ends of cooldowns near.
LEMMA EndsStep == Typed /\ EndsAreNear /\ [Next]_vars => EndsAreNear'
<1> SUFFICES ASSUME Typed, EndsAreNear, [Next]_vars PROVE EndsAreNear'
  OBVIOUS
<1> USE DEF Typed, TypeOK, EndsAreNear, CooldownsDoNotAddUp, env, local
<1>a. \A r \in Relays : Cooldown(r) \in Nat /\ Cooldown(r)' = Cooldown(r)
  BY CooldownType DEF Cooldown
<1>b. ASSUME UNCHANGED <<now, until, rateLimitedUntil>> PROVE EndsAreNear'
  BY <1>a, <1>b, PairParts
<1>1. ASSUME NEW b \in Bundles, StartBroadcast(b) PROVE EndsAreNear'
  BY <1>1, <1>b DEF StartBroadcast
<1>2. ASSUME NEW b \in Bundles, FinishBroadcast(b) PROVE EndsAreNear'
  BY <1>2, <1>b DEF FinishBroadcast
<1>3. ASSUME NEW p \in Pairs, Skip(p) PROVE EndsAreNear'
  BY <1>3, <1>b DEF Skip
<1>4. ASSUME NEW p \in Pairs, Pass(p) PROVE EndsAreNear'
  BY <1>4, <1>b DEF Pass
<1>5. ASSUME NEW p \in Pairs, BuildFails(p) PROVE EndsAreNear'
  BY <1>5, <1>b DEF BuildFails
<1>6. ASSUME NEW p \in Pairs, Build(p) PROVE EndsAreNear'
  BY <1>6, <1>b DEF Build
<1>7. ASSUME NEW p \in Pairs, Do(p) PROVE EndsAreNear'
  BY <1>7, <1>b DEF Do
<1>8. ASSUME NEW p \in Pairs, Reach(p) PROVE EndsAreNear'
  BY <1>8, <1>b DEF Reach
<1>9. ASSUME NEW p \in Pairs, LateReach(p) PROVE EndsAreNear'
  BY <1>9, <1>b DEF LateReach
<1>10. ASSUME NEW p \in Pairs, NEW s \in Statuses, Answer(p, s) PROVE EndsAreNear'
  BY <1>10, <1>b DEF Answer
<1>11. ASSUME NEW p \in Pairs, ConnFails(p) PROVE EndsAreNear'
  BY <1>11, <1>b DEF ConnFails, GiveUp
<1>12. ASSUME NEW p \in Pairs, TimesOut(p) PROVE EndsAreNear'
  BY <1>12, <1>b DEF TimesOut, GiveUp
<1>13. ASSUME NEW p \in Pairs, Interrupted(p) PROVE EndsAreNear'
  BY <1>13, <1>b DEF Interrupted, GiveUp
<1>14. ASSUME NEW p \in Pairs, OtherError(p) PROVE EndsAreNear'
  BY <1>14, <1>b DEF OtherError, GiveUp
<1>15. ASSUME NEW p \in Pairs, Accepted(p) PROVE EndsAreNear'
  BY <1>15, <1>b DEF Accepted
<1>16. ASSUME NEW p \in Pairs, Rejected(p) PROVE EndsAreNear'
  BY <1>16, <1>b DEF Rejected
<1>17. ASSUME NEW p \in Pairs, ReadClock(p) PROVE EndsAreNear'
  BY <1>17, <1>a, PairParts DEF ReadClock, CooldownEnd
<1>18. ASSUME NEW p \in Pairs, StoreCooldown(p) PROVE EndsAreNear'
  BY <1>18, <1>a, PairParts DEF StoreCooldown, Cool
<1>19. CASE Cancel
  BY <1>19, <1>b DEF Cancel
<1>20. CASE Tick
  BY <1>20, <1>a, PairParts DEF Tick
<1>21. CASE Idle \/ UNCHANGED vars
  BY <1>21, <1>b DEF Idle, vars
<1>22. QED
  BY <1>1, <1>2, <1>3, <1>4, <1>5, <1>6, <1>7, <1>8, <1>9, <1>10, <1>11,
       <1>12, <1>13, <1>14, <1>15, <1>16, <1>17, <1>18, <1>19, <1>20, <1>21
       DEF Next, Run, Network

\* However many calls run into a 429 at once, a relay is never closed for
\* longer than one cooldown from now.
THEOREM CooldownsBounded == Spec => []CooldownsDoNotAddUp
<1>1. Init => EndsAreNear
  BY CooldownType, PairParts DEF Init, EndsAreNear, CooldownsDoNotAddUp
<1>2. EndsAreNear => CooldownsDoNotAddUp
  BY DEF EndsAreNear
<1>3. QED
  BY <1>1, <1>2, TypedInit, TypedStep, EndsStep, PTL DEF Spec

\* A call has a status from its answer on, and stores a deadline after a 429
\* only.
StatusFits ==
  \A p \in Pairs :
    /\ status[p] # "none" => call[p] \in {"answered", "store", "done"}
    /\ call[p] = "store" => status[p] = "429"

\* The relay has answered 429 to some call.
Answered429(r) == \E p \in Pairs : p[2] = r /\ status[p] = "429"

\* The inductive form of CooldownIsPerRelay.
CooledByItsOwn ==
  /\ StatusFits
  /\ \A r \in Relays :
       rateLimitedUntil[r] > 0 \/ limited[r] > 0 => Answered429(r)

\* A status is set by the answer of the relay and never again.
LEMMA OnlyAnswersSetStatus ==
  [Next]_vars =>
    UNCHANGED status \/ \E p \in Pairs, s \in Statuses : Answer(p, s)
<1> DEFINE Kept ==
      UNCHANGED status \/ \E p \in Pairs, s \in Statuses : Answer(p, s)
<1> SUFFICES ASSUME [Next]_vars PROVE Kept
  OBVIOUS
<1> USE DEF env, local
<1>1. ASSUME NEW b \in Bundles, StartBroadcast(b) \/ FinishBroadcast(b)
      PROVE  Kept
  BY <1>1 DEF StartBroadcast, FinishBroadcast
<1>2. ASSUME NEW p \in Pairs, Run(p) PROVE Kept
  BY <1>2 DEF Run, Skip, Pass, BuildFails, Build, Do, Accepted, Rejected,
       ReadClock, StoreCooldown
<1>3. ASSUME NEW p \in Pairs, TimesOut(p) \/ Network(p) PROVE Kept
  BY <1>3 DEF TimesOut, Network, Reach, LateReach, ConnFails, Interrupted,
       OtherError, GiveUp
<1>4. CASE Cancel \/ Tick \/ Idle \/ UNCHANGED vars
  BY <1>4 DEF Cancel, Tick, Idle, vars
<1>5. QED
  BY <1>1, <1>2, <1>3, <1>4 DEF Next

\* What the cooldowns rest on holds after every step.
LEMMA CooledStep == Typed /\ CooledByItsOwn /\ [Next]_vars => CooledByItsOwn'
<1> SUFFICES ASSUME Typed, CooledByItsOwn, [Next]_vars PROVE CooledByItsOwn'
  OBVIOUS
<1> USE DEF Typed, TypeOK, NotStarted, CooledByItsOwn, env, local, counters,
            Goto, Continue, Inc
<1>a. StatusFits'
  <2> USE DEF StatusFits
  <2>1. ASSUME NEW b \in Bundles, StartBroadcast(b) PROVE StatusFits'
    BY <2>1, PairParts DEF StartBroadcast
  <2>2. ASSUME NEW b \in Bundles, FinishBroadcast(b) PROVE StatusFits'
    BY <2>2 DEF FinishBroadcast
  <2>3. ASSUME NEW p \in Pairs, Skip(p) PROVE StatusFits'
    BY <2>3 DEF Skip, End
  <2>4. ASSUME NEW p \in Pairs, Pass(p) PROVE StatusFits'
    BY <2>4 DEF Pass
  <2>5. ASSUME NEW p \in Pairs, BuildFails(p) PROVE StatusFits'
    BY <2>5 DEF BuildFails, Fail, End
  <2>6. ASSUME NEW p \in Pairs, Build(p) PROVE StatusFits'
    BY <2>6 DEF Build
  <2>7. ASSUME NEW p \in Pairs, Do(p) PROVE StatusFits'
    BY <2>7 DEF Do, Fail, End
  <2>8. ASSUME NEW p \in Pairs, Reach(p) PROVE StatusFits'
    BY <2>8 DEF Reach
  <2>9. ASSUME NEW p \in Pairs, LateReach(p) PROVE StatusFits'
    BY <2>9 DEF LateReach
  <2>10. ASSUME NEW p \in Pairs, NEW s \in Statuses, Answer(p, s) PROVE StatusFits'
    BY <2>10 DEF Answer
  <2>11. ASSUME NEW p \in Pairs, ConnFails(p) PROVE StatusFits'
    BY <2>11 DEF ConnFails, InFlight, GiveUp, Retry, Fail, End
  <2>12. ASSUME NEW p \in Pairs, TimesOut(p) PROVE StatusFits'
    BY <2>12 DEF TimesOut, Bounded, InFlight, GiveUp, Final, Fail, End
  <2>13. ASSUME NEW p \in Pairs, Interrupted(p) PROVE StatusFits'
    BY <2>13 DEF Interrupted, InFlight, GiveUp, Final, Fail, End
  <2>14. ASSUME NEW p \in Pairs, OtherError(p) PROVE StatusFits'
    BY <2>14 DEF OtherError, InFlight, GiveUp, Final, Fail, End
  <2>15. ASSUME NEW p \in Pairs, Accepted(p) PROVE StatusFits'
    BY <2>15 DEF Accepted, End
  <2>16. ASSUME NEW p \in Pairs, Rejected(p) PROVE StatusFits'
    BY <2>16 DEF Rejected, Fail, End
  <2>17. ASSUME NEW p \in Pairs, ReadClock(p) PROVE StatusFits'
    BY <2>17 DEF ReadClock
  <2>18. ASSUME NEW p \in Pairs, StoreCooldown(p) PROVE StatusFits'
    BY <2>18 DEF StoreCooldown, End
  <2>19. CASE Cancel
    BY <2>19 DEF Cancel
  <2>20. CASE Tick
    BY <2>20 DEF Tick
  <2>21. CASE Idle \/ UNCHANGED vars
    BY <2>21 DEF Idle, vars
  <2>22. QED
    BY <2>1, <2>2, <2>3, <2>4, <2>5, <2>6, <2>7, <2>8, <2>9, <2>10, <2>11,
         <2>12, <2>13, <2>14, <2>15, <2>16, <2>17, <2>18, <2>19, <2>20, <2>21
         DEF Next, Run, Network
<1>b. ASSUME NEW r \in Relays, Answered429(r) PROVE Answered429(r)'
  <2>1. PICK q \in Pairs : q[2] = r /\ status[q] = "429"
    BY <1>b DEF Answered429
  <2>2. call[q] \notin {"flight", "arrived"}
    BY <2>1 DEF StatusFits
  <2>3. status'[q] = "429"
    <3>1. CASE UNCHANGED status
      BY <2>1, <3>1
    <3>2. ASSUME NEW p \in Pairs, NEW s \in Statuses, Answer(p, s)
          PROVE  status'[q] = "429"
      BY <2>1, <2>2, <3>2 DEF Answer
    <3>3. QED
      BY <3>1, <3>2, OnlyAnswersSetStatus
  <2>4. QED
    BY <2>1, <2>3 DEF Answered429
<1>c. ASSUME NEW r \in Relays, rateLimitedUntil'[r] > 0 \/ limited'[r] > 0
      PROVE  rateLimitedUntil[r] > 0 \/ limited[r] > 0 \/ Answered429(r)
  <2> DEFINE Before ==
        rateLimitedUntil[r] > 0 \/ limited[r] > 0 \/ Answered429(r)
  <2> USE <1>c
  <2>1. ASSUME NEW b \in Bundles, StartBroadcast(b) PROVE Before
    BY <2>1 DEF StartBroadcast
  <2>2. ASSUME NEW b \in Bundles, FinishBroadcast(b) PROVE Before
    BY <2>2 DEF FinishBroadcast
  <2>3. ASSUME NEW p \in Pairs, Skip(p) PROVE Before
    BY <2>3, PairParts DEF Skip, End, Limit, Cooling
  <2>4. ASSUME NEW p \in Pairs, Pass(p) PROVE Before
    BY <2>4 DEF Pass
  <2>5. ASSUME NEW p \in Pairs, BuildFails(p) PROVE Before
    BY <2>5 DEF BuildFails, Fail, End
  <2>6. ASSUME NEW p \in Pairs, Build(p) PROVE Before
    BY <2>6 DEF Build
  <2>7. ASSUME NEW p \in Pairs, Do(p) PROVE Before
    BY <2>7 DEF Do, Fail, End
  <2>8. ASSUME NEW p \in Pairs, Reach(p) PROVE Before
    BY <2>8 DEF Reach
  <2>9. ASSUME NEW p \in Pairs, LateReach(p) PROVE Before
    BY <2>9 DEF LateReach
  <2>10. ASSUME NEW p \in Pairs, NEW s \in Statuses, Answer(p, s) PROVE Before
    BY <2>10 DEF Answer
  <2>11. ASSUME NEW p \in Pairs, ConnFails(p) PROVE Before
    BY <2>11 DEF ConnFails, Retry, Fail, End, GiveUp
  <2>12. ASSUME NEW p \in Pairs, TimesOut(p) PROVE Before
    BY <2>12 DEF TimesOut, Final, Fail, End, GiveUp
  <2>13. ASSUME NEW p \in Pairs, Interrupted(p) PROVE Before
    BY <2>13 DEF Interrupted, Final, Fail, End, GiveUp
  <2>14. ASSUME NEW p \in Pairs, OtherError(p) PROVE Before
    BY <2>14 DEF OtherError, Final, Fail, End, GiveUp
  <2>15. ASSUME NEW p \in Pairs, Accepted(p) PROVE Before
    BY <2>15 DEF Accepted, End
  <2>16. ASSUME NEW p \in Pairs, Rejected(p) PROVE Before
    BY <2>16 DEF Rejected, Fail, End
  <2>17. ASSUME NEW p \in Pairs, ReadClock(p) PROVE Before
    BY <2>17 DEF ReadClock
  <2>18. ASSUME NEW p \in Pairs, StoreCooldown(p) PROVE Before
    BY <2>18, PairParts DEF StoreCooldown, Cool, End, Limit, StatusFits,
         Answered429
  <2>19. CASE Cancel
    BY <2>19 DEF Cancel
  <2>20. CASE Tick
    BY <2>20 DEF Tick
  <2>21. CASE Idle \/ UNCHANGED vars
    BY <2>21 DEF Idle, vars
  <2>22. QED
    BY <2>1, <2>2, <2>3, <2>4, <2>5, <2>6, <2>7, <2>8, <2>9, <2>10, <2>11,
         <2>12, <2>13, <2>14, <2>15, <2>16, <2>17, <2>18, <2>19, <2>20, <2>21
         DEF Next, Run, Network
<1>d. QED
  BY <1>a, <1>b, <1>c

\* A relay is cooled down, or skipped, only because that relay answered 429.
THEOREM CooldownPerRelay == Spec => []CooldownIsPerRelay
<1>1. Init => CooledByItsOwn
  BY DEF Init, CooledByItsOwn, StatusFits
<1>2. CooledByItsOwn => CooldownIsPerRelay
  BY PairParts DEF CooledByItsOwn, Answered429, CooldownIsPerRelay
<1>3. QED
  BY <1>1, <1>2, TypedInit, TypedStep, CooledStep, PTL DEF Spec

-----------------------------------------------------------------------------
(* Counters *)

\* A step in which no call returns.
Quiet ==
  /\ UNCHANGED <<verdict, counters, events>>
  /\ \A q \in Pairs : call'[q] = "done" <=> call[q] = "done"

\* A step in which call p returns: its verdict and its counter go together.
Counts(p) ==
  /\ call[p] \notin {"off", "done"} /\ call' = [call EXCEPT ![p] = "done"]
  /\ \/ /\ verdict' = [verdict EXCEPT ![p] = "sent"]
        /\ sent' = Inc(sent, p[2]) /\ UNCHANGED <<failed, limited>>
     \/ /\ verdict' = [verdict EXCEPT ![p] = "failed"]
        /\ failed' = Inc(failed, p[2]) /\ UNCHANGED <<sent, limited>>
     \/ /\ \E v \in {"skipped", "limited"} : verdict' = [verdict EXCEPT ![p] = v]
        /\ limited' = Inc(limited, p[2]) /\ UNCHANGED <<sent, failed>>

\* Each step is of one of the two kinds.
LEMMA ReturnsAreCounted ==
  Typed /\ [Next]_vars => Quiet \/ \E p \in Pairs : Counts(p)
<1> SUFFICES ASSUME Typed, [Next]_vars
             PROVE  Quiet \/ \E p \in Pairs : Counts(p)
  OBVIOUS
<1> DEFINE Classified == Quiet \/ \E p \in Pairs : Counts(p)
<1> USE DEF Typed, TypeOK, NotStarted, Goto, Continue, counters
<1>1. ASSUME NEW b \in Bundles, StartBroadcast(b) PROVE Classified
  BY <1>1, PairParts DEF StartBroadcast, Quiet
<1>2. ASSUME NEW b \in Bundles, FinishBroadcast(b) PROVE Classified
  BY <1>2 DEF FinishBroadcast, Quiet
<1>3. ASSUME NEW p \in Pairs, Skip(p) PROVE Classified
  BY <1>3 DEF Skip, End, Limit, Counts
<1>4. ASSUME NEW p \in Pairs, Pass(p) PROVE Classified
  BY <1>4 DEF Pass, Quiet
<1>5. ASSUME NEW p \in Pairs, BuildFails(p) PROVE Classified
  BY <1>5 DEF BuildFails, Fail, End, Counts
<1>6. ASSUME NEW p \in Pairs, Build(p) PROVE Classified
  BY <1>6 DEF Build, Quiet
<1>7. ASSUME NEW p \in Pairs, Do(p) PROVE Classified
  BY <1>7 DEF Do, Fail, End, Quiet, Counts
<1>8. ASSUME NEW p \in Pairs, Reach(p) PROVE Classified
  BY <1>8 DEF Reach, Quiet
<1>9. ASSUME NEW p \in Pairs, LateReach(p) PROVE Classified
  BY <1>9 DEF LateReach, Quiet
<1>10. ASSUME NEW p \in Pairs, NEW s \in Statuses, Answer(p, s) PROVE Classified
  BY <1>10 DEF Answer, Quiet
<1>11. ASSUME NEW p \in Pairs, ConnFails(p) PROVE Classified
  BY <1>11 DEF ConnFails, InFlight, GiveUp, Retry, Fail, End, Quiet, Counts
<1>12. ASSUME NEW p \in Pairs, TimesOut(p) PROVE Classified
  BY <1>12 DEF TimesOut, Bounded, InFlight, Final, Fail, End, Counts
<1>13. ASSUME NEW p \in Pairs, Interrupted(p) PROVE Classified
  BY <1>13 DEF Interrupted, InFlight, Final, Fail, End, Counts
<1>14. ASSUME NEW p \in Pairs, OtherError(p) PROVE Classified
  BY <1>14 DEF OtherError, InFlight, Final, Fail, End, Counts
<1>15. ASSUME NEW p \in Pairs, Accepted(p) PROVE Classified
  BY <1>15 DEF Accepted, End, Counts
<1>16. ASSUME NEW p \in Pairs, Rejected(p) PROVE Classified
  BY <1>16 DEF Rejected, Fail, End, Counts
<1>17. ASSUME NEW p \in Pairs, ReadClock(p) PROVE Classified
  BY <1>17 DEF ReadClock, Quiet
<1>18. ASSUME NEW p \in Pairs, StoreCooldown(p) PROVE Classified
  BY <1>18 DEF StoreCooldown, End, Limit, Counts
<1>19. CASE Cancel
  BY <1>19 DEF Cancel, Quiet
<1>20. CASE Tick
  BY <1>20 DEF Tick, Quiet
<1>21. CASE Idle \/ UNCHANGED vars
  BY <1>21 DEF Idle, vars, Quiet
<1>22. QED
  BY <1>1, <1>2, <1>3, <1>4, <1>5, <1>6, <1>7, <1>8, <1>9, <1>10, <1>11,
       <1>12, <1>13, <1>14, <1>15, <1>16, <1>17, <1>18, <1>19, <1>20, <1>21
       DEF Next, Run, Network

\* The set S is finite and has n elements.
Tally(n, S) == IsFiniteSet(S) /\ Cardinality(S) = n

\* A new element makes a finite set larger by one.
LEMMA TallyOneMore ==
  ASSUME NEW n, NEW S, NEW x, x \notin S, Tally(n, S)
  PROVE  Tally(n + 1, S \union {x})
BY FS_AddElement DEF Tally

\* The bundles with such a verdict at relay r, and those whose call returned.
With(r, vs) == {b \in Bundles : verdict[<<b, r>>] \in vs}
DoneAt(r)   == {b \in Bundles : call[<<b, r>>] = "done"}

\* A call has a verdict just when it has returned.
VerdictAtEnd == \A p \in Pairs : verdict[p] # "none" <=> call[p] = "done"

\* The inductive form of EachCallCountedOnce: the sets it counts are finite.
CountersFit ==
  /\ VerdictAtEnd
  /\ \A r \in Relays :
       /\ Tally(sent[r], With(r, {"sent"}))
       /\ Tally(failed[r], With(r, {"failed"}))
       /\ Tally(limited[r], With(r, {"skipped", "limited"}))
       /\ Tally(sent[r] + failed[r] + limited[r], DoneAt(r))

\* Call p ends with verdict v.
Records(p, v) == verdict' = [verdict EXCEPT ![p] = v]

\* A verdict adds its bundle to the set of its kind and relay, and to no other.
LEMMA VerdictAddsOne ==
  ASSUME Typed, VerdictAtEnd, NEW p \in Pairs, call[p] # "done", NEW v,
         Records(p, v),
         NEW r \in Relays, NEW vs, "none" \notin vs
  PROVE  /\ p[1] \notin With(p[2], vs)
         /\ r = p[2] /\ v \in vs => With(r, vs)' = With(r, vs) \union {p[1]}
         /\ r # p[2] \/ v \notin vs => With(r, vs)' = With(r, vs)
<1> USE PairParts DEF Typed, TypeOK, VerdictAtEnd, With, Records
<1>1. p[1] \notin With(p[2], vs)
  OBVIOUS
<1>2. \A b \in Bundles :
        verdict'[<<b, r>>] = IF b = p[1] /\ r = p[2] THEN v ELSE verdict[<<b, r>>]
  BY DEF Pairs
<1>3. \A b \in Bundles :
        verdict'[<<b, r>>] \in vs
          <=> verdict[<<b, r>>] \in vs \/ (b = p[1] /\ r = p[2] /\ v \in vs)
  <2>1. ASSUME NEW b \in Bundles, b = p[1], r = p[2]
        PROVE  verdict[<<b, r>>] = "none"
    BY <2>1
  <2>2. QED
    BY <1>2, <2>1
<1>4. CASE r = p[2] /\ v \in vs
  <2>1. With(r, vs)' = With(r, vs) \union {p[1]}
    BY <1>3, <1>4
  <2>2. QED
    BY <1>1, <1>4, <2>1
<1>5. CASE r # p[2] \/ v \notin vs
  <2>1. With(r, vs)' = With(r, vs)
    BY <1>3, <1>5
  <2>2. QED
    BY <1>1, <1>5, <2>1
<1>6. QED
  BY <1>4, <1>5

\* So a counter that is increased with it still fits.
LEMMA VerdictTally ==
  ASSUME Typed, VerdictAtEnd, NEW p \in Pairs, call[p] # "done", NEW v,
         Records(p, v),
         NEW r \in Relays, NEW vs, "none" \notin vs,
         NEW m, NEW n, Tally(m, With(r, vs)),
         n = IF r = p[2] /\ v \in vs THEN m + 1 ELSE m
  PROVE  Tally(n, With(r, vs)')
<1>1. CASE r = p[2] /\ v \in vs
  <2>1. /\ p[1] \notin With(r, vs)
        /\ With(r, vs)' = With(r, vs) \union {p[1]}
    BY <1>1, VerdictAddsOne
  <2>2. QED
    BY <1>1, <2>1, TallyOneMore
<1>2. CASE r # p[2] \/ v \notin vs
  <2>1. With(r, vs)' = With(r, vs)
    BY <1>2, VerdictAddsOne
  <2>2. QED
    BY <1>2, <2>1 DEF Tally
<1>3. QED
  BY <1>1, <1>2

\* A return adds its bundle to the calls that have returned at its relay.
LEMMA DoneAddsOne ==
  ASSUME Typed, NEW p \in Pairs, call[p] # "done",
         call' = [call EXCEPT ![p] = "done"], NEW r \in Relays
  PROVE  /\ p[1] \notin DoneAt(p[2])
         /\ DoneAt(r)' = IF r = p[2] THEN DoneAt(r) \union {p[1]} ELSE DoneAt(r)
<1> USE PairParts DEF Typed, TypeOK, DoneAt
<1>1. p[1] \notin DoneAt(p[2])
  OBVIOUS
<1>2. \A b \in Bundles :
        call'[<<b, r>>] = IF b = p[1] /\ r = p[2] THEN "done" ELSE call[<<b, r>>]
  BY DEF Pairs
<1>3. QED
  BY <1>1, <1>2

\* Every step keeps the counters in agreement with the verdicts.
LEMMA CountersStep == Typed /\ CountersFit /\ [Next]_vars => CountersFit'
<1> SUFFICES ASSUME Typed, CountersFit, [Next]_vars PROVE CountersFit'
  OBVIOUS
<1>1. CASE Quiet
  <2>1. VerdictAtEnd'
    BY <1>1 DEF Quiet, CountersFit, VerdictAtEnd
  <2>2. ASSUME NEW r \in Relays
        PROVE  /\ \A vs : With(r, vs)' = With(r, vs)
               /\ DoneAt(r)' = DoneAt(r)
    BY <1>1 DEF Quiet, With, DoneAt, Pairs
  <2>3. QED
    BY <1>1, <2>1, <2>2 DEF Quiet, CountersFit, counters
<1>2. ASSUME NEW p \in Pairs, Counts(p) PROVE CountersFit'
  <2> DEFINE b == p[1]
  <2>1. p[2] \in Relays
    BY PairParts
  <2>2. VerdictAtEnd'
    BY <1>2 DEF Counts, CountersFit, VerdictAtEnd, Typed, TypeOK
  <2>3. PICK v \in Verdicts :
          /\ v # "none" /\ Records(p, v)
          /\ sent' = IF v = "sent" THEN Inc(sent, p[2]) ELSE sent
          /\ failed' = IF v = "failed" THEN Inc(failed, p[2]) ELSE failed
          /\ limited' = IF v \in {"skipped", "limited"}
                        THEN Inc(limited, p[2]) ELSE limited
    BY <1>2 DEF Counts, Verdicts, Records
  <2>4. ASSUME NEW r \in Relays
        PROVE  Tally(sent'[r], With(r, {"sent"})')
    <3>1. sent'[r] = IF r = p[2] /\ v \in {"sent"}
                    THEN sent[r] + 1 ELSE sent[r]
      BY <2>1, <2>3 DEF Inc, Typed, TypeOK
    <3>2. "none" \notin {"sent"}
      OBVIOUS
    <3>3. QED
      BY <1>2, <2>3, <3>1, <3>2, VerdictTally DEF Counts, CountersFit
  <2>5. ASSUME NEW r \in Relays
        PROVE  Tally(failed'[r], With(r, {"failed"})')
    <3>1. failed'[r] = IF r = p[2] /\ v \in {"failed"}
                    THEN failed[r] + 1 ELSE failed[r]
      BY <2>1, <2>3 DEF Inc, Typed, TypeOK
    <3>2. "none" \notin {"failed"}
      OBVIOUS
    <3>3. QED
      BY <1>2, <2>3, <3>1, <3>2, VerdictTally DEF Counts, CountersFit
  <2>6. ASSUME NEW r \in Relays
        PROVE  Tally(limited'[r], With(r, {"skipped", "limited"})')
    <3>1. limited'[r] = IF r = p[2] /\ v \in {"skipped", "limited"}
                    THEN limited[r] + 1 ELSE limited[r]
      BY <2>1, <2>3 DEF Inc, Typed, TypeOK
    <3>2. "none" \notin {"skipped", "limited"}
      OBVIOUS
    <3>3. QED
      BY <1>2, <2>3, <3>1, <3>2, VerdictTally DEF Counts, CountersFit
  <2>7. ASSUME NEW r \in Relays
        PROVE  Tally(sent'[r] + failed'[r] + limited'[r], DoneAt(r)')
    <3>1. sent'[r] + failed'[r] + limited'[r]
            = IF r = p[2] THEN sent[r] + failed[r] + limited[r] + 1
              ELSE sent[r] + failed[r] + limited[r]
      BY <2>1, <2>3 DEF Inc, Typed, TypeOK, Verdicts
    <3>2. CASE r = p[2]
      <4>1. b \notin DoneAt(r) /\ DoneAt(r)' = DoneAt(r) \union {b}
        BY <1>2, <3>2, DoneAddsOne DEF Counts
      <4>2. QED
        BY <3>1, <3>2, <4>1, TallyOneMore DEF CountersFit
    <3>3. CASE r # p[2]
      BY <1>2, <3>1, <3>3, DoneAddsOne DEF Counts, CountersFit
    <3>4. QED
      BY <3>2, <3>3
  <2>8. QED
    BY <2>2, <2>4, <2>5, <2>6, <2>7 DEF CountersFit
<1>3. QED
  BY <1>1, <1>2, ReturnsAreCounted

\* The counters agree with the verdicts in every state.
LEMMA CountersAlways == Spec => []CountersFit
<1>1. Init => CountersFit
  <2> SUFFICES ASSUME Init PROVE CountersFit
    OBVIOUS
  <2>1. VerdictAtEnd
    BY DEF Init, VerdictAtEnd
  <2>2. ASSUME NEW r \in Relays
        PROVE  /\ With(r, {"sent"}) = {} /\ With(r, {"failed"}) = {}
               /\ With(r, {"skipped", "limited"}) = {} /\ DoneAt(r) = {}
    BY DEF Init, With, DoneAt, Pairs
  <2>3. QED
    BY <2>1, <2>2, FS_EmptySet DEF Init, CountersFit, Tally
<1>2. QED
  BY <1>1, TypedInit, TypedStep, CountersStep, PTL DEF Spec

\* Each call increments exactly one counter of its relay exactly once, and the
\* three counters add up to the calls that have returned.
THEOREM CountedOnce == Spec => []EachCallCountedOnce
<1>1. CountersFit => EachCallCountedOnce
  BY DEF CountersFit, EachCallCountedOnce, Tally, With, DoneAt, Ended
<1>2. QED
  BY <1>1, CountersAlways, PTL

-----------------------------------------------------------------------------
(* Broadcasts and their calls *)

\* The calls of a bundle are off until its broadcast starts, and have returned
\* when it ends.
CallsFit ==
  \A p \in Pairs : /\ cast[p[1]] = "off" <=> call[p] = "off"
                   /\ cast[p[1]] = "done" => call[p] = "done"

\* A step that moves one call which is under way, and no broadcast.
Moves(p) ==
  /\ call[p] \notin {"off", "done"} /\ UNCHANGED cast
  /\ \E place \in Places \ {"off"} : call' = [call EXCEPT ![p] = place]

\* Every step but those of RelayManager.Broadcast moves one call at most.
LEMMA CallsMoveAlone ==
  ASSUME [Next]_vars
  PROVE  \/ UNCHANGED <<cast, call>>
         \/ \E p \in Pairs : Moves(p)
         \/ \E b \in Bundles : StartBroadcast(b) \/ FinishBroadcast(b)
<1> DEFINE Goal == \/ UNCHANGED <<cast, call>> \/ \E p \in Pairs : Moves(p)
<1>1. ASSUME NEW p \in Pairs, Run(p) PROVE Moves(p)
  BY <1>1 DEF Run, Skip, Pass, BuildFails, Build, Do, Accepted, Rejected,
       ReadClock, StoreCooldown, Continue, Goto, Fail, End, Moves, Places
<1>2. ASSUME NEW p \in Pairs, TimesOut(p) PROVE Moves(p)
  BY <1>2 DEF TimesOut, Bounded, InFlight, Final, GiveUp, Fail, End, Goto,
       Moves, Places
<1>3. ASSUME NEW p \in Pairs, Network(p) PROVE Goal
  <2>1. ASSUME NEW s \in Statuses, Answer(p, s) PROVE Moves(p)
    BY <2>1 DEF Answer, Continue, Goto, Moves, Places
  <2>2. CASE LateReach(p)
    BY <2>2 DEF LateReach
  <2>3. CASE Reach(p)
    BY <2>3 DEF Reach, Continue, Goto, Moves, Places
  <2>4. CASE ConnFails(p)
    BY <2>4 DEF ConnFails, InFlight, GiveUp, Retry, Continue, Fail, End, Goto,
         Moves, Places
  <2>5. CASE Interrupted(p) \/ OtherError(p)
    BY <2>5 DEF Interrupted, OtherError, InFlight, GiveUp, Final, Fail, End,
         Goto, Moves, Places
  <2>6. QED
    BY <1>3, <2>1, <2>2, <2>3, <2>4, <2>5 DEF Network
<1>4. CASE Cancel \/ Tick \/ Idle \/ UNCHANGED vars
  BY <1>4 DEF Cancel, Tick, Idle, vars
<1>5. QED
  BY <1>1, <1>2, <1>3, <1>4 DEF Next

\* The calls of a bundle fit its broadcast in every state.
LEMMA CallsFitAlways == Spec => []CallsFit
<1>1. Init => CallsFit
  BY PairParts DEF Init, CallsFit
<1>2. Typed /\ CallsFit /\ [Next]_vars => CallsFit'
  <2> SUFFICES ASSUME Typed, CallsFit, [Next]_vars PROVE CallsFit'
    OBVIOUS
  <2> USE PairParts DEF Typed, TypeOK, CallsFit
  <2>1. CASE UNCHANGED <<cast, call>>
    BY <2>1
  <2>2. ASSUME NEW p \in Pairs, Moves(p) PROVE CallsFit'
    BY <2>2 DEF Moves
  <2>3. ASSUME NEW b \in Bundles, StartBroadcast(b) PROVE CallsFit'
    BY <2>3 DEF StartBroadcast
  <2>4. ASSUME NEW b \in Bundles, FinishBroadcast(b) PROVE CallsFit'
    BY <2>4 DEF FinishBroadcast, AllReturned
  <2>5. QED
    BY <2>1, <2>2, <2>3, <2>4, CallsMoveAlone
<1>3. QED
  BY <1>1, <1>2, TypedInit, TypedStep, PTL DEF Spec

-----------------------------------------------------------------------------
(* Verdicts *)

\* A verdict is about what happened: a bundle counts as sent only if the relay
\* has received it, as limited only if it was sent and the relay answered 429
\* (which it may do before it has received it), and as skipped only if nothing
\* of it was sent or is on its way; a relay whose URL is malformed is never sent
\* anything; and the tracker is given a hash only for a bundle that counts as
\* sent.
VerdictsAreTrue ==
  \A p \in Pairs :
    /\ verdict[p] = "sent" => reached[p] > 0
    /\ verdict[p] = "limited" => reached[p] + loose[p] > 0 /\ status[p] = "429"
    /\ verdict[p] = "skipped" => reached[p] = 0 /\ loose[p] = 0
    /\ p[2] \in BadRelays =>
         reached[p] = 0 /\ loose[p] = 0 /\ verdict[p] \notin {"sent", "limited"}
    /\ p \in events => verdict[p] = "sent" /\ p[2] \in TrackedRelays

\* What a call has left behind fits its place and its verdict.
TracesFit ==
  \A p \in Pairs :
    /\ call[p] \in {"off", "check", "build"} => attempts[p] = 0
    /\ call[p] = "arrived" \/ status[p] = "2xx" => reached[p] > 0
    /\ status[p] # "none" => reached[p] + loose[p] > 0
    /\ p[2] \in BadRelays =>
         attempts[p] = 0 /\ call[p] \in {"off", "check", "build", "done"}
    /\ verdict[p] = "sent" => status[p] = "2xx"
    /\ verdict[p] = "limited" => status[p] = "429"
    /\ verdict[p] = "skipped" => attempts[p] = 0
    /\ p \in events => verdict[p] = "sent" /\ p[2] \in TrackedRelays

\* Every step leaves behind what fits.
LEMMA TracesStep ==
  Typed /\ StatusFits /\ VerdictAtEnd /\ TracesFit /\ [Next]_vars => TracesFit'
<1> SUFFICES ASSUME Typed, StatusFits, VerdictAtEnd, TracesFit, [Next]_vars
             PROVE  TracesFit'
  OBVIOUS
<1> USE DEF Typed, TypeOK, NotStarted, StatusFits, VerdictAtEnd, TracesFit,
            env, local, network, Goto, Continue, Inc
<1>1. ASSUME NEW b \in Bundles, StartBroadcast(b) PROVE TracesFit'
  BY <1>1, PairParts DEF StartBroadcast
<1>2. ASSUME NEW b \in Bundles, FinishBroadcast(b) PROVE TracesFit'
  BY <1>2 DEF FinishBroadcast
<1>3. ASSUME NEW p \in Pairs, Skip(p) PROVE TracesFit'
  BY <1>3 DEF Skip, End
<1>4. ASSUME NEW p \in Pairs, Pass(p) PROVE TracesFit'
  BY <1>4 DEF Pass
<1>5. ASSUME NEW p \in Pairs, BuildFails(p) PROVE TracesFit'
  BY <1>5 DEF BuildFails, Fail, End
<1>6. ASSUME NEW p \in Pairs, Build(p) PROVE TracesFit'
  BY <1>6 DEF Build
<1>7. ASSUME NEW p \in Pairs, Do(p) PROVE TracesFit'
  BY <1>7 DEF Do, Fail, End
<1>8. ASSUME NEW p \in Pairs, Reach(p) PROVE TracesFit'
  BY <1>8 DEF Reach
<1>9. ASSUME NEW p \in Pairs, LateReach(p) PROVE TracesFit'
  BY <1>9 DEF LateReach
<1>10. ASSUME NEW p \in Pairs, NEW s \in Statuses, Answer(p, s) PROVE TracesFit'
  BY <1>10 DEF Answer, Forsake, Statuses
<1>11. ASSUME NEW p \in Pairs, ConnFails(p) PROVE TracesFit'
  BY <1>11 DEF ConnFails, InFlight, GiveUp, Forsake, Retry, Fail, End
<1>12. ASSUME NEW p \in Pairs, TimesOut(p) PROVE TracesFit'
  BY <1>12 DEF TimesOut, Bounded, InFlight, GiveUp, Forsake, Final, Fail, End
<1>13. ASSUME NEW p \in Pairs, Interrupted(p) PROVE TracesFit'
  BY <1>13 DEF Interrupted, InFlight, GiveUp, Forsake, Final, Fail, End
<1>14. ASSUME NEW p \in Pairs, OtherError(p) PROVE TracesFit'
  BY <1>14 DEF OtherError, InFlight, GiveUp, Forsake, Final, Fail, End
<1>15. ASSUME NEW p \in Pairs, Accepted(p) PROVE TracesFit'
  BY <1>15 DEF Accepted, End
<1>16. ASSUME NEW p \in Pairs, Rejected(p) PROVE TracesFit'
  BY <1>16 DEF Rejected, Fail, End
<1>17. ASSUME NEW p \in Pairs, ReadClock(p) PROVE TracesFit'
  BY <1>17 DEF ReadClock
<1>18. ASSUME NEW p \in Pairs, StoreCooldown(p) PROVE TracesFit'
  BY <1>18 DEF StoreCooldown, End
<1>19. CASE Cancel
  BY <1>19 DEF Cancel
<1>20. CASE Tick
  BY <1>20 DEF Tick
<1>21. CASE Idle \/ UNCHANGED vars
  BY <1>21 DEF Idle, vars
<1>22. QED
  BY <1>1, <1>2, <1>3, <1>4, <1>5, <1>6, <1>7, <1>8, <1>9, <1>10, <1>11,
       <1>12, <1>13, <1>14, <1>15, <1>16, <1>17, <1>18, <1>19, <1>20, <1>21
       DEF Next, Run, Network

\* What the calls have left behind fits in every state.
LEMMA TracesAlways == Spec => [](Typed /\ RequestsAreAttempts /\ TracesFit)
<1>1. Init => RequestsAreAttempts /\ CooledByItsOwn /\ TracesFit
  BY DEF Init, RequestsAreAttempts, CooledByItsOwn, StatusFits, TracesFit
<1>2. /\ CooledByItsOwn => StatusFits
      /\ CountersFit => VerdictAtEnd
  BY DEF CooledByItsOwn, CountersFit
<1>3. QED
  BY <1>1, <1>2, TypedInit, TypedStep, RequestsStep, CooledStep,
     CountersAlways, TracesStep, PTL DEF Spec

\* The verdicts, by which the relay's counters go, are never wrong about what
\* the relay has received.
THEOREM VerdictsTrue == Spec => []VerdictsAreTrue
<1>1. Typed /\ RequestsAreAttempts /\ TracesFit => VerdictsAreTrue
  <2> SUFFICES ASSUME Typed, RequestsAreAttempts, TracesFit, NEW p \in Pairs
               PROVE  /\ verdict[p] = "sent" => reached[p] > 0
                      /\ verdict[p] = "limited" =>
                           reached[p] + loose[p] > 0 /\ status[p] = "429"
                      /\ verdict[p] = "skipped" => reached[p] = 0 /\ loose[p] = 0
                      /\ p[2] \in BadRelays =>
                           /\ reached[p] = 0 /\ loose[p] = 0
                           /\ verdict[p] \notin {"sent", "limited"}
                      /\ p \in events =>
                           verdict[p] = "sent" /\ p[2] \in TrackedRelays
    BY DEF VerdictsAreTrue
  <2>1. attempts[p] = 0 => reached[p] = 0 /\ loose[p] = 0
    BY DEF Typed, TypeOK, RequestsAreAttempts
  <2>2. /\ verdict[p] = "sent" => reached[p] > 0
        /\ verdict[p] = "limited" =>
             reached[p] + loose[p] > 0 /\ status[p] = "429"
    BY DEF TracesFit
  <2>3. QED
    BY <2>1, <2>2 DEF TracesFit
<1>2. QED
  BY <1>1, TracesAlways, PTL

-----------------------------------------------------------------------------
(* Calls come to an end *)

\* How many steps a place is from the end, without further attempts.
Rank(place) ==
  CASE place = "off" -> 6
    [] place \in {"check", "flight"} -> 5
    [] place \in {"build", "arrived"} -> 4
    [] place = "do" -> 3
    [] place = "answered" -> 2
    [] place = "store" -> 1
    [] OTHER -> 0

\* How many steps call p can still make: an attempt takes at most three.
StepsLeft(p) == 4 * (MaxRetries - attempts[p]) + Rank(call[p])

\* Call q moves nearer to its end, and no other call moves.
Advances(q) ==
  \A p \in Pairs :
    IF p = q THEN StepsLeft(p)' < StepsLeft(p)
    ELSE call'[p] = call[p] /\ attempts'[p] = attempts[p]

\* The calls of bundle b start, and no other call moves.
Start(b) ==
  \A p \in Pairs :
    IF p[1] = b THEN StepsLeft(p)' < StepsLeft(p)
    ELSE call'[p] = call[p] /\ attempts'[p] = attempts[p]

\* A retry goes back in the loop of attempts, having used one of them.
LEMMA CallsAdvance ==
  Typed /\ [Next]_vars
    => \/ UNCHANGED <<call, attempts>>
       \/ \E q \in Pairs : Advances(q)
       \/ \E b \in Bundles : Start(b)
<1> SUFFICES ASSUME Typed, [Next]_vars
             PROVE  \/ UNCHANGED <<call, attempts>>
                    \/ \E q \in Pairs : Advances(q)
                    \/ \E b \in Bundles : Start(b)
  OBVIOUS
<1> USE RetriesAssumption DEF Typed, TypeOK
<1>a. \A p \in Pairs : MaxRetries - attempts[p] \in Nat
  OBVIOUS
<1>1. ASSUME NEW q \in Pairs, UNCHANGED attempts, NEW place,
             call' = [call EXCEPT ![q] = place], Rank(place) < Rank(call[q])
      PROVE  Advances(q)
  BY <1>a, <1>1 DEF Advances, StepsLeft, Rank
<1>2. ASSUME NEW q \in Pairs, Run(q) PROVE Advances(q)
  <2>1. CASE Do(q)
    <3>1. /\ call[q] = "do" /\ attempts' = [attempts EXCEPT ![q] = @ + 1]
          /\ \/ call' = [call EXCEPT ![q] = "flight"]
             \/ call' = [call EXCEPT ![q] = "done"]
      BY <2>1 DEF Do, Inc, Continue, Goto, Fail, End
    <3>2. QED
      BY <3>1, <1>a DEF Advances, StepsLeft, Rank
  <2>2. CASE ~Do(q)
    BY <1>1, <1>2, <2>2 DEF Run, Skip, Pass, BuildFails, Build, Accepted,
         Rejected, ReadClock, StoreCooldown, Continue, Goto, Fail, End, Rank,
         local
  <2>3. QED
    BY <2>1, <2>2
<1>3. ASSUME NEW q \in Pairs,
             \/ TimesOut(q) \/ Reach(q) \/ (\E s \in Statuses : Answer(q, s))
             \/ ConnFails(q) \/ Interrupted(q) \/ OtherError(q)
      PROVE  Advances(q)
  BY <1>1, <1>3 DEF TimesOut, Bounded, InFlight, Final, Reach, Answer, ConnFails,
       Retry, Interrupted, OtherError, GiveUp, Continue, Goto, Fail, End, Rank,
       local
<1>4. ASSUME NEW q \in Pairs, LateReach(q) PROVE UNCHANGED <<call, attempts>>
  BY <1>4 DEF LateReach, local
<1>5. ASSUME NEW b \in Bundles, StartBroadcast(b) PROVE Start(b)
  <2>1. \A p \in Pairs : p[1] = b => call[p] = "off"
    BY <1>5, PairParts DEF StartBroadcast, NotStarted
  <2>2. QED
    BY <1>5, <2>1 DEF StartBroadcast, Start, StepsLeft, Rank, local
<1>6. CASE \/ Cancel \/ Tick \/ Idle \/ UNCHANGED vars
           \/ \E b \in Bundles : FinishBroadcast(b)
  BY <1>6 DEF Cancel, Tick, Idle, FinishBroadcast, local, vars
<1>7. QED
  BY <1>2, <1>3, <1>4, <1>5, <1>6 DEF Next, Network

\* Whatever errors, retries and cooldowns a call meets, its steps are bounded:
\* each one lowers a number that starts at 4 * maxRetries + 6.
THEOREM CallsAreFinite ==
  Spec => /\ [](\A p \in Pairs : StepsLeft(p) \in 0 .. 4 * MaxRetries + 6)
          /\ [][\A p \in Pairs :
                  call'[p] # call[p] => StepsLeft(p)' < StepsLeft(p)]_vars
<1>1. TypeOK => \A p \in Pairs : StepsLeft(p) \in 0 .. 4 * MaxRetries + 6
  <2> SUFFICES ASSUME TypeOK, NEW p \in Pairs
               PROVE  StepsLeft(p) \in 0 .. 4 * MaxRetries + 6
    OBVIOUS
  <2>1. attempts[p] \in 0 .. MaxRetries /\ Rank(call[p]) \in 0 .. 6
    BY DEF TypeOK, Rank
  <2>2. QED
    BY <2>1, RetriesAssumption DEF StepsLeft
<1>2. Typed /\ [Next]_vars
        => [\A p \in Pairs :
              call'[p] # call[p] => StepsLeft(p)' < StepsLeft(p)]_vars
  BY CallsAdvance DEF Advances, Start
<1>3. Typed => TypeOK
  BY DEF Typed
<1>4. QED
  BY <1>1, <1>2, <1>3, TypedInit, TypedStep, PTL DEF Spec
=============================================================================
