--------------------------- MODULE WSClientProofs ---------------------------
(***************************************************************************)
(* Theorems about WSClient: whatever the interleaving of Sends, of Close   *)
(* and of broken connections, the client owns one connection at most, and  *)
(* none after Close; a Send that begins after Close is refused; a message  *)
(* is written at most maxRetries times.                                    *)
(***************************************************************************)
EXTENDS WSClient, TLAPS

-----------------------------------------------------------------------------
(* Types *)

\* Every step keeps the types.
LEMMA TypeInductive == TypeOK /\ [Next]_vars => TypeOK'
<1> SUFFICES ASSUME TypeOK, [Next]_vars PROVE TypeOK'
  OBVIOUS
<1>a. ASSUME NEW s \in Senders, CountWrite(s)
      PROVE  writes' \in [Senders -> Nat]
  BY <1>a DEF TypeOK, CountWrite
<1>b. ASSUME NEW s \in Senders, ~LastAttempt(s)
      PROVE  attempt[s] + 1 \in 1 .. MaxRetries
  BY <1>b, RetriesAssumption DEF TypeOK, LastAttempt
<1> USE NoneAssumption DEF TypeOK, Goto, Return, CloseLink, Places, Results,
        LinkStates
<1>1. ASSUME NEW s \in Senders, Send(s) PROVE TypeOK'
  BY <1>1 DEF Send
<1>2. ASSUME NEW s \in Senders, Read(s) PROVE TypeOK'
  BY <1>2 DEF Read
<1>3. ASSUME NEW s \in Senders, Connect(s) PROVE TypeOK'
  BY <1>3 DEF Connect
<1>4. ASSUME NEW s \in Senders, Reread(s) PROVE TypeOK'
  BY <1>4 DEF Reread
<1>5. ASSUME NEW s \in Senders, BeginWrite(s) PROVE TypeOK'
  BY <1>5 DEF BeginWrite
<1>6. ASSUME NEW s \in Senders, WriteSucceeds(s) \/ WriteFails(s)
      PROVE  TypeOK'
  <2>1. writes' \in [Senders -> Nat]
    BY <1>6, <1>a DEF WriteSucceeds, WriteFails
  <2>2. CASE WriteSucceeds(s)
    BY <2>1, <2>2 DEF WriteSucceeds
  <2>3. CASE WriteFails(s)
    BY <2>1, <2>3 DEF WriteFails
  <2>4. QED
    BY <1>6, <2>2, <2>3
<1>7. ASSUME NEW s \in Senders, Disconnect(s) PROVE TypeOK'
  BY <1>7 DEF Disconnect
<1>8. ASSUME NEW s \in Senders, Recheck(s) PROVE TypeOK'
  <2>1. attempt' \in [Senders -> 1 .. MaxRetries]
    <3>1. CASE UNCHANGED attempt
      BY <3>1
    <3>2. CASE ~LastAttempt(s) /\ attempt' = [attempt EXCEPT ![s] = @ + 1]
      BY <1>b, <3>2
    <3>3. QED
      BY <1>8, <3>1, <3>2 DEF Recheck
  <2>2. QED
    BY <1>8, <2>1 DEF Recheck
<1>9. CASE Close
  BY <1>9 DEF Close
<1>10. ASSUME NEW k \in Links, Break(k) PROVE TypeOK'
  BY <1>10 DEF Break
<1>11. CASE UNCHANGED vars
  BY <1>11 DEF vars
<1>12. QED
  BY <1>1, <1>2, <1>3, <1>4, <1>5, <1>6, <1>7, <1>8, <1>9, <1>10, <1>11
     DEF Next, Step

\* Every variable of WSClient always has its type; no write is under way on a
\* nil connection.
THEOREM TypeCorrect == Spec => []TypeOK
<1>1. Init => TypeOK
  <2> SUFFICES ASSUME Init PROVE TypeOK
    OBVIOUS
  <2>1. attempt \in [Senders -> 1 .. MaxRetries]
    BY RetriesAssumption DEF Init
  <2>2. /\ link \in [Links -> LinkStates]
        /\ pc \in [Senders -> Places]
        /\ result \in [Senders -> Results]
    BY DEF Init, LinkStates, Places, Results
  <2>3. QED
    BY <2>1, <2>2 DEF Init, TypeOK
<1>2. QED
  BY <1>1, TypeInductive, PTL DEF Spec

-----------------------------------------------------------------------------
(* Connections *)

\* The client owns one connection, which c.conn names, and none once closed.
Owned == OneLink /\ NoLinkAfterClose

\* Only Connect, Disconnect, Close and a break touch a connection, the one
\* that c.conn names.
LEMMA OwnedInductive == TypeOK /\ Owned /\ [Next]_vars => Owned'
<1> SUFFICES ASSUME TypeOK, Owned, [Next]_vars PROVE Owned'
  OBVIOUS
<1> USE NoneAssumption DEF TypeOK, Owned, OneLink, NoLinkAfterClose, Live
<1>1. ASSUME UNCHANGED <<conn, closed, link>> PROVE Owned'
  BY <1>1
<1>2. ASSUME NEW s \in Senders, Connect(s) PROVE Owned'
  <2>1. CASE UNCHANGED <<conn, link>>
    BY <1>1, <1>2, <2>1 DEF Connect
  <2>2. CASE /\ ~NeedsNoLink
             /\ \E k \in Links : /\ link[k] = "unused"
                                 /\ link' = [link EXCEPT ![k] = "open"]
                                 /\ conn' = k
    <3>1. PICK k \in Links : /\ link[k] = "unused"
                             /\ link' = [link EXCEPT ![k] = "open"]
                             /\ conn' = k
      BY <2>2
    <3>2. ~closed /\ conn = None /\ UNCHANGED closed
      BY <1>2, <2>2 DEF Connect, NeedsNoLink
    <3>3. QED
      BY <3>1, <3>2
  <2>3. QED
    BY <1>2, <2>1, <2>2 DEF Connect
<1>3. ASSUME NEW s \in Senders, Disconnect(s) PROVE Owned'
  BY <1>3 DEF Disconnect, CloseLink
<1>4. CASE Close
  BY <1>4 DEF Close, CloseLink
<1>5. ASSUME NEW k \in Links, Break(k) PROVE Owned'
  BY <1>5 DEF Break
<1>6. ASSUME NEW s \in Senders,
             Send(s) \/ Read(s) \/ Reread(s) \/ BeginWrite(s)
               \/ WriteSucceeds(s) \/ WriteFails(s) \/ Recheck(s)
      PROVE  Owned'
  BY <1>1, <1>6 DEF Send, Read, Reread, BeginWrite, WriteSucceeds, WriteFails,
       Recheck
<1>7. CASE UNCHANGED vars
  BY <1>1, <1>7 DEF vars
<1>8. QED
  BY <1>2, <1>3, <1>4, <1>5, <1>6, <1>7 DEF Next, Step

\* It holds in every state.
LEMMA OwnedAlways == Spec => []Owned
<1>1. Init => Owned
  BY NoneAssumption DEF Init, Owned, OneLink, NoLinkAfterClose, Live
<1>2. QED
  BY <1>1, TypeCorrect, OwnedInductive, PTL DEF Spec

\* No race of reconnects leaks a connection, and c.conn names no connection
\* that was closed.
THEOREM LinkOwned == Spec => []OneLink
<1>1. Owned => OneLink
  BY DEF Owned
<1>2. QED
  BY <1>1, OwnedAlways, PTL

\* After Close there is no connection, and no Send makes one.
THEOREM ClosedForGood == Spec => []NoLinkAfterClose
<1>1. Owned => NoLinkAfterClose
  BY DEF Owned
<1>2. QED
  BY <1>1, OwnedAlways, PTL

-----------------------------------------------------------------------------
(* Sends after Close *)

\* A Send that began after Close is before its first look at c.closed, or has
\* returned ErrClientClosed; and the client stays closed.
RefusedAtOnce ==
  \A s \in tooLate :
    /\ closed /\ writes[s] = 0
    /\ \/ pc[s] = "read" /\ result[s] = "none"
       \/ pc[s] = "done" /\ result[s] = "ErrClientClosed"

\* A Send that has not begun has neither written nor returned.
Unbegun ==
  \A s \in Senders : pc[s] = "idle" => result[s] = "none" /\ writes[s] = 0

\* Once closed, the first look at c.closed ends a Send.
LEMMA RefusedInductive ==
  TypeOK /\ Unbegun /\ RefusedAtOnce /\ [Next]_vars => Unbegun' /\ RefusedAtOnce'
<1> SUFFICES ASSUME TypeOK, Unbegun, RefusedAtOnce, [Next]_vars
             PROVE  Unbegun' /\ RefusedAtOnce'
  OBVIOUS
<1> USE DEF TypeOK, Unbegun, RefusedAtOnce, Goto, Return
<1>1. ASSUME NEW s \in Senders, Send(s) PROVE Unbegun' /\ RefusedAtOnce'
  BY <1>1 DEF Send
<1>2. ASSUME NEW s \in Senders, Read(s) PROVE Unbegun' /\ RefusedAtOnce'
  BY <1>2 DEF Read, IsClosed
<1>3. ASSUME NEW s \in Senders, Connect(s) \/ Reread(s)
      PROVE  Unbegun' /\ RefusedAtOnce'
  BY <1>3 DEF Connect, Reread
<1>4. ASSUME NEW s \in Senders, BeginWrite(s)
      PROVE  Unbegun' /\ RefusedAtOnce'
  BY <1>4 DEF BeginWrite
<1>5. ASSUME NEW s \in Senders, WriteSucceeds(s) \/ WriteFails(s)
      PROVE  Unbegun' /\ RefusedAtOnce'
  BY <1>5 DEF WriteSucceeds, WriteFails, CountWrite
<1>6. ASSUME NEW s \in Senders, Disconnect(s) \/ Recheck(s)
      PROVE  Unbegun' /\ RefusedAtOnce'
  BY <1>6 DEF Disconnect, Recheck
<1>7. CASE Close
  BY <1>7 DEF Close
<1>8. ASSUME NEW k \in Links, Break(k) PROVE Unbegun' /\ RefusedAtOnce'
  BY <1>8 DEF Break
<1>9. CASE UNCHANGED vars
  BY <1>9 DEF vars
<1>10. QED
  BY <1>1, <1>2, <1>3, <1>4, <1>5, <1>6, <1>7, <1>8, <1>9 DEF Next, Step

\* A Send that begins after Close returns ErrClientClosed and writes nothing.
THEOREM SendRefused == Spec => []SendAfterCloseIsRefused
<1>1. Init => Unbegun /\ RefusedAtOnce
  BY DEF Init, Unbegun, RefusedAtOnce
<1>2. RefusedAtOnce => SendAfterCloseIsRefused
  BY DEF RefusedAtOnce, SendAfterCloseIsRefused
<1>3. QED
  BY <1>1, <1>2, TypeCorrect, RefusedInductive, PTL DEF Spec

-----------------------------------------------------------------------------
(* Writes *)

\* An attempt writes once: before its write there was one for each earlier
\* attempt at most.
OneWritePerAttempt ==
  \A s \in Senders :
    /\ writes[s] <= attempt[s]
    /\ pc[s] \in {"idle", "read", "connect", "reread", "write", "writing"}
         => writes[s] < attempt[s]

\* Every step keeps the writes of a Send within its attempts.
LEMMA WritesInductive ==
  TypeOK /\ OneWritePerAttempt /\ [Next]_vars => OneWritePerAttempt'
<1> SUFFICES ASSUME TypeOK, OneWritePerAttempt, [Next]_vars
             PROVE  OneWritePerAttempt'
  OBVIOUS
<1> USE RetriesAssumption DEF TypeOK, OneWritePerAttempt, Goto, Return
<1>1. ASSUME NEW s \in Senders,
             Send(s) \/ Read(s) \/ Connect(s) \/ Reread(s) \/ BeginWrite(s)
      PROVE  OneWritePerAttempt'
  BY <1>1 DEF Send, Read, Connect, Reread, BeginWrite
<1>2. ASSUME NEW s \in Senders, WriteSucceeds(s) \/ WriteFails(s)
      PROVE  OneWritePerAttempt'
  BY <1>2 DEF WriteSucceeds, WriteFails, CountWrite
<1>3. ASSUME NEW s \in Senders, Disconnect(s) PROVE OneWritePerAttempt'
  BY <1>3 DEF Disconnect
<1>4. ASSUME NEW s \in Senders, Recheck(s) PROVE OneWritePerAttempt'
  <2>1. UNCHANGED writes
    BY <1>4 DEF Recheck
  <2>2. CASE Return(s, "write error") /\ UNCHANGED attempt
    BY <2>1, <2>2
  <2>3. CASE /\ attempt' = [attempt EXCEPT ![s] = @ + 1]
             /\ Goto(s, "read")
    <3>1. writes[s] < attempt'[s]
      BY <2>3
    <3>2. \A t \in Senders \ {s} : pc'[t] = pc[t] /\ attempt'[t] = attempt[t]
      BY <2>3
    <3>3. writes[s] <= attempt'[s]
      BY <2>3
    <3>4. QED
      BY <2>1, <3>1, <3>2, <3>3
  <2>4. QED
    BY <1>4, <2>2, <2>3 DEF Recheck
<1>5. ASSUME NEW k \in Links, Break(k) PROVE OneWritePerAttempt'
  BY <1>5 DEF Break
<1>6. CASE Close \/ UNCHANGED vars
  BY <1>6 DEF Close, vars
<1>7. QED
  BY <1>1, <1>2, <1>3, <1>4, <1>5, <1>6 DEF Next, Step

\* A message is given to the network at most maxRetries times.
THEOREM WritesBounded == Spec => []WritesAreBounded
<1>1. Init => OneWritePerAttempt
  BY DEF Init, OneWritePerAttempt
<1>2. TypeOK /\ OneWritePerAttempt => WritesAreBounded
  BY RetriesAssumption DEF TypeOK, OneWritePerAttempt, WritesAreBounded
<1>3. QED
  BY <1>1, <1>2, TypeCorrect, WritesInductive, PTL DEF Spec
=============================================================================
