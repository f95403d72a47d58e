------------------------------ MODULE WSClient ------------------------------
(***************************************************************************)
(* client/client.go, the library bots use to talk to the broadcaster: one  *)
(* Client, the goroutines that call Send on it and one that calls Close.   *)
(* c.mu guards c.conn and c.closed, but sendBytes gives it up between its  *)
(* steps and writes with no lock.  A step here is one critical section, or *)
(* the begin or the end of a write.                                        *)
(*                                                                         *)
(* Links are the TCP connections Dial makes.  The network and the server   *)
(* are external: a link may break at any time, and a write to a broken     *)
(* link may still succeed.                                                 *)
(***************************************************************************)
EXTENDS Naturals, FiniteSets

CONSTANTS
  Senders,     \* goroutines, each of which calls Send once
  Links,       \* bound: the connections Dial can make
  MaxRetries,  \* maxRetries of sendBytes
  None         \* a nil *websocket.Conn

ASSUME RetriesAssumption == MaxRetries \in Nat \ {0}
ASSUME NoneAssumption == None \notin Links

VARIABLES
  conn,      \* c.conn
  closed,    \* c.closed
  link,      \* state of each connection
  pc,        \* place of each Send
  local,     \* sendBytes's local conn
  attempt,   \* sendBytes's attempt, counted from 1
  result,    \* what Send returned, or "panic"
  writes,    \* history: the writes of a Send that succeeded or failed
  tooLate    \* history: the Sends that began after Close

vars == <<conn, closed, link, pc, local, attempt, result, writes, tooLate>>

LinkStates == {"unused", "open", "broken", "closed"}
Places  == {"idle", "read", "connect", "reread", "write", "writing",
            "disconnect", "recheck", "done"}
Results == {"none", "ok", "ErrClientClosed", "dial error", "write error",
            "panic"}

\* New has connected.
Init ==
  /\ conn \in Links
  /\ closed = FALSE
  /\ link = [k \in Links |-> IF k = conn THEN "open" ELSE "unused"]
  /\ pc = [s \in Senders |-> "idle"]
  /\ local = [s \in Senders |-> None]
  /\ attempt = [s \in Senders |-> 1]
  /\ result = [s \in Senders |-> "none"]
  /\ writes = [s \in Senders |-> 0]
  /\ tooLate = {}

Goto(s, place) == pc' = [pc EXCEPT ![s] = place]

Return(s, r) == Goto(s, "done") /\ result' = [result EXCEPT ![s] = r]

CloseLink(k) == [link EXCEPT ![k] = "closed"]

Send(s) ==
  /\ pc[s] = "idle"
  /\ Goto(s, "read")
  /\ tooLate' = IF closed THEN tooLate \union {s} ELSE tooLate
  /\ UNCHANGED <<conn, closed, link, local, attempt, result, writes>>

\* (mutant of IsClosed: c.closed is not looked at)
NeverClosed == FALSE

IsClosed == closed

Read(s) ==
  /\ pc[s] = "read"
  /\ local' = [local EXCEPT ![s] = conn]
  /\ \/ IsClosed /\ Return(s, "ErrClientClosed")
     \/ /\ ~IsClosed
        /\ Goto(s, IF conn = None THEN "connect" ELSE "write")
        /\ UNCHANGED result
  /\ UNCHANGED <<conn, closed, link, attempt, writes, tooLate>>

\* (mutants of NeedsNoLink: one of its two conditions dropped)
OnlyWhenClosed    == closed
OnlyWhenConnected == conn # None

NeedsNoLink == closed \/ conn # None

\* connect, all of it under c.mu.
Connect(s) ==
  /\ pc[s] = "connect"
  /\ \/ /\ NeedsNoLink
        /\ Goto(s, "reread")
        /\ UNCHANGED <<conn, link, result>>
     \/ /\ ~NeedsNoLink
        /\ \E k \in Links :
             /\ link[k] = "unused"
             /\ link' = [link EXCEPT ![k] = "open"]
             /\ conn' = k
        /\ Goto(s, "reread")
        /\ UNCHANGED result
     \/ /\ ~NeedsNoLink
        /\ Return(s, "dial error")
        /\ UNCHANGED <<conn, link>>
  /\ UNCHANGED <<closed, local, attempt, writes, tooLate>>

Reread(s) ==
  /\ pc[s] = "reread"
  /\ local' = [local EXCEPT ![s] = conn]
  /\ Goto(s, "write")
  /\ UNCHANGED <<conn, closed, link, attempt, result, writes, tooLate>>

Clash(s) ==
  \E t \in Senders \ {s} : pc[t] = "writing" /\ local[t] = local[s]

\* WriteMessage begins.  On a nil *websocket.Conn it panics; so it may, as
\* the websocket package documents, while another goroutine is writing.
BeginWrite(s) ==
  /\ pc[s] = "write"
  /\ \/ local[s] # None /\ Goto(s, "writing") /\ UNCHANGED result
     \/ (local[s] = None \/ Clash(s)) /\ Return(s, "panic")
  /\ UNCHANGED <<conn, closed, link, local, attempt, writes, tooLate>>

CountWrite(s) == writes' = [writes EXCEPT ![s] = @ + 1]

WriteSucceeds(s) ==
  /\ pc[s] = "writing" /\ link[local[s]] # "closed"
  /\ CountWrite(s)
  /\ Return(s, "ok")
  /\ UNCHANGED <<conn, closed, link, local, attempt, tooLate>>

\* Whatever the state of the link: a write may fail on a live one too.
WriteFails(s) ==
  /\ pc[s] = "writing"
  /\ CountWrite(s)
  /\ Goto(s, "disconnect")
  /\ UNCHANGED <<conn, closed, link, local, attempt, result, tooLate>>

\* disconnect: the link it closes is c.conn, whichever that is by now.
Disconnect(s) ==
  /\ pc[s] = "disconnect"
  /\ link' = IF conn = None THEN link ELSE CloseLink(conn)
  /\ conn' = None
  /\ Goto(s, "recheck")
  /\ UNCHANGED <<closed, local, attempt, result, writes, tooLate>>

\* (mutant of LastAttempt: one attempt too many)
OnePastLast(s) == attempt[s] > MaxRetries

LastAttempt(s) == attempt[s] = MaxRetries

\* The end of an attempt: give up, or go round the loop.
Recheck(s) ==
  /\ pc[s] = "recheck"
  /\ \/ /\ closed \/ LastAttempt(s)
        /\ Return(s, "write error")
        /\ UNCHANGED attempt
     \/ /\ ~closed /\ ~LastAttempt(s)
        /\ attempt' = [attempt EXCEPT ![s] = @ + 1]
        /\ Goto(s, "read")
        /\ UNCHANGED result
  /\ UNCHANGED <<conn, closed, link, local, writes, tooLate>>

Close ==
  /\ closed' = TRUE
  /\ link' = IF conn = None THEN link ELSE CloseLink(conn)
  /\ conn' = None
  /\ UNCHANGED <<pc, local, attempt, result, writes, tooLate>>

\* External: the server or the network drops a connection.
Break(k) ==
  /\ link[k] = "open"
  /\ link' = [link EXCEPT ![k] = "broken"]
  /\ UNCHANGED <<conn, closed, pc, local, attempt, result, writes, tooLate>>

Step(s) ==
  \/ Read(s) \/ Connect(s) \/ Reread(s) \/ BeginWrite(s)
  \/ WriteSucceeds(s) \/ WriteFails(s) \/ Disconnect(s) \/ Recheck(s)

Next ==
  \/ \E s \in Senders : Send(s) \/ Step(s)
  \/ Close
  \/ \E k \in Links : Break(k)

Spec == Init /\ [][Next]_vars

-----------------------------------------------------------------------------
(* Properties *)

TypeOK ==
  /\ conn \in Links \union {None}
  /\ closed \in BOOLEAN
  /\ link \in [Links -> LinkStates]
  /\ pc \in [Senders -> Places]
  /\ local \in [Senders -> Links \union {None}]
  /\ attempt \in [Senders -> 1 .. MaxRetries]
  /\ result \in [Senders -> Results]
  /\ writes \in [Senders -> Nat]
  /\ tooLate \in SUBSET Senders
  /\ \A s \in Senders : pc[s] = "writing" => local[s] # None

Live(k) == link[k] \in {"open", "broken"}

\* The client owns at most one connection, the one c.conn names, and c.conn
\* never names a connection that was closed: no race of reconnects leaks a
\* socket or sends the next message to a dead one.
OneLink == \A k \in Links : Live(k) <=> conn = k

\* After Close no Send reconnects, however far it had come before.
NoLinkAfterClose == closed => conn = None /\ \A k \in Links : ~Live(k)

\* "After Close(), Send() returns client.ErrClientClosed"
SendAfterCloseIsRefused ==
  \A s \in tooLate : result[s] \in {"none", "ErrClientClosed"} /\ writes[s] = 0

\* A message is given to the network at most maxRetries times, also when
\* other goroutines close the connections it is being written to.
WritesAreBounded == \A s \in Senders : writes[s] <= MaxRetries

\* "Send() and Close() are safe for concurrent use."
NoSendPanics == \A s \in Senders : result[s] # "panic"
=============================================================================
