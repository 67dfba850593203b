-------------------------- MODULE TCPReaderWriter --------------------------
(***************************************************************************)
(* The remote-debugging connection (core/server/tcp/request_reader.py):    *)
(* one socket at a time, read by the event loop without a lock, written by *)
(* any number of workers under opt_lock, and replaced by whichever of them *)
(* notices that it broke, under the same lock.                             *)
(*                                                                         *)
(* A greenlet gives way at a lock, at a socket operation and while it      *)
(* sleeps; a step is what it does in between.  A payload goes out in two   *)
(* partial sends; a line comes in in two pieces.                           *)
(***************************************************************************)
EXTENDS Naturals, Sequences

CONSTANTS
  Writers,            \* workers, each with one payload to write
  ReconnectAttempts,  \* reconnect_attempts
  Registrations,      \* how many messages on_connected writes
  CancelDuring,       \* where a worker may be cancelled: "send", "launch"
  MaxSockets,         \* bound: the connections that succeed
  MaxPieces           \* bound: the pieces that come in on a socket

ASSUME WritersAssumption ==
  Writers \cap {"reader", "nobody", "handshake", "registration"} = {}
ASSUME BoundsAssumption ==
  /\ ReconnectAttempts \in Nat \ {0}
  /\ Registrations \in Nat
  /\ MaxSockets \in Nat \ {0}
  /\ MaxPieces \in Nat
ASSUME CancelAssumption == CancelDuring \subseteq {"send", "launch"}

VARIABLES
  closed,     \* _closed
  alive,      \* alive
  sock,       \* sock: the number of a connection
  pending,    \* _reconnect_pending
  lock,       \* who holds opt_lock
  lpc,        \* control of _launch, which the holder of opt_lock runs
  attempts,   \* attempts, in _launch
  exhausted,  \* history: the last _launch gave up after all its attempts
  made,       \* how many connections have succeeded
  isOpen,     \* the sockets that have not been closed on this side
  broken,     \* the sockets whose peer has gone
  wire,       \* history: what was sent on each socket
  came,       \* how many pieces have come in on each socket
  wpc,        \* control of each worker's write()
  rpc,        \* control of the event loop's _read_stream
  rsock,      \* sock, in _read_stream
  source,     \* source_socket
  buffer,     \* buffer: the piece of an unfinished line, or none
  lines,      \* history: the lines _read_stream has yielded
  xpc         \* control of another thread's close()

connectionVars == <<alive, sock, isOpen>>
launchVars == <<lpc, attempts, exhausted, made>>
readerVars == <<rpc, rsock, source, buffer, lines, came>>
vars == <<closed, connectionVars, pending, lock, launchVars, broken, wire, wpc,
          readerVars, xpc>>

Sockets == 1 .. MaxSockets
Pieces == Sockets \X (1 .. MaxPieces)
Threads == Writers \cup {"reader"}

Handshake == <<"handshake", 1>>
Registration(n) == <<"registration", n>>
Part(w, n) == <<w, n>>

TypeOK ==
  /\ closed \in BOOLEAN /\ alive \in BOOLEAN /\ pending \in BOOLEAN
  /\ sock \in Sockets
  /\ lock \in Threads \cup {"nobody"}
  /\ lpc \in {"off", "start", "try", "dial", "handshake", "register",
              "connected", "gaveup"}
  /\ attempts \in 0 .. ReconnectAttempts
  /\ exhausted \in BOOLEAN
  /\ made \in Sockets
  /\ isOpen \subseteq Sockets
  /\ broken \subseteq Sockets
  /\ wire \in [Sockets -> Seq(({"handshake", "registration"} \cup Writers) \X Nat)]
  /\ came \in [Sockets -> 0 .. MaxPieces]
  /\ wpc \in [Writers -> {"idle", "first", "second", "launch", "returned",
                          "raised", "cancelled"}]
  /\ rpc \in {"head", "lock", "launch", "capture", "read", "failed", "relaunch",
              "close", "closing", "stopped"}
  /\ rsock \in Sockets
  /\ source \in Sockets \cup {0}
  /\ buffer \in Seq(Pieces)
  /\ lines \subseteq Seq(Pieces)
  /\ xpc \in {"idle", "closing", "done"}

(***************************************************************************)
(* launch() has made and registered the first connection, and the threads  *)
(* of the server start.                                                    *)
(***************************************************************************)
Init ==
  /\ closed = FALSE /\ alive = TRUE /\ pending = FALSE
  /\ sock = 1
  /\ lock = "nobody"
  /\ lpc = "off"
  /\ attempts = 0
  /\ exhausted = FALSE
  /\ made = 1
  /\ isOpen = {1}
  /\ broken = {}
  /\ wire = [s \in Sockets |->
               IF s = 1
               THEN <<Handshake>> \o [n \in 1 .. Registrations |-> Registration(n)]
               ELSE <<>>]
  /\ came = [s \in Sockets |-> 0]
  /\ wpc = [w \in Writers |-> "idle"]
  /\ rpc = "head"
  /\ rsock = 1
  /\ source = 0
  /\ buffer = <<>>
  /\ lines = {}
  /\ xpc = "idle"

-----------------------------------------------------------------------------
(* The socket.                                                             *)

(***************************************************************************)
(* The peer goes away, or the network does.                                *)
(***************************************************************************)
Break(s) ==
  /\ s \in 1 .. made \ broken
  /\ broken' = broken \cup {s}
  /\ UNCHANGED <<closed, connectionVars, pending, lock, launchVars, wire, wpc,
                 readerVars, xpc>>

(***************************************************************************)
(* A send on a socket that is open may succeed even if the peer has gone;  *)
(* a send on one that is closed or broken may fail.                        *)
(***************************************************************************)
MaySend(s) == s \in isOpen
MayFail(s) == s \notin isOpen \/ s \in broken

Sent(s, m) == wire' = [wire EXCEPT ![s] = Append(@, m)]

(***************************************************************************)
(* sock.close(); self.alive = False                                        *)
(***************************************************************************)
Drop(s) == alive' = FALSE /\ isOpen' = isOpen \ {s} /\ sock' = sock

-----------------------------------------------------------------------------
(* _launch, run by the thread that holds opt_lock.                         *)

(***************************************************************************)
(* Nothing to do if somebody else has reconnected or closed.               *)
(***************************************************************************)
LaunchStart ==
  /\ lpc = "start"
  /\ IF alive \/ closed
     THEN lpc' = "connected" /\ UNCHANGED <<pending, attempts, exhausted>>
     ELSE lpc' = "try" /\ pending' = FALSE /\ attempts' = 0 /\ exhausted' = FALSE
  /\ UNCHANGED <<closed, connectionVars, lock, made, broken, wire, wpc,
                 readerVars, xpc>>

(***************************************************************************)
(* One more attempt, unless close() was called in the meantime.            *)
(***************************************************************************)
LaunchTry ==
  /\ lpc = "try"
  /\ lpc' = IF closed THEN "connected" ELSE "dial"
  /\ UNCHANGED <<closed, connectionVars, pending, lock, attempts, exhausted,
                 made, broken, wire, wpc, readerVars, xpc>>

(***************************************************************************)
(* The attempt failed: after the last one _launch raises, otherwise it     *)
(* sleeps, with the lock held, and goes on.                                *)
(***************************************************************************)
AttemptFailedUncounted ==
  \* mutant: the attempts are not counted
  lpc' = "try" /\ UNCHANGED <<attempts, exhausted>>

AttemptFailed ==
  /\ attempts' = attempts + 1
  /\ IF attempts + 1 >= ReconnectAttempts
     THEN lpc' = "gaveup" /\ exhausted' = TRUE
     ELSE lpc' = "try" /\ exhausted' = exhausted

(***************************************************************************)
(* create_connection: it fails, or its socket becomes the current one, or  *)
(* it comes too late and is closed.                                        *)
(***************************************************************************)
LaunchDialUntested ==
  \* mutant: a connection that comes after close() is used all the same
  /\ lpc = "dial"
  /\ \/ /\ AttemptFailed
        /\ UNCHANGED <<connectionVars, made>>
     \/ /\ made < MaxSockets
        /\ made' = made + 1
        /\ lpc' = "handshake"
        /\ sock' = made + 1
        /\ alive' = TRUE
        /\ isOpen' = isOpen \cup {made + 1}
        /\ UNCHANGED <<attempts, exhausted>>
  /\ UNCHANGED <<closed, pending, lock, broken, wire, wpc, readerVars, xpc>>

LaunchDial ==
  /\ lpc = "dial"
  /\ \/ /\ AttemptFailed
        /\ UNCHANGED <<connectionVars, made>>
     \/ /\ made < MaxSockets
        /\ made' = made + 1
        /\ IF closed
           THEN lpc' = "connected" /\ UNCHANGED connectionVars
           ELSE /\ lpc' = "handshake"
                /\ sock' = made + 1
                /\ alive' = TRUE
                /\ isOpen' = isOpen \cup {made + 1}
        /\ UNCHANGED <<attempts, exhausted>>
  /\ UNCHANGED <<closed, pending, lock, broken, wire, wpc, readerVars, xpc>>

(***************************************************************************)
(* The handshake, then what on_connected writes; a failure closes the new  *)
(* socket and fails the attempt.                                           *)
(***************************************************************************)
Registered == Len(wire[sock]) - 1

LaunchHandshake ==
  /\ lpc = "handshake"
  /\ \/ /\ MaySend(sock)
        /\ Sent(sock, Handshake)
        /\ lpc' = "register"
        /\ UNCHANGED <<connectionVars, attempts, exhausted>>
     \/ /\ MayFail(sock)
        /\ Drop(sock)
        /\ AttemptFailed
        /\ wire' = wire
  /\ UNCHANGED <<closed, pending, lock, made, broken, wpc, readerVars, xpc>>

LaunchRegister ==
  /\ lpc = "register"
  /\ \/ /\ Registered < Registrations /\ alive /\ MaySend(sock)
        /\ Sent(sock, Registration(Registered + 1))
        /\ UNCHANGED <<connectionVars, lpc, attempts, exhausted>>
     \/ /\ Registered < Registrations /\ (~alive \/ MayFail(sock))
        /\ Drop(sock)
        /\ AttemptFailed
        /\ wire' = wire
     \/ /\ Registered = Registrations
        /\ lpc' = "connected"
        /\ UNCHANGED <<connectionVars, attempts, exhausted, wire>>
  /\ UNCHANGED <<closed, pending, lock, made, broken, wpc, readerVars, xpc>>

Launch == LaunchStart \/ LaunchTry \/ LaunchDial \/ LaunchHandshake \/ LaunchRegister

LaunchOver == lpc \in {"connected", "gaveup"}

-----------------------------------------------------------------------------
(* write(), by a worker.                                                   *)

(***************************************************************************)
(* The worker is done with write() and lets go of the lock.                *)
(***************************************************************************)
Leave(w, how) ==
  /\ wpc' = [wpc EXCEPT ![w] = how]
  /\ lock' = "nobody"

EnterUnlocked(w) ==
  \* mutant: the payload is written without opt_lock
  /\ wpc[w] = "idle"
  /\ IF alive
     THEN lock' = w /\ wpc' = [wpc EXCEPT ![w] = "first"]
     ELSE Leave(w, "raised")
  /\ UNCHANGED <<closed, connectionVars, pending, launchVars, broken, wire,
                 readerVars, xpc>>

Enter(w) ==
  /\ wpc[w] = "idle"
  /\ lock = "nobody"
  /\ IF alive
     THEN lock' = w /\ wpc' = [wpc EXCEPT ![w] = "first"]
     ELSE Leave(w, "raised")
  /\ UNCHANGED <<closed, connectionVars, pending, launchVars, broken, wire,
                 readerVars, xpc>>

PartNo(w) == IF wpc[w] = "first" THEN 1 ELSE 2

SendPart(w) ==
  /\ wpc[w] \in {"first", "second"}
  /\ MaySend(sock)
  /\ Sent(sock, Part(w, PartNo(w)))
  /\ IF wpc[w] = "first"
     THEN wpc' = [wpc EXCEPT ![w] = "second"] /\ lock' = lock
     ELSE Leave(w, "returned")
  /\ UNCHANGED <<closed, connectionVars, pending, launchVars, broken,
                 readerVars, xpc>>

(***************************************************************************)
(* The send raises: unless the reader was closed, the worker reconnects,   *)
(* and write() returns as _launch does.                                    *)
(***************************************************************************)
SendFails(w) ==
  /\ wpc[w] \in {"first", "second"}
  /\ MayFail(sock)
  /\ Drop(sock)
  /\ IF closed
     THEN Leave(w, "raised") /\ lpc' = lpc
     ELSE /\ wpc' = [wpc EXCEPT ![w] = "launch"]
          /\ lpc' = "start"
          /\ lock' = lock
  /\ UNCHANGED <<closed, pending, attempts, exhausted, made, broken, wire,
                 readerVars, xpc>>

(***************************************************************************)
(* The worker is cancelled in the middle of its payload: the socket cannot *)
(* be used any more, and reconnecting is left to the reader.               *)
(***************************************************************************)
CancelUnmarked(w) ==
  \* mutant: nothing tells the reader to reconnect
  /\ "send" \in CancelDuring
  /\ wpc[w] \in {"first", "second"}
  /\ Drop(sock)
  /\ Leave(w, "cancelled")
  /\ UNCHANGED <<closed, pending, launchVars, broken, wire, readerVars, xpc>>

Cancel(w) ==
  /\ "send" \in CancelDuring
  /\ wpc[w] \in {"first", "second"}
  /\ Drop(sock)
  /\ pending' = IF closed THEN pending ELSE TRUE
  /\ Leave(w, "cancelled")
  /\ UNCHANGED <<closed, launchVars, broken, wire, readerVars, xpc>>

LaunchDoneRetry(w) ==
  \* mutant: the payload is written again on the new connection
  /\ wpc[w] = "launch"
  /\ LaunchOver
  /\ lpc' = "off"
  /\ IF lpc = "connected" /\ alive
     THEN wpc' = [wpc EXCEPT ![w] = "first"] /\ lock' = lock
     ELSE Leave(w, "raised")
  /\ UNCHANGED <<closed, connectionVars, pending, attempts, exhausted, made,
                 broken, wire, readerVars, xpc>>

LaunchDone(w) ==
  /\ wpc[w] = "launch"
  /\ LaunchOver
  /\ lpc' = "off"
  /\ Leave(w, IF lpc = "connected" THEN "returned" ELSE "raised")
  /\ UNCHANGED <<closed, connectionVars, pending, attempts, exhausted, made,
                 broken, wire, readerVars, xpc>>

(***************************************************************************)
(* The worker is cancelled while it reconnects: _connect_once closes the   *)
(* connection it was registering, and _launch takes no note.               *)
(***************************************************************************)
CancelLaunch(w) ==
  /\ "launch" \in CancelDuring
  /\ wpc[w] = "launch"
  /\ lpc \in {"try", "dial", "handshake", "register"}
  /\ IF lpc \in {"handshake", "register"} THEN Drop(sock) ELSE UNCHANGED connectionVars
  /\ lpc' = "off"
  /\ Leave(w, "cancelled")
  /\ UNCHANGED <<closed, pending, attempts, exhausted, made, broken, wire,
                 readerVars, xpc>>

-----------------------------------------------------------------------------
(* _read_stream, run by the event loop.                                    *)

(***************************************************************************)
(* The head of the loop, and the test of alive.                            *)
(***************************************************************************)
ReadHead ==
  /\ rpc = "head"
  /\ rpc' = IF closed THEN "close" ELSE IF alive THEN "capture" ELSE "lock"
  /\ UNCHANGED <<closed, connectionVars, pending, lock, launchVars, broken, wire,
                 wpc, rsock, source, buffer, lines, came, xpc>>

(***************************************************************************)
(* The connection is dead: it was somebody's to bring back, or a cancelled *)
(* write left it to the reader, or it is over.                             *)
(***************************************************************************)
ReadLockPatient ==
  \* mutant: the reader waits for somebody to bring the connection back
  /\ rpc = "lock"
  /\ lock = "nobody"
  /\ rpc' = IF alive THEN "capture" ELSE "head"
  /\ UNCHANGED <<closed, lock, lpc, connectionVars, pending, attempts, exhausted,
                 made, broken, wire, wpc, rsock, source, buffer, lines, came, xpc>>

ReadLock ==
  /\ rpc = "lock"
  /\ lock = "nobody"
  /\ \/ /\ alive
        /\ rpc' = "capture"
        /\ UNCHANGED <<closed, lock, lpc>>
     \/ /\ ~alive /\ ~pending
        /\ closed' = TRUE
        /\ rpc' = "close"
        /\ UNCHANGED <<lock, lpc>>
     \/ /\ ~alive /\ pending
        /\ lock' = "reader"
        /\ lpc' = "start"
        /\ rpc' = "launch"
        /\ closed' = closed
  /\ UNCHANGED <<connectionVars, pending, attempts, exhausted, made, broken,
                 wire, wpc, rsock, source, buffer, lines, came, xpc>>

ReadCaptureKeep ==
  \* mutant: the buffer is kept when the socket has changed
  /\ rpc = "capture"
  /\ rsock' = sock
  /\ source' = sock
  /\ rpc' = "read"
  /\ UNCHANGED <<closed, connectionVars, pending, lock, launchVars, broken, wire,
                 wpc, buffer, lines, came, xpc>>

ReadCapture ==
  /\ rpc = "capture"
  /\ rsock' = sock
  /\ source' = sock
  /\ buffer' = IF sock = source THEN buffer ELSE <<>>
  /\ rpc' = "read"
  /\ UNCHANGED <<closed, connectionVars, pending, lock, launchVars, broken, wire,
                 wpc, lines, came, xpc>>

(***************************************************************************)
(* _read_data and what is done with the data: nothing within a second,     *)
(* nothing of use because the socket has been replaced meanwhile, one more *)
(* piece, which may finish a line, or an error.                            *)
(***************************************************************************)
ReadData ==
  /\ rpc = "read"
  /\ \/ /\ rpc' = "head"
        /\ buffer' = IF sock = rsock THEN buffer ELSE <<>>
        /\ UNCHANGED <<lines, came>>
     \/ /\ sock = rsock
        /\ rsock \in isOpen
        /\ came[rsock] < MaxPieces
        /\ came' = [came EXCEPT ![rsock] = @ + 1]
        /\ LET piece == <<rsock, came[rsock] + 1>>
               ends == (came[rsock] + 1) % 2 = 0
           IN  /\ lines' = IF ends THEN lines \cup {Append(buffer, piece)} ELSE lines
               /\ buffer' = IF ends THEN <<>> ELSE Append(buffer, piece)
        /\ rpc' = "head"
     \/ /\ MayFail(rsock)
        /\ rpc' = "failed"
        /\ UNCHANGED <<buffer, lines, came>>
  /\ UNCHANGED <<closed, connectionVars, pending, lock, launchVars, broken, wire,
                 wpc, rsock, source, xpc>>

(***************************************************************************)
(* A read that failed matters only if its socket is still the current one. *)
(***************************************************************************)
ReadFailedUntested ==
  \* mutant: the failure is blamed on the current socket
  /\ rpc = "failed"
  /\ lock = "nobody"
  /\ \/ /\ closed
        /\ rpc' = "close"
        /\ UNCHANGED <<connectionVars, lock, lpc, buffer>>
     \/ /\ ~closed
        /\ Drop(sock)
        /\ lock' = "reader"
        /\ lpc' = "start"
        /\ rpc' = "relaunch"
        /\ buffer' = buffer
  /\ UNCHANGED <<closed, pending, attempts, exhausted, made, broken, wire, wpc,
                 rsock, source, lines, came, xpc>>

ReadFailed ==
  /\ rpc = "failed"
  /\ lock = "nobody"
  /\ \/ /\ closed
        /\ rpc' = "close"
        /\ UNCHANGED <<connectionVars, lock, lpc, buffer>>
     \/ /\ ~closed /\ sock = rsock
        /\ Drop(rsock)
        /\ lock' = "reader"
        /\ lpc' = "start"
        /\ rpc' = "relaunch"
        /\ buffer' = buffer
     \/ /\ ~closed /\ sock # rsock
        /\ buffer' = <<>>
        /\ rpc' = "head"
        /\ UNCHANGED <<connectionVars, lock, lpc>>
  /\ UNCHANGED <<closed, pending, attempts, exhausted, made, broken, wire, wpc,
                 rsock, source, lines, came, xpc>>

(***************************************************************************)
(* The reader's own _launch is over; if it raised, the event loop logs     *)
(* that and starts _read_stream afresh.                                    *)
(***************************************************************************)
ReadLaunchDone ==
  /\ rpc \in {"launch", "relaunch"}
  /\ LaunchOver
  /\ lpc' = "off"
  /\ lock' = "nobody"
  /\ rpc' = IF lpc = "connected" /\ rpc = "launch" THEN "capture" ELSE "head"
  /\ source' = IF lpc = "gaveup" THEN 0 ELSE source
  /\ buffer' = IF lpc = "connected" /\ rpc = "launch" THEN buffer ELSE <<>>
  /\ UNCHANGED <<closed, connectionVars, pending, attempts, exhausted, made,
                 broken, wire, wpc, rsock, lines, came, xpc>>

-----------------------------------------------------------------------------
(* close(): the flag and the subscribers first, then the socket, without   *)
(* opt_lock.  The event loop runs it when the stream is over.              *)

ReadClose ==
  /\ \/ rpc = "close" /\ closed' = TRUE /\ rpc' = "closing" /\ UNCHANGED connectionVars
     \/ /\ rpc = "closing"
        /\ rpc' = "stopped"
        /\ closed' = closed
        /\ IF alive THEN Drop(sock) ELSE UNCHANGED connectionVars
  /\ UNCHANGED <<pending, lock, launchVars, broken, wire, wpc, rsock, source,
                 buffer, lines, came, xpc>>

Close ==
  /\ \/ xpc = "idle" /\ closed' = TRUE /\ xpc' = "closing" /\ UNCHANGED connectionVars
     \/ /\ xpc = "closing"
        /\ xpc' = "done"
        /\ closed' = closed
        /\ IF alive THEN Drop(sock) ELSE UNCHANGED connectionVars
  /\ UNCHANGED <<pending, lock, launchVars, broken, wire, wpc, readerVars>>

-----------------------------------------------------------------------------
WriteStep(w) == SendPart(w) \/ SendFails(w) \/ LaunchDone(w)

ReadStep ==
  ReadHead \/ ReadLock \/ ReadCapture \/ ReadData \/ ReadFailed \/ ReadLaunchDone
    \/ ReadClose

Next ==
  \/ \E s \in Sockets : Break(s)
  \/ Launch
  \/ \E w \in Writers : Enter(w) \/ WriteStep(w) \/ Cancel(w) \/ CancelLaunch(w)
  \/ ReadStep
  \/ Close

Spec == Init /\ [][Next]_vars

(***************************************************************************)
(* Greenlets are scheduled, a dial comes to an end and a connection that   *)
(* is lost is noticed.  Nothing is asked of the daemon: sock.send has no   *)
(* timeout, so a send on an open socket whose peer is still there may wait *)
(* for ever, and only the steps that send nothing are fair.  The threads   *)
(* that compete for opt_lock are finitely many and each asks for it a      *)
(* bounded number of times, so weak fairness is enough.                    *)
(***************************************************************************)
NothingSent == wire' = wire

FairSpec ==
  /\ Spec
  /\ WF_vars(Launch /\ NothingSent)
  /\ WF_vars(ReadStep)
  /\ \A w \in Writers : WF_vars(WriteStep(w) /\ NothingSent)

-----------------------------------------------------------------------------
(***************************************************************************)
(* What the daemon reads on a connection is the handshake, then every      *)
(* registration message, then whole payloads: no write overtakes the       *)
(* registration of a connection that is being brought back, none is mixed  *)
(* with another, and a payload that was broken off is the last thing sent. *)
(***************************************************************************)
WellFormedStreams ==
  \A s \in Sockets : \A k \in DOMAIN wire[s] :
    LET m == wire[s][k] IN
      /\ k = 1 => m = Handshake
      /\ k \in 2 .. Registrations + 1 => m = Registration(k - 1)
      /\ k > Registrations + 1 =>
           /\ m[1] \in Writers
           /\ IF (k - Registrations) % 2 = 0
              THEN m[2] = 1
              ELSE m = Part(wire[s][k - 1][1], 2)

(***************************************************************************)
(* Reconnecting never sends a payload a second time, not even a part of    *)
(* it: write() may lose a payload, but does not repeat one.                *)
(***************************************************************************)
AtMostOnce ==
  \A s, t \in Sockets : \A j \in DOMAIN wire[s], k \in DOMAIN wire[t] :
    wire[s][j] = wire[t][k] /\ wire[s][j][1] \in Writers => s = t /\ j = k

(***************************************************************************)
(* A line that is handed to the event loop is made of consecutive pieces   *)
(* of one connection, whenever the socket was replaced under the reader.   *)
(***************************************************************************)
LinesIntact ==
  \A l \in lines :
    /\ Len(l) = 2
    /\ l[1][2] % 2 = 1
    /\ l[2] = <<l[1][1], l[1][2] + 1>>

(***************************************************************************)
(* At most one socket is open, the current one, and just while alive says  *)
(* so: no path of failure or cancellation leaks a connection.  Once a      *)
(* close() has returned none is, even if one was being made while it ran.  *)
(***************************************************************************)
NoSocketLeak ==
  /\ isOpen = IF alive THEN {sock} ELSE {}
  /\ xpc = "done" \/ rpc = "stopped" => isOpen = {}

(***************************************************************************)
(* A connection is not torn down for another one's failure: a socket whose *)
(* peer is there is closed only by close() or for a cancelled write.       *)
(***************************************************************************)
HealthySocketKept ==
  [][\A s \in isOpen \ isOpen' :
       \/ s \in broken
       \/ closed
       \/ \E w \in Writers : wpc[w] # "cancelled" /\ wpc'[w] = "cancelled"]_vars

(***************************************************************************)
(* The reader gives the connection up by itself only after a _launch has   *)
(* used up its attempts: a cancelled write is brought back by the reader.  *)
(***************************************************************************)
GivenUpOnlyWhenExhausted ==
  [][rpc = "lock" /\ rpc' = "close" => closed \/ exhausted]_vars

(***************************************************************************)
(* A connection that is lost is made again or closed; the plugin does not  *)
(* stay half dead.                                                         *)
(***************************************************************************)
RecoversOrCloses == ~alive ~> alive \/ closed

(***************************************************************************)
(* A write comes back when its connection is lost or closed under it, when *)
(* it is reconnecting, and however often that fails.  The one thing that   *)
(* keeps it, and with it everybody who waits for opt_lock, is a connection *)
(* that stays open and whose peer stays but takes nothing any more.        *)
(***************************************************************************)
StaysUp == [](sock \in isOpen \ broken)

WriteEnds ==
  \A w \in Writers :
    wpc[w] \in {"first", "second", "launch"} ~>
      (wpc[w] \in {"returned", "raised", "cancelled"} \/ StaysUp)
=============================================================================
