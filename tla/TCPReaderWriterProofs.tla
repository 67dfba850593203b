----------------------- MODULE TCPReaderWriterProofs -----------------------
(***************************************************************************)
(* What holds of TCPReaderWriter for any number of workers, of attempts,   *)
(* of registration messages and of connections.                            *)
(*                                                                         *)
(* Everything rests on two facts. opt_lock: who writes or reconnects holds *)
(* it, so nobody writes on a connection that is being made (LockInv). And  *)
(* numbers: a new connection has a number that none had before, so what    *)
(* was found out about an older one is not held against it (SocketInv,     *)
(* FailedInv, ReadInv), and nothing has been sent or read on it.           *)
(***************************************************************************)
EXTENDS TCPReaderWriter, TLAPS

-----------------------------------------------------------------------------
(* The inductive invariant.                                                *)

(***************************************************************************)
(* opt_lock is held by the worker that writes or reconnects, or by the     *)
(* reader that reconnects, and _launch is run by none but them.            *)
(***************************************************************************)
Holds(w) == wpc[w] \in {"first", "second", "launch"}

LockInv ==
  /\ \A w \in Writers : Holds(w) <=> lock = w
  /\ rpc \in {"launch", "relaunch"} <=> lock = "reader"
  /\ lpc # "off" <=> rpc \in {"launch", "relaunch"}
                     \/ \E w \in Writers : wpc[w] = "launch"

(***************************************************************************)
(* No other socket than the current one is open, and that just while alive *)
(* says so; there is none while _launch looks for one, and none is made    *)
(* after a close().                                                        *)
(***************************************************************************)
SocketInv ==
  /\ isOpen = IF alive THEN {sock} ELSE {}
  /\ sock <= made
  /\ lpc \in {"start", "try", "dial", "gaveup"} => ~alive
  /\ xpc # "idle" => closed
  /\ rpc \in {"closing", "stopped"} => closed
  /\ xpc = "done" \/ rpc = "stopped" => ~alive

(***************************************************************************)
(* The socket whose failure the reader is about to handle has failed.      *)
(***************************************************************************)
FailedInv ==
  /\ rsock <= made
  /\ rpc = "failed" => rsock \notin isOpen \/ rsock \in broken

(***************************************************************************)
(* The buffer holds the unfinished line of the connection that it is for,  *)
(* and if one is unfinished on an open connection, the buffer holds it.    *)
(***************************************************************************)
Unfinished(s) == came[s] % 2 = 1

ReadInv ==
  /\ \A s \in Sockets : s > made => came[s] = 0
  /\ rpc \in {"read", "failed", "relaunch"} => source = rsock
  /\ buffer # <<>> => source \in Sockets /\ Unfinished(source)
                      /\ buffer = <<<<source, came[source]>>>>
  /\ \A s \in isOpen : Unfinished(s) => source = s /\ buffer # <<>>
  /\ rpc = "relaunch" => \A s \in isOpen : came[s] = 0

(***************************************************************************)
(* On the current connection the handshake and the registration have been  *)
(* sent before anything else is, and after them whole payloads, except for *)
(* the one being written.                                                  *)
(***************************************************************************)
AfterRegistration == Len(wire[sock]) - Registrations

StreamInv ==
  /\ \A s \in Sockets : s > made => wire[s] = <<>>
  /\ lpc = "handshake" => wire[sock] = <<>>
  /\ lpc = "register" => Len(wire[sock]) \in 1 .. Registrations + 1
  /\ alive /\ lpc \in {"off", "connected"} =>
       /\ Len(wire[sock]) > Registrations
       /\ \A w \in Writers : wpc[w] = "second" =>
            AfterRegistration % 2 = 0 /\ wire[sock][Len(wire[sock])] = Part(w, 1)
       /\ (\A w \in Writers : wpc[w] # "second") => AfterRegistration % 2 = 1

(***************************************************************************)
(* A part that its worker has yet to send is nowhere on the wire.          *)
(***************************************************************************)
Unsent(w, n) == wpc[w] \in {"idle", "first"} \/ (n = 2 /\ wpc[w] = "second")

OnceInv ==
  /\ \A s \in Sockets : \A k \in DOMAIN wire[s] :
       \A w \in Writers, n \in {1, 2} : Unsent(w, n) => wire[s][k] # Part(w, n)
  /\ AtMostOnce

(***************************************************************************)
(* If no worker is cancelled in _launch, a connection that is not alive is *)
(* being brought back, is left to the reader, is closed, or every attempt  *)
(* has failed.                                                             *)
(***************************************************************************)
LeftInv ==
  /\ ~alive /\ lpc \in {"off", "connected"} => closed \/ pending \/ exhausted
  /\ ~alive /\ lpc \in {"handshake", "register"} => closed
  /\ lpc = "gaveup" => exhausted

AttemptInv ==
  lpc \in {"try", "dial", "handshake", "register"} => attempts < ReconnectAttempts

-----------------------------------------------------------------------------
(* Types.                                                                  *)

FlagsOK ==
  /\ closed \in BOOLEAN /\ alive \in BOOLEAN /\ pending \in BOOLEAN
  /\ exhausted \in BOOLEAN

SocketsOK ==
  /\ sock \in Sockets /\ made \in Sockets
  /\ isOpen \subseteq Sockets /\ broken \subseteq Sockets

ControlOK ==
  /\ lock \in Threads \cup {"nobody"}
  /\ lpc \in {"off", "start", "try", "dial", "handshake", "register",
              "connected", "gaveup"}
  /\ wpc \in [Writers -> {"idle", "first", "second", "launch", "returned",
                          "raised", "cancelled"}]
  /\ rpc \in {"head", "lock", "launch", "capture", "read", "failed", "relaunch",
              "close", "closing", "stopped"}
  /\ xpc \in {"idle", "closing", "done"}

AttemptsOK == attempts \in 0 .. ReconnectAttempts

Messages == ({"handshake", "registration"} \cup Writers) \X Nat

WireOK == wire \in [Sockets -> Seq(Messages)]

ReaderOK ==
  /\ came \in [Sockets -> 0 .. MaxPieces]
  /\ rsock \in Sockets
  /\ source \in Sockets \cup {0}
  /\ buffer \in Seq(Pieces)
  /\ lines \subseteq Seq(Pieces)

(***************************************************************************)
(* The groups make up the type invariant.                                  *)
(***************************************************************************)
LEMMA TypeGroups ==
  TypeOK <=> FlagsOK /\ SocketsOK /\ ControlOK /\ AttemptsOK /\ WireOK /\ ReaderOK
BY DEF TypeOK, FlagsOK, SocketsOK, ControlOK, AttemptsOK, WireOK, ReaderOK, Messages

(***************************************************************************)
(* The steps.                                                              *)
(***************************************************************************)
LEMMA NextCases ==
  ASSUME [Next]_vars
  PROVE  \/ \E s \in Sockets : Break(s)
         \/ LaunchStart \/ LaunchTry \/ LaunchDial \/ LaunchHandshake \/ LaunchRegister
         \/ \E w \in Writers :
              Enter(w) \/ SendPart(w) \/ SendFails(w) \/ Cancel(w) \/ LaunchDone(w)
                \/ CancelLaunch(w)
         \/ ReadHead \/ ReadLock \/ ReadCapture \/ ReadData \/ ReadFailed
         \/ ReadLaunchDone \/ ReadClose \/ Close
         \/ UNCHANGED vars
BY DEF Next, Launch, WriteStep, ReadStep

(***************************************************************************)
(* The variables have their types at the start.                            *)
(***************************************************************************)
LEMMA TypeInit == Init => TypeOK
<1> SUFFICES ASSUME Init PROVE TypeOK
  OBVIOUS
<1>0. MaxSockets \in Nat \ {0} /\ ReconnectAttempts \in Nat \ {0}
      /\ Registrations \in Nat /\ MaxPieces \in Nat
  BY BoundsAssumption
<1> USE DEF Init
<1>a. 1 \in Sockets /\ 0 \in 0 .. ReconnectAttempts
  BY <1>0 DEF Sockets
<1>b. FlagsOK
  BY DEF FlagsOK
<1>1. SocketsOK
  BY <1>a DEF SocketsOK
<1>2. ControlOK
  BY DEF ControlOK
<1>3. AttemptsOK
  BY <1>a DEF AttemptsOK
<1>4. WireOK
  <2>1. Handshake \in Messages
    BY DEF Handshake, Messages
  <2>2. [n \in 1 .. Registrations |-> Registration(n)] \in Seq(Messages)
    <3>1. \A n \in 1 .. Registrations : Registration(n) \in Messages
      BY <1>0 DEF Registration, Messages
    <3> QED
      BY <1>0, <3>1
  <2>3. <<Handshake>> \o [n \in 1 .. Registrations |-> Registration(n)] \in Seq(Messages)
    BY <2>1, <2>2
  <2>4. <<>> \in Seq(Messages)
    OBVIOUS
  <2>5. wire = [s \in Sockets |->
               IF s = 1
               THEN <<Handshake>> \o [n \in 1 .. Registrations |-> Registration(n)]
               ELSE <<>>]
    OBVIOUS
  <2> QED
    BY <2>3, <2>4, <2>5 DEF WireOK
<1>5. ReaderOK
  <2>1. <<>> \in Seq(Pieces) /\ 1 \in Sockets /\ 0 \in 0 .. MaxPieces
    BY <1>0 DEF Sockets
  <2> QED
    BY <2>1 DEF ReaderOK
<1> QED
  BY <1>b, <1>1, <1>2, <1>3, <1>4, <1>5, TypeGroups

(***************************************************************************)
(* Every step keeps the types, group by group.                             *)
(***************************************************************************)
LEMMA FlagsStep ==
  ASSUME FlagsOK, [Next]_vars
  PROVE  FlagsOK'
<1> USE DEF FlagsOK, connectionVars, launchVars, readerVars, Drop
<1>1. \A s \in Sockets : Break(s) => FlagsOK'
  BY DEF Break
<1>2. LaunchStart \/ LaunchTry \/ LaunchHandshake \/ LaunchRegister \/ LaunchDial
      => FlagsOK'
  BY DEF LaunchStart, LaunchTry, LaunchHandshake, LaunchRegister, LaunchDial,
     AttemptFailed
<1>3. \A w \in Writers :
        Enter(w) \/ SendPart(w) \/ LaunchDone(w) \/ SendFails(w) \/ Cancel(w)
          \/ CancelLaunch(w) => FlagsOK'
  BY DEF Enter, SendPart, LaunchDone, SendFails, Cancel, CancelLaunch
<1>4. ReadHead \/ ReadLock \/ ReadCapture \/ ReadData \/ ReadLaunchDone => FlagsOK'
  BY DEF ReadHead, ReadLock, ReadCapture, ReadData, ReadLaunchDone
<1>5. ReadFailed \/ ReadClose \/ Close => FlagsOK'
  BY DEF ReadFailed, ReadClose, Close
<1>6. UNCHANGED vars => FlagsOK'
  BY DEF vars
<1> HIDE DEF FlagsOK
<1> QED
  BY <1>1, <1>2, <1>3, <1>4, <1>5, <1>6, NextCases

(***************************************************************************)
(* The current socket, the open ones and the broken ones have numbers of   *)
(* connections that were made.                                             *)
(***************************************************************************)
LEMMA SocketsStep ==
  ASSUME SocketsOK, rsock \in Sockets, [Next]_vars
  PROVE  SocketsOK'
<1> USE DEF SocketsOK, connectionVars, launchVars, readerVars, Drop
<1>1. \A s \in Sockets : Break(s) => SocketsOK'
  BY DEF Break
<1>2. LaunchStart \/ LaunchTry \/ LaunchHandshake \/ LaunchRegister => SocketsOK'
  BY DEF LaunchStart, LaunchTry, LaunchHandshake, LaunchRegister
<1>3. ASSUME LaunchDial PROVE SocketsOK'
  <2>1. \/ UNCHANGED <<sock, isOpen, made>>
        \/ /\ made < MaxSockets /\ made' = made + 1
           /\ \/ UNCHANGED <<sock, isOpen>>
              \/ sock' = made + 1 /\ isOpen' = isOpen \cup {made + 1}
    BY <1>3 DEF LaunchDial
  <2>2. made < MaxSockets => made + 1 \in Sockets
    BY BoundsAssumption DEF Sockets
  <2>3. broken' = broken
    BY <1>3 DEF LaunchDial
  <2> QED
    BY <2>1, <2>2, <2>3
<1>4. \A w \in Writers : Enter(w) \/ SendPart(w) \/ LaunchDone(w) => SocketsOK'
  BY DEF Enter, SendPart, LaunchDone
<1>5. \A w \in Writers : SendFails(w) \/ Cancel(w) \/ CancelLaunch(w) => SocketsOK'
  BY DEF SendFails, Cancel, CancelLaunch
<1>6. ReadHead \/ ReadLock \/ ReadCapture \/ ReadData \/ ReadLaunchDone => SocketsOK'
  BY DEF ReadHead, ReadLock, ReadCapture, ReadData, ReadLaunchDone
<1>7. ReadFailed \/ ReadClose \/ Close => SocketsOK'
  BY DEF ReadFailed, ReadClose, Close
<1>8. UNCHANGED vars => SocketsOK'
  BY DEF vars
<1> QED
  BY <1>1, <1>2, <1>3, <1>4, <1>5, <1>6, <1>7, <1>8, NextCases

(***************************************************************************)
(* Every thread is at one of its places.                                   *)
(***************************************************************************)
LEMMA ControlStep ==
  ASSUME ControlOK, [Next]_vars
  PROVE  ControlOK'
<1> USE DEF ControlOK, connectionVars, launchVars, readerVars, Threads
<1>1. \A s \in Sockets : Break(s) => ControlOK'
  BY DEF Break
<1>2. LaunchStart \/ LaunchTry \/ LaunchHandshake \/ LaunchRegister \/ LaunchDial
      => ControlOK'
  BY DEF LaunchStart, LaunchTry, LaunchHandshake, LaunchRegister, LaunchDial,
     AttemptFailed
<1>3. ASSUME NEW w \in Writers,
             \/ Enter(w) \/ SendPart(w) \/ LaunchDone(w)
             \/ SendFails(w) \/ Cancel(w) \/ CancelLaunch(w)
      PROVE  ControlOK'
  <2>1. /\ lock' \in {w, "nobody", lock} /\ lpc' \in {"off", "start", lpc}
        /\ \E step \in {"first", "second", "launch", "returned", "raised", "cancelled"} :
             wpc' = [wpc EXCEPT ![w] = step]
        /\ UNCHANGED <<rpc, xpc>>
    BY <1>3 DEF Enter, SendPart, LaunchDone, Leave, SendFails, Cancel, CancelLaunch
  <2> QED
    BY <2>1
<1>4. ReadHead \/ ReadLock \/ ReadCapture \/ ReadData \/ ReadLaunchDone => ControlOK'
  BY DEF ReadHead, ReadLock, ReadCapture, ReadData, ReadLaunchDone
<1>5. ReadFailed \/ ReadClose \/ Close => ControlOK'
  BY DEF ReadFailed, ReadClose, Close
<1>6. UNCHANGED vars => ControlOK'
  BY DEF vars
<1> QED
  BY <1>1, <1>2, <1>3, <1>4, <1>5, <1>6, NextCases

(***************************************************************************)
(* _launch counts its attempts and stops at the last.                      *)
(***************************************************************************)
LEMMA AttemptsStep ==
  ASSUME AttemptsOK, AttemptInv, [Next]_vars
  PROVE  AttemptsOK' /\ AttemptInv'
<1>0. ReconnectAttempts \in Nat \ {0}
  BY BoundsAssumption
<1> USE DEF AttemptsOK, AttemptInv, connectionVars, launchVars, readerVars
<1>1. \A s \in Sockets : Break(s) => AttemptsOK' /\ AttemptInv'
  BY DEF Break
<1>2. ASSUME lpc \in {"dial", "handshake", "register"}, AttemptFailed
      PROVE  AttemptsOK' /\ AttemptInv'
  <2>1. /\ attempts' = attempts + 1
        /\ \/ attempts + 1 >= ReconnectAttempts /\ lpc' = "gaveup"
           \/ ~(attempts + 1 >= ReconnectAttempts) /\ lpc' = "try"
    BY <1>2 DEF AttemptFailed
  <2>2. attempts < ReconnectAttempts
    BY <1>2
  <2> QED
    BY <1>0, <2>1, <2>2
<1>3. ASSUME LaunchStart \/ LaunchTry PROVE AttemptsOK' /\ AttemptInv'
  <2>1. \/ lpc' = "try" /\ attempts' = 0
        \/ lpc = "try" /\ lpc' \in {"dial", "connected"} /\ UNCHANGED attempts
        \/ lpc' = "connected" /\ UNCHANGED attempts
    BY <1>3 DEF LaunchStart, LaunchTry
  <2> QED
    BY <1>0, <2>1
<1>4. LaunchDial \/ LaunchHandshake \/ LaunchRegister => AttemptsOK' /\ AttemptInv'
  BY <1>0, <1>2 DEF LaunchDial, LaunchHandshake, LaunchRegister
<1>5. ASSUME NEW w \in Writers,
             \/ Enter(w) \/ SendPart(w) \/ LaunchDone(w)
             \/ SendFails(w) \/ Cancel(w) \/ CancelLaunch(w)
      PROVE  AttemptsOK' /\ AttemptInv'
  <2>1. UNCHANGED attempts /\ lpc' \in {"off", "start", lpc}
    BY <1>5 DEF Enter, SendPart, LaunchDone, SendFails, Cancel, CancelLaunch
  <2> QED
    BY <2>1
<1>6. ReadHead \/ ReadLock \/ ReadCapture \/ ReadData \/ ReadLaunchDone
      => AttemptsOK' /\ AttemptInv'
  BY DEF ReadHead, ReadLock, ReadCapture, ReadData, ReadLaunchDone
<1>7. ReadFailed \/ ReadClose \/ Close => AttemptsOK' /\ AttemptInv'
  BY DEF ReadFailed, ReadClose, Close
<1>8. UNCHANGED vars => AttemptsOK' /\ AttemptInv'
  BY DEF vars
<1> QED
  BY <1>1, <1>3, <1>4, <1>5, <1>6, <1>7, <1>8, NextCases

(***************************************************************************)
(* What is sent is appended to one wire.                                   *)
(***************************************************************************)
LEMMA SentAt ==
  ASSUME WireOK, NEW s \in Sockets, NEW m \in Messages, Sent(s, m)
  PROVE  /\ WireOK'
         /\ \A t \in Sockets : t # s => wire'[t] = wire[t]
         /\ wire'[s] = Append(wire[s], m)
         /\ Len(wire[s]) \in Nat /\ Len(wire'[s]) = Len(wire[s]) + 1
         /\ DOMAIN wire[s] = 1 .. Len(wire[s])
         /\ DOMAIN wire'[s] = 1 .. Len(wire[s]) + 1
         /\ \A k \in DOMAIN wire[s] : wire'[s][k] = wire[s][k]
         /\ wire'[s][Len(wire[s]) + 1] = m
<1> DEFINE q == wire[s]
<1>1. q \in Seq(Messages)
  BY DEF WireOK
<1>2. wire'[s] = Append(q, m) /\ \A t \in Sockets : t # s => wire'[t] = wire[t]
  BY DEF Sent, WireOK
<1> HIDE DEF q
<1>3. /\ Append(q, m) \in Seq(Messages)
      /\ Len(q) \in Nat /\ Len(Append(q, m)) = Len(q) + 1
      /\ DOMAIN q = 1 .. Len(q)
      /\ DOMAIN Append(q, m) = 1 .. Len(q) + 1
      /\ \A k \in DOMAIN q : Append(q, m)[k] = q[k]
      /\ Append(q, m)[Len(q) + 1] = m
  BY <1>1
<1>4. WireOK'
  BY <1>2, <1>3 DEF Sent, WireOK
<1> QED
  BY <1>2, <1>3, <1>4 DEF q

(***************************************************************************)
(* What a step sends, and when: the handshake, a registration message, or  *)
(* a part of a payload.                                                    *)
(***************************************************************************)
SendsHandshake == lpc = "handshake" /\ MaySend(sock) /\ Sent(sock, Handshake)

SendsRegistration ==
  /\ lpc = "register" /\ MaySend(sock)
  /\ Registered < Registrations /\ Sent(sock, Registration(Registered + 1))

SendsPart(w) ==
  /\ wpc[w] \in {"first", "second"} /\ MaySend(sock)
  /\ Sent(sock, Part(w, PartNo(w)))

(***************************************************************************)
(* A step sends at most one message.                                       *)
(***************************************************************************)
LEMMA WireCases ==
  ASSUME [Next]_vars
  PROVE  \/ wire' = wire
         \/ LaunchHandshake /\ SendsHandshake
         \/ LaunchRegister /\ SendsRegistration
         \/ \E w \in Writers : SendPart(w) /\ SendsPart(w)
<1> USE DEF readerVars
<1>1. \A s \in Sockets : Break(s) => wire' = wire
  BY DEF Break
<1>2. LaunchStart \/ LaunchTry \/ LaunchDial => wire' = wire
  BY DEF LaunchStart, LaunchTry, LaunchDial
<1>3. LaunchHandshake => wire' = wire \/ SendsHandshake
  BY DEF LaunchHandshake, SendsHandshake
<1>4. LaunchRegister => wire' = wire \/ SendsRegistration
  BY DEF LaunchRegister, SendsRegistration
<1>5. \A w \in Writers : SendPart(w) => SendsPart(w)
  BY DEF SendPart, SendsPart
<1>6. \A w \in Writers :
        Enter(w) \/ LaunchDone(w) \/ SendFails(w) \/ Cancel(w) \/ CancelLaunch(w)
          => wire' = wire
  BY DEF Enter, LaunchDone, SendFails, Cancel, CancelLaunch
<1>7. ReadHead \/ ReadLock \/ ReadCapture \/ ReadData \/ ReadLaunchDone => wire' = wire
  BY DEF ReadHead, ReadLock, ReadCapture, ReadData, ReadLaunchDone
<1>8. ReadFailed \/ ReadClose \/ Close => wire' = wire
  BY DEF ReadFailed, ReadClose, Close
<1>9. UNCHANGED vars => wire' = wire
  BY DEF vars
<1> QED
  BY <1>1, <1>2, <1>3, <1>4, <1>5, <1>6, <1>7, <1>8, <1>9, NextCases

(***************************************************************************)
(* What is on the wires are messages.                                      *)
(***************************************************************************)
LEMMA WireStep ==
  ASSUME WireOK, SocketsOK, [Next]_vars
  PROVE  WireOK'
<1>1. sock \in Sockets
  BY DEF SocketsOK
<1>2. wire' = wire => WireOK'
  BY DEF WireOK
<1>3. SendsHandshake => WireOK'
  <2>1. Handshake \in Messages
    BY DEF Handshake, Messages
  <2> QED
    BY <1>1, <2>1, SentAt DEF SendsHandshake
<1>4. SendsRegistration => WireOK'
  <2>1. Len(wire[sock]) \in Nat
    BY <1>1 DEF WireOK
  <2>2. Registered + 1 \in Nat
    BY <2>1 DEF Registered
  <2>3. Registration(Registered + 1) \in Messages
    BY <2>2 DEF Registration, Messages
  <2> QED
    BY <1>1, <2>3, SentAt DEF SendsRegistration
<1>5. ASSUME NEW w \in Writers, SendsPart(w) PROVE WireOK'
  <2>1. Part(w, PartNo(w)) \in Messages
    BY DEF Part, PartNo, Messages
  <2> QED
    BY <1>1, <1>5, <2>1, SentAt DEF SendsPart
<1> QED
  BY <1>2, <1>3, <1>4, <1>5, WireCases

(***************************************************************************)
(* Only the reader reads.                                                  *)
(***************************************************************************)
LEMMA ReaderFrame ==
  ASSUME [Next]_vars
  PROVE  \/ UNCHANGED readerVars
         \/ ReadHead \/ ReadLock \/ ReadClose
         \/ ReadCapture \/ ReadData \/ ReadFailed \/ ReadLaunchDone
<1> USE DEF readerVars
<1>1. \A s \in Sockets : Break(s) => UNCHANGED readerVars
  BY DEF Break
<1>2. LaunchStart \/ LaunchTry \/ LaunchDial \/ LaunchHandshake \/ LaunchRegister
      => UNCHANGED readerVars
  BY DEF LaunchStart, LaunchTry, LaunchDial, LaunchHandshake, LaunchRegister
<1>3. \A w \in Writers :
        Enter(w) \/ SendPart(w) \/ LaunchDone(w) \/ SendFails(w) \/ Cancel(w)
          \/ CancelLaunch(w) => UNCHANGED readerVars
  BY DEF Enter, SendPart, LaunchDone, SendFails, Cancel, CancelLaunch
<1>4. Close \/ UNCHANGED vars => UNCHANGED readerVars
  BY DEF Close, vars
<1> QED
  BY <1>1, <1>2, <1>3, <1>4, NextCases

(***************************************************************************)
(* What the reader has is made of pieces.                                  *)
(***************************************************************************)
LEMMA ReaderStep ==
  ASSUME ReaderOK, SocketsOK, [Next]_vars
  PROVE  ReaderOK'
<1>0. MaxPieces \in Nat /\ sock \in Sockets
  BY BoundsAssumption DEF SocketsOK
<1>1. UNCHANGED <<rsock, source, buffer, lines, came>> => ReaderOK'
  BY DEF ReaderOK
<1>7. ReadHead \/ ReadLock \/ ReadClose => UNCHANGED <<rsock, source, buffer, lines, came>>
  BY DEF ReadHead, ReadLock, ReadClose
<1>2. <<>> \in Seq(Pieces)
  OBVIOUS
<1>3. ReadCapture => ReaderOK'
  BY <1>0, <1>2 DEF ReadCapture, ReaderOK
<1>4. ReadFailed => ReaderOK'
  BY <1>2 DEF ReadFailed, ReaderOK
<1>5. ReadLaunchDone => ReaderOK'
  BY <1>2 DEF ReadLaunchDone, ReaderOK
<1>6. ASSUME ReadData PROVE ReaderOK'
  <2>1. UNCHANGED <<rsock, source>>
    BY <1>6 DEF ReadData
  <2>2. CASE UNCHANGED <<lines, came>> /\ buffer' \in {buffer, <<>>}
    BY <1>2, <2>1, <2>2 DEF ReaderOK
  <2>3. CASE /\ came[rsock] < MaxPieces
             /\ came' = [came EXCEPT ![rsock] = @ + 1]
             /\ \/ lines' = lines \cup {Append(buffer, <<rsock, came[rsock] + 1>>)}
                   /\ buffer' = <<>>
                \/ lines' = lines /\ buffer' = Append(buffer, <<rsock, came[rsock] + 1>>)
    <3>1. came[rsock] \in 0 .. MaxPieces /\ rsock \in Sockets
      BY DEF ReaderOK
    <3>2. came[rsock] + 1 \in 1 .. MaxPieces
      BY <1>0, <2>3, <3>1
    <3>3. <<rsock, came[rsock] + 1>> \in Pieces
      BY <3>1, <3>2 DEF Pieces
    <3>4. Append(buffer, <<rsock, came[rsock] + 1>>) \in Seq(Pieces)
      BY <3>3 DEF ReaderOK
    <3>5. came' \in [Sockets -> 0 .. MaxPieces]
      BY <1>0, <2>3, <3>2 DEF ReaderOK
    <3> QED
      BY <1>2, <2>1, <2>3, <3>4, <3>5 DEF ReaderOK
  <2> QED
    BY <1>6, <2>2, <2>3 DEF ReadData
<1> QED
  BY <1>1, <1>3, <1>4, <1>5, <1>6, <1>7, ReaderFrame DEF readerVars

(***************************************************************************)
(* The type invariant.                                                     *)
(***************************************************************************)
LEMMA TypeStep ==
  ASSUME TypeOK, AttemptInv, [Next]_vars
  PROVE  TypeOK' /\ AttemptInv'
<1>1. FlagsOK /\ SocketsOK /\ ControlOK /\ AttemptsOK /\ WireOK /\ ReaderOK
  BY TypeGroups
<1>2. rsock \in Sockets
  BY <1>1 DEF ReaderOK
<1>3. FlagsOK' /\ SocketsOK' /\ ControlOK'
  BY <1>1, <1>2, FlagsStep, SocketsStep, ControlStep
<1>4. AttemptsOK' /\ AttemptInv' /\ WireOK' /\ ReaderOK'
  BY <1>1, AttemptsStep, WireStep, ReaderStep
<1> QED
  BY <1>3, <1>4
  DEF TypeOK, FlagsOK, SocketsOK, ControlOK, AttemptsOK, WireOK, ReaderOK, Messages

-----------------------------------------------------------------------------
(* opt_lock.                                                               *)

(***************************************************************************)
(* Nobody holds opt_lock at the start.                                     *)
(***************************************************************************)
LEMMA LockInit == Init => LockInv
BY WritersAssumption DEF Init, LockInv, Holds

(***************************************************************************)
(* Who has it lets go of it, and nobody takes it from him.                 *)
(***************************************************************************)
LEMMA LockStep ==
  ASSUME ControlOK, LockInv, [Next]_vars
  PROVE  LockInv'
<1>0. \A w \in Writers : w # "reader" /\ w # "nobody"
  BY WritersAssumption
<1> USE DEF connectionVars, launchVars, readerVars
<1>1. ASSUME UNCHANGED <<lock, wpc>>, rpc' = rpc \/ {rpc, rpc'} \cap {"launch", "relaunch"} = {},
             lpc' = lpc \/ (lpc # "off" /\ lpc' # "off")
      PROVE  LockInv'
  BY <1>1 DEF LockInv, Holds
<1>2. \A s \in Sockets : Break(s) => LockInv'
  BY <1>1 DEF Break
<1>3. LaunchStart \/ LaunchTry \/ LaunchDial \/ LaunchHandshake \/ LaunchRegister => LockInv'
  BY <1>1 DEF LaunchStart, LaunchTry, LaunchDial, LaunchHandshake, LaunchRegister,
     AttemptFailed
<1>4. ReadHead \/ ReadCapture \/ ReadData \/ ReadClose \/ Close \/ UNCHANGED vars => LockInv'
  <2>1. ReadHead \/ ReadCapture => LockInv'
    BY <1>1 DEF ReadHead, ReadCapture
  <2>2. ReadData => LockInv'
    BY <1>1 DEF ReadData
  <2>3. ReadClose \/ Close \/ UNCHANGED vars => LockInv'
    BY <1>1 DEF ReadClose, Close, vars
  <2> QED
    BY <2>1, <2>2, <2>3
<1>5. ASSUME NEW w \in Writers,
             \/ Enter(w) \/ SendPart(w) \/ LaunchDone(w)
             \/ SendFails(w) \/ Cancel(w) \/ CancelLaunch(w)
      PROVE  LockInv'
  <2>1. /\ rpc' = rpc
        /\ \/ lock = "nobody" /\ wpc[w] = "idle"
           \/ lock = w
    BY <1>5 DEF Enter, SendPart, LaunchDone, SendFails, Cancel, CancelLaunch, LockInv,
       Holds
  <2>2. lpc # "off" <=> wpc[w] = "launch"
    BY <1>0, <2>1 DEF LockInv, Holds
  <2>3. \E step \in {"first", "second", "launch", "returned", "raised", "cancelled"} :
          /\ wpc' = [wpc EXCEPT ![w] = step]
          /\ lock' = IF step \in {"first", "second", "launch"} THEN w ELSE "nobody"
          /\ lpc' # "off" <=> step = "launch"
    BY <1>5, <2>1, <2>2 DEF Enter, SendPart, LaunchDone, SendFails, Cancel, CancelLaunch,
       Leave, LockInv, Holds
  <2> QED
    BY <1>0, <2>1, <2>3 DEF LockInv, Holds, ControlOK
<1>6. ReadLock => LockInv'
  BY <1>0, <1>1 DEF ReadLock, LockInv, Holds
<1>7. ReadFailed => LockInv'
  BY <1>0, <1>1 DEF ReadFailed, LockInv, Holds
<1>8. ReadLaunchDone => LockInv'
  BY <1>0 DEF ReadLaunchDone, LockInv, Holds
<1> QED
  BY <1>2, <1>3, <1>4, <1>5, <1>6, <1>7, <1>8, NextCases

(***************************************************************************)
(* Nobody reconnects while a worker sends, and nobody else sends.          *)
(***************************************************************************)
LEMMA Alone ==
  ASSUME LockInv, NEW w \in Writers, wpc[w] \in {"first", "second"}
  PROVE  /\ lpc = "off"
         /\ \A u \in Writers : u # w => ~Holds(u)
BY WritersAssumption DEF LockInv, Holds

-----------------------------------------------------------------------------
(* The sockets.                                                            *)

(***************************************************************************)
(* The first connection is the current one.                                *)
(***************************************************************************)
LEMMA SocketInit == Init => SocketInv
<1> SUFFICES ASSUME Init PROVE SocketInv
  OBVIOUS
<1>1. isOpen = {sock} /\ alive /\ sock = 1 /\ made = 1 /\ lpc = "off"
      /\ xpc = "idle" /\ rpc = "head"
  BY DEF Init
<1> QED
  BY <1>1 DEF SocketInv

(***************************************************************************)
(* The connection stays as it is, is dropped, or is made.                  *)
(***************************************************************************)
NewSocket ==
  /\ lpc = "dial" /\ made < MaxSockets /\ ~closed
  /\ made' = made + 1 /\ lpc' = "handshake"
  /\ sock' = made + 1 /\ alive' = TRUE /\ isOpen' = isOpen \cup {made + 1}
  /\ UNCHANGED <<closed, broken, wire, wpc, readerVars, xpc>>

TooLate ==
  /\ made < MaxSockets /\ made' = made + 1
  /\ UNCHANGED <<broken, wire, wpc, readerVars>>

(***************************************************************************)
(* A step makes a connection, drops the current one or leaves it.          *)
(***************************************************************************)
LEMMA ConnectionCases ==
  ASSUME [Next]_vars
  PROVE  \/ NewSocket
         \/ /\ UNCHANGED connectionVars \/ Drop(sock)
            /\ UNCHANGED made \/ TooLate
<1> USE DEF launchVars
<1> DEFINE Kept == (UNCHANGED connectionVars \/ Drop(sock)) /\ UNCHANGED made
<1>1. \A s \in Sockets : Break(s) => Kept
  BY DEF Break
<1>2. LaunchStart \/ LaunchTry \/ LaunchHandshake \/ LaunchRegister => Kept
  BY DEF LaunchStart, LaunchTry, LaunchHandshake, LaunchRegister
<1>3. LaunchDial =>
        Kept \/ NewSocket \/ (UNCHANGED connectionVars /\ TooLate)
  BY DEF LaunchDial, NewSocket, TooLate, readerVars
<1>4. \A w \in Writers :
        Enter(w) \/ SendPart(w) \/ LaunchDone(w) \/ SendFails(w) \/ Cancel(w)
          \/ CancelLaunch(w) => Kept
  BY DEF Enter, SendPart, LaunchDone, SendFails, Cancel, CancelLaunch
<1>5. ReadHead \/ ReadLock \/ ReadCapture \/ ReadData \/ ReadLaunchDone => Kept
  BY DEF ReadHead, ReadLock, ReadCapture, ReadData, ReadLaunchDone
<1>6. ReadFailed \/ ReadClose \/ Close => Kept
  BY DEF ReadFailed, ReadClose, Close, Drop
<1>7. UNCHANGED vars => Kept
  BY DEF vars
<1> QED
  BY <1>1, <1>2, <1>3, <1>4, <1>5, <1>6, <1>7, NextCases

(***************************************************************************)
(* A socket is closed with alive, and made while there is none.            *)
(***************************************************************************)
OpenInv == isOpen = (IF alive THEN {sock} ELSE {}) /\ sock <= made

LookingInv == lpc \in {"start", "try", "dial", "gaveup"} => ~alive

ClosedInv ==
  /\ xpc # "idle" => closed
  /\ rpc \in {"closing", "stopped"} => closed
  /\ xpc = "done" \/ rpc = "stopped" => ~alive

(***************************************************************************)
(* The three parts make up SocketInv.                                      *)
(***************************************************************************)
LEMMA SocketParts == SocketInv <=> OpenInv /\ LookingInv /\ ClosedInv
BY DEF SocketInv, OpenInv, LookingInv, ClosedInv

(***************************************************************************)
(* Only the current socket is open: a new one is made when none is.        *)
(***************************************************************************)
LEMMA OpenInvStep ==
  ASSUME SocketsOK, OpenInv, LookingInv, [Next]_vars
  PROVE  OpenInv'
<1>0. sock \in Nat /\ made \in Nat
  BY BoundsAssumption DEF SocketsOK, Sockets
<1>1. CASE NewSocket
  <2>1. isOpen = {} /\ sock' = made + 1 /\ made' = made + 1 /\ alive'
        /\ isOpen' = isOpen \cup {made + 1}
    BY <1>1 DEF NewSocket, OpenInv, LookingInv
  <2>2. isOpen' = {sock'}
    BY <2>1
  <2>3. sock' <= made'
    BY <1>0, <2>1
  <2> QED
    BY <2>1, <2>2, <2>3 DEF OpenInv
<1>2. CASE /\ UNCHANGED connectionVars \/ Drop(sock)
           /\ UNCHANGED made \/ TooLate
  <2>1. sock' = sock
    BY <1>2 DEF connectionVars, Drop
  <2>2. made' = made \/ made' = made + 1
    BY <1>2 DEF TooLate
  <2>3. sock' <= made'
    BY <1>0, <2>1, <2>2 DEF OpenInv
  <2>4. isOpen' = IF alive' THEN {sock'} ELSE {}
    <3>1. CASE UNCHANGED connectionVars
      BY <3>1 DEF connectionVars, OpenInv
    <3>2. CASE Drop(sock)
      <4>1. ~alive' /\ isOpen' = isOpen \ {sock}
        BY <3>2 DEF Drop
      <4>2. isOpen' = {}
        BY <4>1 DEF OpenInv
      <4> QED
        BY <4>1, <4>2
    <3> QED
      BY <1>2, <3>1, <3>2
  <2> QED
    BY <2>3, <2>4 DEF OpenInv
<1> QED
  BY <1>1, <1>2, ConnectionCases

(***************************************************************************)
(* _launch looks for a connection only while there is none.                *)
(***************************************************************************)
LEMMA LookingStep ==
  ASSUME LookingInv, [Next]_vars
  PROVE  LookingInv'
<1> USE DEF connectionVars, launchVars, LookingInv
<1>1. \A s \in Sockets : Break(s) => LookingInv'
  BY DEF Break
<1>2. LaunchStart \/ LaunchTry => LookingInv'
  BY DEF LaunchStart, LaunchTry
<1>3. LaunchDial => LookingInv'
  BY DEF LaunchDial, AttemptFailed
<1>4. LaunchHandshake \/ LaunchRegister => LookingInv'
  BY DEF LaunchHandshake, LaunchRegister, AttemptFailed, Drop
<1>5. ASSUME NEW w \in Writers,
             \/ Enter(w) \/ SendPart(w) \/ LaunchDone(w)
             \/ SendFails(w) \/ Cancel(w) \/ CancelLaunch(w)
      PROVE  LookingInv'
  BY <1>5 DEF Enter, SendPart, LaunchDone, SendFails, Cancel, CancelLaunch, Drop
<1>6. ReadHead \/ ReadLock \/ ReadCapture \/ ReadData \/ ReadLaunchDone => LookingInv'
  BY DEF ReadHead, ReadLock, ReadCapture, ReadData, ReadLaunchDone
<1>7. ReadFailed \/ ReadClose \/ Close => LookingInv'
  BY DEF ReadFailed, ReadClose, Close, Drop
<1>8. UNCHANGED vars => LookingInv'
  BY DEF vars
<1> HIDE DEF LookingInv
<1> QED
  BY <1>1, <1>2, <1>3, <1>4, <1>5, <1>6, <1>7, <1>8, NextCases

(***************************************************************************)
(* A close() that has returned has left no connection.                     *)
(***************************************************************************)
LEMMA ClosedStep ==
  ASSUME ClosedInv, [Next]_vars
  PROVE  ClosedInv'
<1> USE DEF connectionVars, launchVars, readerVars, ClosedInv
<1>1. \A s \in Sockets : Break(s) => ClosedInv'
  BY DEF Break
<1>2. LaunchStart \/ LaunchTry \/ LaunchDial => ClosedInv'
  BY DEF LaunchStart, LaunchTry, LaunchDial
<1>3. LaunchHandshake \/ LaunchRegister => ClosedInv'
  BY DEF LaunchHandshake, LaunchRegister, Drop
<1>4. ASSUME NEW w \in Writers,
             \/ Enter(w) \/ SendPart(w) \/ LaunchDone(w)
             \/ SendFails(w) \/ Cancel(w) \/ CancelLaunch(w)
      PROVE  ClosedInv'
  BY <1>4 DEF Enter, SendPart, LaunchDone, SendFails, Cancel, CancelLaunch, Drop
<1>5. ReadHead \/ ReadLock \/ ReadCapture \/ ReadData \/ ReadLaunchDone => ClosedInv'
  BY DEF ReadHead, ReadLock, ReadCapture, ReadData, ReadLaunchDone
<1>6. ReadFailed => ClosedInv'
  BY DEF ReadFailed, Drop
<1>7. ReadClose \/ Close => ClosedInv'
  BY DEF ReadClose, Close, Drop
<1>8. UNCHANGED vars => ClosedInv'
  BY DEF vars
<1> HIDE DEF ClosedInv
<1> QED
  BY <1>1, <1>2, <1>3, <1>4, <1>5, <1>6, <1>7, <1>8, NextCases

(***************************************************************************)
(* Every step keeps what is known of the sockets.                          *)
(***************************************************************************)
LEMMA SocketStep ==
  ASSUME SocketsOK, SocketInv, [Next]_vars
  PROVE  SocketInv'
<1>1. OpenInv' /\ LookingInv' /\ ClosedInv'
  BY SocketParts, OpenInvStep, LookingStep, ClosedStep
<1> QED
  BY <1>1 DEF SocketInv, OpenInv, LookingInv, ClosedInv

(***************************************************************************)
(* A number that a connection has had is not had by another: what is open  *)
(* after a step and was not before is new.                                 *)
(***************************************************************************)
LEMMA OpenStep ==
  ASSUME SocketsOK, ReaderOK, SocketInv, [Next]_vars
  PROVE  /\ \A s \in isOpen' : s \in isOpen \/ (s = made + 1 /\ LaunchDial)
         /\ broken \subseteq broken'
         /\ made' = made \/ (made' = made + 1 /\ made < MaxSockets)
         /\ UNCHANGED made \/ LaunchDial
<1> USE DEF connectionVars, launchVars, readerVars, Drop
<1>1. \A s \in Sockets : Break(s) => UNCHANGED <<isOpen, made>> /\ broken \subseteq broken'
  BY DEF Break
<1>2. LaunchStart \/ LaunchTry \/ LaunchHandshake \/ LaunchRegister
        => isOpen' \subseteq isOpen /\ UNCHANGED <<made, broken>>
  BY DEF LaunchStart, LaunchTry, LaunchHandshake, LaunchRegister
<1>3. LaunchDial =>
        /\ isOpen' \subseteq isOpen \cup {made + 1} /\ UNCHANGED broken
        /\ made' = made \/ (made' = made + 1 /\ made < MaxSockets)
  BY DEF LaunchDial
<1>4. \A w \in Writers :
        Enter(w) \/ SendPart(w) \/ LaunchDone(w) \/ SendFails(w) \/ Cancel(w)
          \/ CancelLaunch(w) => isOpen' \subseteq isOpen /\ UNCHANGED <<made, broken>>
  BY DEF Enter, SendPart, LaunchDone, SendFails, Cancel, CancelLaunch
<1>5. ReadHead \/ ReadLock \/ ReadCapture \/ ReadData \/ ReadLaunchDone
        => isOpen' \subseteq isOpen /\ UNCHANGED <<made, broken>>
  BY DEF ReadHead, ReadLock, ReadCapture, ReadData, ReadLaunchDone
<1>6. ReadFailed \/ ReadClose \/ Close
        => isOpen' \subseteq isOpen /\ UNCHANGED <<made, broken>>
  BY DEF ReadFailed, ReadClose, Close
<1>7. UNCHANGED vars => isOpen' \subseteq isOpen /\ UNCHANGED <<made, broken>>
  BY DEF vars
<1> QED
  BY <1>1, <1>2, <1>3, <1>4, <1>5, <1>6, <1>7, NextCases

(***************************************************************************)
(* The failure of a read.                                                  *)
(***************************************************************************)
LEMMA FailedStep ==
  ASSUME SocketsOK, ReaderOK, SocketInv, FailedInv, [Next]_vars
  PROVE  FailedInv'
<1>0. rsock \in Nat /\ sock \in Nat /\ made \in Nat /\ rsock <= made /\ sock <= made
  BY BoundsAssumption DEF SocketsOK, ReaderOK, Sockets, FailedInv, SocketInv
<1>1. /\ \A s \in isOpen' : s \in isOpen \/ s = made + 1
      /\ broken \subseteq broken'
      /\ made' = made \/ made' = made + 1
  BY OpenStep
<1>2. rsock # made + 1 /\ rsock <= made' /\ sock <= made'
  BY <1>0, <1>1
<1> USE DEF readerVars
<1>3. ASSUME rsock' = rsock, rpc' = rpc \/ rpc' # "failed" PROVE FailedInv'
  BY <1>1, <1>2, <1>3 DEF FailedInv
<1>4. ReadData => FailedInv'
  <2>1. ReadData => /\ UNCHANGED <<rsock, isOpen, broken>>
                    /\ rpc' = "head" \/ (rpc' = "failed" /\ MayFail(rsock))
    BY DEF ReadData, connectionVars
  <2> QED
    BY <1>2, <2>1 DEF FailedInv, MayFail
<1>5. ReadCapture => FailedInv'
  BY <1>2 DEF ReadCapture, FailedInv
<1>6. ReadFailed \/ ReadLaunchDone => FailedInv'
  BY <1>3 DEF ReadFailed, ReadLaunchDone
<1>7. ReadHead \/ ReadLock \/ ReadClose => FailedInv'
  BY <1>3 DEF ReadHead, ReadLock, ReadClose
<1>8. UNCHANGED readerVars => FailedInv'
  BY <1>3
<1>9. \/ UNCHANGED readerVars
      \/ ReadHead \/ ReadLock \/ ReadClose
      \/ ReadCapture \/ ReadData \/ ReadFailed \/ ReadLaunchDone
  BY ReaderFrame
<1> QED
  BY <1>4, <1>5, <1>6, <1>7, <1>8, <1>9

-----------------------------------------------------------------------------
(* The reader's buffer.                                                    *)

(***************************************************************************)
(* Even and odd.                                                           *)
(***************************************************************************)
LEMMA Parity ==
  ASSUME NEW c \in Nat
  PROVE  /\ c % 2 = 0 \/ c % 2 = 1
         /\ (c + 1) % 2 = 0 <=> c % 2 = 1
         /\ (c + 1) % 2 = 1 <=> c % 2 = 0
OBVIOUS

(***************************************************************************)
(* Two elements make a pair.                                               *)
(***************************************************************************)
LEMMA PairOf ==
  ASSUME NEW S, NEW a \in S, NEW b \in S
  PROVE  Append(<<a>>, b) = <<a, b>>
<1> DEFINE q == Append(<<a>>, b)
<1>1. q \in Seq(S) /\ Len(q) = 2 /\ q[1] = a /\ q[2] = b
  OBVIOUS
<1> HIDE DEF q
<1>2. q = <<a, b>>
  BY <1>1
<1> QED
  BY <1>2 DEF q

(***************************************************************************)
(* Nothing has come in.                                                    *)
(***************************************************************************)
LEMMA ReadInit == Init => ReadInv /\ FailedInv
<1> SUFFICES ASSUME Init PROVE ReadInv /\ FailedInv
  OBVIOUS
<1>1. /\ rpc = "head" /\ rsock = 1 /\ made = 1 /\ buffer = <<>> /\ isOpen = {1}
      /\ came = [s \in Sockets |-> 0]
  BY DEF Init
<1>2. \A s \in Sockets : came[s] = 0 /\ ~Unfinished(s)
  BY <1>1 DEF Unfinished
<1>3. 1 \in Sockets
  BY BoundsAssumption DEF Sockets
<1>4. ReadInv
  BY <1>1, <1>2, <1>3 DEF ReadInv
<1>5. FailedInv
  BY <1>1 DEF FailedInv
<1> QED
  BY <1>4, <1>5

(***************************************************************************)
(* The buffer is kept while its connection may go on, and cleared when     *)
(* there is another; a new connection starts with a line of its own.       *)
(***************************************************************************)
LEMMA ReadStepInv ==
  ASSUME SocketsOK, SocketsOK', ReaderOK, SocketInv, FailedInv, ReadInv, [Next]_vars
  PROVE  ReadInv'
<1>0. /\ made \in Nat /\ rsock \in Sockets /\ rsock \in Nat /\ rsock <= made
      /\ isOpen \subseteq Sockets /\ isOpen' \subseteq Sockets
      /\ \A s \in Sockets : s \in Nat
      /\ came \in [Sockets -> 0 .. MaxPieces]
      /\ isOpen \subseteq {sock}
  BY BoundsAssumption DEF SocketsOK, ReaderOK, Sockets, FailedInv, SocketInv
<1>1. /\ \A s \in isOpen' : s \in isOpen \/ (s = made + 1 /\ LaunchDial)
      /\ made' = made \/ made' = made + 1
      /\ UNCHANGED made \/ LaunchDial
  BY OpenStep
<1>2. \A s \in Sockets : s > made' => s > made
  BY <1>0, <1>1
<1>3. \A s \in isOpen' : s \in isOpen \/ (came[s] = 0 /\ ~Unfinished(s))
  <2> TAKE s \in isOpen'
  <2>1. s = made + 1 => came[s] = 0
    BY <1>0 DEF ReadInv
  <2>2. came[s] = 0 => ~Unfinished(s)
    BY DEF Unfinished
  <2> QED
    BY <1>1, <2>1, <2>2
(***************************************************************************)
(* The buffer stays as it is.                                              *)
(***************************************************************************)
<1>4. ASSUME UNCHANGED <<source, buffer, came>>,
             rpc' \in {"read", "failed", "relaunch"} => source = rsock',
             rpc' = "relaunch" => rpc = "relaunch" \/ isOpen' = {}
      PROVE  ReadInv'
  <2>1. \A s \in Sockets : s > made' => came'[s] = 0
    BY <1>2, <1>4 DEF ReadInv
  <2>2. buffer' # <<>> => source' \in Sockets /\ Unfinished(source)'
                         /\ buffer' = <<<<source', came'[source']>>>>
    BY <1>4 DEF ReadInv, Unfinished
  <2>3. \A s \in isOpen' : Unfinished(s)' => source' = s /\ buffer' # <<>>
    BY <1>3, <1>4 DEF ReadInv, Unfinished
  <2>4. rpc' = "relaunch" => \A s \in isOpen' : came'[s] = 0
    BY <1>3, <1>4 DEF ReadInv
  <2> QED
    BY <1>4, <2>1, <2>2, <2>3, <2>4 DEF ReadInv
(***************************************************************************)
(* The buffer is cleared, when no line is unfinished on an open socket.    *)
(***************************************************************************)
<1>5. ASSUME buffer' = <<>>, came' = came, rpc' = "head", UNCHANGED <<isOpen, made>>,
             \A s \in isOpen : ~Unfinished(s)
      PROVE  ReadInv'
  BY <1>5 DEF ReadInv, Unfinished
<1>6. ASSUME sock # rsock, rpc \in {"read", "failed"}
      PROVE  \A s \in isOpen : ~Unfinished(s)
  BY <1>0, <1>6 DEF ReadInv
<1>7. ASSUME UNCHANGED readerVars PROVE ReadInv'
  <2>1. UNCHANGED <<rpc, rsock, source, buffer, came>>
    BY <1>7 DEF readerVars
  <2>2. rpc \in {"read", "failed", "relaunch"} => source = rsock
    BY DEF ReadInv
  <2> QED
    BY <1>4, <2>1, <2>2
<1>8. ASSUME ReadHead \/ ReadLock \/ ReadClose PROVE ReadInv'
  <2>1. UNCHANGED <<rsock, source, buffer, came>>
        /\ rpc' \notin {"read", "failed", "relaunch"}
    BY <1>8 DEF ReadHead, ReadLock, ReadClose
  <2> QED
    BY <1>4, <2>1
<1>9. ASSUME ReadCapture PROVE ReadInv'
  <2>1. /\ rsock' = sock /\ source' = sock /\ rpc' = "read" /\ UNCHANGED <<came, isOpen, made>>
        /\ buffer' = IF sock = source THEN buffer ELSE <<>>
    BY <1>9 DEF ReadCapture, connectionVars, launchVars
  <2>2. \A s \in isOpen : Unfinished(s) => source = s /\ buffer # <<>>
    BY DEF ReadInv
  <2>3. \A s \in isOpen' : Unfinished(s)' => source' = s /\ buffer' # <<>>
    BY <1>0, <2>1, <2>2 DEF Unfinished
  <2>4. buffer' # <<>> => source' \in Sockets /\ Unfinished(source)'
                         /\ buffer' = <<<<source', came'[source']>>>>
    BY <2>1 DEF ReadInv, Unfinished
  <2> QED
    BY <2>1, <2>3, <2>4 DEF ReadInv
<1>10. ASSUME ReadFailed PROVE ReadInv'
  <2>1. rpc = "failed" /\ UNCHANGED <<rsock, source, came, made>>
    BY <1>10 DEF ReadFailed
  <2>2. \/ UNCHANGED buffer /\ rpc' = "close"
        \/ UNCHANGED buffer /\ rpc' = "relaunch" /\ sock = rsock /\ Drop(rsock)
        \/ buffer' = <<>> /\ rpc' = "head" /\ sock # rsock /\ UNCHANGED isOpen
    BY <1>10 DEF ReadFailed, connectionVars
  <2>3. source = rsock
    BY <2>1 DEF ReadInv
  <2>4. CASE UNCHANGED buffer /\ rpc' = "close"
    BY <1>4, <2>1, <2>4
  <2>5. CASE UNCHANGED buffer /\ rpc' = "relaunch" /\ sock = rsock /\ Drop(rsock)
    <3>1. isOpen' = {}
      BY <1>0, <2>5 DEF Drop
    <3> QED
      BY <1>4, <2>1, <2>3, <2>5, <3>1
  <2>6. CASE buffer' = <<>> /\ rpc' = "head" /\ sock # rsock /\ UNCHANGED isOpen
    BY <1>5, <1>6, <2>1, <2>6
  <2> QED
    BY <2>2, <2>4, <2>5, <2>6
<1>11. ASSUME ReadLaunchDone PROVE ReadInv'
  <2>1. /\ rpc \in {"launch", "relaunch"} /\ lpc \in {"connected", "gaveup"}
        /\ rpc' \in {"capture", "head"} /\ UNCHANGED <<came, isOpen, made>>
    BY <1>11 DEF ReadLaunchDone, LaunchOver, connectionVars
  <2>2. CASE lpc = "connected" /\ rpc = "launch"
    <3>1. UNCHANGED <<source, buffer>>
      BY <1>11, <2>2 DEF ReadLaunchDone
    <3> QED
      BY <1>4, <2>1, <3>1
  <2>3. CASE ~(lpc = "connected" /\ rpc = "launch")
    <3>1. buffer' = <<>> /\ rpc' = "head"
      BY <1>11, <2>3 DEF ReadLaunchDone
    <3>2. \A s \in isOpen : came[s] = 0
      <4>1. CASE lpc = "gaveup"
        BY <4>1 DEF SocketInv
      <4>2. CASE rpc = "relaunch"
        BY <4>2 DEF ReadInv
      <4> QED
        BY <2>1, <2>3, <4>1, <4>2
    <3>3. \A s \in isOpen : ~Unfinished(s)
      BY <3>2 DEF Unfinished
    <3> QED
      BY <1>5, <2>1, <3>1, <3>3
  <2> QED
    BY <2>2, <2>3
<1>12. ASSUME ReadData PROVE ReadInv'
  <2>1. rpc = "read" /\ UNCHANGED <<rsock, source, isOpen, made, sock>>
    BY <1>12 DEF ReadData, connectionVars, launchVars
  <2>2. source = rsock
    BY <2>1 DEF ReadInv
  <2>3. CASE UNCHANGED <<came, buffer>> /\ rpc' \in {"head", "failed"}
    BY <1>4, <2>1, <2>2, <2>3
  <2>4. CASE UNCHANGED came /\ buffer' = <<>> /\ sock # rsock /\ rpc' = "head"
    BY <1>5, <1>6, <2>1, <2>4
  <2> DEFINE c == came[rsock]
             piece == <<rsock, c + 1>>
  <2>5. CASE /\ sock = rsock /\ rsock \in isOpen /\ rpc' = "head"
             /\ came' = [came EXCEPT ![rsock] = @ + 1]
             /\ buffer' = IF (c + 1) % 2 = 0 THEN <<>> ELSE Append(buffer, piece)
    <3>1. c \in Nat /\ came'[rsock] = c + 1
          /\ \A s \in Sockets : s # rsock => came'[s] = came[s]
      BY <1>0, <2>5
    <3>2. Unfinished(rsock) <=> c % 2 = 1
      BY DEF Unfinished
    <3>3. Unfinished(rsock)' <=> (c + 1) % 2 = 1
      BY <2>1, <3>1 DEF Unfinished
    <3> HIDE DEF c
    <3>4. \A s \in Sockets : s > made' => came'[s] = 0
      BY <1>0, <2>1, <3>1 DEF ReadInv
    <3>5. CASE (c + 1) % 2 = 0
      <4>1. buffer' = <<>> /\ ~Unfinished(rsock)'
        BY <2>5, <3>1, <3>3, <3>5
      <4>2. \A s \in isOpen' : s = rsock
        BY <1>0, <2>1, <2>5
      <4>3. \A s \in isOpen' : ~Unfinished(s)'
        BY <2>1, <4>1, <4>2 DEF Unfinished
      <4>4. rpc' = "head"
        BY <2>5
      <4> QED
        BY <3>4, <4>1, <4>3, <4>4 DEF ReadInv
    <3>6. CASE (c + 1) % 2 = 1
      <4>1. ~Unfinished(rsock) /\ Unfinished(rsock)'
        BY <3>1, <3>2, <3>3, <3>6, Parity
      <4>2. buffer = <<>>
        BY <2>2, <4>1 DEF ReadInv
      <4>3. buffer' = <<<<rsock, c + 1>>>>
        BY <2>5, <3>6, <4>2
      <4>4. source' \in Sockets /\ source' = rsock /\ buffer' # <<>>
            /\ buffer' = <<<<rsock, came'[rsock]>>>> /\ Unfinished(source)'
        BY <1>0, <2>1, <2>2, <3>1, <4>1, <4>3 DEF Unfinished
      <4>5. \A s \in isOpen' : s = rsock
        BY <1>0, <2>1, <2>5
      <4> QED
        BY <2>5, <3>4, <4>4, <4>5 DEF ReadInv
    <3> QED
      BY <3>1, <3>5, <3>6, Parity
  <2> QED
    BY <1>12, <2>3, <2>4, <2>5 DEF ReadData
<1> QED
  BY <1>7, <1>8, <1>9, <1>10, <1>11, <1>12, ReaderFrame

(***************************************************************************)
(* A line is finished with the piece after the one in the buffer.          *)
(***************************************************************************)
LEMMA LinesStep ==
  ASSUME ReaderOK, ReadInv, LinesIntact, [Next]_vars
  PROVE  LinesIntact'
<1>1. lines' = lines => LinesIntact'
  BY DEF LinesIntact
<1>2. ReadHead \/ ReadLock \/ ReadClose \/ ReadCapture \/ ReadFailed \/ ReadLaunchDone
      \/ UNCHANGED readerVars => lines' = lines
  BY DEF ReadHead, ReadLock, ReadClose, ReadCapture, ReadFailed, ReadLaunchDone, readerVars
<1>3. ASSUME ReadData, lines' # lines PROVE LinesIntact'
  <2> DEFINE c == came[rsock]
             piece == <<rsock, c + 1>>
  <2>1. /\ rpc = "read" /\ rsock \in isOpen /\ (c + 1) % 2 = 0
        /\ lines' = lines \cup {Append(buffer, piece)}
    BY <1>3 DEF ReadData
  <2>2. c \in Nat
    BY DEF ReaderOK
  <2>3. c % 2 = 1
    <3> HIDE DEF c
    <3> QED
      BY <2>1, <2>2, Parity
  <2>4. buffer = <<<<rsock, c>>>>
    BY <2>1, <2>3 DEF ReadInv, Unfinished
  <2> HIDE DEF c
  <2>5. Append(buffer, piece) = <<<<rsock, c>>, <<rsock, c + 1>>>>
    <3>1. <<rsock, c>> \in Nat \X Nat /\ piece \in Nat \X Nat
      BY <2>2, BoundsAssumption DEF ReaderOK, Sockets
    <3> QED
      BY <2>4, <3>1, PairOf
  <2> DEFINE l == <<<<rsock, c>>, <<rsock, c + 1>>>>
  <2>6. Len(l) = 2 /\ l[1][2] % 2 = 1 /\ l[2] = <<l[1][1], l[1][2] + 1>>
    BY <2>3
  <2> QED
    BY <2>1, <2>5, <2>6 DEF LinesIntact
<1> QED
  BY <1>1, <1>2, <1>3, ReaderFrame

-----------------------------------------------------------------------------
(* What is sent.                                                           *)

(***************************************************************************)
(* The handshake and the registration have been sent on the first socket.  *)
(***************************************************************************)
LEMMA StreamInit == Init => StreamInv /\ WellFormedStreams
<1> SUFFICES ASSUME Init PROVE StreamInv /\ WellFormedStreams
  OBVIOUS
<1> DEFINE R == Registrations
           q == [n \in 1 .. R |-> Registration(n)]
           first == <<Handshake>> \o q
<1>0. R \in Nat
  BY BoundsAssumption
<1>1. /\ sock = 1 /\ made = 1 /\ lpc = "off" /\ wpc = [w \in Writers |-> "idle"]
      /\ wire = [s \in Sockets |-> IF s = 1 THEN first ELSE <<>>]
  BY DEF Init
<1>2. 1 \in Sockets /\ \A s \in Sockets : s > 1 => s # 1
  BY BoundsAssumption DEF Sockets
<1>3. /\ Len(first) = R + 1 /\ DOMAIN first = 1 .. R + 1
      /\ first[1] = Handshake
      /\ \A k \in 2 .. R + 1 : first[k] = Registration(k - 1)
  <2>1. q \in Seq({Registration(n) : n \in 1 .. R}) /\ Len(q) = R
    BY <1>0
  <2>2. \A n \in 1 .. R : q[n] = Registration(n)
    OBVIOUS
  <2> HIDE DEF q
  <2>3. <<Handshake>> \in Seq({Handshake}) /\ Len(<<Handshake>>) = 1
    OBVIOUS
  <2>4. /\ Len(first) = R + 1 /\ DOMAIN first = 1 .. R + 1
        /\ first[1] = Handshake
        /\ \A k \in 2 .. R + 1 : first[k] = q[k - 1]
    BY <1>0, <2>1, <2>3
  <2>5. \A k \in 2 .. R + 1 : k - 1 \in 1 .. R
    BY <1>0
  <2> QED
    BY <2>2, <2>4, <2>5
<1> HIDE DEF first
<1>4. StreamInv
  <2>1. wire[sock] = first /\ \A s \in Sockets : s > made => wire[s] = <<>>
    BY <1>1, <1>2
  <2>2. Len(wire[sock]) > R /\ AfterRegistration % 2 = 1
    BY <1>0, <1>3, <2>1 DEF AfterRegistration
  <2>3. \A w \in Writers : wpc[w] # "second"
    BY <1>1
  <2> QED
    BY <1>1, <2>1, <2>2, <2>3 DEF StreamInv
<1>5. WellFormedStreams
  <2> SUFFICES ASSUME NEW s \in Sockets, NEW k \in DOMAIN wire[s]
               PROVE  /\ k = 1 => wire[s][k] = Handshake
                      /\ k \in 2 .. R + 1 => wire[s][k] = Registration(k - 1)
                      /\ ~(k > R + 1)
    BY DEF WellFormedStreams
  <2>1. s = 1
    BY <1>1
  <2>2. wire[s] = first
    BY <1>1, <2>1
  <2> QED
    BY <1>0, <1>3, <2>2
<1> QED
  BY <1>4, <1>5

(***************************************************************************)
(* The parts of the first payload are yet to come.                         *)
(***************************************************************************)
LEMMA OnceInit == Init => OnceInv
<1> SUFFICES ASSUME Init PROVE OnceInv
  OBVIOUS
<1>1. WellFormedStreams /\ \A s \in Sockets : s # 1 => wire[s] = <<>>
  BY StreamInit DEF Init
<1>2. Len(wire[1]) = Registrations + 1 /\ DOMAIN wire[1] = 1 .. Registrations + 1
  <2>1. 1 \in Sockets /\ Registrations \in Nat
    BY BoundsAssumption DEF Sockets
  <2> DEFINE q == [n \in 1 .. Registrations |-> Registration(n)]
  <2>2. wire[1] = <<Handshake>> \o q
    BY <2>1 DEF Init
  <2>3. q \in Seq({Registration(n) : n \in 1 .. Registrations}) /\ Len(q) = Registrations
    BY <2>1
  <2> HIDE DEF q
  <2> QED
    BY <2>1, <2>2, <2>3
<1>3. \A s \in Sockets : \A k \in DOMAIN wire[s] : wire[s][k][1] \notin Writers
  <2> TAKE s \in Sockets
  <2> TAKE k \in DOMAIN wire[s]
  <2>1. s = 1 /\ 1 \in Sockets
    BY <1>1
  <2>2. k = 1 \/ k \in 2 .. Registrations + 1
    BY <1>2, <2>1, BoundsAssumption
  <2>3. k = 1 => wire[s][k] = Handshake
    BY <1>1 DEF WellFormedStreams
  <2>4. k \in 2 .. Registrations + 1 => wire[s][k] = Registration(k - 1)
    BY <1>1 DEF WellFormedStreams
  <2>5. wire[s][k][1] \in {"handshake", "registration"}
    BY <2>2, <2>3, <2>4 DEF Handshake, Registration
  <2> QED
    BY <2>5, WritersAssumption
<1>4. \A w \in Writers, n \in {1, 2} : Part(w, n)[1] = w
  BY DEF Part
<1> QED
  BY <1>3, <1>4 DEF OnceInv, AtMostOnce

(***************************************************************************)
(* A step that sends nothing: the connection that is being made is the     *)
(* same, and it is made only after its registration.                       *)
(***************************************************************************)
NoSecond == \A w \in Writers : wpc[w] # "second"
SameSecond == \A w \in Writers : wpc'[w] = "second" <=> wpc[w] = "second"

SendsNothing ==
  /\ wire' = wire /\ sock' = sock
  /\ lpc' = "handshake" => lpc = "handshake"
  /\ lpc' = "register" => lpc = "register"
  /\ alive' /\ lpc' \in {"off", "connected"} =>
       /\ alive
       /\ \/ lpc \in {"off", "connected"} /\ SameSecond
          \/ lpc = "register" /\ Registered = Registrations /\ UNCHANGED wpc

(***************************************************************************)
(* A step makes a connection, sends one message on the current one, or     *)
(* sends nothing.                                                          *)
(***************************************************************************)
LEMMA StreamCases ==
  ASSUME ControlOK, LookingInv, [Next]_vars
  PROVE  \/ NewSocket
         \/ LaunchHandshake /\ SendsHandshake
         \/ LaunchRegister /\ SendsRegistration
         \/ \E w \in Writers : SendPart(w) /\ SendsPart(w)
         \/ SendsNothing
<1> USE DEF connectionVars, launchVars, readerVars
<1>1. ASSUME UNCHANGED <<wire, alive, sock, lpc>>, SameSecond PROVE SendsNothing
  <2>1. lpc \in {"off", "connected"} => lpc \in {"off", "connected"}
    OBVIOUS
  <2> QED
    BY <1>1 DEF SendsNothing
<1>2. ASSUME UNCHANGED <<wire, sock>>, ~alive', lpc' \notin {"handshake", "register"}
      PROVE  SendsNothing
  BY <1>2 DEF SendsNothing
<1>3. \A s \in Sockets : Break(s) => SendsNothing
  BY <1>1 DEF Break, SameSecond
<1>4. ASSUME LaunchStart \/ LaunchTry PROVE SendsNothing
  <2>1. ~alive /\ UNCHANGED <<wire, sock, alive>> /\ lpc' \in {"connected", "try", "dial"}
    BY <1>4 DEF LaunchStart, LaunchTry, LookingInv
  <2> QED
    BY <1>2, <2>1
<1>5. ASSUME LaunchDial PROVE NewSocket \/ SendsNothing
  <2>1. ~alive /\ wire' = wire
    BY <1>5 DEF LaunchDial, LookingInv
  <2>2. CASE UNCHANGED connectionVars /\ lpc' \in {"connected", "try", "gaveup"}
    BY <1>2, <2>1, <2>2
  <2>3. NewSocket \/ (UNCHANGED connectionVars /\ lpc' \in {"connected", "try", "gaveup"})
    BY <1>5 DEF LaunchDial, NewSocket, AttemptFailed
  <2> QED
    BY <2>2, <2>3
<1>6. ASSUME LaunchHandshake PROVE SendsHandshake \/ SendsNothing
  <2>1. \/ SendsHandshake
        \/ wire' = wire /\ Drop(sock) /\ lpc' \in {"try", "gaveup"}
    BY <1>6 DEF LaunchHandshake, SendsHandshake, AttemptFailed
  <2> QED
    BY <1>2, <2>1 DEF Drop
<1>7. ASSUME LaunchRegister PROVE SendsRegistration \/ SendsNothing
  <2>1. \/ SendsRegistration
        \/ wire' = wire /\ Drop(sock) /\ lpc' \in {"try", "gaveup"}
        \/ /\ Registered = Registrations /\ lpc = "register" /\ lpc' = "connected"
           /\ UNCHANGED <<connectionVars, wire, wpc>>
    BY <1>7 DEF LaunchRegister, SendsRegistration, AttemptFailed
  <2>2. CASE wire' = wire /\ Drop(sock) /\ lpc' \in {"try", "gaveup"}
    BY <1>2, <2>2 DEF Drop
  <2>3. CASE /\ Registered = Registrations /\ lpc = "register" /\ lpc' = "connected"
             /\ UNCHANGED <<connectionVars, wire, wpc>>
    BY <2>3 DEF SendsNothing
  <2> QED
    BY <2>1, <2>2, <2>3
<1>8. ASSUME NEW w \in Writers, Enter(w) PROVE SendsNothing
  <2>1. UNCHANGED <<wire, alive, sock, lpc>> /\ wpc[w] = "idle"
        /\ \E step \in {"first", "raised"} : wpc' = [wpc EXCEPT ![w] = step]
    BY <1>8 DEF Enter, Leave
  <2>2. SameSecond
    BY <2>1 DEF SameSecond, ControlOK
  <2> QED
    BY <1>1, <2>1, <2>2
<1>9. ASSUME NEW w \in Writers, SendFails(w) \/ Cancel(w) \/ CancelLaunch(w)
      PROVE  SendsNothing
  <2>1. UNCHANGED <<wire, sock>>
    BY <1>9 DEF SendFails, Cancel, CancelLaunch, Drop
  <2>2. CASE ~alive' /\ lpc' = "off"
    BY <1>2, <2>1, <2>2
  <2>3. CASE SendFails(w) \/ Cancel(w)
    <3>1. ~alive' /\ (lpc' = lpc \/ lpc' = "start")
      BY <2>3 DEF SendFails, Cancel, Drop
    <3> QED
      BY <2>1, <3>1 DEF SendsNothing
  <2>4. CancelLaunch(w) => ~alive' /\ lpc' = "off"
    BY DEF CancelLaunch, Drop, LookingInv
  <2> QED
    BY <1>9, <2>2, <2>3, <2>4
<1>10. ASSUME NEW w \in Writers, LaunchDone(w) PROVE SendsNothing
  <2>1. /\ UNCHANGED <<wire, sock, alive>> /\ lpc \in {"connected", "gaveup"} /\ lpc' = "off"
        /\ wpc[w] = "launch"
        /\ \E step \in {"returned", "raised"} : wpc' = [wpc EXCEPT ![w] = step]
    BY <1>10 DEF LaunchDone, LaunchOver, Leave
  <2>2. SameSecond
    BY <2>1 DEF SameSecond, ControlOK
  <2>3. lpc = "gaveup" => ~alive
    BY DEF LookingInv
  <2> QED
    BY <2>1, <2>2, <2>3 DEF SendsNothing
<1>11. ASSUME ReadHead \/ ReadCapture \/ ReadData PROVE SendsNothing
  BY <1>1, <1>11 DEF ReadHead, ReadCapture, ReadData, SameSecond
<1>12. ASSUME ReadLock PROVE SendsNothing
  <2>1. UNCHANGED <<wire, sock, alive, wpc>> /\ (lpc' = lpc \/ (lpc' = "start" /\ ~alive))
    BY <1>12 DEF ReadLock
  <2> QED
    BY <2>1 DEF SendsNothing, SameSecond
<1>13. ASSUME ReadFailed PROVE SendsNothing
  <2>1. /\ UNCHANGED <<wire, sock, wpc>>
        /\ (UNCHANGED <<lpc, alive>> \/ (lpc' = "start" /\ ~alive'))
    BY <1>13 DEF ReadFailed, Drop
  <2> QED
    BY <2>1 DEF SendsNothing, SameSecond
<1>14. ASSUME ReadLaunchDone PROVE SendsNothing
  <2>1. /\ UNCHANGED <<wire, sock, alive, wpc>> /\ lpc' = "off"
        /\ lpc \in {"connected", "gaveup"}
    BY <1>14 DEF ReadLaunchDone, LaunchOver
  <2>2. lpc = "gaveup" => ~alive
    BY DEF LookingInv
  <2> QED
    BY <2>1, <2>2 DEF SendsNothing, SameSecond
<1>15. ASSUME ReadClose \/ Close PROVE SendsNothing
  <2>1. UNCHANGED <<wire, sock, lpc, wpc>> /\ (alive' = alive \/ ~alive')
    BY <1>15 DEF ReadClose, Close, Drop
  <2> QED
    BY <2>1 DEF SendsNothing, SameSecond
<1>16. UNCHANGED vars => SendsNothing
  BY <1>1 DEF vars, SameSecond
<1>17. \A w \in Writers : SendPart(w) => SendsPart(w)
  BY DEF SendPart, SendsPart
<1> QED
  BY <1>3, <1>4, <1>5, <1>6, <1>7, <1>8, <1>9, <1>10, <1>11, <1>12, <1>13, <1>14,
     <1>15, <1>16, <1>17, NextCases

(***************************************************************************)
(* One more message is where it belongs: so is everything.                 *)
(***************************************************************************)
WellPlaced(s, k) ==
  LET m == wire[s][k] IN
    /\ k = 1 => m = Handshake
    /\ k \in 2 .. Registrations + 1 => m = Registration(k - 1)
    /\ k > Registrations + 1 =>
         /\ m[1] \in Writers
         /\ IF (k - Registrations) % 2 = 0
            THEN m[2] = 1
            ELSE m = Part(wire[s][k - 1][1], 2)

(***************************************************************************)
(* A message that is where it belongs, after the one before it, leaves the *)
(* streams well formed.                                                    *)
(***************************************************************************)
LEMMA StillFormed ==
  ASSUME WireOK, WellFormedStreams, NEW s \in Sockets, NEW m \in Messages, Sent(s, m),
         NEW l, l = Len(wire[s]), NEW last, last = wire[s][l],
         l + 1 = 1 => m = Handshake,
         l + 1 \in 2 .. Registrations + 1 => m = Registration(l),
         l + 1 > Registrations + 1 =>
           /\ m[1] \in Writers
           /\ IF ((l + 1) - Registrations) % 2 = 0
              THEN m[2] = 1
              ELSE m = Part(last[1], 2)
  PROVE  WellFormedStreams'
<1>0. Registrations \in Nat
  BY BoundsAssumption
<1>1. /\ \A t \in Sockets : t # s => wire'[t] = wire[t]
      /\ Len(wire[s]) \in Nat
      /\ DOMAIN wire[s] = 1 .. Len(wire[s])
      /\ DOMAIN wire'[s] = 1 .. Len(wire[s]) + 1
      /\ \A k \in DOMAIN wire[s] : wire'[s][k] = wire[s][k]
      /\ wire'[s][Len(wire[s]) + 1] = m
  BY SentAt
<1>2. \A t \in Sockets : \A k \in DOMAIN wire[t] : WellPlaced(t, k)
  BY DEF WellFormedStreams, WellPlaced
<1>3. ASSUME NEW t \in Sockets, NEW k \in DOMAIN wire'[t] PROVE WellPlaced(t, k)'
  <2>1. CASE t # s
    <3>1. wire'[t] = wire[t]
      BY <1>1, <2>1
    <3> QED
      BY <1>2, <3>1 DEF WellPlaced
  <2>2. CASE t = s /\ k \in DOMAIN wire[s]
    <3>1. wire'[s][k] = wire[s][k] /\ WellPlaced(s, k) /\ k \in 1 .. Len(wire[s])
      BY <1>1, <1>2, <2>2
    <3>2. k > Registrations + 1 => k - 1 \in DOMAIN wire[s]
      BY <1>0, <1>1, <3>1
    <3>3. k > Registrations + 1 => wire'[s][k - 1] = wire[s][k - 1]
      BY <1>1, <3>2
    <3> QED
      BY <2>2, <3>1, <3>3 DEF WellPlaced
  <2>3. CASE t = s /\ k = l + 1
    <3>1. wire'[s][k] = m
      BY <1>1, <2>3
    <3>2. k - 1 = l
      BY <1>1, <2>3
    <3>3. k > Registrations + 1 => wire'[s][k - 1] = last
      <4>1. k > Registrations + 1 => l \in DOMAIN wire[s]
        BY <1>0, <1>1, <2>3
      <4> QED
        BY <1>1, <3>2, <4>1
    <3>4. /\ k = 1 => m = Handshake
          /\ k \in 2 .. Registrations + 1 => m = Registration(k - 1)
          /\ k > Registrations + 1 =>
               /\ m[1] \in Writers
               /\ IF (k - Registrations) % 2 = 0 THEN m[2] = 1 ELSE m = Part(last[1], 2)
      BY <2>3, <3>2
    <3> QED
      BY <2>3, <3>1, <3>3, <3>4 DEF WellPlaced
  <2> QED
    BY <1>1, <2>1, <2>2, <2>3
<1> QED
  BY <1>3 DEF WellFormedStreams, WellPlaced

(***************************************************************************)
(* Every step keeps the streams well formed.                               *)
(***************************************************************************)
LEMMA StreamStep ==
  ASSUME TypeOK, LockInv, SocketInv, StreamInv, WellFormedStreams, [Next]_vars
  PROVE  StreamInv' /\ WellFormedStreams'
<1> DEFINE R == Registrations
<1>0. /\ R \in Nat /\ sock \in Sockets /\ made \in Nat /\ sock <= made
      /\ \A s \in Sockets : s \in Nat
      /\ SocketsOK /\ ReaderOK /\ ControlOK /\ WireOK /\ LookingInv
  BY BoundsAssumption, TypeGroups, SocketParts DEF SocketsOK, Sockets, OpenInv
<1>1. Len(wire[sock]) \in Nat
  BY <1>0 DEF WireOK
<1>2. made' = made \/ made' = made + 1
  BY <1>0, OpenStep
<1>3. \A s \in Sockets : s > made' => s > made
  BY <1>0, <1>2
\* What is sent goes out on the current socket.
<1>4. ASSUME NEW m \in Messages, Sent(sock, m)
      PROVE  /\ \A s \in Sockets : s > made' => wire'[s] = <<>>
             /\ Len(wire'[sock]) = Len(wire[sock]) + 1
             /\ wire'[sock][Len(wire[sock]) + 1] = m
  <2>1. /\ \A t \in Sockets : t # sock => wire'[t] = wire[t]
        /\ Len(wire'[sock]) = Len(wire[sock]) + 1
        /\ wire'[sock][Len(wire[sock]) + 1] = m
    BY <1>0, <1>4, SentAt
  <2>2. \A s \in Sockets : s > made' => s # sock
    BY <1>0, <1>3
  <2> QED
    BY <1>3, <2>1, <2>2 DEF StreamInv
<1>5. CASE NewSocket
  <2>1. /\ wire' = wire /\ sock' = made + 1 /\ lpc' = "handshake"
        /\ made < MaxSockets
    BY <1>5 DEF NewSocket
  <2>2. sock' \in Sockets /\ sock' > made
    BY <1>0, <2>1, BoundsAssumption DEF Sockets
  <2>3. wire'[sock'] = <<>>
    BY <2>1, <2>2 DEF StreamInv
  <2>4. StreamInv'
    BY <1>3, <2>1, <2>3 DEF StreamInv
  <2> QED
    BY <2>1, <2>4 DEF WellFormedStreams
<1>6. CASE LaunchHandshake /\ SendsHandshake
  <2>1. wire[sock] = <<>> /\ Sent(sock, Handshake)
    BY <1>6 DEF SendsHandshake, StreamInv
  <2>2. Handshake \in Messages
    BY DEF Handshake, Messages
  <2>3. Len(wire[sock]) = 0
    BY <2>1
  <2>4. WellFormedStreams'
    <3>1. ~(1 \in 2 .. R + 1) /\ ~(1 > R + 1)
      BY <1>0
    <3>2. 0 + 1 = 1
      OBVIOUS
    <3> QED
      BY <1>0, <2>1, <2>2, <2>3, <3>1, <3>2, StillFormed
  <2>5. sock' = sock /\ lpc' \in {"register", "try", "gaveup"}
    BY <1>6 DEF LaunchHandshake, connectionVars, Drop, AttemptFailed
  <2>6. Len(wire'[sock]) = 1 /\ 1 \in 1 .. R + 1
    BY <1>0, <1>4, <2>1, <2>2, <2>3
  <2>7. StreamInv'
    BY <1>4, <2>1, <2>2, <2>5, <2>6 DEF StreamInv
  <2> QED
    BY <2>4, <2>7
<1>7. CASE LaunchRegister /\ SendsRegistration
  <2> DEFINE n == Len(wire[sock])
  <2>1. n \in 1 .. R + 1 /\ n - 1 < R /\ Sent(sock, Registration(n - 1 + 1))
    BY <1>7 DEF SendsRegistration, StreamInv, Registered
  <2> HIDE DEF n
  <2>2. n \in Nat /\ n - 1 + 1 = n /\ n + 1 \in 2 .. R + 1 /\ n + 1 - 1 = n
        /\ n + 1 # 1 /\ ~(n + 1 > R + 1) /\ n + 1 \in 1 .. R + 1
    BY <1>0, <2>1
  <2>3. Registration(n) \in Messages /\ Sent(sock, Registration(n))
    BY <2>1, <2>2 DEF Registration, Messages
  <2>4. WellFormedStreams'
    <3>1. n = Len(wire[sock])
      BY DEF n
    <3> QED
      BY <1>0, <2>2, <2>3, <3>1, StillFormed
  <2>5. sock' = sock /\ lpc' \in {"register", "try", "gaveup", "connected"}
    BY <1>7 DEF LaunchRegister, connectionVars, Drop, AttemptFailed
  <2>6. lpc' # "connected"
    <3>1. Registered # Registrations
      BY <1>0, <2>1, <2>2 DEF Registered, n
    <3> QED
      BY <1>7, <3>1 DEF LaunchRegister, SendsRegistration, AttemptFailed
  <2>7. Len(wire'[sock]) = n + 1
    BY <1>4, <2>3 DEF n
  <2>8. StreamInv'
    BY <1>4, <2>2, <2>3, <2>5, <2>6, <2>7 DEF StreamInv
  <2> QED
    BY <2>4, <2>8
<1>8. ASSUME NEW w \in Writers, SendPart(w), SendsPart(w)
      PROVE  StreamInv' /\ WellFormedStreams'
  <2> DEFINE n == Len(wire[sock])
             m == Part(w, PartNo(w))
  <2>1. /\ wpc[w] \in {"first", "second"} /\ sock \in isOpen /\ Sent(sock, m)
        /\ UNCHANGED <<alive, sock, isOpen, lpc>>
        /\ \E step \in {"second", "returned"} :
             wpc' = [wpc EXCEPT ![w] = step] /\ (step = "second" <=> wpc[w] = "first")
    BY <1>8 DEF SendPart, SendsPart, MaySend, connectionVars, launchVars, Leave
  <2>2. alive /\ lpc = "off" /\ \A u \in Writers : u # w => wpc[u] # "second"
    BY <2>1, Alone DEF SocketInv, Holds
  <2>3. n > R /\ (wpc[w] = "first" => (n - R) % 2 = 1)
        /\ (wpc[w] = "second" => (n - R) % 2 = 0 /\ wire[sock][n] = Part(w, 1))
    BY <2>1, <2>2 DEF StreamInv, AfterRegistration
  <2>4. m \in Messages /\ m[1] = w /\ m[2] = PartNo(w)
        /\ PartNo(w) = IF wpc[w] = "first" THEN 1 ELSE 2
    BY DEF Part, PartNo, Messages
  <2>5. /\ Len(wire'[sock]) = n + 1 /\ wire'[sock][n + 1] = m
        /\ \A s \in Sockets : s > made' => wire'[s] = <<>>
    BY <1>4, <2>1, <2>4
  <2>6. n \in Nat
    BY <1>1
  <2> HIDE DEF n
  <2>7. /\ n + 1 > R + 1 /\ n + 1 # 1 /\ ~(n + 1 \in 2 .. R + 1) /\ n + 1 - 1 = n
        /\ n + 1 > R
        /\ ((n + 1) - R) % 2 = 0 <=> (n - R) % 2 = 1
        /\ ((n + 1) - R) % 2 = 1 <=> (n - R) % 2 = 0
    <3>1. PICK d \in Nat : n = R + d
      <4>1. n - R \in Nat /\ n = R + (n - R)
        BY <1>0, <2>3, <2>6
      <4> QED
        BY <4>1
    <3>2. n - R = d /\ (n + 1) - R = d + 1
      BY <1>0, <3>1
    <3>3. ~(n + 1 \in 2 .. R + 1) /\ n + 1 > R + 1 /\ n + 1 # 1 /\ n + 1 - 1 = n /\ n + 1 > R
      BY <1>0, <2>3, <2>6
    <3> QED
      BY <3>2, <3>3, Parity
  <2>8. WellFormedStreams'
    <3>1. IF ((n + 1) - R) % 2 = 0 THEN m[2] = 1 ELSE m = Part(wire[sock][n][1], 2)
      <4>1. CASE wpc[w] = "first"
        BY <2>3, <2>4, <2>7, <4>1
      <4>2. CASE wpc[w] = "second"
        <5>1. ~(((n + 1) - R) % 2 = 0)
          BY <2>3, <2>7, <4>2
        <5>2. wire[sock][n][1] = w /\ PartNo(w) = 2
          BY <2>3, <2>4, <4>2 DEF Part
        <5> QED
          BY <5>1, <5>2
      <4> QED
        BY <2>1, <4>1, <4>2
    <3>2. n = Len(wire[sock])
      BY DEF n
    <3>3. m \in Messages /\ Sent(sock, m) /\ m[1] \in Writers
      BY <2>1, <2>4
    <3> HIDE DEF m
    <3>4. /\ n + 1 = 1 => m = Handshake
          /\ n + 1 \in 2 .. Registrations + 1 => m = Registration(n)
      BY <2>7
    <3>5. PICK last : last = wire[sock][n]
      OBVIOUS
    <3>6. IF ((n + 1) - Registrations) % 2 = 0 THEN m[2] = 1 ELSE m = Part(last[1], 2)
      BY <3>1, <3>5
    <3> QED
      BY <1>0, <3>2, <3>3, <3>4, <3>5, <3>6, StillFormed
  <2>9. /\ \A u \in Writers : u # w => wpc'[u] # "second"
        /\ wpc'[w] = "second" <=> wpc[w] = "first"
    <3>1. PICK step \in {"second", "returned"} :
            wpc' = [wpc EXCEPT ![w] = step] /\ (step = "second" <=> wpc[w] = "first")
      BY <2>1
    <3>2. \A u \in Writers : wpc'[u] = IF u = w THEN step ELSE wpc[u]
      BY <1>0, <3>1 DEF ControlOK
    <3> QED
      BY <2>2, <3>1, <3>2
  <2>10. AfterRegistration' = (n + 1) - R
    BY <2>1, <2>5 DEF AfterRegistration
  <2>11. (\E u \in Writers : wpc'[u] = "second") => wpc[w] = "first"
    BY <2>9
  <2>12. wpc[w] = "first" => wire'[sock'][Len(wire'[sock'])] = Part(w, 1)
    BY <2>1, <2>4, <2>5
  <2>13. \A u \in Writers : wpc'[u] = "second" =>
           AfterRegistration' % 2 = 0 /\ wire'[sock'][Len(wire'[sock'])] = Part(u, 1)
    BY <2>3, <2>7, <2>9, <2>10, <2>12
  <2>14. (\A u \in Writers : wpc'[u] # "second") => AfterRegistration' % 2 = 1
    BY <2>1, <2>3, <2>7, <2>9, <2>10
  <2>15. StreamInv'
    BY <2>1, <2>2, <2>5, <2>7, <2>13, <2>14 DEF StreamInv
  <2> QED
    BY <2>8, <2>15
<1>9. CASE SendsNothing
  <2>1. wire' = wire /\ sock' = sock
    BY <1>9 DEF SendsNothing
  <2>2. WellFormedStreams'
    BY <2>1 DEF WellFormedStreams
  <2>3. AfterRegistration' = AfterRegistration
    BY <2>1 DEF AfterRegistration
  <2>4. /\ \A s \in Sockets : s > made' => wire'[s] = <<>>
        /\ lpc' = "handshake" => wire'[sock'] = <<>>
        /\ lpc' = "register" => Len(wire'[sock']) \in 1 .. R + 1
    BY <1>3, <1>9, <2>1 DEF SendsNothing, StreamInv
  <2>5. ASSUME alive', lpc' \in {"off", "connected"}
        PROVE  /\ Len(wire[sock]) > R
               /\ \A w \in Writers : wpc'[w] = "second" =>
                    AfterRegistration % 2 = 0 /\ wire[sock][Len(wire[sock])] = Part(w, 1)
               /\ (\A w \in Writers : wpc'[w] # "second") => AfterRegistration % 2 = 1
    <3>1. CASE alive /\ lpc \in {"off", "connected"} /\ SameSecond
      BY <3>1 DEF StreamInv, SameSecond
    <3>2. CASE alive /\ lpc = "register" /\ Registered = Registrations /\ UNCHANGED wpc
      <4>1. Len(wire[sock]) = R + 1
        BY <1>0, <1>1, <3>2 DEF Registered
      <4>2. Len(wire[sock]) > R /\ AfterRegistration % 2 = 1
        BY <1>0, <4>1 DEF AfterRegistration
      <4>3. \A w \in Writers : wpc'[w] # "second"
        BY <3>2, Alone
      <4> QED
        BY <4>2, <4>3
    <3> QED
      BY <1>9, <2>5, <3>1, <3>2 DEF SendsNothing
  <2>6. StreamInv'
    BY <2>1, <2>3, <2>4, <2>5 DEF StreamInv
  <2> QED
    BY <2>2, <2>6
<1> QED
  BY <1>0, <1>5, <1>6, <1>7, <1>8, <1>9, StreamCases

-----------------------------------------------------------------------------
(* No payload is repeated.                                                 *)

(***************************************************************************)
(* What a worker has sent is never unsent again.                           *)
(***************************************************************************)
LEMMA UnsentStep ==
  ASSUME ControlOK, [Next]_vars
  PROVE  \A w \in Writers, n \in {1, 2} : Unsent(w, n)' => Unsent(w, n)
<1> USE DEF connectionVars, launchVars, readerVars
<1>1. ASSUME wpc' = wpc
      PROVE  \A w \in Writers, n \in {1, 2} : Unsent(w, n)' => Unsent(w, n)
  BY <1>1 DEF Unsent
<1>2. (\E s \in Sockets : Break(s)) => wpc' = wpc
  BY DEF Break
<1>3. LaunchStart \/ LaunchTry \/ LaunchDial \/ LaunchHandshake \/ LaunchRegister
        => wpc' = wpc
  BY DEF LaunchStart, LaunchTry, LaunchDial, LaunchHandshake, LaunchRegister
<1>4. ReadHead \/ ReadLock \/ ReadCapture \/ ReadData \/ ReadLaunchDone => wpc' = wpc
  BY DEF ReadHead, ReadLock, ReadCapture, ReadData, ReadLaunchDone
<1>5. ReadFailed \/ ReadClose \/ Close \/ UNCHANGED vars => wpc' = wpc
  BY DEF ReadFailed, ReadClose, Close, vars
<1>6. ASSUME NEW u \in Writers,
             \/ Enter(u) \/ SendPart(u) \/ LaunchDone(u)
             \/ SendFails(u) \/ Cancel(u) \/ CancelLaunch(u)
      PROVE  \A w \in Writers, n \in {1, 2} : Unsent(w, n)' => Unsent(w, n)
  <2>1. \E step \in {"first", "second", "launch", "returned", "raised", "cancelled"} :
          /\ wpc' = [wpc EXCEPT ![u] = step]
          /\ step = "first" => wpc[u] = "idle"
          /\ step = "second" => wpc[u] = "first"
    BY <1>6 DEF Enter, SendPart, LaunchDone, SendFails, Cancel, CancelLaunch, Leave
  <2>2. PICK step \in {"first", "second", "launch", "returned", "raised", "cancelled"} :
          /\ wpc' = [wpc EXCEPT ![u] = step]
          /\ step = "first" => wpc[u] = "idle"
          /\ step = "second" => wpc[u] = "first"
    BY <2>1
  <2>3. \A w \in Writers : wpc'[w] = IF w = u THEN step ELSE wpc[w]
    BY <2>2 DEF ControlOK
  <2> QED
    BY <2>2, <2>3 DEF Unsent
<1> QED
  BY <1>1, <1>2, <1>3, <1>4, <1>5, <1>6, NextCases

(***************************************************************************)
(* One more message, if it is no part of a payload or one that has not     *)
(* been sent and now is.                                                   *)
(***************************************************************************)
LEMMA StillOnce ==
  ASSUME WireOK, OnceInv, NEW s \in Sockets, NEW m \in Messages, Sent(s, m),
         \A w \in Writers, n \in {1, 2} : Unsent(w, n)' => Unsent(w, n) /\ m # Part(w, n),
         m[1] \in Writers =>
           \A t \in Sockets : \A k \in DOMAIN wire[t] : wire[t][k] # m
  PROVE  OnceInv'
<1>1. /\ \A t \in Sockets : t # s => wire'[t] = wire[t]
      /\ DOMAIN wire[s] = 1 .. Len(wire[s])
      /\ Len(wire[s]) \in Nat
      /\ DOMAIN wire'[s] = 1 .. Len(wire[s]) + 1
      /\ \A k \in DOMAIN wire[s] : wire'[s][k] = wire[s][k]
      /\ wire'[s][Len(wire[s]) + 1] = m
  BY SentAt
<1>2. PICK new : new = Len(wire[s]) + 1
  OBVIOUS
<1>3. \A k \in DOMAIN wire'[s] : k \in DOMAIN wire[s] \/ k = new
  <2> DEFINE l == Len(wire[s])
  <2>1. l \in Nat /\ DOMAIN wire[s] = 1 .. l /\ DOMAIN wire'[s] = 1 .. l + 1 /\ new = l + 1
    BY <1>1, <1>2
  <2> HIDE DEF l
  <2> QED
    BY <2>1
<1>4. \A t \in Sockets : \A k \in DOMAIN wire'[t] :
        \/ k \in DOMAIN wire[t] /\ wire'[t][k] = wire[t][k]
        \/ t = s /\ k = new /\ wire'[t][k] = m
  BY <1>1, <1>2, <1>3
<1>5. ASSUME NEW t \in Sockets, NEW k \in DOMAIN wire'[t],
             NEW w \in Writers, NEW n \in {1, 2}, Unsent(w, n)'
      PROVE  wire'[t][k] # Part(w, n)
  <2>1. Unsent(w, n) /\ m # Part(w, n)
    BY <1>5
  <2> QED
    BY <1>4, <2>1 DEF OnceInv
<1>6. AtMostOnce'
  <2> SUFFICES ASSUME NEW t \in Sockets, NEW u \in Sockets,
                      NEW j \in DOMAIN wire'[t], NEW k \in DOMAIN wire'[u],
                      wire'[t][j] = wire'[u][k], wire'[t][j][1] \in Writers
               PROVE  t = u /\ j = k
    BY DEF AtMostOnce
  <2>1. CASE j \in DOMAIN wire[t] /\ wire'[t][j] = wire[t][j]
             /\ k \in DOMAIN wire[u] /\ wire'[u][k] = wire[u][k]
    <3>1. wire[t][j] = wire[u][k] /\ wire[t][j][1] \in Writers
      BY <2>1
    <3>2. AtMostOnce
      BY DEF OnceInv
    <3> QED
      BY <2>1, <3>1, <3>2 DEF AtMostOnce
  <2>2. ~(j \in DOMAIN wire[t] /\ wire'[t][j] = wire[t][j] /\ wire'[u][k] = m)
    OBVIOUS
  <2>3. ~(k \in DOMAIN wire[u] /\ wire'[u][k] = wire[u][k] /\ wire'[t][j] = m)
    OBVIOUS
  <2>4. \/ j \in DOMAIN wire[t] /\ wire'[t][j] = wire[t][j]
        \/ t = s /\ j = new /\ wire'[t][j] = m
    BY <1>4
  <2>5. \/ k \in DOMAIN wire[u] /\ wire'[u][k] = wire[u][k]
        \/ u = s /\ k = new /\ wire'[u][k] = m
    BY <1>4
  <2> QED
    BY <2>1, <2>2, <2>3, <2>4, <2>5
<1> QED
  BY <1>5, <1>6 DEF OnceInv

(***************************************************************************)
(* Every step keeps it so that no part is on the wire twice.               *)
(***************************************************************************)
LEMMA OnceStep ==
  ASSUME TypeOK, OnceInv, [Next]_vars
  PROVE  OnceInv'
<1>0. ControlOK /\ WireOK /\ sock \in Sockets
  BY TypeGroups DEF SocketsOK
<1>1. \A w \in Writers, n \in {1, 2} : Unsent(w, n)' => Unsent(w, n)
  BY <1>0, UnsentStep
<1>2. CASE wire' = wire
  BY <1>1, <1>2 DEF OnceInv, AtMostOnce
<1>3. ASSUME NEW m \in Messages, Sent(sock, m), m[1] \notin Writers
      PROVE  OnceInv'
  <2>1. \A w \in Writers, n \in {1, 2} : m # Part(w, n)
    BY <1>3 DEF Part
  <2> QED
    BY <1>0, <1>1, <1>3, <2>1, StillOnce
<1>4. CASE SendsHandshake
  <2>1. Handshake \in Messages /\ Handshake[1] = "handshake" /\ Sent(sock, Handshake)
    BY <1>4 DEF Handshake, Messages, SendsHandshake
  <2>2. "handshake" \notin Writers
    BY WritersAssumption
  <2> QED
    BY <1>3, <2>1, <2>2
<1>5. CASE SendsRegistration
  <2>1. Registered + 1 \in Nat
    <3> DEFINE l == Len(wire[sock])
    <3>1. l \in Nat
      BY <1>0 DEF WireOK
    <3>2. l - 1 + 1 = l
      BY <3>1
    <3> QED
      BY <3>1, <3>2 DEF Registered
  <2>2. PICK m : m = Registration(Registered + 1)
    OBVIOUS
  <2>3. m \in Messages /\ m[1] = "registration" /\ Sent(sock, m)
    BY <1>5, <2>1, <2>2 DEF Registration, Messages, SendsRegistration
  <2>4. "registration" \notin Writers
    BY WritersAssumption
  <2> QED
    BY <1>3, <2>3, <2>4
<1>6. ASSUME NEW w \in Writers, SendPart(w), SendsPart(w)
      PROVE  OnceInv'
  <2>1. PICK n \in {1, 2} : n = PartNo(w)
    BY DEF PartNo
  <2>2. PICK m : m = Part(w, n)
    OBVIOUS
  <2>3. m \in Messages /\ m[1] = w /\ m[2] = n /\ Sent(sock, m)
    BY <1>6, <2>1, <2>2 DEF Part, Messages, SendsPart
  <2>4. Unsent(w, n)
    BY <1>6, <2>1 DEF SendsPart, PartNo, Unsent
  <2>5. \A t \in Sockets : \A k \in DOMAIN wire[t] : wire[t][k] # m
    BY <2>2, <2>4 DEF OnceInv
  <2>6. \E step \in {"second", "returned"} :
          wpc' = [wpc EXCEPT ![w] = step] /\ (step = "second" <=> wpc[w] = "first")
    BY <1>6 DEF SendPart, Leave
  <2>7. ~Unsent(w, n)'
    BY <1>0, <1>6, <2>1, <2>6 DEF ControlOK, Unsent, PartNo, SendsPart
  <2>8. \A u \in Writers, i \in {1, 2} : m = Part(u, i) => u = w /\ i = n
    BY <2>3 DEF Part
  <2> QED
    BY <1>0, <1>1, <2>3, <2>5, <2>7, <2>8, StillOnce
<1> QED
  BY <1>2, <1>4, <1>5, <1>6, WireCases

-----------------------------------------------------------------------------
(* A connection is given up only for a reason.                             *)

(***************************************************************************)
(* The first connection is alive.                                          *)
(***************************************************************************)
LEMMA LeftInit == Init => LeftInv
BY DEF Init, LeftInv

(***************************************************************************)
(* Whoever loses the connection brings it back, or leaves a mark, unless   *)
(* he is cancelled while he brings it back.                                *)
(***************************************************************************)
LEMMA LeftStep ==
  ASSUME "launch" \notin CancelDuring, TypeOK, LockInv, SocketInv, LeftInv, [Next]_vars
  PROVE  LeftInv'
<1> USE DEF connectionVars, launchVars, readerVars
<1>0. FlagsOK /\ LookingInv /\ ClosedInv
  BY TypeGroups, SocketParts
<1>1. ASSUME UNCHANGED <<alive, lpc, pending, exhausted>>, closed => closed'
      PROVE  LeftInv'
  BY <1>1 DEF LeftInv
<1>2. \A s \in Sockets : Break(s) => LeftInv'
  BY <1>1 DEF Break
<1>3. LaunchStart => LeftInv'
  BY DEF LaunchStart, LeftInv
<1>4. LaunchTry => LeftInv'
  BY DEF LaunchTry, LeftInv
<1>5. LaunchDial => LeftInv'
  BY <1>0 DEF LaunchDial, AttemptFailed, LeftInv, LookingInv
<1>6. LaunchHandshake => LeftInv'
  BY DEF LaunchHandshake, AttemptFailed, LeftInv, Drop
<1>7. LaunchRegister => LeftInv'
  BY DEF LaunchRegister, AttemptFailed, LeftInv, Drop
<1>8. \A w \in Writers : Enter(w) \/ SendPart(w) => LeftInv'
  BY <1>1 DEF Enter, SendPart
<1>9. \A w \in Writers : SendFails(w) => LeftInv'
  BY DEF SendFails, LeftInv, Drop
<1>10. ASSUME NEW w \in Writers, Cancel(w) PROVE LeftInv'
  <2>1. lpc' = "off" /\ exhausted' = exhausted /\ closed' = closed
        /\ pending' = IF closed THEN pending ELSE TRUE
    BY <1>10, Alone DEF Cancel
  <2> QED
    BY <2>1 DEF LeftInv
<1>11. \A w \in Writers : LaunchDone(w) => LeftInv'
  BY DEF LaunchDone, LaunchOver, LeftInv
<1>12. \A w \in Writers : ~CancelLaunch(w)
  BY DEF CancelLaunch
<1>13. ReadHead \/ ReadCapture \/ ReadData => LeftInv'
  BY <1>1 DEF ReadHead, ReadCapture, ReadData
<1>14. ReadLock => LeftInv'
  BY DEF ReadLock, LeftInv
<1>15. ReadFailed => LeftInv'
  BY DEF ReadFailed, LeftInv, Drop
<1>16. ReadLaunchDone => LeftInv'
  BY DEF ReadLaunchDone, LaunchOver, LeftInv
<1>17. ReadClose \/ Close => LeftInv'
  <2>1. ReadClose \/ Close =>
          UNCHANGED <<lpc, pending, exhausted>> /\ (closed' \/ UNCHANGED <<alive, closed>>)
    BY <1>0 DEF ReadClose, Close, ClosedInv
  <2> QED
    BY <2>1 DEF LeftInv
<1>18. UNCHANGED vars => LeftInv'
  BY <1>1 DEF vars
<1> QED
  BY <1>2, <1>3, <1>4, <1>5, <1>6, <1>7, <1>8, <1>9, <1>10, <1>11, <1>12, <1>13,
     <1>14, <1>15, <1>16, <1>17, <1>18, NextCases

-----------------------------------------------------------------------------
(* The invariant.                                                          *)

IInv ==
  /\ TypeOK
  /\ LockInv
  /\ SocketInv
  /\ FailedInv
  /\ ReadInv
  /\ LinesIntact
  /\ StreamInv
  /\ WellFormedStreams
  /\ OnceInv
  /\ AttemptInv

(***************************************************************************)
(* It holds at first.                                                      *)
(***************************************************************************)
LEMMA InvInit == Init => IInv
<1> SUFFICES ASSUME Init PROVE IInv
  OBVIOUS
<1>1. TypeOK /\ LockInv /\ SocketInv /\ ReadInv /\ FailedInv
  BY TypeInit, LockInit, SocketInit, ReadInit
<1>2. StreamInv /\ WellFormedStreams /\ OnceInv
  BY StreamInit, OnceInit
<1>3. LinesIntact /\ AttemptInv
  BY DEF Init, LinesIntact, AttemptInv
<1> QED
  BY <1>1, <1>2, <1>3 DEF IInv

(***************************************************************************)
(* Every step keeps it.                                                    *)
(***************************************************************************)
LEMMA InvStep ==
  ASSUME IInv, [Next]_vars
  PROVE  IInv'
<1>1. /\ TypeOK /\ LockInv /\ SocketInv /\ FailedInv /\ ReadInv /\ LinesIntact
      /\ StreamInv /\ WellFormedStreams /\ OnceInv /\ AttemptInv
  BY DEF IInv
<1>2. SocketsOK /\ ReaderOK /\ ControlOK
  BY <1>1, TypeGroups
<1>3. TypeOK' /\ AttemptInv' /\ LockInv' /\ SocketInv' /\ FailedInv'
  BY <1>1, <1>2, TypeStep, LockStep, SocketStep, FailedStep
<1>4. SocketsOK'
  BY <1>1, <1>2, SocketsStep DEF ReaderOK
<1>5. ReadInv' /\ LinesIntact'
  BY <1>1, <1>2, <1>4, ReadStepInv, LinesStep
<1>6. StreamInv' /\ WellFormedStreams' /\ OnceInv'
  BY <1>1, StreamStep, OnceStep
<1> QED
  BY <1>3, <1>5, <1>6 DEF IInv

(***************************************************************************)
(* It holds in every state.                                                *)
(***************************************************************************)
LEMMA Inductive == Spec => []IInv
<1>1. IInv /\ [Next]_vars => IInv'
  BY InvStep
<1> QED
  BY <1>1, InvInit, PTL DEF Spec

(***************************************************************************)
(* Every variable keeps its type.                                          *)
(***************************************************************************)
THEOREM TypeCorrect == Spec => []TypeOK
<1>1. IInv => TypeOK
  BY DEF IInv
<1> QED
  BY <1>1, Inductive, PTL

(***************************************************************************)
(* No failure, no cancellation and no close() leaves a connection open     *)
(* that is not in use (_connect_once, _drop_connection, close).            *)
(***************************************************************************)
THEOREM NoConnectionLeaks == Spec => []NoSocketLeak
<1>1. IInv => NoSocketLeak
  BY DEF IInv, SocketInv, NoSocketLeak
<1> QED
  BY <1>1, Inductive, PTL

(***************************************************************************)
(* However the sockets are replaced under _read_stream, no line it yields  *)
(* is put together from two of them.                                       *)
(***************************************************************************)
THEOREM LinesAreIntact == Spec => []LinesIntact
<1>1. IInv => LinesIntact
  BY DEF IInv
<1> QED
  BY <1>1, Inductive, PTL

(***************************************************************************)
(* The daemon reads, on every connection, the handshake, all registration  *)
(* messages and then payloads that are not mixed with each other.          *)
(***************************************************************************)
THEOREM StreamsAreWellFormed == Spec => []WellFormedStreams
<1>1. IInv => WellFormedStreams
  BY DEF IInv
<1> QED
  BY <1>1, Inductive, PTL

(***************************************************************************)
(* No part of a payload is sent twice, on one connection or on two.        *)
(***************************************************************************)
THEOREM NothingIsRepeated == Spec => []AtMostOnce
<1>1. IInv => AtMostOnce
  BY DEF IInv, OnceInv
<1> QED
  BY <1>1, Inductive, PTL

-----------------------------------------------------------------------------
(* What a step may not do.                                                 *)

(***************************************************************************)
(* The steps that close a socket, and why they may.                        *)
(***************************************************************************)
KeptOrExcused ==
  \A s \in isOpen \ isOpen' :
    \/ s \in broken
    \/ closed
    \/ \E w \in Writers : wpc[w] # "cancelled" /\ wpc'[w] = "cancelled"

(***************************************************************************)
(* A step closes a socket for one of the three reasons only.               *)
(***************************************************************************)
LEMMA HealthyStep ==
  ASSUME IInv, [Next]_vars
  PROVE  KeptOrExcused
<1>0. /\ ControlOK /\ FailedInv /\ ClosedInv /\ isOpen = IF alive THEN {sock} ELSE {}
  BY TypeGroups, SocketParts DEF IInv, SocketInv
<1> USE DEF connectionVars, launchVars, readerVars
<1>1. ASSUME isOpen \subseteq isOpen' PROVE KeptOrExcused
  BY <1>1 DEF KeptOrExcused
<1>2. ASSUME Drop(sock), ~alive \/ MayFail(sock) PROVE KeptOrExcused
  <2>1. \A s \in isOpen \ isOpen' : s = sock /\ s \in isOpen /\ alive
    BY <1>0, <1>2 DEF Drop
  <2> QED
    BY <1>2, <2>1 DEF KeptOrExcused, MayFail
<1>3. \A s \in Sockets : Break(s) => KeptOrExcused
  BY <1>1 DEF Break
<1>4. LaunchStart \/ LaunchTry \/ LaunchDial => KeptOrExcused
  BY <1>1 DEF LaunchStart, LaunchTry, LaunchDial
<1>5. LaunchHandshake \/ LaunchRegister => KeptOrExcused
  BY <1>1, <1>2 DEF LaunchHandshake, LaunchRegister
<1>6. ASSUME NEW w \in Writers, Enter(w) \/ SendPart(w) \/ LaunchDone(w)
      PROVE  KeptOrExcused
  BY <1>1, <1>6 DEF Enter, SendPart, LaunchDone
<1>7. ASSUME NEW w \in Writers, SendFails(w) PROVE KeptOrExcused
  BY <1>2, <1>7 DEF SendFails
<1>8. ASSUME NEW w \in Writers, Cancel(w) \/ CancelLaunch(w) PROVE KeptOrExcused
  <2>1. wpc[w] \in {"first", "second", "launch"} /\ wpc' = [wpc EXCEPT ![w] = "cancelled"]
    BY <1>8 DEF Cancel, CancelLaunch, Leave
  <2>2. wpc[w] # "cancelled" /\ wpc'[w] = "cancelled"
    BY <1>0, <2>1 DEF ControlOK
  <2> QED
    BY <2>2 DEF KeptOrExcused
<1>9. ReadHead \/ ReadLock \/ ReadCapture \/ ReadData \/ ReadLaunchDone => KeptOrExcused
  BY <1>1 DEF ReadHead, ReadLock, ReadCapture, ReadData, ReadLaunchDone
<1>10. ASSUME ReadFailed PROVE KeptOrExcused
  <2>1. rpc = "failed" /\ (isOpen' = isOpen \/ (sock = rsock /\ Drop(sock)))
    BY <1>10 DEF ReadFailed, Drop
  <2>2. MayFail(rsock)
    BY <1>0, <2>1 DEF FailedInv, MayFail
  <2> QED
    BY <1>1, <1>2, <2>1, <2>2
<1>11. ReadClose \/ Close => KeptOrExcused
  <2>1. ReadClose \/ Close => isOpen' = isOpen \/ closed
    BY <1>0 DEF ReadClose, Close, ClosedInv
  <2> QED
    BY <1>1, <2>1 DEF KeptOrExcused
<1>12. UNCHANGED vars => KeptOrExcused
  BY <1>1 DEF vars
<1> QED
  BY <1>3, <1>4, <1>5, <1>6, <1>7, <1>8, <1>9, <1>10, <1>11, <1>12, NextCases

(***************************************************************************)
(* A healthy connection is closed by close() or for a cancelled write, and *)
(* never because another one, which it replaced, has failed.               *)
(***************************************************************************)
THEOREM HealthyIsKept == Spec => HealthySocketKept
<1>1. IInv /\ [Next]_vars => [KeptOrExcused]_vars
  BY HealthyStep
<1>2. HealthySocketKept <=> [][KeptOrExcused]_vars
  BY DEF HealthySocketKept, KeptOrExcused
<1> QED
  BY <1>1, <1>2, Inductive, PTL DEF Spec

(***************************************************************************)
(* What a step may not do to give the connection up without a reason.      *)
(***************************************************************************)
GivenUpForReason == rpc = "lock" /\ rpc' = "close" => closed \/ exhausted

(***************************************************************************)
(* The reader that gives up has found the lock free, so nobody is bringing *)
(* the connection back, and no mark: then LeftInv has the reason.          *)
(***************************************************************************)
LEMMA GivenUpStep ==
  ASSUME IInv, LeftInv, [Next]_vars
  PROVE  GivenUpForReason
<1> SUFFICES ASSUME rpc = "lock", rpc' = "close" PROVE closed \/ exhausted
  BY DEF GivenUpForReason
<1>0. ControlOK /\ LockInv
  BY TypeGroups DEF IInv
<1>1. lock = "nobody" /\ ~alive /\ ~pending
  <2> USE DEF connectionVars, launchVars, readerVars
  <2>1. \A s \in Sockets : ~Break(s)
    BY DEF Break
  <2>2. ~LaunchStart /\ ~LaunchTry /\ ~LaunchDial /\ ~LaunchHandshake /\ ~LaunchRegister
    BY DEF LaunchStart, LaunchTry, LaunchDial, LaunchHandshake, LaunchRegister
  <2>3. \A w \in Writers :
          ~(Enter(w) \/ SendPart(w) \/ LaunchDone(w) \/ SendFails(w) \/ Cancel(w)
              \/ CancelLaunch(w))
    BY DEF Enter, SendPart, LaunchDone, SendFails, Cancel, CancelLaunch
  <2>4. ~ReadHead /\ ~ReadCapture /\ ~ReadData /\ ~ReadFailed /\ ~ReadLaunchDone
    BY DEF ReadHead, ReadCapture, ReadData, ReadFailed, ReadLaunchDone
  <2>5. ~ReadClose /\ ~Close /\ ~UNCHANGED vars
    BY DEF ReadClose, Close, vars
  <2>6. ReadLock
    BY <2>1, <2>2, <2>3, <2>4, <2>5, NextCases
  <2> QED
    BY <2>6 DEF ReadLock
<1>2. lpc = "off"
  BY <1>0, <1>1, WritersAssumption DEF LockInv, Holds
<1> QED
  BY <1>1, <1>2 DEF LeftInv

(***************************************************************************)
(* When no worker is cancelled in _launch, _read_stream closes the reader  *)
(* only after a close() or after the last of the attempts.                 *)
(***************************************************************************)
THEOREM GivenUpWithReason ==
  ASSUME "launch" \notin CancelDuring
  PROVE  Spec => GivenUpOnlyWhenExhausted
<1>1. IInv /\ LeftInv /\ [Next]_vars => LeftInv'
  BY LeftStep DEF IInv
<1>2. Init => LeftInv
  BY LeftInit
<1>3. IInv /\ LeftInv /\ [Next]_vars => [GivenUpForReason]_vars
  BY GivenUpStep
<1>4. GivenUpOnlyWhenExhausted <=> [][GivenUpForReason]_vars
  BY DEF GivenUpOnlyWhenExhausted, GivenUpForReason
<1> QED
  BY <1>1, <1>2, <1>3, <1>4, Inductive, PTL DEF Spec
=============================================================================
