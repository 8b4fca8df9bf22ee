-------------------------------- MODULE LocIpc --------------------------------
(***************************************************************************)
(* A LocIpc object: a thread that listens on a datagram socket bound to a  *)
(* name, its owner, which starts it and stops it once, and a process that  *)
(* sends to the name.  The kernel's part: a socket keeps its datagrams in  *)
(* order, a name leads to the last socket bound to it until it is unlinked, *)
(* and a call that waits on a socket goes on waiting when the owner closes *)
(* the descriptor.  No other process unlinks the name or closes the socket. *)
(***************************************************************************)
EXTENDS Naturals, Sequences, FiniteSets

CONSTANTS
    Parts,          \* the parts a long message is sent in
    MaxSent,        \* bound: messages the sender sends
    MaxDatagrams    \* datagrams a socket holds; a sender waits for room

ASSUME PartsAssumption == Parts \in Nat \ {0}

VARIABLES
    ipc,        \* mIpcFd (valid or not), mStopRequested, mRunnable (set or not)
    socket,     \* the kernel's: whether the name leads to it, open descriptors, datagrams
    listener,   \* its thread: where it is, the long message it reads, whether that
                \* swallowed an abort message
    owner,      \* the owner: where it is in start and stop
    sender,     \* the sender: messages sent, those the socket took whole, datagrams to go
    received    \* what onReceive was called with

ipcVars == <<ipc, socket, listener, owner, sender, received>>

\* The long message that is read: which, and what came of it.
NoMessage == [msg |-> 0, got |-> <<>>]

IpcInit ==
    /\ ipc = [fd |-> FALSE, stopRequested |-> FALSE, runnable |-> FALSE]
    /\ socket = [named |-> FALSE, open |-> FALSE, queue |-> <<>>]
    /\ listener = [at |-> "none", reading |-> NoMessage, swallowed |-> FALSE]
    /\ owner = [at |-> "idle", sawReady |-> FALSE]
    /\ sender = [sent |-> 0, taken |-> <<>>, todo |-> <<>>]
    /\ received = <<>>

\* The datagrams of the message m: all of it, what announces it, and its p-th part.
Abort == [kind |-> "abort", msg |-> 0, part |-> 0]
Whole(m) == [kind |-> "short", msg |-> m, part |-> 0]
HeadOf(m) == [kind |-> "head", msg |-> m, part |-> 0]
Part(m, p) == [kind |-> "part", msg |-> m, part |-> p]
Short(m) == <<Whole(m)>>
Long(m) == [i \in 1 .. Parts + 1 |-> IF i = 1 THEN HeadOf(m) ELSE Part(m, i - 1)]

-----------------------------------------------------------------------------
(* LocIpc::send and sendData                                               *)

\* sendto: refused without a listener's socket, waits when it is full.
HasRoom == ~socket.named \/ Len(socket.queue) < MaxDatagrams
SendTo(datagram) ==
    /\ HasRoom
    /\ socket' = IF socket.named THEN [socket EXCEPT !.queue = Append(@, datagram)] ELSE socket

\* A message, short or long, is begun; its first datagram is the next to go.
SendMessage ==
    /\ sender.todo = <<>>
    /\ sender.sent < MaxSent
    /\ LET m == sender.sent + 1 IN
       \E datagrams \in {Short(m), Long(m)} : sender' = [sender EXCEPT !.sent = m, !.todo = datagrams]
    /\ UNCHANGED <<ipc, socket, listener, owner, received>>

\* The next datagram; when it is refused, the rest of the message is given up.
SendDatagram ==
    /\ sender.todo # <<>>
    /\ SendTo(Head(sender.todo))
    /\ sender' = [sender EXCEPT
                     !.todo = IF socket.named THEN Tail(@) ELSE <<>>,
                     !.taken = IF socket.named /\ Len(sender.todo) = 1
                               THEN Append(@, sender.sent) ELSE @]
    /\ UNCHANGED <<ipc, listener, owner, received>>

-----------------------------------------------------------------------------
(* The owner: startListeningNonBlocking, and stopListening step by step.   *)

StartListeningNonBlocking ==
    /\ owner.at = "idle"
    /\ owner' = [owner EXCEPT !.at = "started"]
    /\ ipc' = [ipc EXCEPT !.runnable = TRUE]
    /\ listener' = [listener EXCEPT !.at = "start"]
    /\ UNCHANGED <<socket, sender, received>>

\* sawReady: stopListening is called after onListenerReady.
RequestStop ==
    /\ owner.at \in {"idle", "started"}
    /\ ipc' = [ipc EXCEPT !.stopRequested = TRUE]
    /\ owner' = [at |-> "abort", sawReady |-> ipc.fd]
    /\ UNCHANGED <<socket, listener, sender, received>>

\* Mutant: a listener whose descriptor is about to be closed is not told.
SendAbortUnlessOpen ==
    /\ owner.at = "abort"
    /\ IF ipc.runnable /\ ~ipc.fd THEN SendTo(Abort) ELSE UNCHANGED socket
    /\ ipc' = [ipc EXCEPT !.runnable = FALSE]
    /\ owner' = [owner EXCEPT !.at = "close"]
    /\ UNCHANGED <<listener, sender, received>>

\* stopListening takes the name from the runnable, which the thread deletes when it
\* ends: from then on what is read may name nothing.
NameIsGone == listener.at = "ended"

SendAbort ==
    /\ owner.at = "abort"
    /\ IF ipc.runnable THEN SendTo(Abort) \/ (NameIsGone /\ UNCHANGED socket)
       ELSE UNCHANGED socket
    /\ ipc' = [ipc EXCEPT !.runnable = FALSE]
    /\ owner' = [owner EXCEPT !.at = "close"]
    /\ UNCHANGED <<listener, sender, received>>

CloseFd ==
    /\ owner.at = "close"
    /\ socket' = [socket EXCEPT !.open = @ /\ ~ipc.fd]
    /\ ipc' = [ipc EXCEPT !.fd = FALSE]
    /\ owner' = [owner EXCEPT !.at = "unlink"]
    /\ UNCHANGED <<listener, sender, received>>

Unlink ==
    /\ owner.at = "unlink"
    /\ \/ socket' = [socket EXCEPT !.named = FALSE]
       \/ NameIsGone /\ UNCHANGED socket
    /\ owner' = [owner EXCEPT !.at = "stopped"]
    /\ UNCHANGED <<ipc, listener, sender, received>>
-----------------------------------------------------------------------------
(* The listening thread: startListeningBlocking                            *)

\* The end: returned to the caller when a stop was requested, an error otherwise.
EndListening(queue) ==
    /\ listener' = [listener EXCEPT !.at = "ended", !.reading = NoMessage]
    /\ ipc' = IF ipc.stopRequested THEN [ipc EXCEPT !.stopRequested = FALSE]
              ELSE [ipc EXCEPT !.fd = FALSE]
    /\ socket' = [socket EXCEPT !.queue = queue, !.open = @ /\ (ipc.stopRequested \/ ~ipc.fd)]

\* socket, unlink and bind, which may fail.
Bind ==
    /\ listener.at = "start"
    /\ \/ /\ listener' = [listener EXCEPT !.at = "bound"]
          /\ socket' = [named |-> TRUE, open |-> TRUE, queue |-> <<>>]
       \/ listener' = [listener EXCEPT !.at = "ended"] /\ UNCHANGED socket
    /\ UNCHANGED <<ipc, owner, sender, received>>

\* mIpcFd = fd and onListenerReady
Publish ==
    /\ listener.at = "bound"
    /\ ipc' = [ipc EXCEPT !.fd = TRUE]
    /\ listener' = [listener EXCEPT !.at = "receive"]
    /\ UNCHANGED <<socket, owner, sender, received>>

\* recvfrom on mIpcFd: an error when it has been closed, otherwise the thread waits.
Recvfrom ==
    /\ listener.at = "receive"
    /\ IF ipc.fd THEN listener' = [listener EXCEPT !.at = "waiting"] /\ UNCHANGED <<ipc, socket>>
       ELSE EndListening(socket.queue)
    /\ UNCHANGED <<owner, sender, received>>

RecvfromFails ==
    /\ listener.at = "waiting"
    /\ EndListening(socket.queue)
    /\ UNCHANGED <<owner, sender, received>>

\* A datagram arrives: the first of a message, or the next of a long one, whatever
\* it is.  A message mixed from several is received as 0.
Arrives == listener.at = "waiting" /\ socket.queue # <<>>
Datagram == Head(socket.queue)
Took == socket' = [socket EXCEPT !.queue = Tail(@)]

ReceiveAbort ==
    /\ Arrives
    /\ listener.reading = NoMessage
    /\ Datagram = Abort
    /\ EndListening(Tail(socket.queue))
    /\ UNCHANGED <<owner, sender, received>>

ReceiveShort ==
    /\ Arrives
    /\ listener.reading = NoMessage
    /\ Datagram.kind \in {"short", "part"}
    /\ received' = Append(received, IF Datagram.kind = "short" THEN Datagram.msg ELSE 0)
    /\ listener' = [listener EXCEPT !.at = "receive"]
    /\ Took
    /\ UNCHANGED <<ipc, owner, sender>>

ReceiveHead ==
    /\ Arrives
    /\ listener.reading = NoMessage
    /\ Datagram.kind = "head"
    /\ listener' = [listener EXCEPT !.at = "receive", !.reading.msg = Datagram.msg]
    /\ Took
    /\ UNCHANGED <<ipc, owner, sender, received>>

\* Mutant: one datagram more than the length announced is waited for.
IsWholeLate(got, lastIsShort) == Cardinality({i \in DOMAIN got : got[i] # Abort}) > Parts

\* An abort message is shorter than a full part and leaves its room to the next; a
\* last part that is no longer than it is not waited for.
IsWhole(got, lastIsShort) ==
    \/ Cardinality({i \in DOMAIN got : got[i] # Abort}) = Parts
    \/ lastIsShort /\ Len(got) = Parts

ReceivePart ==
    /\ Arrives
    /\ listener.reading # NoMessage
    /\ \E lastIsShort \in BOOLEAN :
       LET m == listener.reading.msg
           got == Append(listener.reading.got, Datagram)
           mixed == \E i \in DOMAIN got : got[i] # Part(m, i)
       IN  /\ IF IsWhole(got, lastIsShort)
              THEN /\ received' = Append(received, IF mixed THEN 0 ELSE m)
                   /\ listener' = [listener EXCEPT !.at = "receive", !.reading = NoMessage,
                                     !.swallowed = @ \/ Datagram = Abort]
              ELSE /\ listener' = [listener EXCEPT !.at = "receive", !.reading.got = got,
                                     !.swallowed = @ \/ Datagram = Abort]
                   /\ UNCHANGED received
    /\ Took
    /\ UNCHANGED <<ipc, owner, sender>>

IpcNext ==
    \/ StartListeningNonBlocking \/ RequestStop \/ SendAbort \/ CloseFd \/ Unlink
    \/ SendMessage \/ SendDatagram
    \/ Bind \/ Publish \/ Recvfrom \/ RecvfromFails
    \/ ReceiveAbort \/ ReceiveShort \/ ReceiveHead \/ ReceivePart

IpcSpec == IpcInit /\ [][IpcNext]_ipcVars

-----------------------------------------------------------------------------
(* Properties.                                                             *)

\* Until the owner stops it, a listener hands over what the socket took whole and in
\* order, each message once, and nothing when there is nothing more to read but all
\* of it: the head of a long message is never taken for one, nor a part for another's
\* or out of its place.
MessagesArriveWhole ==
    owner.at \in {"idle", "started"} =>
        /\ \A i \in DOMAIN received : received[i] = sender.taken[i]
        /\ listener.at = "waiting" /\ socket.queue = <<>> /\ sender.todo = <<>>
              => received = sender.taken

StoppedWaiting == owner.at = "stopped" /\ listener.at = "waiting"

\* A listener that was ready when it was stopped does not wait for ever: the message
\* that ends it is in its socket.  LocIpc.h says it of every stop; but one that comes
\* before the socket is bound sends its message to nobody, and a long message that
\* is being read takes it for one of its parts.
StopIsHeard ==
    StoppedWaiting /\ owner.sawReady /\ ~listener.swallowed =>
        \E i \in DOMAIN socket.queue : socket.queue[i] = Abort
=============================================================================
