------------------------------ MODULE Serveri -------------------------------
(***************************************************************************)
(* The server process: Serveri::run and everything it calls, together with *)
(* the parts of libwebsockets, the kernel and the clients that it meets.   *)
(*                                                                         *)
(* One thread runs the loop                                                *)
(*                                                                         *)
(*   poll -> scan pollfds -> lws_service_fd for each ready fd -> update    *)
(*                                                                         *)
(* and pc says where in the loop it is.  Clients act at any moment between *)
(* two of its steps.  libwebsockets calls back into Serveri from inside    *)
(* lws_service_fd; the callbacks are part of the steps that cause them.    *)
(***************************************************************************)
EXTENDS DMXController

CONSTANTS
    Conns,         \* connections: a client's socket and the wsi that serves it
    Packets,       \* the packets that clients send
    Requests,      \* what clients request: a websocket protocol, or a plain page
    Readers,       \* clients that keep reading what the server sends them
    Pingers,       \* protocols whose clients send websocket pings
    UdpCap,        \* bound: datagrams in the UDP socket's queue
    RxCap,         \* bound: frames in a connection's receive queue
    TxCap,         \* bound: messages that fit in a connection's send buffer
    Faults         \* what may go wrong besides clients that close or reset

ASSUME ServeriAssumption ==
    /\ IsFiniteSet(Conns) /\ "listen" \notin Conns
    /\ Packets \subseteq Seq(Byte)
    /\ Readers \subseteq Conns
    /\ Pingers \subseteq {"default", "monitor", "http"}
    /\ UdpCap \in Nat \ {0} /\ RxCap \in Nat \ {0} /\ TxCap \in Nat \ {0}
    /\ Requests \subseteq {"default", "monitor", "http", "unknown", "none"}
    /\ Faults \subseteq {"poll", "recvfrom", "tty", "vanish"}

VARIABLES
    pc,                  \* where Serveri::run is
    pollfds,             \* Serveri::pollfds
    processFDs,          \* the snapshot of ready fds that run() works through
    lightsDirty,         \* Serveri::lightsDirty
    currentState,        \* Serveri::currentState
    monitorMessage,      \* Serveri::monitorMessage
    monitorConnections,  \* keys of Serveri::monitorConnections
    dmxPacket,           \* DMXController::dmxPacket
    tty,                 \* the last packet that write() took whole, if any
    wsi,                 \* libwebsockets: its state of every connection
    inbuf,               \* libwebsockets: frames read and not yet handled
    listenq,             \* kernel: connections waiting to be accepted
    udpq,                \* kernel: datagrams waiting at the UDP socket
    rx,                  \* kernel: frames a connection has not read
    tx,                  \* kernel: messages its client has not read
    peer,                \* clients: what the client did to its socket
    shown                \* clients: the last message a client has read

loopVars   == <<pc, processFDs>>
lightVars  == <<lightsDirty, currentState, dmxPacket>>
outVars    == <<monitorMessage, tty>>
lwsVars    == <<wsi, pollfds, monitorConnections>>
socketVars == <<rx, tx, peer, shown>>
vars == <<loopVars, lightVars, outVars, lwsVars, inbuf, listenq, udpq, socketVars>>

-----------------------------------------------------------------------------
(* Data                                                                    *)

UDPfd    == 0
ListenFd == 1

POLLIN  == "POLLIN"
POLLOUT == "POLLOUT"

Protocols == {"default", "monitor", "http"}

\* A request names a protocol ("unknown" is any name that the server does not
\* list), or it is a plain HTTP request without an upgrade ("none").
Frame == [kind : {"request"}, proto : Protocols \cup {"unknown", "none"}]
         \cup [kind : {"data"}, packet : Packets]
         \cup [kind : {"ping", "close"}]

LightState == [tag : Seq(Byte), lights : [LightIds -> Color]]

Message == [numLights : Nat, tag : Seq(Byte), lights : [LightIds -> Seq(0..15)]]

PollFd == [fd : Nat, events : SUBSET {POLLIN, POLLOUT}, revents : SUBSET {POLLIN, POLLOUT}]

\* What lws_service_fd is given.  conn is not in the code: it remembers whose
\* socket the fd was when it was polled.
ReadyFd == [fd : Nat, revents : SUBSET {POLLIN, POLLOUT}, conn : Conns \cup {"listen"}]

DMXPacket == [Offsets -> Byte]

\* The libwebsockets states of a connection: waiting for the request, serving
\* a plain request, in use, answering a close frame, and flushing before a
\* close.
WsiState == {"none", "http", "transaction", "established", "returned_close", "flushing"}

Wsi == [state : WsiState, proto : Protocols \cup {"none"}, fd : Nat,
        events : SUBSET {POLLIN, POLLOUT}, pong : BOOLEAN, backlog : Seq(Message)]

NoWsi == [state |-> "none", proto |-> "none", fd |-> 0, events |-> {},
          pong |-> FALSE, backlog |-> <<>>]

\* As if the digits were cut with the wrong shift.
HexDigits_WrongShift(b) == <<b \div 8, b % 8>>

\* fmt's {:02x}: two hexadecimal digits for each channel.
HexDigits(b) == <<b \div 16, b % 16>>

Hex(c) == HexDigits(c.red) \o HexDigits(c.green) \o HexDigits(c.blue)

\* The JSON object of updateMonitorMessage.
Render(s) ==
    [numLights |-> Cardinality(DOMAIN s.lights),
     tag       |-> s.tag,
     lights    |-> [i \in DOMAIN s.lights |-> Hex(s.lights[i])]]

-----------------------------------------------------------------------------
(* Serveri's bookkeeping of poll fds and monitors, which libwebsockets     *)
(* calls back                                                              *)

\* As if a new fd were inserted at the front.
addFD_Front(fds, fd, events) ==
    <<[fd |-> fd, events |-> events, revents |-> {}]>> \o fds

addFD(fds, fd, events) ==
    Append(fds, [fd |-> fd, events |-> events, revents |-> {}])

deleteFD(fds, fd) == Subsequence(fds, {i \in DOMAIN fds : fds[i].fd # fd})

\* As if the mode change were not handled.
setFDEvents_Ignored(fds, fd, events) == fds

\* As if events were added to the old ones.
setFDEvents_Adds(fds, fd, events) ==
    [i \in DOMAIN fds |-> IF fds[i].fd = fd THEN [fds[i] EXCEPT !.events = @ \cup events]
                                            ELSE fds[i]]

setFDEvents(fds, fd, events) ==
    [i \in DOMAIN fds |-> IF fds[i].fd = fd THEN [fds[i] EXCEPT !.events = events]
                                            ELSE fds[i]]

addMonitor(monitors, c) == monitors \cup {c}

\* As if CLOSED were not handled.
deleteMonitor_Ignored(monitors, c) == monitors

deleteMonitor(monitors, c) == monitors \ {c}

-----------------------------------------------------------------------------
(* Init: the state after the constructor, when run() is called             *)

Init ==
    /\ pc = "poll"
    /\ pollfds = <<[fd |-> UDPfd,    events |-> {POLLIN}, revents |-> {}],
                   [fd |-> ListenFd, events |-> {POLLIN}, revents |-> {}]>>
    /\ processFDs = <<>>
    /\ lightsDirty = TRUE
    /\ currentState = [tag |-> <<>>, lights |-> [i \in LightIds |-> Black]]
    /\ monitorMessage = Render(currentState)
    /\ monitorConnections = {}
    /\ dmxPacket = EmptyPacket
    /\ tty = <<>>
    /\ wsi = [c \in Conns |-> NoWsi]
    /\ inbuf = <<>>
    /\ listenq = <<>>
    /\ udpq = <<>>
    /\ rx = [c \in Conns |-> <<>>]
    /\ tx = [c \in Conns |-> <<>>]
    /\ peer = [c \in Conns |-> "idle"]
    /\ shown = [c \in Conns |-> <<>>]

-----------------------------------------------------------------------------
(* poll and the scan of its result                                         *)

Live(c) == wsi[c].state # "none"

ConnOf(fd) == CHOOSE c \in Conns : Live(c) /\ wsi[c].fd = fd

\* A closed or reset peer makes its socket readable and writable.
Gone(c) == peer[c] \in {"fin", "rst"}

Readable(c) == rx[c] # <<>> \/ Gone(c)

Writable(c) == Len(tx[c]) < TxCap \/ Gone(c)

Revents(e) ==
    {ev \in e.events :
        \/ e.fd = UDPfd /\ udpq # <<>>
        \/ e.fd = ListenFd /\ listenq # <<>>
        \/ /\ e.fd > ListenFd
           /\ IF ev = POLLIN THEN Readable(ConnOf(e.fd)) ELSE Writable(ConnOf(e.fd))}

\* poll without a timeout: it returns once some fd is ready.
Poll ==
    /\ pc = "poll"
    /\ \E i \in DOMAIN pollfds : Revents(pollfds[i]) # {}
    /\ pollfds' = [i \in DOMAIN pollfds |->
                      [pollfds[i] EXCEPT !.revents = Revents(pollfds[i])]]
    /\ pc' = "scan"
    /\ UNCHANGED <<processFDs, lightVars, outVars, wsi, monitorConnections,
                   inbuf, listenq, udpq, socketVars>>

\* A failing poll ends run() and with it the program.
PollFails ==
    /\ "poll" \in Faults
    /\ pc = "poll"
    /\ pc' = "exited"
    /\ UNCHANGED <<processFDs, lightVars, outVars, lwsVars, inbuf, listenq,
                   udpq, socketVars>>

\* As if the first command for a light won.
LastColor_First(lights, i, old) ==
    LET For == {k \in DOMAIN lights : lights[k].index = i}
    IN  IF For = {} THEN old ELSE lights[Min(For)].color

\* The last command of the packet for light i, if there is one.
LastColor(lights, i, old) ==
    LET For == {k \in DOMAIN lights : lights[k].index = i}
    IN  IF For = {} THEN old ELSE lights[Max(For)].color

\* What lightPacket makes of each packet: the filtered tag, and the commands.
Understood ==
    [p \in Packets |-> [parseLightPacket(p) EXCEPT !.tag = FilterTag(@)]]

\* As if lightsDirty were not set.
lightPacket_NotDirty(p) ==
    /\ currentState' =
          [tag    |-> Understood[p].tag,
           lights |-> [i \in DOMAIN currentState.lights |->
                LastColor(Understood[p].lights, i, currentState.lights[i])]]
    /\ dmxPacket' = setLightColors(dmxPacket, Understood[p].lights)
    /\ UNCHANGED lightsDirty

\* As if lightsDirty were set only when something changes.
lightPacket_IfChanged(p) ==
    /\ currentState' =
          [tag    |-> Understood[p].tag,
           lights |-> [i \in DOMAIN currentState.lights |->
                LastColor(Understood[p].lights, i, currentState.lights[i])]]
    /\ dmxPacket' = setLightColors(dmxPacket, Understood[p].lights)
    /\ lightsDirty' = (lightsDirty \/ currentState' # currentState)

\* Every packet, even one that is rejected, sets the tag and lightsDirty.
lightPacket(p) ==
    /\ currentState' =
          [tag    |-> Understood[p].tag,
           lights |-> [i \in DOMAIN currentState.lights |->
                LastColor(Understood[p].lights, i, currentState.lights[i])]]
    /\ dmxPacket' = setLightColors(dmxPacket, Understood[p].lights)
    /\ lightsDirty' = TRUE

\* As if the loop left one ready entry too early.
Scanned_OffByOne(fds) ==
    LET Ready == {i \in DOMAIN fds : fds[i].revents # {}} IN Ready \ {Max(Ready)}

\* The entries that the for loop over pollfds handles.  It leaves early once
\* it has seen as many ready entries as poll counted: none is left out.
Scanned(fds) == {i \in DOMAIN fds : fds[i].revents # {}}

\* The for loop: a ready UDP fd is read at once, one datagram; the others are
\* copied to processFDs.
ScanPollfds ==
    LET Ready == Scanned(pollfds)
        Snapshot(e) ==
            [fd |-> e.fd, revents |-> e.revents,
             conn |-> IF e.fd = ListenFd THEN "listen" ELSE ConnOf(e.fd)]
    IN  /\ pc = "scan"
        /\ processFDs' =
              Subsequence([i \in DOMAIN pollfds |-> Snapshot(pollfds[i])],
                          {i \in Ready : pollfds[i].fd # UDPfd})
        /\ IF \E i \in Ready : pollfds[i].fd = UDPfd
           THEN lightPacket(Head(udpq)) /\ udpq' = Tail(udpq)
           ELSE UNCHANGED <<lightVars, udpq>>
        /\ pollfds' = [i \in DOMAIN pollfds |-> [pollfds[i] EXCEPT !.revents = {}]]
        /\ pc' = "service"
        /\ UNCHANGED <<outVars, wsi, monitorConnections, inbuf, listenq, socketVars>>

\* recvfrom returns -1: the span of that length is a contract violation, which
\* terminates the program.
RecvFails ==
    /\ "recvfrom" \in Faults
    /\ pc = "scan"
    /\ pollfds[1].revents # {}
    /\ pc' = "aborted"
    /\ UNCHANGED <<processFDs, lightVars, outVars, lwsVars, inbuf, listenq, udpq,
                   socketVars>>

-----------------------------------------------------------------------------
(* lws_service_fd of the first entry of processFDs                         *)

Serving(c) == /\ processFDs # <<>>
              /\ Head(processFDs).fd # ListenFd
              /\ c = ConnOf(Head(processFDs).fd)

\* The call returns and run() goes on to the next entry.
ServiceReturns == pc' = "service" /\ processFDs' = Tail(processFDs)

\* libwebsockets changes the events of a connection and tells setFDEvents.
SetEvents(c, w) ==
    /\ wsi' = [wsi EXCEPT ![c] = w]
    /\ pollfds' = setFDEvents(pollfds, w.fd, w.events)

\* The end of a connection: out of the poll fds, the CLOSED callback if it
\* was a websocket, then the socket is closed and the wsi freed.
Kill(c) ==
    /\ wsi' = [wsi EXCEPT ![c] = NoWsi]
    /\ pollfds' = deleteFD(pollfds, wsi[c].fd)
    /\ monitorConnections' =
          IF wsi[c].proto = "monitor" THEN deleteMonitor(monitorConnections, c)
                                      ELSE monitorConnections
    /\ rx' = [rx EXCEPT ![c] = <<>>]
    /\ tx' = [tx EXCEPT ![c] = <<>>]
    /\ peer' = [peer EXCEPT ![c] = "idle"]
    /\ shown' = [shown EXCEPT ![c] = <<>>]
    /\ ServiceReturns

\* As if a connection that is closing were no longer polled for writing.
Close_Unpolled(c) ==
    IF wsi[c].backlog = <<>> \/ wsi[c].state = "returned_close" THEN Kill(c)
    ELSE /\ SetEvents(c, [wsi[c] EXCEPT !.state = "flushing",
                                        !.events = @ \ {POLLOUT}])
         /\ ServiceReturns
         /\ UNCHANGED <<monitorConnections, socketVars>>

\* lws_close_free_wsi after a failed or empty read: a connection with unsent
\* data is kept until that has been flushed.
Close(c) ==
    IF wsi[c].backlog = <<>> \/ wsi[c].state = "returned_close" THEN Kill(c)
    ELSE /\ SetEvents(c, [wsi[c] EXCEPT !.state = "flushing",
                                        !.events = @ \cup {POLLOUT}])
         /\ ServiceReturns
         /\ UNCHANGED <<monitorConnections, socketVars>>

\* The listener accepts until nobody waits.  A connection gets the lowest
\* free fd and is added to the poll fds.
Accept ==
    LET c == Head(listenq)
        Used == {wsi[d].fd : d \in {e \in Conns : Live(e)}}
        fd == Min((ListenFd + 1 .. ListenFd + Cardinality(Conns)) \ Used)
    IN  /\ pc = "service"
        /\ processFDs # <<>>
        /\ Head(processFDs).fd = ListenFd
        /\ listenq # <<>>
        /\ listenq' = Tail(listenq)
        /\ wsi' = [wsi EXCEPT ![c] = [NoWsi EXCEPT !.state = "http", !.fd = fd,
                                                   !.events = {POLLIN}]]
        /\ pollfds' = addFD(pollfds, fd, {POLLIN})
        /\ IF Tail(listenq) = <<>> THEN ServiceReturns ELSE UNCHANGED loopVars
        /\ UNCHANGED <<lightVars, outVars, monitorConnections, inbuf, udpq, socketVars>>

(* First half of the service of a connection: POLLOUT.                     *)

Polledout(c) ==
    /\ pc = "service"
    /\ Serving(c)
    /\ POLLOUT \in Head(processFDs).revents

\* An unsent rest goes first; POLLOUT stays requested.  A connection that was
\* only kept for it ends.
FlushBacklog(c) ==
    /\ Polledout(c)
    /\ wsi[c].backlog # <<>>
    /\ IF peer[c] = "rst" \/ wsi[c].state = "flushing" THEN Kill(c)
       ELSE /\ wsi' = [wsi EXCEPT ![c].backlog = <<>>]
            /\ tx' = [tx EXCEPT ![c] = IF Gone(c) THEN @ ELSE @ \o wsi[c].backlog]
            /\ pc' = "pollin"
            /\ UNCHANGED <<pollfds, processFDs, monitorConnections, rx, peer, shown>>
    /\ UNCHANGED <<lightVars, outVars, inbuf, listenq, udpq>>

\* The answer to a close frame is sent and the connection ends.
FinishClose(c) ==
    /\ Polledout(c)
    /\ wsi[c].backlog = <<>>
    /\ wsi[c].state = "returned_close"
    /\ Kill(c)
    /\ UNCHANGED <<lightVars, outVars, inbuf, listenq, udpq>>

\* As if a pong used up the request of POLLOUT.
SendPong_Clears(c) ==
    /\ Polledout(c)
    /\ wsi[c].backlog = <<>>
    /\ wsi[c].state = "established"
    /\ wsi[c].pong
    /\ IF peer[c] = "rst" THEN Kill(c)
       ELSE /\ SetEvents(c, [wsi[c] EXCEPT !.pong = FALSE, !.events = @ \ {POLLOUT}])
            /\ pc' = "pollin"
            /\ UNCHANGED <<processFDs, monitorConnections, socketVars>>
    /\ UNCHANGED <<lightVars, outVars, inbuf, listenq, udpq>>

\* The answer to a ping is sent; POLLOUT stays requested.
SendPong(c) ==
    /\ Polledout(c)
    /\ wsi[c].backlog = <<>>
    /\ wsi[c].state = "established"
    /\ wsi[c].pong
    /\ IF peer[c] = "rst" THEN Kill(c)
       ELSE /\ wsi' = [wsi EXCEPT ![c].pong = FALSE]
            /\ pc' = "pollin"
            /\ UNCHANGED <<pollfds, processFDs, monitorConnections, socketVars>>
    /\ UNCHANGED <<lightVars, outVars, inbuf, listenq, udpq>>

\* As if a message were written before the unsent rest of the last one.
UserWriteable_BeforeRest(c) ==
    /\ Polledout(c)
    /\ wsi[c].state = "established"
    /\ ~wsi[c].pong

UserWriteable(c) ==
    /\ Polledout(c)
    /\ wsi[c].backlog = <<>>
    /\ wsi[c].state = "established"
    /\ ~wsi[c].pong

\* SERVER_WRITEABLE of the monitor protocol: POLLOUT is one-shot and cleared,
\* and the message of this moment written.  If the send buffer takes only a
\* part, libwebsockets keeps the rest and requests POLLOUT again.
MonitorWriteable(c) ==
    LET Sent == [wsi[c] EXCEPT !.events = @ \ {POLLOUT}]
    IN  /\ UserWriteable(c)
        /\ wsi[c].proto = "monitor"
        /\ \/ /\ SetEvents(c, Sent)
              /\ tx' = [tx EXCEPT ![c] = IF Gone(c) THEN @
                                                    ELSE Append(@, monitorMessage)]
           \/ /\ ~Gone(c) /\ tx[c] # <<>>
              /\ SetEvents(c, [Sent EXCEPT !.backlog = <<monitorMessage>>,
                                           !.events = @ \cup {POLLOUT}])
              /\ UNCHANGED tx
        /\ pc' = "pollin"
        /\ UNCHANGED <<processFDs, lightVars, outVars, monitorConnections, inbuf,
                       listenq, udpq, rx, peer, shown>>

\* SERVER_WRITEABLE of the light protocol: assert(false).
LightWriteable(c) ==
    /\ UserWriteable(c)
    /\ wsi[c].proto = "default"
    /\ pc' = "aborted"
    /\ UNCHANGED <<processFDs, lightVars, outVars, lwsVars, inbuf, listenq, udpq,
                   socketVars>>

\* The dummy callback of the third protocol does nothing.
DummyWriteable(c) ==
    /\ UserWriteable(c)
    /\ wsi[c].proto = "http"
    /\ SetEvents(c, [wsi[c] EXCEPT !.events = @ \ {POLLOUT}])
    /\ pc' = "pollin"
    /\ UNCHANGED <<processFDs, lightVars, outVars, monitorConnections, inbuf, listenq,
                   udpq, socketVars>>

(* Second half: POLLIN.  It is the first half if POLLOUT was not reported. *)

AtPollin(c) ==
    /\ Serving(c)
    /\ \/ pc = "pollin"
       \/ pc = "service" /\ POLLOUT \notin Head(processFDs).revents

\* A connection that serves a plain request is not read: lws_h1_server_socket_
\* service reads in a list of states that LRS_DOING_TRANSACTION is not in.
Reads(c) == wsi[c].state # "transaction"

NothingToRead(c) ==
    /\ AtPollin(c)
    /\ POLLIN \notin Head(processFDs).revents \/ ~Reads(c)
    /\ ServiceReturns
    /\ UNCHANGED <<lightVars, outVars, lwsVars, inbuf, listenq, udpq, socketVars>>

\* The end of the stream, or an error: the client is gone.
ReadFails(c) ==
    /\ AtPollin(c)
    /\ POLLIN \in Head(processFDs).revents
    /\ Reads(c)
    /\ rx[c] = <<>>
    /\ Close(c)
    /\ UNCHANGED <<lightVars, outVars, inbuf, listenq, udpq>>

\* One read takes some of the frames that have arrived.
Read(c) ==
    /\ AtPollin(c)
    /\ POLLIN \in Head(processFDs).revents
    /\ Reads(c)
    /\ \E n \in 1..Len(rx[c]) :
          /\ inbuf' = SubSeq(rx[c], 1, n)
          /\ rx' = [rx EXCEPT ![c] = SubSeq(@, n + 1, Len(@))]
    /\ pc' = "frames"
    /\ UNCHANGED <<processFDs, lightVars, outVars, lwsVars, listenq, udpq, tx,
                   peer, shown>>

Handling(c, kind) ==
    /\ pc = "frames"
    /\ Serving(c)
    /\ Head(inbuf).kind = kind

\* The next frame of the read, or the next entry of processFDs.
FrameDone ==
    /\ inbuf' = Tail(inbuf)
    /\ IF Tail(inbuf) = <<>> THEN ServiceReturns ELSE UNCHANGED loopVars

\* ESTABLISHED requests the first message of a monitor.
EstablishedEvents(proto, events) ==
    IF proto = "monitor" THEN events \cup {POLLOUT} ELSE events

\* The upgrade request: ESTABLISHED.  A monitor is registered and its first
\* message requested.
Upgrade(c) ==
    LET proto == Head(inbuf).proto
    IN  /\ Handling(c, "request")
        /\ proto \in Protocols
        /\ SetEvents(c, [wsi[c] EXCEPT !.state = "established", !.proto = proto,
                             !.events = EstablishedEvents(proto, @)])
        /\ monitorConnections' =
              IF proto = "monitor" THEN addMonitor(monitorConnections, c)
                                   ELSE monitorConnections
        /\ FrameDone
        /\ UNCHANGED <<lightVars, outVars, listenq, udpq, socketVars>>

\* No such protocol: the connection is closed without any callback of ours.
RejectUpgrade(c) ==
    /\ Handling(c, "request")
    /\ Head(inbuf).proto = "unknown"
    /\ Kill(c)
    /\ inbuf' = <<>>
    /\ UNCHANGED <<lightVars, outVars, listenq, udpq>>

\* A plain request: the callback of the first protocol is given it and returns
\* 0, and nothing is answered.
PlainRequest(c) ==
    /\ Handling(c, "request")
    /\ Head(inbuf).proto = "none"
    /\ wsi' = [wsi EXCEPT ![c].state = "transaction"]
    /\ FrameDone
    /\ UNCHANGED <<lightVars, outVars, pollfds, monitorConnections, listenq, udpq,
                   socketVars>>

\* RECEIVE: a light packet.  The other protocols ignore what they receive.
Receive(c) ==
    /\ Handling(c, "data")
    /\ IF wsi[c].proto = "default" THEN lightPacket(Head(inbuf).packet)
                                   ELSE UNCHANGED lightVars
    /\ FrameDone
    /\ UNCHANGED <<outVars, lwsVars, listenq, udpq, socketVars>>

\* A ping is answered when the socket is writable, unless one already waits.
ReceivePing(c) ==
    /\ Handling(c, "ping")
    /\ IF wsi[c].pong THEN UNCHANGED <<wsi, pollfds>>
       ELSE SetEvents(c, [wsi[c] EXCEPT !.pong = TRUE, !.events = @ \cup {POLLOUT}])
    /\ FrameDone
    /\ UNCHANGED <<lightVars, outVars, monitorConnections, listenq, udpq, socketVars>>

\* A close frame is answered when the socket is writable.  In the middle of a
\* message that is not possible: the connection ends at once.
ReceiveClose(c) ==
    /\ Handling(c, "close")
    /\ IF wsi[c].backlog # <<>> THEN Kill(c) /\ inbuf' = <<>>
       ELSE /\ SetEvents(c, [wsi[c] EXCEPT !.state = "returned_close",
                                           !.events = @ \cup {POLLOUT}])
            /\ FrameDone
            /\ UNCHANGED <<monitorConnections, socketVars>>
    /\ UNCHANGED <<lightVars, outVars, listenq, udpq>>

-----------------------------------------------------------------------------
(* The end of the loop body                                                *)

\* As if monitors were not asked to write after an update.
RequestWriteable_Forgotten(c) == wsi[c]

\* lws_callback_on_writable for every monitor.
RequestWriteable(c) == [wsi[c] EXCEPT !.events = @ \cup {POLLOUT}]

Update ==
    /\ pc = "service"
    /\ processFDs = <<>>
    /\ lightsDirty
    /\ lightsDirty' = FALSE
    \* dmx.update: a non-blocking write whose result is not looked at; the tty
    \* may be gone, or take a part or nothing
    /\ \/ tty' = <<dmxPacket>>
       \/ "tty" \in Faults /\ UNCHANGED tty
    /\ monitorMessage' = Render(currentState)
    /\ wsi' = [c \in Conns |-> IF c \in monitorConnections THEN RequestWriteable(c)
                                                           ELSE wsi[c]]
    /\ pollfds' = [i \in DOMAIN pollfds |->
          IF \E c \in monitorConnections : wsi[c].fd = pollfds[i].fd
          THEN [pollfds[i] EXCEPT !.events = RequestWriteable(ConnOf(pollfds[i].fd)).events]
          ELSE pollfds[i]]
    /\ pc' = "poll"
    /\ UNCHANGED <<processFDs, currentState, dmxPacket, monitorConnections, inbuf,
                   listenq, udpq, socketVars>>

NoUpdate ==
    /\ pc = "service"
    /\ processFDs = <<>>
    /\ ~lightsDirty
    /\ pc' = "poll"
    /\ UNCHANGED <<processFDs, lightVars, outVars, lwsVars, inbuf, listenq, udpq,
                   socketVars>>

-----------------------------------------------------------------------------
(* Clients                                                                 *)

serverVars == <<loopVars, lightVars, outVars, lwsVars, inbuf>>

SendUDP(p) ==
    /\ Len(udpq) < UdpCap
    /\ udpq' = Append(udpq, p)
    /\ UNCHANGED <<serverVars, listenq, socketVars>>

Connect(c) ==
    /\ peer[c] = "idle"
    /\ peer' = [peer EXCEPT ![c] = "connected"]
    /\ listenq' = Append(listenq, c)
    /\ UNCHANGED <<serverVars, udpq, rx, tx, shown>>

ClientSends(c, frame) ==
    /\ Len(rx[c]) < RxCap
    /\ rx' = [rx EXCEPT ![c] = Append(@, frame)]
    /\ UNCHANGED <<serverVars, listenq, udpq, tx, shown>>

SendRequest(c, proto) ==
    /\ peer[c] = "connected"
    /\ peer' = [peer EXCEPT ![c] = "requested"]
    /\ ClientSends(c, [kind |-> "request", proto |-> proto])

\* A websocket is open to its client from the server's answer to its request
\* until the client sends a close frame.
Open(c) ==
    /\ peer[c] = "requested"
    /\ wsi[c].state = "established"
    /\ \A i \in DOMAIN rx[c] : rx[c][i].kind # "close"
    /\ ~(Serving(c) /\ \E i \in DOMAIN inbuf : inbuf[i].kind = "close")

SendData(c, p) ==
    Open(c) /\ ClientSends(c, [kind |-> "data", packet |-> p]) /\ UNCHANGED peer

SendPing(c) ==
    /\ Open(c)
    /\ wsi[c].proto \in Pingers
    /\ ClientSends(c, [kind |-> "ping"]) /\ UNCHANGED peer

SendClose(c) ==
    Open(c) /\ ClientSends(c, [kind |-> "close"]) /\ UNCHANGED peer

\* The client closes its socket, or vanishes and the kernel resets it.
Disconnect(c) ==
    /\ \/ peer[c] \in {"connected", "requested"} /\ peer' = [peer EXCEPT ![c] = "fin"]
                                               /\ UNCHANGED rx
       \/ peer[c] \in {"connected", "requested", "fin"}
              /\ peer' = [peer EXCEPT ![c] = "rst"] /\ rx' = [rx EXCEPT ![c] = <<>>]
    /\ tx' = [tx EXCEPT ![c] = <<>>]
    /\ UNCHANGED <<serverVars, listenq, udpq, shown>>

\* The client's machine or its network is gone: nothing says so, and nothing
\* that is sent to it is acknowledged.
Vanish(c) ==
    /\ "vanish" \in Faults
    /\ peer[c] \in {"connected", "requested"}
    /\ peer' = [peer EXCEPT ![c] = "lost"]
    /\ UNCHANGED <<serverVars, listenq, udpq, rx, tx, shown>>

\* The kernel gives up to retransmit: the socket fails.
GiveUp(c) ==
    /\ peer[c] = "lost"
    /\ tx[c] # <<>>
    /\ peer' = [peer EXCEPT ![c] = "rst"]
    /\ rx' = [rx EXCEPT ![c] = <<>>]
    /\ tx' = [tx EXCEPT ![c] = <<>>]
    /\ UNCHANGED <<serverVars, listenq, udpq, shown>>

ClientReads(c) ==
    /\ tx[c] # <<>>
    /\ peer[c] # "lost"
    /\ shown' = [shown EXCEPT ![c] = <<Head(tx[c])>>]
    /\ tx' = [tx EXCEPT ![c] = Tail(@)]
    /\ UNCHANGED <<serverVars, listenq, udpq, rx, peer>>

-----------------------------------------------------------------------------

ServiceConn(c) ==
    \/ FlushBacklog(c) \/ FinishClose(c) \/ SendPong(c)
    \/ MonitorWriteable(c) \/ LightWriteable(c) \/ DummyWriteable(c)
    \/ NothingToRead(c) \/ ReadFails(c) \/ Read(c)
    \/ Upgrade(c) \/ RejectUpgrade(c) \/ PlainRequest(c)
    \/ Receive(c) \/ ReceivePing(c) \/ ReceiveClose(c)

\* Serveri::run without the failures of poll and recvfrom.
Run ==
    \/ Poll \/ ScanPollfds \/ Accept
    \/ \E c \in Conns : ServiceConn(c)
    \/ Update \/ NoUpdate

Client(c) ==
    \/ Connect(c)
    \/ \E proto \in Requests : SendRequest(c, proto)
    \/ \E p \in Packets : SendData(c, p)
    \/ SendPing(c) \/ SendClose(c) \/ Disconnect(c) \/ ClientReads(c)
    \/ Vanish(c) \/ GiveUp(c)

Next ==
    \/ Run
    \/ PollFails \/ RecvFails
    \/ \E p \in Packets : SendUDP(p)
    \/ \E c \in Conns : Client(c)

Spec == Init /\ [][Next]_vars

TtyTakes == Update /\ tty' = <<dmxPacket>>

\* The process runs whenever it can take a step, some clients read what they
\* are sent, the kernel does not retransmit for ever, and a tty that is written
\* to for ever takes a packet now and then.  Nobody has to send anything, and
\* poll and recvfrom do not fail.
Fairness ==
    /\ WF_vars(Run)
    /\ \A c \in Readers : WF_vars(ClientReads(c))
    /\ \A c \in Conns : WF_vars(GiveUp(c))
    /\ "tty" \in Faults => SF_vars(TtyTakes)

FairSpec == Spec /\ Fairness

-----------------------------------------------------------------------------
(* Properties                                                              *)

\* Every variable has its type.
TypeOK ==
    /\ pc \in {"poll", "scan", "service", "pollin", "frames", "exited", "aborted"}
    /\ pollfds \in Seq(PollFd)
    /\ processFDs \in Seq(ReadyFd)
    /\ lightsDirty \in BOOLEAN
    /\ currentState \in LightState
    /\ monitorMessage \in Message
    /\ monitorConnections \in SUBSET Conns
    /\ dmxPacket \in DMXPacket
    /\ tty \in Seq(DMXPacket)
    /\ wsi \in [Conns -> Wsi]
    /\ inbuf \in Seq(Frame)
    /\ listenq \in Seq(Conns)
    /\ udpq \in Seq(Packets)
    /\ rx \in [Conns -> Seq(Frame)]
    /\ tx \in [Conns -> Seq(Message)]
    /\ peer \in [Conns -> {"idle", "connected", "requested", "fin", "rst", "lost"}]
    /\ shown \in [Conns -> Seq(Message)]

\* lightsDirty covers every change of the light state that the monitor message
\* does not have yet, whichever way a packet came in: a monitor that connects
\* at any moment is sent what the lights show, or lightsDirty is still set.
MessageCurrent == ~lightsDirty => monitorMessage = Render(currentState)

\* monitorConnections holds exactly the wsi pointers of the open monitor
\* websockets: none that libwebsockets has freed, which Update would pass to
\* lws_callback_on_writable, and none that is missing, which would get no
\* updates.  A connection that is being closed stays until CLOSED.
MonitorsAreLive ==
    monitorConnections = {c \in Conns : Live(c) /\ wsi[c].proto = "monitor"}

\* POLLOUT is requested from poll for the connection.
Requested(c) ==
    \E i \in DOMAIN pollfds : /\ pollfds[i].fd = wsi[c].fd
                              /\ POLLOUT \in pollfds[i].events

\* What the server has sent to a client, up to the last message it has read.
Sent(c) == shown[c] \o tx[c] \o wsi[c].backlog

\* No lost update: a monitor that no write is requested for was last sent the
\* current message.  The request of a write is one-shot, it is shared with
\* pongs and unsent rests, and one request stands for any number of updates.
MonitorsUpToDate ==
    \A c \in Conns :
        /\ wsi[c].proto = "monitor" /\ wsi[c].state = "established"
        /\ ~Gone(c)
        /\ ~Requested(c)
        => Sent(c) # <<>> /\ Sent(c)[Len(Sent(c))] = monitorMessage

\* pollfds has the UDP socket, then the listener, then exactly one entry for
\* every connection of libwebsockets, with the events libwebsockets asked for.
PollfdsMirrorLws ==
    /\ Len(pollfds) >= 2 /\ pollfds[1].fd = UDPfd /\ pollfds[2].fd = ListenFd
    /\ \A i, j \in DOMAIN pollfds : pollfds[i].fd = pollfds[j].fd => i = j
    /\ \A c \in Conns : Live(c) =>
          \E i \in DOMAIN pollfds : /\ pollfds[i].fd = wsi[c].fd
                                    /\ pollfds[i].events = wsi[c].events
    /\ \A i \in 3..Len(pollfds) :
          \E c \in Conns : Live(c) /\ wsi[c].fd = pollfds[i].fd

\* The snapshot in processFDs never goes stale: when an entry is serviced, its
\* fd is still the connection that poll reported, although connections are
\* closed, and their fds given to new ones, while run() works through it.
SnapshotFresh ==
    \A i \in DOMAIN processFDs :
        LET e == processFDs[i]
        IN  IF e.conn = "listen" THEN e.fd = ListenFd /\ i = 1
            ELSE Live(e.conn) /\ wsi[e.conn].fd = e.fd

\* A connection in use has an fd of its own above the listener's; a freed one
\* keeps nothing.
FdsOwned ==
    /\ \A c \in Conns : IF Live(c) THEN wsi[c].fd > ListenFd ELSE wsi[c] = NoWsi
    /\ \A c, d \in Conns : Live(c) /\ Live(d) /\ wsi[c].fd = wsi[d].fd => c = d

\* Nobody waits to be accepted twice, or while still connected.
BacklogNew ==
    /\ \A i \in DOMAIN listenq : ~Live(listenq[i]) /\ peer[listenq[i]] # "idle"
    /\ \A i, j \in DOMAIN listenq : listenq[i] = listenq[j] => i = j
    /\ \A c \in Conns : peer[c] = "idle" => ~Live(c)

\* The frames of c that libwebsockets has read are being handled.
InFrames(c) == pc = "frames" /\ processFDs # <<>> /\ Head(processFDs).conn = c

\* A connection is upgraded once, by its first frame, and sends nothing else
\* before that has been handled.
UpgradedOnce ==
    \A c \in Conns :
        /\ peer[c] \in {"idle", "connected"} =>
              rx[c] = <<>> /\ wsi[c].proto = "none" /\ ~InFrames(c)
        /\ wsi[c].proto = "none" =>
              /\ wsi[c].state # "established" /\ Len(rx[c]) <= 1
              /\ InFrames(c) => rx[c] = <<>> /\ Len(inbuf) = 1
        /\ wsi[c].proto # "none" =>
              /\ \A i \in DOMAIN rx[c] : rx[c][i].kind # "request"
              /\ InFrames(c) => \A i \in DOMAIN inbuf : inbuf[i].kind # "request"

\* What the steps in the middle of a round take for granted: the datagram that
\* poll reported is still there, and there is a frame to handle.
RoundConsistent ==
    /\ pc = "scan" /\ pollfds[1].revents # {} => udpq # <<>>
    /\ pc = "frames" => /\ inbuf # <<>>
                        /\ processFDs # <<>> /\ Head(processFDs).fd # ListenFd
    /\ \A i, j \in DOMAIN processFDs : processFDs[i].fd = processFDs[j].fd => i = j

\* The inductive invariant of the connection bookkeeping: whatever the clients
\* do, libwebsockets' connections, pollfds, monitorConnections and the snapshot
\* of a round stay in step.
Bookkeeping ==
    /\ TypeOK
    /\ MonitorsAreLive /\ PollfdsMirrorLws /\ SnapshotFresh
    /\ FdsOwned /\ BacklogNew /\ UpgradedOnce /\ RoundConsistent

\* The tag that is put into the JSON message has printable ASCII characters
\* only (json::dump throws on anything that is not UTF-8).
TagIsClean ==
    \A i \in DOMAIN currentState.tag : currentState.tag[i] \in Whitelist \ {0}

\* The monitors' state and the DMX packet agree: every light's channels show
\* the colour in currentState, or the light has never been set.  (Where the
\* configuration gives lights channels of their own.)
LightsMatchDMX ==
    NoOverlap =>
        \A i \in LightIds :
            \/ Shows(dmxPacket, i, currentState.lights[i])
            \/ /\ currentState.lights[i] = Black
               /\ \A o \in Channels(i) : dmxPacket[o] = 0

\* The start code that precedes the channels stays 0, which tells the fixtures
\* that colours follow, as long as no address of the configuration is 0 once it
\* is cut to a byte (the code checks neither).
StartCodeIntact == AddressesCountFromOne => dmxPacket[4] = 0

\* No packet of any client changes the header or the terminator that the
\* adapter needs, nor the start code that the fixtures need.
DMXFramed == FramingIntact(dmxPacket) /\ StartCodeIntact

\* When run() blocks in poll, the DMX packet that holds all packets received
\* has been written, or no packet ever was and the startup write is still due.
\* (Unless the tty refuses.)
FrameWritten ==
    pc = "poll" /\ "tty" \notin Faults =>
                   \/ tty = <<dmxPacket>> /\ ~lightsDirty
                   \/ tty = <<>> /\ lightsDirty /\ dmxPacket = EmptyPacket

\* The assert(false) of the light protocol is never reached: "should not be
\* called, one-way protocol".
NoAssertFails == pc # "aborted"

\* A packet or a ping arrives at the server's sockets.
TrafficArrives ==
    \/ \E p \in Packets : SendUDP(p) \/ \E c \in Conns : SendData(c, p)
    \/ \E c \in Conns : SendPing(c)

Watching(c) == wsi[c].proto = "monitor" /\ peer[c] = "requested"

\* Once packets stop, every connected monitor that reads comes to show the
\* state of the lights, whatever connections come and go: updates that were
\* coalesced, overtaken by pongs or sent in parts are not lost.  (A client
\* that never stops pinging is answered with pongs only.)
MonitorsConverge ==
    \/ []<><<TrafficArrives>>_vars
    \/ \A c \in Readers :
          []<>(~Watching(c) \/ shown[c] = <<Render(currentState)>>)

\* The UDP socket is served however much the websocket clients do.
UdpServed == (Len(udpq) = UdpCap) ~> (Len(udpq) < UdpCap)

\* A websocket client that closed or reset its socket is forgotten: its fd is
\* closed and removed from pollfds, even if unsent data was kept for it.
GoneConnectionsReaped ==
    \A c \in Conns : Gone(c) ~> (~Gone(c) \/ wsi[c].state = "transaction")

\* A client does more than read.
ClientActs ==
    \/ \E p \in Packets : SendUDP(p)
    \/ \E c \in Conns : Client(c) /\ ~ClientReads(c)

\* When the clients only read, the server comes to rest in poll: no request of
\* a write is left behind that makes poll return again and again.  There are
\* two exceptions: a plain request whose client has gone, and a monitor whose
\* send buffer never takes a message whole, since POLLOUT stays requested after
\* an unsent rest and the message is then sent once more.
Quiesces ==
    \/ []<><<ClientActs>>_vars
    \/ <>[](pc = "poll")
    \/ <>(\E c \in Conns : wsi[c].state = "transaction" /\ Gone(c))
    \/ []<>(\E c \in Conns : wsi[c].backlog # <<>>)

\* A monitor that has vanished is found out as long as the lights are used:
\* the update that is sent to it is not acknowledged.
LostMonitorsReaped ==
    []<><<Update>>_vars =>
        \A c \in Conns :
            (peer[c] = "lost" /\ wsi[c].proto = "monitor") ~> peer[c] # "lost"

\* A packet that the tty did not take is made good by the next one, whatever it
\* says: every packet, even one that changes nothing, causes a write of all
\* lights.
TtyRecovers ==
    []<><<\E p \in Packets : SendUDP(p)>>_vars => []<>(tty = <<dmxPacket>>)

\* A close frame is answered and the connection closed.
CloseAnswered ==
    \A c \in Readers : wsi[c].state = "returned_close" ~> wsi[c].state = "none"

\* "so we write known state on startup": the DMX packet is written after the
\* start, whether or not anybody connects or sends anything.
StartupWrite == <>(tty # <<>>)

=============================================================================
