# valoserveri: a verification development

valoserveri is a small server that lets the visitors of an event control DMX
lights. Clients send *light packets* over UDP or over a websocket; the server
applies them to a 517-byte DMX packet, writes that to a serial adapter, and
pushes the state of the lights as JSON to *monitor* websockets. This directory
holds TLA+ modules translated from its source, TLC configurations that check
them on small instances, and proofs that TLAPS checks.

## 1. Inventory

| Component | Source | State | Operations | Talks to |
|---|---|---|---|---|
| Packet parser | `valoserveri/LightPacket.cpp` | none | `parseLightPacket` | called by `lightPacket` |
| DMX controller | `valoserveri/DMXController.cpp` | light configuration, `dmxPacket`, tty fd | `LightsConfig::parse`, constructor, `setLightColor`, `update` | called by the server; writes the tty |
| Server loop | `valoserveri/serveri.cpp` | `pollfds`, `currentState`, `monitorMessage`, `monitorConnections`, `lightsDirty`, the `processFDs` of a round, the UDP buffer | `run`, `lightPacket`, `addFD`/`deleteFD`/`setFDEvents`, `addMonitor`/`deleteMonitor`, `updateMonitorMessage`, `callback`, `callback_monitor` | poll, UDP, libwebsockets (calls it, and is called back from inside it) |
| libwebsockets | `foreign/libwebsockets/lib` | a `wsi` per connection, its poll events, frame parser, pending pong, unsent output; the table `pt->fds` with `lws_lookup` and every wsi's position | accept, upgrade, plain requests, frames, one-shot writeable callback, close, destroy | kernel sockets, the server's callbacks |
| Example clients | `use_examples/` | a packet under construction; the page's `socket`, `autoReconnect`, timers and light boxes | build, send, connect, reconnect, draw | the server |
| Configuration | `valoserveri/Config.cpp`, `foreign/inih/INIReader.h` | section, last name, first error, values | parse, `get` | read at startup |
| Logger | `valoserveri/Logger.cpp` | log file, level, the global | `message` | everybody |
| Lifecycle | `main`, constructors, destructors | `globalServeri`, `ws_context`, descriptors | start, stop | all |
| Test programs | `afl-`, `libfuzzer-lightpackets.cpp`, `test.cpp` | none | | the parser, the controller |

What is hard here, and what makes each part correct:

* **The loop is single-threaded, its environment is not.** Clients act between
  any two of its steps, and `lws_service_fd` calls back into the server while
  the server walks a *copy* of the ready fds. Correct means: the copy never
  goes stale, `pollfds` is always libwebsockets' own table, and
  `monitorConnections` never holds a freed `wsi`.
* **Writes to monitors are asynchronous.** An update only *requests* a
  writeable callback. The request is one-shot, coalesces updates, and is shared
  with pongs and with the unsent rest of an earlier message. Correct means: no
  update is lost.
* **Two caches.** `monitorMessage` caches `currentState`, `dmxPacket` caches
  the colours. Correct means: they agree, and both are out before `poll` blocks.
* **Bytes from anybody.** The parser sees packets of any length and content;
  the tag ends up in `json::dump`, which throws on anything that is not UTF-8.
* **Connections end in many ways**: close frames, closed sockets, resets, with
  output unsent or a pong pending, or a client that is lost without a word;
  each must be reaped.
* **TCP has no messages.** A read ends anywhere in the stream: in a header, a
  masking key, a payload. Correct means: the parser carries exactly the right
  state from one read to the next.
* **A dense table.** `pt->fds` fills the hole of a removed entry with the last
  one. Correct means: positions, descriptors and the server's copy still agree,
  also at the limit and while everything is torn down.
* **Globals.** Callbacks and the logger go through pointers that constructors
  set and destructors clear, while both trigger callbacks and log.
* **A page of callbacks.** `monitor.html` replaces its socket while the old
  one's close event is still to come.

Every hazard, with its line and the properties that cover it, is listed in
`PROJECT.json` under `hazards`.

## 2. Modules

| Module | Models |
|---|---|
| `Subsequences` | erasing entries from a container in order (`deleteFD`, the tag filter, the scan), in a closed form that can be proved about |
| `LightPacket` | `LightPacket.cpp` and the tag whitelist of `serveri.cpp` |
| `DMXController` | the light configuration, the DMX packet, `setLightColor` |
| `PacketLoops` | the loops of `parseLightPacket` and `lightPacket` (end of the tag, commands, tag filter, lights), a turn a step, which the closed forms of the two modules above are checked and proved against |
| `Serveri` | the server loop composed with libwebsockets, the kernel's sockets and the clients |
| `LightShow` | the abstract specification: one state of the lights, published as a whole to a stage and to viewers, in order |
| `ServeriShow` | the refinement mapping from `Serveri` to `LightShow` |
| `WsReceive` | libwebsockets' receive path, byte by byte: `rops_handle_POLLIN_ws`, `lws_parse_ws`, `lws_ws_rx_sm`, `lws_ws_frame_rest_is_payload` |
| `FdTable` | `pollfd.c`: insertion, swap-removal, event changes, the listener at the limit, the destruction of the context, and the server's `pollfds` beside it |
| `Config` | inih's `ini_parse_stream` over lines, `INIReader`, `Config::get` |
| `Lifecycle` | `main`: configuration, `Logger`, `LightsConfig::parse`, `DMXController`, `Serveri`, the end of `run`, the destructors |
| `LightClient` | `instanssiController.py`, a lossy and reordering UDP, and the receive buffer of `run` |
| `MonitorPage` | `monitor.html`: buttons, reconnect timer, events of current and replaced sockets, drawing |
| `MC*` | instances for TLC |
| `SubsequencesProofs`, `LightsProofs`, `PacketLoopsProofs`, `ServeriProofs`, `WsReceiveProofs`, `FdTableProofs`, `LifecycleProofs`, `ClientsProofs` | theorems |

`LightPacket` extends `Subsequences`, `DMXController` extends `LightPacket`,
`PacketLoops`, `Serveri`, `LightClient` and `LightShow` extend `DMXController`, `ServeriShow`
extends `Serveri` and instantiates `LightShow`, `Lifecycle` extends `Config`.

### How `Serveri` corresponds to the code

`pc` is the place in `run`:

    poll -> scan -> service -> (pollin -> frames)* -> ... -> poll

| Action | Code |
|---|---|
| `Poll`, `PollFails` | `poll` without timeout, its error return |
| `RecvFails` | `recvfrom` returns -1, which `first(len)` refuses: the program ends |
| `ScanPollfds` | the loop over `pollfds`: one datagram read and applied, the other ready entries copied to `processFDs`, `revents` cleared |
| `Accept` | the listener's entry: `accept` until nobody waits, each `ADD_POLL_FD` -> `addFD` |
| `FlushBacklog`, `FinishClose`, `SendPong`, `MonitorWriteable`, `LightWriteable`, `DummyWriteable` | the POLLOUT half of a connection's service, in libwebsockets' order of priority; the last three are the protocols' `SERVER_WRITEABLE` |
| `NothingToRead`, `ReadFails`, `Read` | the POLLIN half: nothing, end or error, one read that takes some of the frames that have arrived |
| `Upgrade`, `RejectUpgrade`, `PlainRequest`, `Receive`, `ReceivePing`, `ReceiveClose` | one frame of the read each, with the callback it causes |
| `Update`, `NoUpdate` | the end of the loop body: DMX write (which the tty may refuse), message, a writeable callback requested for every monitor |
| `Connect`, `SendRequest`, `SendData`, `SendPing`, `SendClose`, `Disconnect`, `ClientReads`, `SendUDP` | clients, at any moment |
| `Vanish`, `GiveUp` | a client is lost without a word; TCP gives up on what was sent to it |

Callbacks run inside the step that causes them, because they do in the code.
`SetEvents` changes a connection's events in libwebsockets and, through
`CHANGE_MODE_POLL_FD`, in `pollfds`; `Kill` is the end of a connection:
`deleteFD`, `CLOSED` (-> `deleteMonitor`) for an upgraded one, the socket closed
and the `wsi` freed. New connections take the lowest free fd, as the kernel
does, so fds are reused within a round. `processFDs` entries carry a history
field `conn`, the connection that the fd belonged to when it was polled; only
`SnapshotFresh` and `InFrames`, which says whose frames are being handled, look
at it.

The constant `Faults` says which of the failures an instance has: `poll`,
`recvfrom`, `tty`, `vanish`.

Abstractions: a websocket message arrives whole, which `WsReceive` takes apart;
a message in a client's send buffer is one unit, and if the buffer is not empty
a write may leave the whole message as the unsent rest; a tty takes a packet
whole or not at all; time does not pass, so libwebsockets' timeouts do not fire
-- in the program they do not either, once the constructor is done, because
only `lws_service` runs them. A reset peer is noticed at the next read or
write. Light packets, in contrast, are real bytes: the parser and the filter are
part of every step that receives one.

### `LightShow` and `ServeriShow`

`LightShow` says what the server is for, without sockets: `Ask` changes the
state, `Publish` puts all of it on stage and makes it the published one, `Post`
sends the published state to a viewer, `Show` shows it, `Join`, `Leave` and
`Lose` are viewers coming and going. `ServeriShow` maps a server state to it.
The mapping reads what comes out of the server as its receivers do: a message
through `Decode`, as `monitor.html` does, and the DMX packet through `Emitted`,
by the addresses the lights are set to. So it can only be a refinement if
`Render`, `setLightColor` and the queues of messages are right. `Accept`,
`Poll`, pongs, most of libwebsockets' closing states are stuttering.

### `WsReceive`

`wire` is the byte stream, `buf` what one read took, `ws` the parser's fields in
`struct _lws_websocket_related`. `FirstByte`, `LengthByte`,
`ExtendedLengthByte`, `KeyByte`, `ControlByte` are the states of
`lws_ws_rx_sm`, `Spill` its common end, `Bulk` is
`lws_ws_frame_rest_is_payload`. Frames are sent encoded, with masks, 16- and
64-bit lengths, and everything that the parser refuses: reserved opcodes, the
bits RSV2 and RSV3, fragments out of place, control frames in fragments or with
an extended length, bit 63 of a length. RSV1 the parser lets through, because
`LWS_WITHOUT_EXTENSIONS` leaves out the check that no extension is active
(`ops-ws.c:228-233`); `LegalFrame` says so, and the run has frames with RSV1 and
with RSV2.

A frame is refused in two ways. Where the parser gives a reason
(`lws_close_reason`, in the first byte) the rest of the read is dropped and
`open` goes through the closing handshake: "waiting_to_send_close" until
`SendClose`, "awaiting_close_ack" until the client's close frame, or
"acknowledging" (`RETURNED_CLOSE`) if that comes first (`Refuse`, `PeerClose`).
During it the client's bytes are still read and parsed, out of step with its
frames, pings are remembered and forgotten (`ForgetPong`), and a second refusal
closes the connection; `Deliver` looks at `wsistate_pre_close`, so `RECEIVE` gets
nothing. Where the parser gives no reason (a length) the connection is closed at
once (`Bail`). The histories `sent`, `cuts` and `pongs` are for the properties.

### `FdTable`

A state of the table is a record, so that `insert` and `remove` can be followed
by `lws_accept_modulation` as in the code. Descriptors are numbers, the lowest
free one is handed out, and those the process holds outside the table are
`OwnFds`. `Serveri` takes the table as a set of connections with events; this
module is about how it is stored.

### `Config` and `Lifecycle`

A line of the file is a record of its kind (blank, comment, header, unclosed
header, setting, junk), whether it is indented, its name and value, and its
text as a continuation. A value is a sequence of texts, since inih joins them
with newlines. `Lifecycle` continues where the file has been read, one action
per step that can fail; an exception is `Throw`, after which nothing runs.
`pointers` is the set of globals that are not null, `asserted` those that an
`assert` has found null, `log` the kinds of message in the log file.

### `MonitorPage`

One variable `socket` and any number of `WebSocket` objects, of which the page
forgets all but one. A socket that `close()` was called on or whose connection
was lost is "ending" until its close event is handled.

## 3. Runs

| Run | Instance | Checks |
|---|---|---|
| `packet` | the loops over all packets of up to 5 of 10 pieces (single bytes, whole commands, a bad type, an index over 127), three lights of which two overlap | `ReadsInBounds`, `ParserIsLoop`, `HandlerIsLoop` (`FilterIsLoop` and `BatchIsSequential`) |
| `client` | up to 3 commands in a packet, a buffer that holds 2 and a part of the third, datagrams lost | `Intended` |
| `monitor` | one client of any protocol that pings, 2 messages in its send buffer, and UDP; two kinds of packets, two lights; `poll` and `recvfrom` may fail, the client may vanish | `TypeOK`, `MessageCurrent`, `MonitorsUpToDate`, `FrameWritten`, `TagIsClean`, `LightsMatchDMX`, `DMXFramed`, `ImplementsShow` |
| `conns` | two clients, symmetric | `Bookkeeping`, `MonitorsAreLive`, `PollfdsMirrorLws`, `SnapshotFresh` |
| `live` | one reading client of any protocol that may vanish, pings on monitor connections, 2 messages in the send buffer, one packet, UDP, a tty that refuses | `MonitorsConverge`, `GoneConnectionsReaped`, `Quiesces`, `UdpServed`, `CloseAnswered`, `LostMonitorsReaped`, `TtyRecovers` |
| `ws_receive` | up to 3 of 14 kinds of frames, reads of 1 to 6 bytes, a buffer of 3 | `NothingLost`, `SplitsExplained`, `DroppedIffIllegal`, `PongsEcho` |
| `fd_table` | 3 clients, 11 descriptors of which 7 are outside the table | `TableConsistent`, `EventsAsWanted`, `MirroredInServer`, `DestroyEnds`, `WaitingAccepted` |
| `lifecycle` | files of up to 4 of 14 lines, every failure, one client | `ReadAsWritten`, `GlobalsInPlace`, `CleanExit`, `LightsUsable`, `StartsAsConfigured` |
| `page` | 5 sockets, 2 clicks on a live connection, 2 timers | `ConnectionsAccounted`, `DrawnAsTold`, `Reconnects` |
| `ping_assert` | a light client that pings | `NoAssertFails` is violated |
| `startup_write` | nobody does anything | `StartupWrite` is violated |
| `ws_whole` | one light packet in one frame | `MessagesWhole` is violated |

Why the bounds are enough for what they are used for. Two clients are needed
for the snapshot to be in danger: one whose service closes or accepts while the
other's entry waits, and that is also the least at which an fd is reused; the
proof covers any number. Two messages in the send buffer and one as the unsent
rest are needed to have an update overtaken by a rest and then by a pong:
`monitor` and `live` have them. `live`, whose graph is searched for cycles, has
one kind of packet, and so two messages: that of the first state, which a monitor
is sent when it connects, and that of the state the packet leaves, which may come
while the first still waits, is under way or is an unsent rest. `monitor` has two
kinds of packets and checks in every state that no update is lost.
Packets come over UDP and over the websocket in the same round. `PacketSize` is
16 or 24 instead of 517 and `UIntRange` is 2^16: the assumptions `LightsAssumption` and `UIntAssumption` are the facts about 517 and
2^32 that are used. In `ws_receive` the payload of the long frame is longer than
the buffer and starts in another read than its header; three frames are a
message in fragments with a control frame between them. In `fd_table` the
process has descriptors for two of the three clients, so that `accept` fails
and a client waits; while the context is destroyed the removed entry is the
first and others move. Four lines are the least with which a file configures a
light (a header and the number of lights, a header and a setting). Five sockets
are one more than two clicks, their timers and the first connection can have in
use at a time.

Deadlock is checked where the system goes on for ever. It is not where the
program ends: `MCServeriMonitor` and `MCServeriPing` (`poll` fails, or an
assertion), `MCLifecycle`, `MCFdTable` (the context is destroyed), `MCLightPacket`
(the packet has been handled); nor where an input grows to its bound:
`MCWsReceive*`.

**Fairness.** In `Serveri`, `WF_vars(Run)`: the process is one thread, and the
operating system runs it when it can take a step. `WF_vars(ClientReads(c))` for
clients in `Readers`: a browser keeps reading. `WF_vars(GiveUp(c))`: TCP gives up
on data that is not acknowledged. `SF_vars(TtyTakes)`, where the tty may refuse:
if it is written again and again it takes a packet some time. Nobody has to
send, connect or disconnect. `MonitorsConverge` is claimed for behaviours in
which packets and pings stop arriving (a client that pings without end is
answered with pongs, and libwebsockets gives them priority over the message).
In `FdTable`, weak fairness of the server's own steps (`CreateContext`,
`ServiceListener`, `AcceptFails`, the steps of the destruction) and strong
fairness of `Accept`: the loop polls again and again, and the kernel's queue
forgets nobody. That a connection ends is not assumed, because the server never
closes one of a plain request or of a lost light client; so `WaitingAccepted` is
claimed unless from some time on no descriptor is free. In `MonitorPage`, weak fairness of `Timer` and `OnClose` (the
browser delivers events) and strong fairness of `OnOpen`: a connection that is
tried again and again succeeds some time.

### Findings

* `ping_assert`: a websocket ping on a light connection leads to
  `assert(false)` in `callback`, "should not be called, one-way protocol".
* `startup_write`: `lightsDirty` starts as true "so we write known state on
  startup", but the write is at the end of a round and the round begins with an
  unbounded `poll`.
* `ws_whole`: `RECEIVE` gets pieces of messages, and each is parsed as a light
  packet. `NothingLost` and `SplitsExplained` say what the pieces are.

Seen while modelling, and stated as exceptions in the properties or as facts
about the actions:

* `ws_ping_pong_interval = 10` has no effect, since only `lws_service` runs
  timers and `run` never calls it. A lost client is found out only when
  something is sent to it (`LostMonitorsReaped`); a lost *light* client, to
  which nothing is ever sent, never.
* A request that is no upgrade is neither answered nor closed, and the state it
  leaves the connection in ("transaction") is not read. When its client leaves,
  `poll` reports the socket in every round, and the loop spins (the exceptions
  of `GoneConnectionsReaped` and `Quiesces`).
* "if no more room, defeat accepts" (`pollfd.c`) counts the *table*, but the
  process has seven descriptors outside it, and `accept` fails first: the
  listener stays readable and the loop spins (`AcceptFails`).
* The tag of a packet that names only lights that do not exist, and the empty
  tag of a rejected one, is shown on the monitors (`Ask` of `LightShow` always
  takes the tag).
* `monitor.html` keeps the number of lights as `lastNumlights` and compares
  `lastNumLights`, so that every message rebuilds its boxes.
* The frame parser accepts RSV1, although the build has no extension that could
  have been negotiated, and gives such a payload to `RECEIVE` as it is.
* A connection whose client broke the protocol waits for an acknowledgement of
  the close frame with POLLOUT still requested. In this state libwebsockets
  calls `SERVER_WRITEABLE`, which for a light connection is the `assert(false)`
  of `ping_assert` again; and the timeout of 5 seconds never fires, so that a
  client that does not answer keeps its connection. A ping that comes before the
  close frame is written replaces the reason in the buffer they share.
* After an unsent rest is written POLLOUT stays requested, so the monitor is
  sent the message once more. One whose send buffer never takes a whole message
  is sent it for ever (the last disjunct of `Quiesces`).
* Nobody asks for inih's parse error: a file that cannot be opened is an empty
  one, a header without `]` leaves its settings to the section above, and an
  indented line after a setting becomes part of its value. A setting that is
  repeated is appended, and of a number the first one counts.
* A light without a section, or with an address that is a multiple of 256, has
  address 0, and its first channel is the DMX start code. `DMXFramed` promises
  the start code for configurations that count from one only.
* If `lws_create_context` fails, the server runs with UDP only and says nothing.
* `listenAddress` in `valoserveri.conf.dist` is never read.
* In the page, the close event of a socket that *Yhdistä* replaced clears
  `socket` although it holds the new one; the timer then makes another
  connection, and no button closes the forgotten one. *Katkaise* while the page
  waits to reconnect does nothing, a timer that is pending reconnects after a
  *Katkaise*, and `autoReconnect` is never set again.

## 4. Proofs

All theorems hold for every value of the constants that satisfies the named
assumptions: any finite set of connections, any set of byte sequences as
packets, any bounds, any configuration whose truncated addresses stay before the
terminator (`LightsAssumption`: with 517 bytes every address does).

* `SubsequencesProofs`: the closed form of an erasing loop has the elements that
  are kept, in order, and every one of them; one more element is kept behind
  them (`SubsequenceAppend`), which is what makes the closed form provable of a
  loop. Counting positions is an induction; it is done as a least counterexample
  in `Nat`.
* `LightsProofs`: the parser reads in bounds (`ParserReadsInBounds`) and returns
  typed data (`ParserType`) for every byte sequence, the filter leaves whitelisted
  characters only, and no commands change the framing bytes.
* `PacketLoopsProofs`: `AlwaysReadsInBounds`, **`ParserIsAlwaysLoop`**,
  **`HandlerIsAlwaysLoop`** (from `FilterIsAlwaysLoop` and
  `BatchIsAlwaysSequential`): the closed forms that every other module uses are
  what the loops of the code compute.
* `ServeriProofs`: `BookkeepingInvariant`, **`Spec => []Bookkeeping`**, and from
  it `TypeCorrect`, `MonitorsLive`, `PollfdsMirror`, `SnapshotStaysFresh`; of the
  outputs `MessageStaysCurrent`, `FrameAlwaysWritten`, `DMXStaysFramed`,
  `TagStaysClean`, `LightsAgree` and **`NoUpdateIsLost`**; and
  **`ServerImplementsShow`**, every behaviour of the server is a light show, if
  the lights have channels of their own (`NoOverlap`: with shared channels two
  lights cannot both show what was asked for).
* `WsReceiveProofs`: `WsInvHolds`, **`Spec => []WsInv`**, and from it
  **`ReceivesNothingLost`**, `ReceivesSplitsExplained`, `ReceivesDroppedIffIllegal`
  and `ReceivesPongsEcho`, for every set of frames, any number of them, every key,
  any sizes of reads and of the receive buffer.
* `FdTableProofs`: `TableStaysConsistent`, `EventsStayAsWanted` and
  `ServerStaysMirrored`, for any number of connections and any limit.
* `LifecycleProofs`: `FilesAreReadAsWritten` and, on top of it,
  `AlwaysStartsAsConfigured`; `GlobalsStayInPlace`, `ExitIsClean`,
  `LogAlwaysTells`, `LightsAlwaysUsable`, for every configuration file. The last
  is what `LightsAssumption` asks of the configuration. `LogTellsWhy` is a part of
  its inductive invariant and only proved.
* `ClientsProofs`: `AlwaysUnderstood` about `LightClient`, for every nick, every
  set of commands, any length of a packet and any size of the buffer;
  `ConnectionsStayAccounted` and `AlwaysDrawnAsTold` about `MonitorPage`, for any
  number of sockets, clicks and timers.

**The inductive invariant.** None of the three claims of the bookkeeping is
inductive alone. That the snapshot is fresh needs distinct fds (`FdsOwned`,
`RoundConsistent`: servicing one entry kills only its own connection, and every
other entry has another fd) and that the listener's entry comes first (it is
second in `pollfds`, which `PollfdsMirrorLws` says, and scanning keeps the
order: so no connection is accepted after another has been closed in the same
round, and a closed fd cannot come back under a waiting entry). That
`pollfds` mirrors libwebsockets needs that a waiting connection is not live yet
(`BacklogNew`). That `monitorConnections` is exact needs that a connection is
upgraded once (`UpgradedOnce`: a second upgrade to another protocol would leave
the first registration behind), which in turn depends on what is in its receive
queue and in the frames just read. `Bookkeeping` is their conjunction, checked
by TLC as an invariant of `conns`, and each action preserves it by a lemma of
its own. Actions on one connection go through `ConnStep` (the service of a
connection changes its own `wsi` and poll entry), `KillKeeps`, and `FrameStep`;
client actions through `ClientStep`.

The proofs about the outputs use one lemma, `LightSteps`: a step leaves the
lights and the outputs alone, applies one packet, or is `Update`.

**No lost update.** `MonitorsUpToDate` looks at the poll entries of the server.
`AllInformed` says it of libwebsockets' own events, which `Bookkeeping` makes
equal, and adds that a monitor without a request has no unsent rest: without
that, the step that sends a rest could leave an older message as the last one.
A request is given up only by the step that writes the message or by the end of
the connection; a pong and an unsent rest leave it on.

**The loops.** `LoopInv` has the invariant of each loop. While the tag is scanned
no byte before the counter ends it (`TagScanned`), so that the first NUL found is
the least; the parsed commands are the subsequence of the light commands up to
the counter (`CommandsScanned`), extended by `SubsequenceAppend`; while the tag is
filtered the text is the good characters of a part of the tag and then the rest of
the tag (`Filtered`), so that the character that an erase moves to the iterator is
the first one not looked at; the DMX packet is the closed form of the commands
before the counter (`LightsSet`), extended by `SetOneMore`: the greatest writer of
a byte is the new command if it writes the byte at all, and the old one otherwise.

**The receive path.** The four properties of `WsReceive` compare what was
delivered with the whole stream, and the parser has a few fields. `InStep` says
that there are `k` and `o` such that the parser is `o` bytes behind the start of
frame `k + 1` (`ParsedTo`): the first `k` frames are legal; `buf` and then `wire` are
the stream from that place on (`BytesFrom`); state, key, remaining length and
collected control payload are what those `o` bytes leave behind (`InFrame`, one
disjunct per state of `lws_ws_rx_sm`); the two flags say whether a message is
unfinished (`FlagsAfter`); and what was received is the data before that place
(`FirstBytes`). The pongs that were sent and the one that waits are, together,
payloads of pings among the first `k` frames in order (`Echo`). All this is
`InStep`, and holds while the client is served. Once a frame is refused the rest
of the read is dropped and the parser reads on from the middle of the stream:
`OutOfStep` claims no place for it, only that what was received is data of
legal frames (`Got`), and the cause, a frame that is not legal or, for a closed
connection, a close frame (`Cause`). `WsInv` is the disjunction; a step in step
leads to either (`InStepKeeps`), and a step out of step delivers nothing and
stays there (`ParseQuiet`, `OutOfStepKeeps`).

Each state of the parser has a lemma. In all of them the next byte of the buffer
is byte `o + 1` of the encoded frame (`NextByte`), and what the parser reads from
it is what the sender put there (`FirstByteRead`, `LengthByteRead`,
`ExtendedByteRead`, `UnmaskedByte`). The bytes that are refused are those of frames that
are not legal, since the flags agree with the frames (`RefusedIffIllegal`,
`FlagsStep`). A frame ends in `SpillKeeps` or in `BulkKeeps`, whose piece ends at the
end of the frame, of the read or of the buffer. When everything is read, the
parser is between two frames, or at the end of a data frame that has not been
ended yet, because `lws_parse_ws` looks at it with the next byte only
(`DrainedAll`).

Streams are sequences of pieces put together by the `FlattenSeq` of the
community modules, which is a recursive function. What it computes is shown
once, with least counterexamples instead of an induction scheme (`FlatAppend`,
`FlatPieces`: where each piece is in the whole), and the rest uses these two
lemmas. Of exclusive or the proofs use `XorAssumption` only (masking twice is no
masking), which TLC evaluates for all pairs of bytes. `WsReceiveAssumption` has the
rest: a length is below 126 or in the last 16 bits of an extended length, and
control frames fit in the buffer.

**The client.** `Intended` speaks of what was parsed. `ClientInv` carries from
`Instanssi.set` over the wire to `recvfrom` which commands the bytes stand for:
`Encodes` places every byte of a packet. `SpanIs` shows that the span has bytes of
the datagram only, whatever the buffer held; `TagRead`, `CommandRead` and
`CountRead` follow the parser over a prefix of the packet.

**The refinement.** Hexadecimal digits read back are the colour (`HexRead`), a
message read back is the state it was made of (`MessageRead`), and reading
commutes with appending to and taking from a queue (`QueueRead`). With
`LightsMatchDMX`, proved before, a written packet is
what the lights emit. Each action of the server is then one step of `LightShow`
or none; the cases that need an argument are a write that goes into the unsent
rest or behind it (`Post` either way), the end of a connection with messages
under way (`Leave`), and a client that goes away before the server knows
(`Lose`).

**The table.** `TableConsistent` needs that the table has no descriptor twice
and that the wsi of the last entry is another one than the removed, unless they
are the same entry: `Sound` is stated of a table as a value (shape, types,
consistency), is kept by `change_pollfd`, `insert` and `without`, and so by
what the actions put together from them. `TableInv` adds what the actions need:
a connection in the backlog has no descriptor, and the destruction's index is
positive. `Faithful` is the part about events and the server's copy: that the
copy has exactly the table's entries is inductive only together with no
descriptor being in either twice, since `deleteFD` erases by descriptor.

**The lifecycle.** `ProgramInv` says for every phase which pointers are set and
what is open, and how far the destructors are: `GlobalsInPlace` is inductive
only with `PointersInv`, `CleanExit` only with `OpenInv`. `LightsInv` counts the
lights that have been parsed.

**The file.** `ReadAsWritten` is a declarative reading of a whole file; the parser
has one line of context. `FileInv` says of the lines read so far what the parser's
section and last name are (`Where`) and, for every key, that its value has one
text for each line that speaks of it, from the first that is not empty
(`ValuesInv`: the k-th text is that of the line of rank k). A line adds a position behind all others, whose rank
is the number of those before it and one (`RankAdded`, `RankStays`). Its
hypothesis `Hanging`, that every indented line hangs from a setting of its
section, is the one of `ReadAsWritten`. `StartInv` says what each constructor took from the values, which
do not change any more; with `SettingOnce`, that a setting on one line has one
text, `StartsAsConfigured` follows.

**The page.** `ConnectionsAccounted` counts live connections and is not
inductive: a socket that is only closing has an event to come that clears a
variable which may hold another socket. `Accounted` counts all sockets but the
one the page holds, closing ones too. `DrawInv` adds that the misspelt number of
lights is never set, which is why every message redraws every box.

**Only model-checked.** Liveness under fairness, and `ENABLED`, are out of this
prover's reach: the properties of `live`,
`DestroyEnds`, `WaitingAccepted`, `Reconnects`. The properties of the runs that
expect a violation are false of the code and cannot be proved.

## 5. Not modelled

* **libwebsockets' timers**: the program never runs them. **TLS, extensions,
  proxying, CGI, the client side and the event-loop adapters**: not compiled in
  or not configured by this server. **HTTP header parsing**: its outcome is an
  upgrade to a known protocol, to an unknown one, or no upgrade, which is what
  `SendRequest` chooses from.
* **HTTP/2**: `LWS_WITH_HTTP2` is defined (`lws_config.h:107`), and a request with
  `Upgrade: h2c` turns a connection into one of that role, with streams and flow
  control of its own. Nothing here is shown about a server with such a client.
* **Frames that break the protocol, in `Serveri`**: its clients send none. What
  they do to the parser and to the state of one connection is in `WsReceive`; the
  closing handshake that follows is not composed with the loop. There it would
  add a connection that is polled for POLLOUT until its client acknowledges the
  close frame, so that `Quiesces` and, on a light connection, the absence of
  further ways to `assert(false)` are not claimed of such clients. Conversely
  `WsReceive` has no unsent output: a connection that has some when a frame is
  refused first goes through `LRS_FLUSHING_BEFORE_CLOSE`, which only `Serveri` has.
* **termios settings** of the tty, log wording, the JSON text (its content is
  `Render`): formatting and I/O without a state of the program.
* **The characters of a configuration line**: inih's limits of 200 characters a
  line and 50 a name, the byte order mark and inline comments are left out, and
  so are `Config::getBool` and `getList`, which have no caller.
* **A message that is not JSON** in `monitor.html`: the server sends none.
* **`websocket.html`, `over_udp.py`, `old_haskell.hs`**: colour arithmetic; what
  they send is what the clients of `Serveri` send.
* **Test and fuzzing programs**: they call the parser or set one colour.
* **Build files and vendored libraries** (fmt, date, nlohmann_json, span, the
  rest of libwebsockets): not the program's logic, and most of the lines of the
  repository. What the program relies on of them is in the actions that use it.

## 6. Plan

Done: the core, the receive path, faults, the refinement of `LightShow`, the fd
table, configuration, lifecycle and the monitor page; every safety invariant that
a passing run checks is proved for every value of the constants.
