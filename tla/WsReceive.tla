----------------------------- MODULE WsReceive ------------------------------
(***************************************************************************)
(* How libwebsockets turns the byte stream of an upgraded connection into  *)
(* RECEIVE callbacks: the read of rops_handle_POLLIN_ws, lws_parse_ws,     *)
(* lws_ws_rx_sm and lws_ws_frame_rest_is_payload; and how a connection     *)
(* ends whose client breaks the protocol.  Serveri's callback parses what  *)
(* one RECEIVE gives it as one light packet.                               *)
(*                                                                         *)
(* The stream is made of bytes, and a read may cut it anywhere: within a   *)
(* header, a masking key, a control frame or a payload.                    *)
(***************************************************************************)
EXTENDS Integers, Sequences, FiniteSets, SequencesExt

CONSTANTS
    Frames,           \* the frames that the client may send
    MaxFrames,        \* bound: frames that it sends
    RxBufferSize,     \* rx_buffer_size of the protocol: 2048
    ReadMax,          \* rx_ubuf_alloc, the most one read takes: 2048 + LWS_PRE
    Xor(_, _)         \* exclusive or of two bytes

Byte == 0..255

\* A frame as its sender means it.  ext is the number of extended length bytes;
\* bit63 is the bit of a 64-bit length that must be zero.
Frame == [opcode : 0..15, final : BOOLEAN, rsv : 0..7, ext : {0, 2, 8},
          bit63 : BOOLEAN, masked : BOOLEAN, key : [0..3 -> Byte], payload : Seq(Byte)]

IsControl(opcode) == opcode >= 8

TEXT == 1
BINARY == 2
CONTINUATION == 0
CLOSE == 8
PING == 9
PONG == 10

\* Control frames are short: below 126 bytes, and the buffer takes 2048.  A
\* frame says its length: in 7 bits, or in the last 16 of an extended length.
ASSUME WsReceiveAssumption ==
    /\ \A f \in Frames :
          /\ f \in Frame
          /\ IsControl(f.opcode) => Len(f.payload) < RxBufferSize
          /\ Len(f.payload) < IF f.ext = 0 THEN 126 ELSE 65536
          /\ f.bit63 => f.ext = 8
    /\ MaxFrames \in Nat
    /\ RxBufferSize \in Nat \ {0} /\ ReadMax \in Nat \ {0}

\* Masking twice with a byte of the key is no masking.
ASSUME XorAssumption ==
    \A a, b \in Byte : Xor(a, b) \in Byte /\ Xor(Xor(a, b), b) = a /\ Xor(a, 0) = a

VARIABLES
    wire,       \* bytes sent and not yet read
    buf,        \* bytes of the last read that are not yet parsed
    ws,         \* struct _lws_websocket_related, the fields of the parser
    pong,       \* the payload of the ping (or close) to be answered, if any
    open,       \* the state of the connection, see below
    received,   \* what each RECEIVE callback was given
    sent,       \* history: the frames of the stream
    pongs,      \* history: the payloads of the pongs sent
    cuts        \* history: how much payload had been received when a read ended

vars == <<wire, buf, ws, pong, open, received, sent, pongs, cuts>>

\* The states of open, after the LRS_ names: the client's frames are served
\* until one of them is refused.  Then wsistate_pre_close is set, a close frame
\* is sent and its acknowledgement awaited; "acknowledging" is RETURNED_CLOSE
\* with wsistate_pre_close set.
Serving == open \in {"established", "returned_close"}
Refusing == open \in {"waiting_to_send_close", "awaiting_close_ack", "acknowledging"}

-----------------------------------------------------------------------------
(* The client                                                              *)

\* The length byte, and the bytes of an extended length.
LengthBytes(f) ==
    LET n == Len(f.payload)
        mask == IF f.masked THEN 128 ELSE 0
    IN  IF f.ext = 0 THEN <<mask + n>>
        ELSE <<mask + (IF f.ext = 2 THEN 126 ELSE 127)>>
             \o [i \in 1..f.ext |-> IF i < f.ext - 1
                                    THEN IF i = 1 /\ f.bit63 THEN 128 ELSE 0
                                    ELSE IF i < f.ext THEN n \div 256 ELSE n % 256]

Encode(f) ==
    <<(IF f.final THEN 128 ELSE 0) + 16 * f.rsv + f.opcode>>
    \o LengthBytes(f)
    \o (IF f.masked THEN [i \in 1..4 |-> f.key[i - 1]] ELSE <<>>)
    \o [i \in DOMAIN f.payload |->
           IF f.masked THEN Xor(f.payload[i], f.key[(i - 1) % 4]) ELSE f.payload[i]]

\* A client sends nothing after a close frame.
Send(f) ==
    /\ open # "closed"
    /\ Len(sent) < MaxFrames
    /\ \A i \in DOMAIN sent : sent[i].opcode # CLOSE
    /\ sent' = Append(sent, f)
    /\ wire' = wire \o Encode(f)
    /\ UNCHANGED <<buf, ws, pong, open, received, pongs, cuts>>

-----------------------------------------------------------------------------
(* The parser                                                              *)

ZeroKey == [i \in 0..3 |-> 0]

Init ==
    /\ wire = <<>> /\ buf = <<>>
    /\ ws = [state |-> "NEW", opcode |-> 0, final |-> FALSE,
             continuation_possible |-> FALSE, owed_a_fin |-> FALSE,
             masked |-> FALSE, need |-> 0, rx_packet_length |-> 0,
             mask |-> ZeroKey, mask_idx |-> 0, rx_ubuf |-> <<>>]
    /\ pong = <<>>
    /\ open = "established"
    /\ received = <<>>
    /\ sent = <<>> /\ pongs = <<>> /\ cuts = {}

\* One read of the socket; what it took is parsed before the next one.
Read(n) ==
    /\ open # "closed"
    /\ buf = <<>>
    /\ n <= Len(wire)
    /\ buf' = SubSeq(wire, 1, n)
    /\ wire' = SubSeq(wire, n + 1, Len(wire))
    /\ UNCHANGED <<ws, pong, open, received, sent, pongs, cuts>>

\* lws_ws_rx_sm is given the next byte in a state of the parser.
AtByte(state) == open # "closed" /\ buf # <<>> /\ ws.state = state

\* The byte is used up; the fields of ws are set to w.
Parsed(w) == ws' = w /\ buf' = Tail(buf)

Continue(w) ==
    Parsed(w) /\ UNCHANGED <<wire, pong, open, received, sent, pongs, cuts>>

\* lws_ws_rx_sm returns -1 and gave no reason: the connection is closed.
Bail ==
    /\ open' = "closed"
    /\ UNCHANGED <<wire, buf, ws, pong, received, sent, pongs, cuts>>

\* It returns -1 after lws_close_reason: what is left of the read is dropped, and
\* the connection stays until a close frame is sent and acknowledged.  If it is
\* being closed already ("we tried the polite way"), it is closed.
Refuse(w) ==
    /\ open' = IF open = "established" THEN "waiting_to_send_close" ELSE "closed"
    /\ ws' = w /\ buf' = <<>>
    /\ UNCHANGED <<wire, pong, received, sent, pongs, cuts>>

\* As if a frame that starts a message were not checked.
OutOfPlace_Unchecked(opcode, final) ==
    \/ IsControl(opcode) /\ ~final
    \/ opcode = CONTINUATION /\ ~ws.continuation_possible
    \/ opcode \in (3..7) \cup (11..15)

\* A control frame in fragments, a new message inside another one, a continuation
\* without a message to continue, a reserved opcode.
OutOfPlace(opcode, final) ==
    \/ IsControl(opcode) /\ ~final
    \/ opcode \in {TEXT, BINARY} /\ (ws.continuation_possible \/ ws.owed_a_fin)
    \/ opcode = CONTINUATION /\ ~ws.continuation_possible
    \/ opcode \in (3..7) \cup (11..15)

\* What lws_ws_rx_sm does not accept as the first byte of a frame.  Of the
\* reserved bits it lets RSV1, here 4, through: that no extension is active is
\* checked only by a build with extensions, and this one has none.
FirstRefused(opcode, final, rsv) == OutOfPlace(opcode, final) \/ rsv % 4 # 0

\* LWS_RXPS_NEW.  all_zero_nonce is set: until a key comes, the mask is zero.  The
\* reserved bits are looked at last, when the fields are set.
FirstByte ==
    LET opcode == Head(buf) % 16
        rsv    == (Head(buf) \div 16) % 8
        final  == Head(buf) >= 128
        w == [ws EXCEPT
                !.state = "LEN", !.opcode = opcode, !.final = final,
                !.continuation_possible =
                    IF opcode \in {TEXT, BINARY} THEN ~final
                    ELSE IF opcode = CONTINUATION /\ final THEN FALSE ELSE @,
                !.owed_a_fin = IF ~final THEN TRUE
                               ELSE IF IsControl(opcode) THEN @ ELSE FALSE,
                !.mask = ZeroKey]
    IN  /\ AtByte("NEW")
        /\ IF ~FirstRefused(opcode, final, rsv) THEN Continue(w)
           ELSE IF ~OutOfPlace(opcode, final) THEN Refuse(w)
           ELSE Refuse([ws EXCEPT !.opcode = opcode, !.final = final, !.mask = ZeroKey])

-----------------------------------------------------------------------------
(* The end of a frame that was parsed byte by byte: spill                  *)

\* A ping is answered when the socket is writable, and dropped if an answer
\* already waits.  A close frame is answered in the same way, and its answer
\* replaces a pong that waits.  A pong is not interesting to Serveri.
PeerClose(state) ==
    CASE state = "established"           -> "returned_close"
      [] state = "waiting_to_send_close" -> "acknowledging"
      [] state = "awaiting_close_ack"    -> "closed"
      [] OTHER                           -> state      \* peer_has_sent_close

SpillControl(w) ==
    /\ pong' = IF \/ w.opcode = CLOSE /\ PeerClose(open) # open
                  \/ w.opcode = PING /\ pong = <<>>
               THEN <<w.rx_ubuf>> ELSE pong
    /\ open' = IF w.opcode = CLOSE THEN PeerClose(open) ELSE open
    /\ UNCHANGED received

\* As if rx_ubuf_head were not reset.
Spill_KeepsBuffer(w) ==
    /\ Parsed([w EXCEPT !.state = "NEW"])
    /\ IF IsControl(w.opcode) THEN SpillControl(w)
       ELSE /\ received' = IF open = "established" THEN Append(received, <<>>)
                                                   ELSE received
            /\ UNCHANGED <<pong, open>>
    /\ UNCHANGED <<wire, sent, pongs, cuts>>

\* An empty data frame is a RECEIVE of no bytes, unless we are closing.
Spill(w) ==
    /\ Parsed([w EXCEPT !.state = "NEW", !.rx_ubuf = <<>>])
    /\ IF IsControl(w.opcode) THEN SpillControl(w)
       ELSE /\ received' = IF open = "established" THEN Append(received, <<>>)
                                                   ELSE received
            /\ UNCHANGED <<pong, open>>
    /\ UNCHANGED <<wire, sent, pongs, cuts>>

\* The length byte: the key is next, the payload, or more length bytes.
LengthByte ==
    LET length == Head(buf) % 128
        masked == Head(buf) >= 128
        w == [ws EXCEPT !.masked = masked, !.rx_packet_length = length]
    IN  /\ AtByte("LEN")
        /\ CASE length >= 126 /\ IsControl(ws.opcode) -> Bail
             [] length >= 126 /\ ~IsControl(ws.opcode) ->
                    Continue([w EXCEPT !.state = "LENEXT", !.rx_packet_length = 0,
                                       !.need = IF length = 126 THEN 2 ELSE 8])
             [] length < 126 /\ masked ->
                    Continue([w EXCEPT !.state = "KEY", !.need = 4])
             [] length \in 1..125 /\ ~masked -> Continue([w EXCEPT !.state = "PAYLOAD"])
             [] OTHER -> Spill(w)         \* no payload and no key

\* LWS_RXPS_04_FRAME_HDR_LEN16 and LEN64: most significant byte first.  Bit
\* 63 must be zero.
ExtendedLengthByte ==
    LET w == [ws EXCEPT !.rx_packet_length = 256 * @ + Head(buf), !.need = @ - 1]
    IN  /\ AtByte("LENEXT")
        /\ IF ws.need = 8 /\ Head(buf) >= 128 THEN Bail
           ELSE Continue(IF ws.need > 1 THEN w
                         ELSE IF ws.masked THEN [w EXCEPT !.state = "KEY", !.need = 4]
                         ELSE [w EXCEPT !.state = "PAYLOAD"])

KeyByte ==
    LET w == [ws EXCEPT !.mask[4 - ws.need] = Head(buf), !.need = @ - 1]
    IN  /\ AtByte("KEY")
        /\ CASE ws.need > 1 -> Continue(w)
             [] ws.need = 1 /\ ws.rx_packet_length > 0 ->
                    Continue([w EXCEPT !.state = "PAYLOAD", !.mask_idx = 0])
             [] OTHER -> Spill([w EXCEPT !.mask_idx = 0])

\* The payload of a control frame is collected until it is complete.
ControlByte ==
    LET w == [ws EXCEPT !.rx_ubuf = Append(@, Xor(Head(buf), ws.mask[ws.mask_idx])),
                        !.mask_idx = (@ + 1) % 4, !.rx_packet_length = @ - 1]
    IN  /\ AtByte("PAYLOAD")
        /\ IsControl(ws.opcode)
        /\ IF w.rx_packet_length > 0 THEN Continue(w) ELSE Spill(w)

-----------------------------------------------------------------------------
(* lws_ws_frame_rest_is_payload: data frames in bulk                       *)

\* As if the key started anew with every piece.
Unmask_Restarts(piece) ==
    [i \in DOMAIN piece |-> Xor(piece[i], ws.mask[(i - 1) % 4])]

\* The position in the key is carried from one piece to the next.
Unmask(piece) ==
    [i \in DOMAIN piece |-> Xor(piece[i], ws.mask[(ws.mask_idx + i - 1) % 4])]

\* As if the limits of the frame and of the read were not applied.
Avail_Unlimited == Len(buf)

\* No more than rx_buffer_size, than the frame has left and than was read.
Avail == Min({RxBufferSize, ws.rx_packet_length, Len(buf)})

\* As if wsistate_pre_close were not looked at.
Deliver_Always(piece) == received' = Append(received, piece)

\* RECEIVE, unless a frame was refused: then the stream is out of step.
Deliver(piece) ==
    received' = IF Serving THEN Append(received, piece) ELSE received

\* RECEIVE with what there is.  A cut is remembered if the read ends within
\* the frame.
Bulk ==
    /\ AtByte("PAYLOAD")
    /\ ~IsControl(ws.opcode)
    /\ Avail > 0
    /\ Deliver(Unmask(SubSeq(buf, 1, Avail)))
    /\ buf' = SubSeq(buf, Avail + 1, Len(buf))
    /\ ws' = [ws EXCEPT !.rx_packet_length = @ - Avail,
                        !.mask_idx = (@ + Avail) % 4,
                        !.state = IF ws.rx_packet_length = Avail THEN "NEW" ELSE @]
    /\ cuts' = IF Serving /\ buf' = <<>> THEN cuts \cup {Len(FlattenSeq(received'))} ELSE cuts
    /\ UNCHANGED <<wire, pong, open, sent, pongs>>

\* An unmasked frame whose extended length is zero ends without a RECEIVE.
BulkEmpty ==
    /\ AtByte("PAYLOAD")
    /\ ~IsControl(ws.opcode)
    /\ Avail = 0
    /\ ws' = [ws EXCEPT !.state = "NEW"]
    /\ UNCHANGED <<wire, buf, pong, open, received, sent, pongs, cuts>>

\* rops_handle_POLLOUT_ws, once poll has reported POLLOUT: the answer is
\* written.  It is always between two reads.
SendPong ==
    /\ open \in {"established", "returned_close", "acknowledging"} /\ buf = <<>>
    /\ pong # <<>>
    /\ IF open # "established" THEN open' = "closed" /\ UNCHANGED pongs
       ELSE pongs' = pongs \o pong /\ UNCHANGED open
    /\ pong' = <<>>
    /\ UNCHANGED <<wire, buf, ws, received, sent, cuts>>

\* The close frame that gives the reason is written.  POLLOUT stays requested, so
\* that the writeable callback of the protocol still comes; the timeout of 5
\* seconds for the acknowledgement is a timer that the server never runs.
SendClose ==
    /\ open = "waiting_to_send_close" /\ buf = <<>>
    /\ open' = "awaiting_close_ack"
    /\ UNCHANGED <<wire, buf, ws, pong, received, sent, pongs, cuts>>

\* "we started close flow, forget pong"
ForgetPong ==
    /\ open = "awaiting_close_ack" /\ buf = <<>>
    /\ pong # <<>>
    /\ pong' = <<>>
    /\ UNCHANGED <<wire, buf, ws, open, received, sent, pongs, cuts>>

Next ==
    \/ \E f \in Frames : Send(f)
    \/ \E n \in 1..ReadMax : Read(n)
    \/ FirstByte \/ LengthByte \/ ExtendedLengthByte \/ KeyByte
    \/ ControlByte \/ Bulk \/ BulkEmpty
    \/ SendPong \/ SendClose \/ ForgetPong

Spec == Init /\ [][Next]_vars

-----------------------------------------------------------------------------
(* Properties                                                              *)

IsData(f) == ~IsControl(f.opcode)

InMessage(frames, k) ==
    LET Data == {i \in 1..k : IsData(frames[i])}
    IN  Data # {} /\ ~frames[Max(Data)].final

\* What a client may send to this build: what the protocol allows, and the bit
\* RSV1, which the protocol reserves and the build accepts.  A continuation
\* without a message to continue, a new message inside another one, a control
\* frame in fragments or with an extended length, the other reserved bits and
\* reserved opcodes are refused.
LegalFrame(frames, k) ==
    LET f == frames[k]
    IN  /\ f.rsv \in {0, 4} /\ ~f.bit63
        /\ f.opcode \in {CONTINUATION, TEXT, BINARY, CLOSE, PING, PONG}
        /\ IF IsControl(f.opcode) THEN f.final /\ f.ext = 0
           ELSE (f.opcode = CONTINUATION) <=> InMessage(frames, k - 1)

\* The frames before the first one that is refused.
LegalSent == LET Bad == {k \in DOMAIN sent : ~LegalFrame(sent, k)}
             IN  IF Bad = {} THEN sent ELSE SubSeq(sent, 1, Min(Bad) - 1)

\* The payload bytes of data frames.
DataOf(frames) ==
    FlattenSeq([i \in DOMAIN frames |-> IF IsData(frames[i]) THEN frames[i].payload
                                                             ELSE <<>>])

Drained == wire = <<>> /\ buf = <<>> /\ Serving

\* However reads cut the stream, the RECEIVE callbacks together get exactly the
\* payload bytes that were sent, unmasked and in order, with control frames
\* between and inside them; and nothing from the first refused frame on, although
\* the bytes that follow it are parsed, out of step, until the connection is
\* closed.  (The payload of a frame with RSV1 set is given to them as it is.)
NothingLost ==
    LET got == FlattenSeq(received)
    IN  /\ IsPrefix(got, DataOf(LegalSent))
        /\ Drained => got = DataOf(sent)

\* Where the data of the i-th frame ends in the stream of payload bytes.
FrameEnds == {Len(DataOf(SubSeq(sent, 1, i))) : i \in 0..Len(sent)}

\* A message is split only at the ends of its frames, where a read ended, and
\* when rx_buffer_size is full: a light packet that fits the buffer and came
\* with one read is given to lightPacket whole, and never with bytes of another.
SplitsExplained ==
    \A k \in DOMAIN received :
        LET end   == Len(FlattenSeq(SubSeq(received, 1, k)))
            start == end - Len(received[k])
        IN  /\ \/ end \in FrameEnds \cup cuts
               \/ Len(received[k]) = RxBufferSize
            /\ ~\E e \in FrameEnds : start < e /\ e < end

\* The server starts to close a connection for a frame that this build refuses
\* and for no other reason, and closes it for that or for a close frame: the flags
\* that fragments and control frames between them leave behind never condemn a
\* client that follows the rules.  No refused frame is passed over.
DroppedIffIllegal ==
    /\ Refusing => LegalSent # sent
    /\ open = "closed" => \/ LegalSent # sent
                          \/ \E i \in DOMAIN sent : sent[i].opcode = CLOSE
    /\ Drained => LegalSent = sent

\* Pongs carry the whole payload of pings, in the order of the pings, although
\* their bytes come in several reads and in the middle of a message.
PongsEcho ==
    \E ping \in [DOMAIN pongs -> DOMAIN sent] :
        /\ \A i \in DOMAIN pongs : /\ sent[ping[i]].opcode = PING
                                   /\ pongs[i] = sent[ping[i]].payload
        /\ \A i, j \in DOMAIN pongs : i < j => ping[i] < ping[j]

\* What lightPacket is given is a message that the client sent.
\* "To support fragmented messages you need to check for the final frame of a
\* message": the callback does not.
MessagesWhole ==
    \A k \in DOMAIN received :
        \E i \in DOMAIN sent : IsData(sent[i]) /\ received[k] = sent[i].payload

=============================================================================
