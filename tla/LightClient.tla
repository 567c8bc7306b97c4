---------------------------- MODULE LightClient -----------------------------
(***************************************************************************)
(* A light client and the UDP path of its packets: the Instanssi class of  *)
(* use_examples/instanssiController.py builds a packet command by command  *)
(* and sends it; UDP may lose and reorder datagrams; Serveri::run reads    *)
(* one into a buffer that it keeps from round to round and hands the bytes *)
(* of the datagram to the parser.                                          *)
(***************************************************************************)
EXTENDS DMXController, SequencesExt

CONSTANTS
    Nick,          \* the client's nick, as character codes
    Commands,      \* the (index, r, g, b) the client may set
    BufLen,        \* bytes in the receive buffer: 2048 in the code
    MaxCommands,   \* bound: commands in a packet
    MaxInFlight    \* bound: datagrams on the way

\* A nick has no NUL and fits in the buffer.  An index fits in 7 bits: lights
\* with channels of their own cannot be more than 128.
ASSUME ClientAssumption ==
    /\ Nick \in Seq(1..255)
    /\ Commands \subseteq [index : 0..127, color : Color]
    /\ BufLen \in Nat /\ BufLen >= Len(Nick) + 3

VARIABLES
    packet,     \* Instanssi.packet
    wanted,     \* the commands set since the packet was reset
    wire,       \* datagrams on the way, with the commands they stand for
    buffer,     \* the buffer of Serveri::run
    received    \* the parsed packets: what was wanted and what was understood

vars == <<packet, wanted, wire, buffer, received>>

-----------------------------------------------------------------------------

\* Instanssi.reset
Header == <<1, 0>> \o Nick \o <<0>>

\* The six bytes of Instanssi.set
CommandBytes(l) == <<1, l.index, 0, l.color.red, l.color.green, l.color.blue>>

Init ==
    /\ packet = Header
    /\ wanted = <<>>
    /\ wire = <<>>
    /\ buffer = [i \in 1..BufLen |-> 0]
    /\ received = <<>>

Set(l) ==
    /\ Len(wanted) < MaxCommands
    /\ packet' = packet \o CommandBytes(l)
    /\ wanted' = Append(wanted, l)
    /\ UNCHANGED <<wire, buffer, received>>

\* Instanssi.send: the datagram leaves and the packet is reset.
Send ==
    /\ Len(wire) < MaxInFlight
    /\ wire' = Append(wire, [bytes |-> packet, lights |-> wanted])
    /\ packet' = Header
    /\ wanted' = <<>>
    /\ UNCHANGED <<buffer, received>>

Lose ==
    /\ \E i \in DOMAIN wire : wire' = RemoveAt(wire, i)
    /\ UNCHANGED <<packet, wanted, buffer, received>>

-----------------------------------------------------------------------------

\* recvfrom cuts a datagram that is longer than the buffer, and leaves the
\* bytes behind a shorter one as they were.
RecvLen(bytes) == Min({Len(bytes), BufLen})

Recv(old, bytes) ==
    [i \in 1..BufLen |-> IF i <= RecvLen(bytes) THEN bytes[i] ELSE old[i]]

\* As if the whole buffer were parsed.
Span_Whole(buf, len) == buf

\* make_span(buffer).first(len)
Span(buf, len) == SubSeq(buf, 1, len)

Deliver ==
    \E i \in DOMAIN wire :
        /\ buffer' = Recv(buffer, wire[i].bytes)
        /\ received' = <<[lights |-> wire[i].lights,
                          parsed |-> parseLightPacket(
                                         Span(buffer', RecvLen(wire[i].bytes)))]>>
        /\ wire' = RemoveAt(wire, i)
        /\ UNCHANGED <<packet, wanted>>

Next == (\E l \in Commands : Set(l)) \/ Send \/ Lose \/ Deliver

Spec == Init /\ [][Next]_vars

-----------------------------------------------------------------------------

\* What the server understands is what the client set: its nick and its
\* commands in order.  A packet longer than the buffer loses commands at its
\* end only, and nothing that an earlier datagram left in the buffer is read.
Intended ==
    \A k \in DOMAIN received :
        LET fits == (BufLen - Len(Header)) \div 6
            n == Min({fits, Len(received[k].lights)})
        IN  /\ received[k].parsed.tag = Nick
            /\ received[k].parsed.lights = SubSeq(received[k].lights, 1, n)

=============================================================================
