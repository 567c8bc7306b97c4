---------------------------- MODULE ServeriShow -----------------------------
(***************************************************************************)
(* The server implements LightShow.  What the monitors are sent is read    *)
(* the way monitor.html reads it, and what is on stage is read from the    *)
(* DMX packet the way the lights do: by their address.                     *)
(***************************************************************************)
EXTENDS Serveri

\* Six hexadecimal digits as a colour, which monitor.html leaves to CSS.
ColorOf(hex) ==
    [red   |-> 16 * hex[1] + hex[2],
     green |-> 16 * hex[3] + hex[4],
     blue  |-> 16 * hex[5] + hex[6]]

Decode(m) == [tag |-> m.tag, lights |-> [i \in DOMAIN m.lights |-> ColorOf(m.lights[i])]]

Decoded(messages) == [k \in DOMAIN messages |-> Decode(messages[k])]

\* The messages that the client of c will still be shown.
Pending(c) == IF Gone(c) THEN <<>> ELSE Decoded(tx[c] \o wsi[c].backlog)

\* DMX slot n is byte n + 4 of the packet.
Slot(packet, n) == packet[n + 4]

Emitted(packet, i) ==
    LET a == LightsConfig[i].address
    IN  IF LightsConfig[i].type = "rgb"
        THEN [red   |-> Slot(packet, a),
              green |-> Slot(packet, a + 1),
              blue  |-> Slot(packet, a + 2)]
        ELSE Slot(packet, a)

OnStage(packets) == [k \in DOMAIN packets |-> [i \in LightIds |-> Emitted(packets[k], i)]]

LS == INSTANCE LightShow WITH
          Viewers   <- Conns,
          Updates   <- {Understood[p] : p \in Packets},
          Lossy     <- "tty" \in Faults,
          state     <- currentState,
          published <- Decode(monitorMessage),
          stage     <- OnStage(tty),
          viewers   <- monitorConnections,
          feed      <- [c \in Conns |-> Pending(c)],
          view      <- [c \in Conns |-> Decoded(shown[c])]

\* If lights have channels of their own, the server implements the light
\* show: packets that arrive in any way and order change one state; what is
\* published is that state at one moment, the same for the DMX adapter and for
\* all monitors; monitors are shown published states, in order, through unsent
\* rests and reconnections; and nobody else is sent anything.
ImplementsShow == LS!Spec

=============================================================================
