--------------------------- MODULE DMXController ----------------------------
(***************************************************************************)
(* DMXController.cpp: the lights of the configuration, and the packet the  *)
(* controller keeps and writes to the DMX adapter.  Packet bytes are       *)
(* numbered from 0 as in the code.                                         *)
(***************************************************************************)
EXTENDS LightPacket

CONSTANTS
    ConfigLights,   \* the [lightN] sections, from N = 0: type and address
    PacketSize      \* bytes in the DMX packet: 517 in the code

\* Config::get returns a non-negative int.  uint8_t truncates it, so the last
\* byte a light can reach is 255 + 4 + 4, which lies before the terminator.
ASSUME LightsAssumption ==
    /\ ConfigLights \in Seq([type : {"rgb", "uv"}, address : Nat])
    /\ PacketSize \in Nat /\ PacketSize >= 6
    /\ \A i \in DOMAIN ConfigLights :
           (ConfigLights[i].address % 256) + 8 < PacketSize - 1
    /\ Len(ConfigLights) <= UIntRange

LightIds == 0..(Len(ConfigLights) - 1)

\* LightsConfig::parse.  numChannels is read but nothing uses it.
LightsConfig ==
    [i \in LightIds |-> [type    |-> ConfigLights[i + 1].type,
                         address |-> ConfigLights[i + 1].address % 256]]

Offsets == 0..(PacketSize - 1)

\* The packet the constructor makes: header and terminator around zeros.
EmptyPacket ==
    [o \in Offsets |-> IF o \in 0..3 THEN <<126, 6, 0, 2>>[o + 1]
                      ELSE IF o = PacketSize - 1 THEN 231 ELSE 0]

-----------------------------------------------------------------------------

Intensity(c) == (77 * c.red + 150 * c.green + 29 * c.blue) \div 256

\* The bytes that light i with colour c is given, first channel first.
ChannelBytes(i, c) ==
    IF LightsConfig[i].type = "rgb"
    THEN <<c.red, c.green, c.blue, 255, 0>>
    ELSE <<Intensity(c), 0>>

\* As if DMX channels were counted from the start of the packet.
FirstChannel_NoHeader(i) == LightsConfig[i].address

FirstChannel(i) == LightsConfig[i].address + 4

NumBytes(i) == IF LightsConfig[i].type = "rgb" THEN 5 ELSE 2

\* The packet offsets that setLightColor writes for light i.
Channels(i) == FirstChannel(i)..(FirstChannel(i) + NumBytes(i) - 1)

\* What a command leaves in the packet at offset o, one of its channels.
ChannelByte(l, o) == ChannelBytes(l.index, l.color)[o - FirstChannel(l.index) + 1]

\* A bad index changes nothing.
setLightColor(packet, l) ==
    IF l.index \notin LightIds THEN packet
    ELSE [o \in Offsets |-> IF o \in Channels(l.index) THEN ChannelByte(l, o)
                                                       ELSE packet[o]]

\* As if the first command to write a byte won.
setLightColors_FirstWins(packet, lights) ==
    LET Writers(o) == {k \in DOMAIN lights : /\ lights[k].index \in LightIds
                                             /\ o \in Channels(lights[k].index)}
    IN  [o \in Offsets |-> IF Writers(o) = {} THEN packet[o]
                           ELSE ChannelByte(lights[Min(Writers(o))], o)]

\* setLightColor for each command of a packet in turn: at every offset the
\* last command that writes it wins.
setLightColors(packet, lights) ==
    LET Writers(o) == {k \in DOMAIN lights : /\ lights[k].index \in LightIds
                                             /\ o \in Channels(lights[k].index)}
    IN  [o \in Offsets |-> IF Writers(o) = {} THEN packet[o]
                           ELSE ChannelByte(lights[Max(Writers(o))], o)]

-----------------------------------------------------------------------------

\* No two lights write a common byte: what a valid configuration provides.
NoOverlap ==
    \A i, j \in LightIds : i # j => Channels(i) \cap Channels(j) = {}

\* The packet has the bytes that show colour c on light i.
Shows(packet, i, c) ==
    \A o \in Channels(i) : packet[o] = ChannelByte([index |-> i, color |-> c], o)

\* DMX counts channels from 1: no light starts at the start code, byte 4.
AddressesCountFromOne == \A i \in LightIds : LightsConfig[i].address # 0

\* The bytes that are no channel of any light: header and terminator.
FramingIntact(packet) ==
    \A o \in (0..3) \cup {PacketSize - 1} : packet[o] = EmptyPacket[o]

=============================================================================
