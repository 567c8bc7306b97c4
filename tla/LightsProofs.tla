---------------------------- MODULE LightsProofs ----------------------------
(***************************************************************************)
(* What the parser and the DMX packet operators return, for every packet   *)
(* and every configuration.                                                *)
(***************************************************************************)
EXTENDS DMXController, SubsequencesProofs

\* Min is the least element of a non-empty set of naturals.
LEMMA MinOfNats ==
    ASSUME NEW T \in SUBSET Nat, T # {}
    PROVE  Min(T) \in T /\ \A m \in T : Min(T) <= m
<1>1. \E n \in T : \A m \in T : n =< m
    BY LeastNat
<1>2. QED
    BY <1>1 DEF Min

\* Max is the greatest element of a non-empty set of positions.
LEMMA MaxOfPositions ==
    ASSUME NEW n \in Nat, NEW T \in SUBSET (1..n), T # {}
    PROVE  Max(T) \in T /\ \A m \in T : Max(T) >= m
<1> DEFINE U == {d \in Nat : \E m \in T : d = n - m}
<1>1. U \in SUBSET Nat /\ U # {}
    <2>1. PICK m \in T : TRUE
        OBVIOUS
    <2>2. n - m \in U
        OBVIOUS
    <2>3. QED
        BY <2>2
<1>2. PICK d \in U : \A e \in U : d <= e
    BY <1>1, LeastNat
<1>3. PICK x \in T : d = n - x
    OBVIOUS
<1>4. ASSUME NEW y \in T PROVE x >= y
    <2>1. n - y \in U
        OBVIOUS
    <2>2. QED
        BY <1>2, <1>3, <2>1
<1>5. \E z \in T : \A y \in T : z >= y
    BY <1>4
<1>6. QED
    BY <1>5 DEF Max

-----------------------------------------------------------------------------

\* The end of the tag lies inside the packet, and the commands start behind it.
LEMMA BaseOffsetType ==
    ASSUME NEW p \in Seq(Byte), WellFormed(p)
    PROVE  /\ BaseOffset(p) \in 3..Len(p)
           /\ TagEnds(p) # {} => /\ Min(TagEnds(p)) \in TagEnds(p)
                                 /\ \A i \in TagEnds(p) : Min(TagEnds(p)) <= i
<1>1. TagEnds(p) \in SUBSET Nat
    BY DEF TagEnds
<1>2. TagEnds(p) # {} => /\ Min(TagEnds(p)) \in TagEnds(p)
                         /\ \A i \in TagEnds(p) : Min(TagEnds(p)) <= i
    BY <1>1, MinOfNats
<1>3. CASE TagEnds(p) = {}
    BY <1>3 DEF BaseOffset, WellFormed
<1>4. CASE TagEnds(p) # {}
    <2>1. Min(TagEnds(p)) \in 2..(Len(p) - 1)
        BY <1>2, <1>4 DEF TagEnds
    <2>2. QED
        BY <1>2, <1>4, <2>1 DEF BaseOffset
<1>5. QED
    BY <1>3, <1>4

\* No read of parseLightPacket is past the end of the packet.
THEOREM ParserReadsInBounds ==
    ASSUME NEW p \in Seq(Byte), WellFormed(p)
    PROVE  /\ MaxCount(p) \in Nat
           /\ \A i \in 1..MaxCount(p) : \A n \in 0..5 :
                  BaseOffset(p) + (i - 1) * 6 + n + 1 \in DOMAIN p
<1>1. BaseOffset(p) \in 3..Len(p) /\ Len(p) \in Nat /\ DOMAIN p = 1..Len(p)
    BY BaseOffsetType
<1>2. MaxCount(p) \in Nat /\ MaxCount(p) * 6 <= Len(p) - BaseOffset(p)
    BY <1>1 DEF MaxCount
<1>3. ASSUME NEW i \in 1..MaxCount(p), NEW n \in 0..5
      PROVE  BaseOffset(p) + (i - 1) * 6 + n + 1 \in DOMAIN p
    <2>1. ASSUME NEW b \in Int, NEW m \in Int, NEW l \in Int, 3 <= b, i <= m,
                 m * 6 <= l - b
          PROVE  b + (i - 1) * 6 + n + 1 \in 1..l
        BY <2>1
    <2>2. i <= MaxCount(p)
        OBVIOUS
    <2>3. QED
        BY <1>1, <1>2, <2>1, <2>2
<1>4. QED
    BY <1>2, <1>3

\* A command of the packet is a light index and a colour.
LEMMA CommandType ==
    ASSUME NEW p \in Seq(Byte), WellFormed(p), NEW i \in 1..MaxCount(p)
    PROVE  Command(p, i) \in LightColor
<1>1. \A n \in 0..5 : CommandByte(p, i, n) \in Byte
    <2>1. \A n \in 0..5 : BaseOffset(p) + (i - 1) * 6 + n + 1 \in DOMAIN p
        BY ParserReadsInBounds
    <2>2. \A k \in DOMAIN p : p[k] \in Byte
        OBVIOUS
    <2>3. QED
        BY <2>1, <2>2 DEF CommandByte
<1>2. ASSUME NEW b \in Byte PROVE CharToUInt(b) \in LightIndex
    BY UIntAssumption DEF CharToUInt, LightIndex, Byte
<1>3. QED
    BY <1>1, <1>2 DEF Command, LightColor, Color

\* The parser returns a tag and a list of commands, whatever the packet.
THEOREM ParserType ==
    ASSUME NEW p \in Seq(Byte)
    PROVE  parseLightPacket(p) \in [tag : Seq(Byte), lights : Seq(LightColor)]
<1>1. CASE ~WellFormed(p)
    BY <1>1 DEF parseLightPacket
<1>2. CASE WellFormed(p)
    <2>1. ParsedTag(p) \in Seq(Byte)
        <3>1. CASE TagEnds(p) = {}
            BY <3>1 DEF ParsedTag
        <3>2. CASE TagEnds(p) # {}
            <4>1. Min(TagEnds(p)) \in 2..(Len(p) - 1)
                BY <1>2, <3>2, BaseOffsetType DEF TagEnds
            <4>2. QED
                BY <3>2, <4>1 DEF ParsedTag
        <3>3. QED
            BY <3>1, <3>2
    <2>2. ParsedLights(p) \in Seq(LightColor)
        <3> DEFINE all == [i \in 1..MaxCount(p) |-> Command(p, i)]
        <3>1. MaxCount(p) \in Nat
            BY <1>2, ParserReadsInBounds
        <3>2. all \in Seq(LightColor) /\ DOMAIN all = 1..MaxCount(p)
            BY <1>2, <3>1, CommandType
        <3>3. LightCommands(p) \in SUBSET (DOMAIN all)
            BY <3>2 DEF LightCommands
        <3> HIDE DEF all
        <3>4. Subsequence(all, LightCommands(p)) \in Seq(LightColor)
            BY <3>2, <3>3, SubsequenceType
        <3>5. QED
            BY <3>4 DEF ParsedLights, all
    <2>3. QED
        BY <1>2, <2>1, <2>2 DEF parseLightPacket
<1>3. QED
    BY <1>1, <1>2

\* A filtered tag is a sequence of whitelisted characters, each one of which
\* was in the tag.
THEOREM FilterTagType ==
    ASSUME NEW tag \in Seq(Byte)
    PROVE  /\ FilterTag(tag) \in Seq(Byte)
           /\ \A k \in DOMAIN FilterTag(tag) :
                  /\ FilterTag(tag)[k] \in Whitelist
                  /\ \E i \in DOMAIN tag : FilterTag(tag)[k] = tag[i]
<1> DEFINE K == {i \in DOMAIN tag : tag[i] \in Whitelist}
<1>1. K \in SUBSET (DOMAIN tag)
    OBVIOUS
<1>2. FilterTag(tag) = Subsequence(tag, K)
    BY DEF FilterTag
<1>3. \A i \in K : i \in DOMAIN tag /\ tag[i] \in Whitelist
    OBVIOUS
<1> HIDE DEF K
<1>4. Subsequence(tag, K) \in Seq(Byte)
    BY <1>1, SubsequenceType
<1>5. \A k \in DOMAIN Subsequence(tag, K) : \E i \in K : Subsequence(tag, K)[k] = tag[i]
    BY <1>1, SubsequenceElements
<1>6. QED
    BY <1>2, <1>3, <1>4, <1>5

-----------------------------------------------------------------------------

\* The configured lights have a type and an 8-bit address.
LEMMA LightsConfigType ==
    ASSUME NEW i \in LightIds
    PROVE  /\ LightsConfig[i].type \in {"rgb", "uv"}
           /\ LightsConfig[i].address \in Nat
           /\ LightsConfig[i].address + 8 < PacketSize - 1
<1>1. Len(ConfigLights) \in Nat /\ DOMAIN ConfigLights = 1..Len(ConfigLights)
    BY LightsAssumption
<1>2. i \in Int /\ i + 1 \in DOMAIN ConfigLights
    BY <1>1 DEF LightIds
<1>3. ConfigLights[i + 1] \in [type : {"rgb", "uv"}, address : Nat]
    <2>1. ASSUME NEW S, NEW s \in Seq(S), NEW k \in DOMAIN s PROVE s[k] \in S
        BY <2>1
    <2>2. QED
        BY <1>2, <2>1, LightsAssumption
<1>4. LightsConfig[i] = [type    |-> ConfigLights[i + 1].type,
                         address |-> ConfigLights[i + 1].address % 256]
    BY DEF LightsConfig
<1>5. ConfigLights[i + 1].address % 256 \in Nat
    BY <1>3
<1>6. QED
    BY <1>2, <1>3, <1>4, <1>5, LightsAssumption

\* A light's channels lie between the header and the terminator.
LEMMA ChannelsInPacket ==
    ASSUME NEW i \in LightIds
    PROVE  /\ FirstChannel(i) \in Nat
           /\ NumBytes(i) \in {2, 5}
           /\ Channels(i) \in SUBSET (4..(PacketSize - 2))
<1>1. PacketSize \in Int
    BY LightsAssumption
<1>2. QED
    BY <1>1, LightsConfigType DEF FirstChannel, NumBytes, Channels

\* The weights of the intensity add up to 256: it is a byte.
LEMMA IntensityType ==
    ASSUME NEW c \in Color
    PROVE  Intensity(c) \in Byte
<1>1. c.red \in 0..255 /\ c.green \in 0..255 /\ c.blue \in 0..255
    BY DEF Color, Byte
<1>2. ASSUME NEW r \in 0..255, NEW g \in 0..255, NEW b \in 0..255
      PROVE  (77 * r + 150 * g + 29 * b) \div 256 \in 0..255
    OBVIOUS
<1>3. QED
    BY <1>1, <1>2 DEF Intensity, Byte

\* What a command writes to one of its channels is a byte.
LEMMA ChannelByteType ==
    ASSUME NEW l \in LightColor, l.index \in LightIds, NEW o \in Channels(l.index)
    PROVE  ChannelByte(l, o) \in Byte
<1>1. l.color \in Color
    BY DEF LightColor
<1>2. FirstChannel(l.index) \in Nat /\ o \in Int
    BY ChannelsInPacket DEF Channels
<1>3. o - FirstChannel(l.index) + 1 \in 1..NumBytes(l.index)
    BY <1>2, ChannelsInPacket DEF Channels
<1>4. CASE LightsConfig[l.index].type = "rgb"
    <2>1. l.color.red \in Byte /\ l.color.green \in Byte /\ l.color.blue \in Byte
        BY <1>1 DEF Color
    <2>2. \A n \in 1..5 : <<l.color.red, l.color.green, l.color.blue, 255, 0>>[n] \in Byte
        BY <2>1 DEF Byte
    <2>3. QED
        BY <1>3, <1>4, <2>2 DEF ChannelByte, ChannelBytes, NumBytes
<1>5. CASE LightsConfig[l.index].type # "rgb"
    <2>1. Intensity(l.color) \in Byte
        BY <1>1, IntensityType
    <2>2. \A n \in 1..2 : <<Intensity(l.color), 0>>[n] \in Byte
        BY <2>1 DEF Byte
    <2>3. QED
        BY <1>3, <1>5, <2>2 DEF ChannelByte, ChannelBytes, NumBytes
<1>6. QED
    BY <1>4, <1>5

\* The commands that write offset o, as in setLightColors.
Writers(lights, o) ==
    {k \in DOMAIN lights : /\ lights[k].index \in LightIds
                           /\ o \in Channels(lights[k].index)}

\* What setLightColors puts at an offset.
LEMMA SetLightColorsAt ==
    ASSUME NEW packet, NEW lights \in Seq(LightColor), NEW o \in Offsets
    PROVE  \/ /\ Writers(lights, o) = {}
              /\ setLightColors(packet, lights)[o] = packet[o]
           \/ \E k \in Writers(lights, o) :
                  /\ \A m \in Writers(lights, o) : k >= m
                  /\ setLightColors(packet, lights)[o] = ChannelByte(lights[k], o)
<1> DEFINE W == Writers(lights, o)
<1>1. setLightColors(packet, lights)[o] =
          IF W = {} THEN packet[o] ELSE ChannelByte(lights[Max(W)], o)
    BY DEF setLightColors, Writers
<1>2. W \in SUBSET (1..Len(lights)) /\ Len(lights) \in Nat
    BY DEF Writers
<1> HIDE DEF W
<1>3. W # {} => Max(W) \in W /\ \A m \in W : Max(W) >= m
    BY <1>2, MaxOfPositions
<1>4. QED
    BY <1>1, <1>3 DEF W

\* A batch of commands leaves a packet of bytes.
THEOREM SetLightColorsType ==
    ASSUME NEW packet \in [Offsets -> Byte], NEW lights \in Seq(LightColor)
    PROVE  setLightColors(packet, lights) \in [Offsets -> Byte]
<1>1. ASSUME NEW o \in Offsets
      PROVE  setLightColors(packet, lights)[o] \in Byte
    <2>1. CASE Writers(lights, o) = {}
        BY <2>1, SetLightColorsAt
    <2>2. ASSUME NEW k \in Writers(lights, o)
          PROVE  ChannelByte(lights[k], o) \in Byte
        BY ChannelByteType DEF Writers
    <2>3. QED
        BY <2>1, <2>2, SetLightColorsAt
<1>2. setLightColors(packet, lights) =
          [o \in Offsets |-> setLightColors(packet, lights)[o]]
    BY Zenon DEF setLightColors
<1>3. QED
    BY <1>1, <1>2

\* No packet of any client changes the header or the terminator, even where
\* the configuration is not valid.
THEOREM FramingPreserved ==
    ASSUME NEW packet, NEW lights \in Seq(LightColor), FramingIntact(packet)
    PROVE  FramingIntact(setLightColors(packet, lights))
<1> SUFFICES ASSUME NEW o \in (0..3) \cup {PacketSize - 1}
             PROVE  setLightColors(packet, lights)[o] = EmptyPacket[o]
    BY DEF FramingIntact
<1>1. o \in Offsets
    BY LightsAssumption DEF Offsets
<1>2. Writers(lights, o) = {}
    <2>1. \A i \in LightIds : o \notin Channels(i)
        BY ChannelsInPacket, LightsAssumption
    <2>2. QED
        BY <2>1 DEF Writers
<1>3. setLightColors(packet, lights)[o] = packet[o]
    BY <1>1, <1>2, SetLightColorsAt
<1>4. QED
    BY <1>3 DEF FramingIntact

\* No packet of any client changes the start code, where addresses count from
\* one.
THEOREM StartCodePreserved ==
    ASSUME NEW packet, NEW lights \in Seq(LightColor), AddressesCountFromOne
    PROVE  setLightColors(packet, lights)[4] = packet[4]
<1>1. 4 \in Offsets
    BY LightsAssumption DEF Offsets
<1>2. ASSUME NEW i \in LightIds PROVE 4 \notin Channels(i)
    <2>1. LightsConfig[i].address \in Nat \ {0}
        BY LightsConfigType DEF AddressesCountFromOne
    <2>2. QED
        BY <2>1 DEF Channels, FirstChannel
<1>3. Writers(lights, 4) = {}
    BY <1>2 DEF Writers
<1>4. QED
    BY <1>1, <1>3, SetLightColorsAt

=============================================================================
