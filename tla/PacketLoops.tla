---------------------------- MODULE PacketLoops -----------------------------
(***************************************************************************)
(* The loops of parseLightPacket and of Serveri::lightPacket, one turn at  *)
(* a time: the scan for the end of the tag, the commands, the erasing of   *)
(* the tag's characters that are not whitelisted, and a call of            *)
(* setLightColor for each command.  LightPacket and DMXController say what *)
(* these loops compute in closed form, which is what the other modules     *)
(* use.                                                                    *)
(***************************************************************************)
EXTENDS DMXController

CONSTANT Packets    \* the packets that may come

ASSUME PacketsAssumption == Packets \subseteq Seq(Byte)

VARIABLES
    packet,
    pc,             \* "start", the loop that is running, or "done"
    i,              \* the loop's counter
    tag,            \* ret.tag
    baseOffset,
    lights,         \* ret.lights
    text,           \* the tag that lightPacket erases from
    dmx             \* DMXController::dmxPacket

vars == <<packet, pc, i, tag, baseOffset, lights, text, dmx>>

Init ==
    /\ packet \in Packets
    /\ pc = "start" /\ i = 0
    /\ tag = <<>> /\ baseOffset = 3 /\ lights = <<>>
    /\ text = <<>>
    /\ dmx = EmptyPacket

\* The loop is left for the one called next, which counts from 0.
GoTo(next) == pc' = next /\ i' = 0

\* parseLightPacket returns, and the tag is copied to be filtered.
Return == GoTo("filter") /\ text' = tag

-----------------------------------------------------------------------------

Rejected ==
    /\ pc = "start" /\ ~WellFormed(packet)
    /\ Return
    /\ UNCHANGED <<packet, tag, baseOffset, lights, dmx>>

Accepted ==
    /\ pc = "start" /\ WellFormed(packet)
    /\ pc' = "tag" /\ i' = 2
    /\ UNCHANGED <<packet, tag, baseOffset, lights, text, dmx>>

TagByte ==
    /\ pc = "tag" /\ i < Len(packet) /\ packet[i + 1] # 0
    /\ i' = i + 1
    /\ UNCHANGED <<packet, pc, tag, baseOffset, lights, text, dmx>>

TagEnd ==
    /\ pc = "tag" /\ i < Len(packet) /\ packet[i + 1] = 0
    /\ tag' = SubSeq(packet, 3, i)
    /\ baseOffset' = i + 1
    /\ GoTo("commands")
    /\ UNCHANGED <<packet, lights, text, dmx>>

NoTagEnd ==
    /\ pc = "tag" /\ i >= Len(packet)
    /\ GoTo("commands")
    /\ UNCHANGED <<packet, tag, baseOffset, lights, text, dmx>>

-----------------------------------------------------------------------------

\* As if the tag had no bytes.
maxCount_NoTag == (Len(packet) - 3) \div 6

maxCount == (Len(packet) - baseOffset) \div 6

offset == baseOffset + i * 6

OtherCommand ==
    /\ pc = "commands" /\ i < maxCount /\ packet[offset + 1] # 1
    /\ i' = i + 1
    /\ UNCHANGED <<packet, pc, tag, baseOffset, lights, text, dmx>>

LightCommand ==
    /\ pc = "commands" /\ i < maxCount /\ packet[offset + 1] = 1
    /\ lights' = Append(lights, [index |-> CharToUInt(packet[offset + 2]),
                                 color |-> [red   |-> packet[offset + 4],
                                            green |-> packet[offset + 5],
                                            blue  |-> packet[offset + 6]]])
    /\ i' = i + 1
    /\ UNCHANGED <<packet, pc, tag, baseOffset, text, dmx>>

NoMoreCommands ==
    /\ pc = "commands" /\ i >= maxCount
    /\ Return
    /\ UNCHANGED <<packet, tag, baseOffset, lights, dmx>>

-----------------------------------------------------------------------------

GoodCharacter ==
    /\ pc = "filter" /\ i < Len(text) /\ text[i + 1] \in Whitelist
    /\ i' = i + 1
    /\ UNCHANGED <<packet, pc, tag, baseOffset, lights, text, dmx>>

\* The text without the character at the iterator.
Erased == SubSeq(text, 1, i) \o SubSeq(text, i + 2, Len(text))

\* As if the loop went on behind the character that moved to this place.
ErasedAt_Skips == i + 1

\* The iterator that erase returns.
ErasedAt == i

BadCharacter ==
    /\ pc = "filter" /\ i < Len(text) /\ text[i + 1] \notin Whitelist
    /\ text' = Erased /\ i' = ErasedAt
    /\ UNCHANGED <<packet, pc, tag, baseOffset, lights, dmx>>

NoMoreCharacters ==
    /\ pc = "filter" /\ i >= Len(text)
    /\ GoTo("lights")
    /\ UNCHANGED <<packet, tag, baseOffset, lights, text, dmx>>

SetLight ==
    /\ pc = "lights" /\ i < Len(lights)
    /\ dmx' = setLightColor(dmx, lights[i + 1])
    /\ i' = i + 1
    /\ UNCHANGED <<packet, pc, tag, baseOffset, lights, text>>

NoMoreLights ==
    /\ pc = "lights" /\ i >= Len(lights)
    /\ pc' = "done"
    /\ UNCHANGED <<packet, i, tag, baseOffset, lights, text, dmx>>

Next ==
    \/ Rejected \/ Accepted
    \/ TagByte \/ TagEnd \/ NoTagEnd
    \/ OtherCommand \/ LightCommand \/ NoMoreCommands
    \/ GoodCharacter \/ BadCharacter \/ NoMoreCharacters
    \/ SetLight \/ NoMoreLights

Spec == Init /\ [][Next]_vars

-----------------------------------------------------------------------------

\* The offsets of the packet that the next turn of a loop may read.
Reads ==
    IF pc = "tag" /\ i < Len(packet) THEN {i}
    ELSE IF pc = "commands" /\ i < maxCount THEN offset..(offset + 5)
    ELSE {}

\* parseLightPacket never reads past the end of a packet, not even when the
\* tag has no end or the last command is cut off.
ReadsInBounds == Reads \subseteq 0..(Len(packet) - 1)

\* The closed form of parseLightPacket is what its two loops compute, one byte
\* and one command at a time, on broken packets too.
ParserIsLoop ==
    pc \in {"filter", "lights", "done"} =>
        parseLightPacket(packet) = [tag |-> tag, lights |-> lights]

\* The closed form of the tag filter is what erasing in place leaves: no bad
\* character behind another one is skipped, and no good one is lost.
FilterIsLoop ==
    pc \in {"lights", "done"} => text = FilterTag(parseLightPacket(packet).tag)

\* setLightColors is setLightColor applied command by command, also when
\* lights share channels.
BatchIsSequential ==
    pc = "done" => setLightColors(EmptyPacket, parseLightPacket(packet).lights) = dmx

\* The two loops of Serveri::lightPacket leave the tag and the DMX packet that the
\* closed forms say: the tag's good characters, every one of them and no other,
\* and each channel as the last command for it sets it.
HandlerIsLoop == FilterIsLoop /\ BatchIsSequential

=============================================================================
