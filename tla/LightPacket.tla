---------------------------- MODULE LightPacket -----------------------------
(***************************************************************************)
(* The light packet format: LightPacket.cpp, and the tag whitelist that    *)
(* serveri.cpp applies to the parsed tag.  A packet is a sequence of       *)
(* bytes; packet[i] of the code is p[i + 1] here.                          *)
(*                                                                         *)
(*    version(1)  tagstart(0)  tag bytes...  NUL                           *)
(*    { type(1)  index  extension  red  green  blue }*                     *)
(***************************************************************************)
EXTENDS Integers, Sequences, FiniteSets, FiniteSetsExt, Subsequences

CONSTANTS
    CharSigned,   \* is char signed in this build (it is on x86)
    UIntRange     \* number of values of unsigned int: 2^32 in the build

ASSUME CharAssumption == CharSigned \in BOOLEAN

\* An unsigned int is wide enough to tell a negative char from every byte.
ASSUME UIntAssumption == UIntRange \in Nat /\ UIntRange >= 512

Byte == 0..255

Color == [red : Byte, green : Byte, blue : Byte]

Black == [red |-> 0, green |-> 0, blue |-> 0]

LightIndex == 0..(UIntRange - 1)

LightColor == [index : LightIndex, color : Color]

-----------------------------------------------------------------------------

\* packet[i] is a char.  Converted to unsigned int, a negative char wraps.
CharToUInt(b) == IF CharSigned /\ b >= 128 THEN (b - 256) + UIntRange ELSE b

\* Offsets of the NULs that may end the tag.
TagEnds(p) == {i \in 2..(Len(p) - 1) : p[i + 1] = 0}

ParsedTag(p) == IF TagEnds(p) = {} THEN <<>> ELSE SubSeq(p, 3, Min(TagEnds(p)))

\* As if the NUL were the first byte of the first command.
BaseOffset_AtNul(p) == IF TagEnds(p) = {} THEN 3 ELSE Min(TagEnds(p))

\* Where the commands start: 3 if the tag has no end.
BaseOffset(p) == IF TagEnds(p) = {} THEN 3 ELSE Min(TagEnds(p)) + 1

MaxCount(p) == (Len(p) - BaseOffset(p)) \div 6

\* Byte n of the i-th command, i counting from 1 and n from 0.
CommandByte(p, i, n) == p[BaseOffset(p) + (i - 1) * 6 + n + 1]

\* The command without its type and extension bytes.
Command(p, i) ==
    [index |-> CharToUInt(CommandByte(p, i, 1)),
     color |-> [red   |-> CommandByte(p, i, 3),
                green |-> CommandByte(p, i, 4),
                blue  |-> CommandByte(p, i, 5)]]

\* Commands of a type other than 1 (light) are skipped.
LightCommands(p) == {i \in 1..MaxCount(p) : CommandByte(p, i, 0) = 1}

ParsedLights(p) ==
    Subsequence([i \in 1..MaxCount(p) |-> Command(p, i)], LightCommands(p))

\* Too small, wrong version or no tag: an empty LightPacket is returned.
WellFormed(p) == Len(p) >= 3 /\ p[1] = 1 /\ p[2] = 0

parseLightPacket(p) ==
    IF WellFormed(p)
    THEN [tag |-> ParsedTag(p), lights |-> ParsedLights(p)]
    ELSE [tag |-> <<>>, lights |-> <<>>]

-----------------------------------------------------------------------------

\* The characters of tagWhitelist as codes.  The terminating NUL is in the
\* set, because the loop that fills it runs to sizeof; 'I' (73) is not.
Whitelist ==
    (97..122) \cup ((65..90) \ {73}) \cup (48..57)
    \cup {32, 33, 35, 37, 38, 47, 40, 41, 91, 93, 123, 125, 61, 63, 43, 45,
          42, 44, 46, 59, 58, 124, 60, 62}
    \cup {0}

\* As if tags were not filtered.
FilterTag_Not(tag) == tag

\* The tag with every character outside the whitelist erased.
FilterTag(tag) == Subsequence(tag, {i \in DOMAIN tag : tag[i] \in Whitelist})

=============================================================================
