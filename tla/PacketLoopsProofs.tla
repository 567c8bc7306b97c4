------------------------- MODULE PacketLoopsProofs --------------------------
(***************************************************************************)
(* The closed forms of the parser and of the DMX packet are what the loops *)
(* of the code compute, for every packet and every configuration of        *)
(* lights.                                                                 *)
(*                                                                         *)
(* LoopInv is the invariant of each loop: no byte behind the counter ends  *)
(* the tag; the commands behind the counter are parsed; the characters     *)
(* behind the counter are the good ones of a part of the tag, and the rest *)
(* of the tag follows them; the commands behind the counter are in the DMX *)
(* packet.                                                                 *)
(***************************************************************************)
EXTENDS PacketLoops, LightsProofs, SequenceTheorems

-----------------------------------------------------------------------------
(* One more command                                                        *)

\* The command l writes offset o.
Writes(l, o) == l.index \in LightIds /\ o \in Channels(l.index)

\* The commands that write an offset, when there is one more.
LEMMA WritersAppend ==
    ASSUME NEW ls \in Seq(LightColor), NEW l \in LightColor, NEW o
    PROVE  Writers(Append(ls, l), o) =
               IF Writes(l, o) THEN Writers(ls, o) \cup {Len(ls) + 1} ELSE Writers(ls, o)
<1>1. PICK n : n = Len(ls)
    OBVIOUS
<1>2. PICK ms : ms = Append(ls, l)
    OBVIOUS
<1>3. /\ n \in Nat /\ DOMAIN ls = 1..n /\ DOMAIN ms = 1..(n + 1)
      /\ ms[n + 1] = l /\ \A k \in 1..n : ms[k] = ls[k]
    BY <1>1, <1>2
<1>4. 1..(n + 1) = (1..n) \cup {n + 1} /\ n + 1 \notin 1..n
    BY <1>3
<1>5. /\ Writers(ms, o) = {k \in DOMAIN ms : Writes(ms[k], o)}
      /\ Writers(ls, o) = {k \in DOMAIN ls : Writes(ls[k], o)}
    BY DEF Writers, Writes
<1>6. ASSUME NEW k PROVE k \in Writers(ms, o) <=> \/ k \in Writers(ls, o)
                                                  \/ k = n + 1 /\ Writes(l, o)
    BY <1>3, <1>4, <1>5
<1>7. QED
    BY <1>1, <1>2, <1>6

\* What a batch of commands leaves at an offset, with the greatest of them named.
LEMMA SetColorsIs ==
    ASSUME NEW p, NEW ls
    PROVE  setLightColors(p, ls) =
               [o \in Offsets |-> IF Writers(ls, o) = {} THEN p[o]
                                  ELSE ChannelByte(ls[Max(Writers(ls, o))], o)]
BY Zenon DEF setLightColors, Writers

\* A batch of commands with one more is the batch and then the command.
THEOREM SetOneMore ==
    ASSUME NEW p, NEW ls \in Seq(LightColor), NEW l \in LightColor
    PROVE  setLightColors(p, Append(ls, l)) = setLightColor(setLightColors(p, ls), l)
<1>1. PICK n : n = Len(ls)
    OBVIOUS
<1>2. PICK ms : ms = Append(ls, l)
    OBVIOUS
<1>3. /\ n \in Nat /\ DOMAIN ls = 1..n /\ ms[n + 1] = l
      /\ \A k \in 1..n : ms[k] = ls[k]
    BY <1>1, <1>2
<1>4. PICK q : q = setLightColors(p, ls)
    OBVIOUS
<1>5. PICK r : r = setLightColors(p, ms)
    OBVIOUS
<1>6. q = [o \in Offsets |-> IF Writers(ls, o) = {} THEN p[o]
                             ELSE ChannelByte(ls[Max(Writers(ls, o))], o)]
    BY <1>4, SetColorsIs
<1>7. r = [o \in Offsets |-> IF Writers(ms, o) = {} THEN p[o]
                             ELSE ChannelByte(ms[Max(Writers(ms, o))], o)]
    BY <1>5, SetColorsIs
<1>8. ASSUME NEW o \in Offsets PROVE r[o] = IF Writes(l, o) THEN ChannelByte(l, o) ELSE q[o]
    <2>1. PICK W : W = Writers(ls, o)
        OBVIOUS
    <2>2. PICK V : V = Writers(ms, o)
        OBVIOUS
    <2>3. q[o] = IF W = {} THEN p[o] ELSE ChannelByte(ls[Max(W)], o)
        BY <1>6, <2>1
    <2>4. r[o] = IF V = {} THEN p[o] ELSE ChannelByte(ms[Max(V)], o)
        BY <1>7, <2>2
    <2>5. V = IF Writes(l, o) THEN W \cup {n + 1} ELSE W
        BY <1>1, <1>2, <2>1, <2>2, WritersAppend
    <2>6. W \in SUBSET (1..n)
        BY <1>3, <2>1 DEF Writers
    <2>7. CASE Writes(l, o)
        <3>1. V \in SUBSET (1..(n + 1)) /\ V # {} /\ n + 1 \in Nat /\ n + 1 \in V
            BY <1>3, <2>5, <2>6, <2>7
        <3>2. \A m \in 1..(n + 1) : m >= n + 1 => m = n + 1
            BY <1>3
        <3>3. Max(V) = n + 1
            BY <3>1, <3>2, MaxOfPositions
        <3>4. QED
            BY <1>3, <2>4, <2>7, <3>1, <3>3
    <2>8. CASE ~Writes(l, o)
        <3>1. V = W
            BY <2>5, <2>8
        <3>2. W # {} => Max(W) \in W
            BY <1>3, <2>6, MaxOfPositions
        <3>3. W # {} => ms[Max(W)] = ls[Max(W)]
            BY <1>3, <2>6, <3>2
        <3>4. QED
            BY <2>3, <2>4, <2>8, <3>1, <3>3
    <2>9. QED
        BY <2>7, <2>8
<1>9. r = setLightColor(q, l)
    <2>1. CASE l.index \notin LightIds
        <3>1. \A o \in Offsets : r[o] = q[o]
            BY <1>8, <2>1 DEF Writes
        <3>2. DOMAIN r = Offsets /\ DOMAIN q = Offsets
            BY <1>6, <1>7
        <3>3. r = q
            BY <1>6, <1>7, <3>1, <3>2
        <3>4. QED
            BY <2>1, <3>3 DEF setLightColor
    <2>2. CASE l.index \in LightIds
        <3>1. PICK s : s = setLightColor(q, l)
            OBVIOUS
        <3>2. s = [o \in Offsets |-> IF o \in Channels(l.index) THEN ChannelByte(l, o)
                                                                ELSE q[o]]
            BY <2>2, <3>1 DEF setLightColor
        <3>3. \A o \in Offsets : r[o] = s[o]
            BY <1>8, <2>2, <3>2 DEF Writes
        <3>4. r = s
            BY <1>7, <3>2, <3>3
        <3>5. QED
            BY <3>1, <3>4
    <2>3. QED
        BY <2>1, <2>2
<1>10. QED
    BY <1>2, <1>4, <1>5, <1>9

-----------------------------------------------------------------------------
(* The scan for the end of the tag                                         *)

\* No byte before offset n ends the tag.
TagScanned(p, n) ==
    WellFormed(p) /\ n \in 2..Len(p) /\ \A m \in TagEnds(p) : m >= n

\* The scan starts at the first byte of the tag.
LEMMA TagFirst ==
    ASSUME NEW p \in Seq(Byte), WellFormed(p)
    PROVE  TagScanned(p, 2)
BY DEF TagScanned, WellFormed, TagEnds

\* A byte that is not NUL does not end the tag.
LEMMA TagLonger ==
    ASSUME NEW p \in Seq(Byte), NEW n, TagScanned(p, n), n < Len(p), p[n + 1] # 0
    PROVE  TagScanned(p, n + 1)
<1>1. WellFormed(p) /\ n \in Nat /\ Len(p) \in Nat /\ n + 1 \in 2..Len(p)
    BY DEF TagScanned
<1>2. ASSUME NEW m \in TagEnds(p) PROVE m >= n + 1
    <2>1. m \in Nat /\ m >= n /\ p[m + 1] = 0
        BY DEF TagScanned, TagEnds
    <2>2. m # n
        BY <2>1
    <2>3. QED
        BY <1>1, <2>1, <2>2
<1>3. QED
    BY <1>1, <1>2 DEF TagScanned

\* The first NUL ends the tag.
LEMMA TagOver ==
    ASSUME NEW p \in Seq(Byte), NEW n, TagScanned(p, n), n < Len(p), p[n + 1] = 0
    PROVE  ParsedTag(p) = SubSeq(p, 3, n) /\ BaseOffset(p) = n + 1
<1>1. n \in Nat /\ n >= 2 /\ Len(p) \in Nat /\ n \in 2..(Len(p) - 1)
    BY DEF TagScanned
<1>2. n \in TagEnds(p) /\ TagEnds(p) \in SUBSET Nat
    BY <1>1 DEF TagEnds
<1>3. PICK m : m = Min(TagEnds(p))
    OBVIOUS
<1>4. m \in TagEnds(p) /\ m <= n /\ m \in Nat
    BY <1>2, <1>3, MinOfNats
<1>5. m >= n
    BY <1>4 DEF TagScanned
<1>6. Min(TagEnds(p)) = n
    BY <1>1, <1>3, <1>4, <1>5
<1>7. QED
    BY <1>2, <1>6 DEF ParsedTag, BaseOffset

\* Without a NUL the tag is empty.
LEMMA TagNever ==
    ASSUME NEW p \in Seq(Byte), NEW n, TagScanned(p, n), n >= Len(p)
    PROVE  ParsedTag(p) = <<>> /\ BaseOffset(p) = 3
<1>1. TagEnds(p) = {}
    <2> SUFFICES ASSUME NEW m \in TagEnds(p) PROVE FALSE
        OBVIOUS
    <2>1. m \in 2..(Len(p) - 1) /\ Len(p) \in Nat
        BY DEF TagEnds
    <2>2. m >= n /\ n \in Int
        BY DEF TagScanned
    <2>3. QED
        BY <2>1, <2>2
<1>2. QED
    BY <1>1 DEF ParsedTag, BaseOffset

-----------------------------------------------------------------------------
(* The commands                                                            *)

AllCommands(p) == [k \in 1..MaxCount(p) |-> Command(p, k)]

Kept(p, n) == {k \in LightCommands(p) : k <= n}

\* The light commands among the first n have been parsed.
CommandsScanned(p, n, ls) ==
    n \in 0..MaxCount(p) /\ ls = Subsequence(AllCommands(p), Kept(p, n))

\* The commands of a packet, as the lemmas on subsequences need them.
LEMMA AllCommandsType ==
    ASSUME NEW p \in Seq(Byte), WellFormed(p)
    PROVE  /\ MaxCount(p) \in Nat
           /\ AllCommands(p) \in Seq(LightColor)
           /\ DOMAIN AllCommands(p) = 1..MaxCount(p)
           /\ LightCommands(p) \in SUBSET (1..MaxCount(p))
<1>1. MaxCount(p) \in Nat /\ \A k \in 1..MaxCount(p) : Command(p, k) \in LightColor
    BY ParserReadsInBounds, CommandType
<1>2. QED
    BY <1>1 DEF AllCommands, LightCommands

\* At first no command has been parsed.
LEMMA CommandsNone ==
    ASSUME NEW p \in Seq(Byte), WellFormed(p)
    PROVE  CommandsScanned(p, 0, <<>>)
<1>1. /\ MaxCount(p) \in Nat /\ AllCommands(p) \in Seq(LightColor)
      /\ LightCommands(p) \in SUBSET (1..MaxCount(p))
    BY AllCommandsType
<1>2. Kept(p, 0) = {}
    BY <1>1 DEF Kept
<1>3. PICK s : s = Subsequence(AllCommands(p), {})
    OBVIOUS
<1>4. Cardinality({}) = 0
    BY FS_EmptySet
<1>5. s \in Seq(LightColor) /\ Len(s) = 0
    BY <1>1, <1>3, <1>4, SubsequenceType
<1>6. s = <<>>
    BY <1>5
<1>7. 0 \in 0..MaxCount(p)
    BY <1>1
<1>8. Subsequence(AllCommands(p), Kept(p, 0)) = <<>>
    BY <1>2, <1>3, <1>6
<1>9. QED
    BY <1>7, <1>8, Zenon DEF CommandsScanned

\* A light command is parsed behind the others, and a command of another type is
\* skipped.
LEMMA CommandsMore ==
    ASSUME NEW p \in Seq(Byte), WellFormed(p), NEW n, NEW ls,
           CommandsScanned(p, n, ls), n < MaxCount(p)
    PROVE  /\ CommandByte(p, n + 1, 0) = 1 =>
                  CommandsScanned(p, n + 1, Append(ls, Command(p, n + 1)))
           /\ CommandByte(p, n + 1, 0) # 1 => CommandsScanned(p, n + 1, ls)
<1>1. /\ MaxCount(p) \in Nat /\ AllCommands(p) \in Seq(LightColor)
      /\ DOMAIN AllCommands(p) = 1..MaxCount(p)
      /\ LightCommands(p) \in SUBSET (1..MaxCount(p))
    BY AllCommandsType
<1>2. /\ n \in Nat /\ n + 1 \in 1..MaxCount(p) /\ n + 1 \in 0..MaxCount(p)
      /\ ls = Subsequence(AllCommands(p), Kept(p, n))
    BY <1>1 DEF CommandsScanned
<1>3. Kept(p, n) \in SUBSET (1..n) /\ Kept(p, n) \in SUBSET (DOMAIN AllCommands(p))
    BY <1>1, <1>2 DEF Kept
<1>4. \A k \in LightCommands(p) : k <= n + 1 <=> k <= n \/ k = n + 1
    BY <1>1, <1>2
<1>5. n + 1 \in LightCommands(p) <=> CommandByte(p, n + 1, 0) = 1
    BY <1>2 DEF LightCommands
<1>6. CASE CommandByte(p, n + 1, 0) = 1
    <2>1. PICK m : m = n + 1
        OBVIOUS
    <2>2. Kept(p, m) = Kept(p, n) \cup {m}
        BY <1>2, <1>4, <1>5, <1>6, <2>1 DEF Kept
    <2>3. Behind(m, Kept(p, n))
        <3>1. m \in Nat /\ n \in Nat /\ n < m
            BY <1>2, <2>1
        <3>2. QED
            BY <1>3, <3>1 DEF Behind
    <2>4. m \in DOMAIN AllCommands(p) /\ AllCommands(p)[m] = Command(p, m)
        BY <1>1, <1>2, <2>1 DEF AllCommands
    <2>5. Subsequence(AllCommands(p), Kept(p, n) \cup {m}) = Append(ls, AllCommands(p)[m])
        BY <1>1, <1>2, <1>3, <2>3, <2>4, SubsequenceAppend
    <2>6. QED
        BY <1>2, <1>6, <2>1, <2>2, <2>4, <2>5 DEF CommandsScanned
<1>7. CASE CommandByte(p, n + 1, 0) # 1
    <2>1. Kept(p, n + 1) = Kept(p, n)
        BY <1>2, <1>4, <1>5, <1>7 DEF Kept
    <2>2. QED
        BY <1>2, <1>7, <2>1 DEF CommandsScanned
<1>8. QED
    BY <1>6, <1>7

\* At last every light command has been parsed.
LEMMA CommandsAll ==
    ASSUME NEW p \in Seq(Byte), WellFormed(p), NEW n, NEW ls,
           CommandsScanned(p, n, ls), n >= MaxCount(p)
    PROVE  ls = ParsedLights(p)
<1>1. MaxCount(p) \in Nat /\ LightCommands(p) \in SUBSET (1..MaxCount(p))
    BY AllCommandsType
<1>2. n = MaxCount(p)
    BY <1>1 DEF CommandsScanned
<1>3. Kept(p, n) = LightCommands(p)
    BY <1>1, <1>2 DEF Kept
<1>4. QED
    BY <1>3 DEF CommandsScanned, ParsedLights, AllCommands

-----------------------------------------------------------------------------
(* The lights                                                              *)

\* The first n commands are in the packet d.
LightsSet(ls, n, d) ==
    /\ ls \in Seq(LightColor) /\ n \in 0..Len(ls)
    /\ d = setLightColors(EmptyPacket, SubSeq(ls, 1, n))

\* At first no light is set.
LEMMA LightsNone ==
    ASSUME NEW ls \in Seq(LightColor)
    PROVE  LightsSet(ls, 0, EmptyPacket)
<1>1. PICK e : e = SubSeq(ls, 1, 0)
    OBVIOUS
<1>2. e = <<>>
    BY <1>1, SubSeqEmpty
<1>3. \A s : s = <<>> => DOMAIN s = {}
    OBVIOUS
<1>4. \A o : Writers(e, o) = {}
    BY <1>2, <1>3 DEF Writers
<1>5. PICK r : r = setLightColors(EmptyPacket, e)
    OBVIOUS
<1>6. r = [o \in Offsets |-> EmptyPacket[o]]
    BY <1>4, <1>5, SetColorsIs
<1>7. PICK z : z = EmptyPacket
    OBVIOUS
<1>8. z = [o \in Offsets |-> z[o]]
    BY <1>7 DEF EmptyPacket
<1>9. r = EmptyPacket
    BY <1>6, <1>7, <1>8
<1>10. 0 \in 0..Len(ls)
    OBVIOUS
<1>11. QED
    BY <1>1, <1>5, <1>9, <1>10 DEF LightsSet

\* Each turn sets the light of one more command.
LEMMA LightsMore ==
    ASSUME NEW ls, NEW n, NEW d, LightsSet(ls, n, d), n < Len(ls)
    PROVE  LightsSet(ls, n + 1, setLightColor(d, ls[n + 1]))
<1>1. ls \in Seq(LightColor) /\ n \in Nat /\ Len(ls) \in Nat /\ n + 1 \in 1..Len(ls)
    BY DEF LightsSet
<1>2. PICK s : s = SubSeq(ls, 1, n)
    OBVIOUS
<1>3. PICK l : l = ls[n + 1]
    OBVIOUS
<1>4. s \in Seq(LightColor) /\ l \in LightColor
    BY <1>1, <1>2, <1>3
<1>5. SubSeq(ls, 1, n + 1) = Append(s, l)
    <2>1. PICK t : t = SubSeq(ls, 1, n + 1)
        OBVIOUS
    <2>2. t \in Seq(LightColor) /\ Len(t) = n + 1 /\ \A k \in 1..(n + 1) : t[k] = ls[k]
        BY <1>1, <2>1
    <2>3. Len(s) = n /\ \A k \in 1..n : s[k] = ls[k]
        BY <1>1, <1>2
    <2>4. PICK u : u = Append(s, l)
        OBVIOUS
    <2>5. /\ u \in Seq(LightColor) /\ Len(u) = n + 1 /\ u[n + 1] = l
          /\ \A k \in 1..n : u[k] = s[k]
        BY <1>4, <2>3, <2>4
    <2>6. \A k \in 1..(n + 1) : t[k] = u[k]
        BY <1>1, <1>3, <2>2, <2>3, <2>5
    <2>7. t = u
        BY <2>2, <2>5, <2>6, SeqEqual
    <2>8. QED
        BY <2>1, <2>4, <2>7
<1>6. d = setLightColors(EmptyPacket, s)
    BY <1>2 DEF LightsSet
<1>7. setLightColors(EmptyPacket, Append(s, l)) = setLightColor(d, l)
    BY <1>4, <1>6, SetOneMore
<1>8. n + 1 \in 0..Len(ls)
    BY <1>1
<1>9. QED
    BY <1>1, <1>3, <1>5, <1>7, <1>8 DEF LightsSet

-----------------------------------------------------------------------------
(* The tag filter                                                          *)

\* The good characters among the first m of a tag.
Good(t, m) == {k \in DOMAIN t : k <= m /\ t[k] \in Whitelist}

Clean(t, m) == Subsequence(t, Good(t, m))

\* The first m characters of the tag t have been looked at: the text x has the
\* n good ones of them and then the rest of the tag.
Filtered(t, m, x, n) ==
    /\ m \in 0..Len(t) /\ x \in Seq(Byte)
    /\ n = Len(Clean(t, m))
    /\ Len(x) = n + (Len(t) - m)
    /\ \A k \in 1..n : x[k] = Clean(t, m)[k]
    /\ \A k \in 1..(Len(t) - m) : x[n + k] = t[m + k]

FilterScanned(t, x, n) == \E m : Filtered(t, m, x, n)

LEMMA CleanType ==
    ASSUME NEW t \in Seq(Byte), NEW m
    PROVE  /\ Good(t, m) \in SUBSET (DOMAIN t)
           /\ Clean(t, m) \in Seq(Byte) /\ Len(Clean(t, m)) \in Nat
<1>1. Good(t, m) \in SUBSET (DOMAIN t)
    BY DEF Good
<1>2. PICK c : c = Clean(t, m)
    OBVIOUS
<1>3. c \in Seq(Byte)
    BY <1>1, <1>2, SubsequenceType DEF Clean
<1>4. QED
    BY <1>1, <1>2, <1>3

\* At first the text is the whole tag.
LEMMA FilterNone ==
    ASSUME NEW t \in Seq(Byte)
    PROVE  FilterScanned(t, t, 0)
<1>1. Good(t, 0) = {}
    BY DEF Good
<1>2. PICK c : c = Clean(t, 0)
    OBVIOUS
<1>3. Len(c) = 0
    <2>1. Cardinality({}) = 0
        BY FS_EmptySet
    <2>2. {} \in SUBSET (DOMAIN t)
        OBVIOUS
    <2>3. Len(Subsequence(t, {})) = 0
        BY <2>1, <2>2, SubsequenceType
    <2>4. QED
        BY <1>1, <1>2, <2>3, Zenon DEF Clean
<1>4. Len(t) \in Nat
    OBVIOUS
<1>5. /\ 0 \in 0..Len(t) /\ Len(t) = 0 + (Len(t) - 0)
      /\ \A k \in 1..(Len(t) - 0) : 0 + k = k
      /\ \A k \in 1..0 : FALSE
    BY <1>4
<1>6. Filtered(t, 0, t, 0)
    BY <1>2, <1>3, <1>5, Zenon DEF Filtered
<1>7. QED
    BY <1>6, Zenon DEF FilterScanned

\* One more character of the tag is kept behind the others, or is not kept.
LEMMA CleanMore ==
    ASSUME NEW t \in Seq(Byte), NEW m \in Nat, m < Len(t)
    PROVE  /\ t[m + 1] \in Whitelist => Clean(t, m + 1) = Append(Clean(t, m), t[m + 1])
           /\ t[m + 1] \notin Whitelist => Clean(t, m + 1) = Clean(t, m)
<1>1. PICK j : j = m + 1
    OBVIOUS
<1>2. Len(t) \in Nat /\ DOMAIN t = 1..Len(t) /\ j \in DOMAIN t /\ j \in Nat /\ m < j
    BY <1>1
<1>3. \A k \in DOMAIN t : k <= j <=> k <= m \/ k = j
    BY <1>1, <1>2
<1>4. Good(t, m) \in SUBSET (1..m) /\ Good(t, m) \in SUBSET (DOMAIN t)
    BY <1>2 DEF Good
<1>5. CASE t[j] \in Whitelist
    <2>1. Good(t, j) = Good(t, m) \cup {j}
        BY <1>2, <1>3, <1>5 DEF Good
    <2>2. Behind(j, Good(t, m))
        BY <1>2, <1>4 DEF Behind
    <2>3. Subsequence(t, Good(t, m) \cup {j}) = Append(Subsequence(t, Good(t, m)), t[j])
        BY <1>2, <1>4, <2>2, SubsequenceAppend
    <2>4. QED
        BY <1>1, <1>5, <2>1, <2>3, Zenon DEF Clean
<1>6. CASE t[j] \notin Whitelist
    <2>1. Good(t, j) = Good(t, m)
        BY <1>2, <1>3, <1>6 DEF Good
    <2>2. QED
        BY <1>1, <1>6, <2>1, Zenon DEF Clean
<1>7. QED
    BY <1>5, <1>6

\* A good character stays, and a bad one is erased: either way one character more
\* of the tag has been looked at.
LEMMA FilterMore ==
    ASSUME NEW t \in Seq(Byte), NEW x, NEW n, FilterScanned(t, x, n), n < Len(x)
    PROVE  /\ x[n + 1] \in Whitelist => FilterScanned(t, x, n + 1)
           /\ x[n + 1] \notin Whitelist =>
                  FilterScanned(t, SubSeq(x, 1, n) \o SubSeq(x, n + 2, Len(x)), n)
<1>1. PICK m : Filtered(t, m, x, n)
    BY DEF FilterScanned
<1>2. PICK c : c = Clean(t, m)
    OBVIOUS
<1>3. c \in Seq(Byte) /\ Len(c) \in Nat
    BY <1>2, CleanType
<1>4. PICK lt \in Nat : lt = Len(t)
    OBVIOUS
<1>5. /\ m \in Nat /\ m <= lt /\ x \in Seq(Byte) /\ n = Len(c) /\ n \in Nat
      /\ Len(x) = n + (lt - m)
      /\ \A k \in 1..n : x[k] = c[k]
      /\ \A k \in 1..(lt - m) : x[n + k] = t[m + k]
    BY <1>1, <1>2, <1>3, <1>4 DEF Filtered
<1>6. m < lt /\ m + 1 \in Nat /\ m + 1 \in 0..lt
    BY <1>5
<1>7. x[n + 1] = t[m + 1]
    BY <1>5, <1>6
<1>8. PICK d : d = Clean(t, m + 1)
    OBVIOUS
<1>9. CASE x[n + 1] \in Whitelist
    <2>1. d = Append(c, x[n + 1])
        BY <1>2, <1>4, <1>5, <1>6, <1>7, <1>8, <1>9, CleanMore
    <2>2. x[n + 1] \in Byte
        BY <1>5
    <2>3. Len(d) = n + 1 /\ d[n + 1] = x[n + 1] /\ \A k \in 1..n : d[k] = c[k]
        BY <1>3, <1>5, <2>1, <2>2
    <2>4. Len(x) = (n + 1) + (lt - (m + 1))
        BY <1>5
    <2>5. \A k \in 1..(n + 1) : x[k] = d[k]
        BY <1>5, <2>3
    <2>6. ASSUME NEW k \in 1..(lt - (m + 1))
          PROVE  x[(n + 1) + k] = t[(m + 1) + k]
        <3>1. /\ k + 1 \in 1..(lt - m) /\ n + (k + 1) = (n + 1) + k
              /\ m + (k + 1) = (m + 1) + k
            BY <1>5
        <3>2. QED
            BY <1>5, <3>1, Zenon
    <2>7. Filtered(t, m + 1, x, n + 1)
        BY <1>4, <1>5, <1>6, <1>8, <2>3, <2>4, <2>5, <2>6, Zenon DEF Filtered
    <2>8. QED
        BY <1>9, <2>7, Zenon DEF FilterScanned
<1>10. CASE x[n + 1] \notin Whitelist
    <2>1. d = c
        BY <1>2, <1>4, <1>5, <1>6, <1>7, <1>8, <1>10, CleanMore
    <2>2. PICK y : y = SubSeq(x, 1, n) \o SubSeq(x, n + 2, Len(x))
        OBVIOUS
    <2>3. PICK a : a = SubSeq(x, 1, n)
        OBVIOUS
    <2>4. PICK b : b = SubSeq(x, n + 2, Len(x))
        OBVIOUS
    <2>5. a \in Seq(Byte) /\ Len(a) = n /\ \A k \in 1..n : a[k] = x[k]
        BY <1>5, <1>6, <2>3
    <2>6. /\ b \in Seq(Byte) /\ Len(b) = lt - (m + 1)
          /\ \A k \in 1..(lt - (m + 1)) : b[k] = x[n + (k + 1)]
        BY <1>5, <1>6, <2>4
    <2>7. /\ y \in Seq(Byte) /\ Len(y) = n + (lt - (m + 1))
          /\ \A k \in 1..n : y[k] = a[k]
          /\ \A k \in 1..(lt - (m + 1)) : y[n + k] = b[k]
        <3>1. y = a \o b
            BY <2>2, <2>3, <2>4, Zenon
        <3>2. PICK l \in Nat : l = lt - (m + 1)
            BY <1>6
        <3>3. Len(a) = n /\ Len(b) = l /\ a \in Seq(Byte) /\ b \in Seq(Byte)
            BY <2>5, <2>6, <3>2, Zenon
        <3>4. /\ y \in Seq(Byte) /\ Len(y) = n + l
              /\ \A k \in 1..n : y[k] = a[k]
              /\ \A k \in 1..l : y[n + k] = b[k]
            <4>1. n \in Nat /\ n + l \in Nat
                BY <1>5, <3>2
            <4>2. /\ a \o b \in Seq(Byte) /\ Len(a \o b) = Len(a) + Len(b)
                  /\ \A k \in 1..(Len(a) + Len(b)) :
                         (a \o b)[k] = IF k <= Len(a) THEN a[k] ELSE b[k - Len(a)]
                BY <3>3, ConcatProperties
            <4>3. /\ y \in Seq(Byte) /\ Len(y) = n + l
                  /\ \A k \in 1..(n + l) : y[k] = IF k <= n THEN a[k] ELSE b[k - n]
                BY <3>1, <3>3, <4>2, Zenon
            <4>4. ASSUME NEW k \in 1..n PROVE y[k] = a[k]
                <5>1. k \in 1..(n + l) /\ k <= n
                    BY <3>2, <4>1
                <5>2. QED
                    BY <4>3, <5>1, Zenon
            <4>5. ASSUME NEW k \in 1..l PROVE y[n + k] = b[k]
                <5>1. n + k \in 1..(n + l) /\ ~(n + k <= n) /\ (n + k) - n = k
                    BY <3>2, <4>1
                <5>2. y[n + k] = b[(n + k) - n]
                    BY <4>3, <5>1, Zenon
                <5>3. QED
                    BY <5>1, <5>2, Zenon
            <4>6. QED
                BY <4>3, <4>4, <4>5, Zenon
        <3>5. QED
            BY <3>2, <3>4, Zenon
    <2>8. \A k \in 1..n : y[k] = d[k]
        BY <1>5, <2>1, <2>5, <2>7, Zenon
    <2>9. ASSUME NEW k \in 1..(lt - (m + 1))
          PROVE  y[n + k] = t[(m + 1) + k]
        <3>1. k + 1 \in 1..(lt - m) /\ m + (k + 1) = (m + 1) + k
            BY <1>5
        <3>2. QED
            <4>1. x[n + (k + 1)] = t[m + (k + 1)]
                BY <1>5, <3>1, Zenon
            <4>2. y[n + k] = x[n + (k + 1)]
                BY <2>6, <2>7, Zenon
            <4>3. QED
                BY <3>1, <4>1, <4>2, Zenon
    <2>10. Filtered(t, m + 1, y, n)
        BY <1>4, <1>5, <1>6, <1>8, <2>1, <2>7, <2>8, <2>9, Zenon DEF Filtered
    <2>11. QED
        BY <1>10, <2>2, <2>10, Zenon DEF FilterScanned
<1>11. QED
    BY <1>9, <1>10

\* At last the text has the good characters of the whole tag.
LEMMA FilterAll ==
    ASSUME NEW t \in Seq(Byte), NEW x, NEW n, FilterScanned(t, x, n), n >= Len(x)
    PROVE  x = FilterTag(t)
<1>1. PICK m : Filtered(t, m, x, n)
    BY DEF FilterScanned
<1>2. PICK c : c = Clean(t, m)
    OBVIOUS
<1>3. c \in Seq(Byte) /\ Len(c) \in Nat /\ Len(t) \in Nat
    BY <1>2, CleanType
<1>4. /\ m \in 0..Len(t) /\ x \in Seq(Byte) /\ n = Len(c)
      /\ Len(x) = n + (Len(t) - m)
      /\ \A k \in 1..n : x[k] = c[k]
    BY <1>1, <1>2 DEF Filtered
<1>5. m = Len(t) /\ Len(x) = n
    BY <1>3, <1>4
<1>6. x = c
    BY <1>3, <1>4, <1>5
<1>7. Good(t, m) = {k \in DOMAIN t : t[k] \in Whitelist}
    BY <1>3, <1>5 DEF Good
<1>8. QED
    BY <1>2, <1>6, <1>7, Zenon DEF Clean, FilterTag

-----------------------------------------------------------------------------
(* The loops                                                               *)

LoopInv ==
    /\ packet \in Seq(Byte)
    /\ pc \in {"start", "tag", "commands", "filter", "lights", "done"}
    /\ pc \in {"start", "tag"} => tag = <<>> /\ baseOffset = 3 /\ lights = <<>>
    /\ pc \in {"start", "tag", "commands", "filter"} => dmx = EmptyPacket
    /\ pc = "tag" => TagScanned(packet, i)
    /\ pc = "commands" => /\ WellFormed(packet)
                          /\ tag = ParsedTag(packet) /\ baseOffset = BaseOffset(packet)
                          /\ CommandsScanned(packet, i, lights)
    /\ pc \in {"filter", "lights", "done"} =>
           parseLightPacket(packet) = [tag |-> tag, lights |-> lights]
    /\ pc = "filter" => FilterScanned(tag, text, i)
    /\ pc \in {"lights", "done"} => text = FilterTag(tag) /\ LightsSet(lights, i, dmx)
    /\ pc = "done" => i = Len(lights)

\* Byte k of the command that the loop is at.
LEMMA ByteAtOffset ==
    ASSUME NEW p, NEW b \in Int, b = BaseOffset(p), NEW n \in Int
    PROVE  /\ CommandByte(p, n + 1, 0) = p[b + n * 6 + 1]
           /\ Command(p, n + 1) = [index |-> CharToUInt(p[b + n * 6 + 2]),
                                   color |-> [red   |-> p[b + n * 6 + 4],
                                              green |-> p[b + n * 6 + 5],
                                              blue  |-> p[b + n * 6 + 6]]]
<1>1. \A k \in Int : b + ((n + 1) - 1) * 6 + k + 1 = b + n * 6 + (k + 1)
    OBVIOUS
<1>2. \A k \in Int : CommandByte(p, n + 1, k) = p[b + n * 6 + (k + 1)]
    BY <1>1 DEF CommandByte
<1>3. 0 + 1 = 1 /\ 1 + 1 = 2 /\ 3 + 1 = 4 /\ 4 + 1 = 5 /\ 5 + 1 = 6
    OBVIOUS
<1>4. /\ CommandByte(p, n + 1, 0) = p[b + n * 6 + 1]
      /\ CommandByte(p, n + 1, 1) = p[b + n * 6 + 2]
      /\ CommandByte(p, n + 1, 3) = p[b + n * 6 + 4]
      /\ CommandByte(p, n + 1, 4) = p[b + n * 6 + 5]
      /\ CommandByte(p, n + 1, 5) = p[b + n * 6 + 6]
    BY <1>2, <1>3
<1>5. QED
    BY <1>4 DEF Command

\* What the parser returns leads to the loops over the tag and over the lights.
LEMMA ParsedIsTyped ==
    ASSUME NEW p \in Seq(Byte), NEW t, NEW ls,
           parseLightPacket(p) = [tag |-> t, lights |-> ls]
    PROVE  t \in Seq(Byte) /\ LightsSet(ls, 0, EmptyPacket)
<1>1. PICK r : r = parseLightPacket(p)
    OBVIOUS
<1>2. r \in [tag : Seq(Byte), lights : Seq(LightColor)]
    BY <1>1, ParserType
<1>3. r.lights = ls /\ r.tag = t
    BY <1>1
<1>4. QED
    BY <1>2, <1>3, LightsNone

\* Every turn of a loop keeps the invariant of the loops.
LEMMA LoopStep == LoopInv /\ [Next]_vars => LoopInv'
<1> SUFFICES ASSUME LoopInv, [Next]_vars PROVE LoopInv'
    OBVIOUS
<1>1. PICK p : p = packet
    OBVIOUS
<1>2. p \in Seq(Byte)
    BY <1>1 DEF LoopInv
<1>3. CASE Rejected
    <2>1. packet' = p /\ pc' = "filter" /\ i' = 0 /\ tag' = <<>> /\ lights' = <<>>
          /\ dmx' = EmptyPacket /\ ~WellFormed(p) /\ text' = <<>>
        BY <1>1, <1>3 DEF Rejected, Return, GoTo, LoopInv
    <2>2. parseLightPacket(p) = [tag |-> <<>>, lights |-> <<>>]
        BY <2>1 DEF parseLightPacket
    <2>3. FilterScanned(<<>>, <<>>, 0)
        <3>1. <<>> \in Seq(Byte)
            OBVIOUS
        <3>2. QED
            BY <3>1, FilterNone, Zenon
    <2>4. QED
        BY <1>2, <2>1, <2>2, <2>3 DEF LoopInv
<1>4. CASE Accepted
    <2>1. packet' = p /\ pc' = "tag" /\ i' = 2 /\ WellFormed(p)
          /\ UNCHANGED <<tag, baseOffset, lights, text, dmx>> /\ pc = "start"
        BY <1>1, <1>4 DEF Accepted
    <2>2. TagScanned(p, 2)
        BY <1>2, <2>1, TagFirst
    <2>3. QED
        BY <1>2, <2>1, <2>2 DEF LoopInv
<1>5. CASE TagByte
    <2>1. /\ packet' = p /\ pc' = "tag" /\ i' = i + 1 /\ pc = "tag"
          /\ i < Len(p) /\ p[i + 1] # 0 /\ UNCHANGED <<tag, baseOffset, lights, dmx>>
        BY <1>1, <1>5 DEF TagByte
    <2>2. TagScanned(p, i + 1)
        BY <1>1, <1>2, <2>1, TagLonger DEF LoopInv
    <2>3. QED
        BY <1>2, <2>1, <2>2 DEF LoopInv
<1>6. CASE TagEnd
    <2>1. /\ packet' = p /\ pc' = "commands" /\ i' = 0 /\ pc = "tag"
          /\ i < Len(p) /\ p[i + 1] = 0 /\ tag' = SubSeq(p, 3, i) /\ baseOffset' = i + 1
          /\ UNCHANGED <<lights, dmx>>
        BY <1>1, <1>6 DEF TagEnd, GoTo
    <2>2. /\ TagScanned(p, i) /\ lights' = <<>> /\ dmx' = EmptyPacket
        BY <1>1, <2>1 DEF LoopInv
    <2>3. ParsedTag(p) = SubSeq(p, 3, i) /\ BaseOffset(p) = i + 1 /\ WellFormed(p)
        BY <1>2, <2>1, <2>2, TagOver DEF TagScanned
    <2>4. CommandsScanned(p, 0, <<>>)
        BY <1>2, <2>3, CommandsNone
    <2>5. QED
        BY <1>2, <2>1, <2>2, <2>3, <2>4 DEF LoopInv
<1>7. CASE NoTagEnd
    <2>1. /\ packet' = p /\ pc' = "commands" /\ i' = 0 /\ pc = "tag" /\ i >= Len(p)
          /\ UNCHANGED <<tag, baseOffset, lights, dmx>>
        BY <1>1, <1>7 DEF NoTagEnd, GoTo
    <2>2. /\ TagScanned(p, i) /\ tag' = <<>> /\ baseOffset' = 3 /\ lights' = <<>>
          /\ dmx' = EmptyPacket
        BY <1>1, <2>1 DEF LoopInv
    <2>3. ParsedTag(p) = <<>> /\ BaseOffset(p) = 3 /\ WellFormed(p)
        BY <1>2, <2>1, <2>2, TagNever DEF TagScanned
    <2>4. CommandsScanned(p, 0, <<>>)
        BY <1>2, <2>3, CommandsNone
    <2>5. QED
        BY <1>2, <2>1, <2>2, <2>3, <2>4 DEF LoopInv
<1>8. ASSUME pc = "commands"
      PROVE  /\ WellFormed(p) /\ tag = ParsedTag(p) /\ baseOffset = BaseOffset(p)
             /\ CommandsScanned(p, i, lights) /\ dmx = EmptyPacket
             /\ i \in Int /\ baseOffset \in Int /\ maxCount = MaxCount(p)
    <2>1. /\ WellFormed(p) /\ tag = ParsedTag(p) /\ baseOffset = BaseOffset(p)
          /\ CommandsScanned(p, i, lights) /\ dmx = EmptyPacket
        BY <1>1, <1>8 DEF LoopInv
    <2>2. i \in Int /\ baseOffset \in Int
        BY <1>2, <2>1, BaseOffsetType DEF CommandsScanned
    <2>3. maxCount = MaxCount(p)
        BY <1>1, <2>1 DEF maxCount, MaxCount
    <2>4. QED
        BY <2>1, <2>2, <2>3
<1>9. CASE OtherCommand
    <2>1. /\ packet' = p /\ pc' = "commands" /\ i' = i + 1 /\ pc = "commands"
          /\ i < maxCount /\ p[baseOffset + i * 6 + 1] # 1
          /\ UNCHANGED <<tag, baseOffset, lights, dmx>>
        BY <1>1, <1>9 DEF OtherCommand, offset
    <2>2. CommandByte(p, i + 1, 0) # 1
        BY <1>8, <2>1, ByteAtOffset
    <2>3. CommandsScanned(p, i + 1, lights)
        BY <1>2, <1>8, <2>1, <2>2, CommandsMore
    <2>4. QED
        BY <1>2, <1>8, <2>1, <2>3 DEF LoopInv
<1>10. CASE LightCommand
    <2>1. PICK l : l = [index |-> CharToUInt(p[baseOffset + i * 6 + 2]),
                        color |-> [red   |-> p[baseOffset + i * 6 + 4],
                                   green |-> p[baseOffset + i * 6 + 5],
                                   blue  |-> p[baseOffset + i * 6 + 6]]]
        OBVIOUS
    <2>2. /\ packet' = p /\ pc' = "commands" /\ i' = i + 1 /\ pc = "commands"
          /\ i < maxCount /\ p[baseOffset + i * 6 + 1] = 1
          /\ lights' = Append(lights, l) /\ UNCHANGED <<tag, baseOffset, dmx>>
        BY <1>1, <1>10, <2>1 DEF LightCommand, offset
    <2>3. CommandByte(p, i + 1, 0) = 1 /\ Command(p, i + 1) = l
        BY <1>8, <2>1, <2>2, ByteAtOffset
    <2>4. CommandsScanned(p, i + 1, Append(lights, l))
        BY <1>2, <1>8, <2>2, <2>3, CommandsMore
    <2>5. QED
        BY <1>2, <1>8, <2>2, <2>4 DEF LoopInv
<1>11. CASE NoMoreCommands
    <2>1. /\ packet' = p /\ pc' = "filter" /\ i' = 0 /\ pc = "commands" /\ i >= maxCount
          /\ text' = tag /\ UNCHANGED <<tag, baseOffset, lights, dmx>>
        BY <1>1, <1>11 DEF NoMoreCommands, Return, GoTo
    <2>2. lights = ParsedLights(p)
        BY <1>2, <1>8, <2>1, CommandsAll
    <2>3. parseLightPacket(p) = [tag |-> tag, lights |-> lights]
        BY <1>8, <2>1, <2>2 DEF parseLightPacket
    <2>4. FilterScanned(tag, tag, 0)
        BY <1>2, <2>3, ParsedIsTyped, FilterNone
    <2>5. QED
        BY <1>2, <1>8, <2>1, <2>3, <2>4 DEF LoopInv
<1>12. ASSUME pc = "filter"
       PROVE  /\ parseLightPacket(p) = [tag |-> tag, lights |-> lights]
              /\ tag \in Seq(Byte) /\ FilterScanned(tag, text, i) /\ dmx = EmptyPacket
              /\ LightsSet(lights, 0, EmptyPacket)
    <2>1. /\ parseLightPacket(p) = [tag |-> tag, lights |-> lights]
          /\ FilterScanned(tag, text, i) /\ dmx = EmptyPacket
        BY <1>1, <1>12 DEF LoopInv
    <2>2. QED
        BY <1>2, <2>1, ParsedIsTyped
<1>13. CASE GoodCharacter
    <2>1. /\ packet' = p /\ pc' = "filter" /\ i' = i + 1 /\ pc = "filter"
          /\ i < Len(text) /\ text[i + 1] \in Whitelist
          /\ UNCHANGED <<tag, baseOffset, lights, text, dmx>>
        BY <1>1, <1>13 DEF GoodCharacter
    <2>2. FilterScanned(tag, text, i + 1)
        BY <1>12, <2>1, FilterMore
    <2>3. QED
        BY <1>2, <1>12, <2>1, <2>2 DEF LoopInv
<1>14. CASE BadCharacter
    <2>1. /\ packet' = p /\ pc' = "filter" /\ i' = i /\ pc = "filter"
          /\ i < Len(text) /\ text[i + 1] \notin Whitelist
          /\ text' = SubSeq(text, 1, i) \o SubSeq(text, i + 2, Len(text))
          /\ UNCHANGED <<tag, baseOffset, lights, dmx>>
        BY <1>1, <1>14 DEF BadCharacter, Erased, ErasedAt
    <2>2. FilterScanned(tag, SubSeq(text, 1, i) \o SubSeq(text, i + 2, Len(text)), i)
        BY <1>12, <2>1, FilterMore
    <2>3. FilterScanned(tag, text, i)'
        BY <2>1, <2>2, Zenon
    <2>4. QED
        BY <1>2, <1>12, <2>1, <2>3 DEF LoopInv
<1>15. CASE NoMoreCharacters
    <2>1. /\ packet' = p /\ pc' = "lights" /\ i' = 0 /\ pc = "filter" /\ i >= Len(text)
          /\ UNCHANGED <<tag, baseOffset, lights, text, dmx>>
        BY <1>1, <1>15 DEF NoMoreCharacters, GoTo
    <2>2. text = FilterTag(tag)
        BY <1>12, <2>1, FilterAll
    <2>3. QED
        BY <1>2, <1>12, <2>1, <2>2 DEF LoopInv
<1>16. CASE SetLight
    <2>1. /\ packet' = p /\ pc' = "lights" /\ i' = i + 1 /\ pc = "lights"
          /\ i < Len(lights) /\ dmx' = setLightColor(dmx, lights[i + 1])
          /\ UNCHANGED <<tag, baseOffset, lights, text>>
        BY <1>1, <1>16 DEF SetLight
    <2>2. /\ parseLightPacket(p) = [tag |-> tag, lights |-> lights]
          /\ text = FilterTag(tag) /\ LightsSet(lights, i, dmx)
        BY <1>1, <2>1 DEF LoopInv
    <2>3. LightsSet(lights, i + 1, setLightColor(dmx, lights[i + 1]))
        BY <2>1, <2>2, LightsMore
    <2>4. QED
        BY <1>2, <2>1, <2>2, <2>3 DEF LoopInv
<1>17. CASE NoMoreLights
    <2>1. /\ packet' = p /\ pc' = "done" /\ pc = "lights" /\ i >= Len(lights)
          /\ UNCHANGED <<i, tag, baseOffset, lights, text, dmx>>
        BY <1>1, <1>17 DEF NoMoreLights
    <2>2. /\ parseLightPacket(p) = [tag |-> tag, lights |-> lights]
          /\ text = FilterTag(tag) /\ LightsSet(lights, i, dmx)
        BY <1>1, <2>1 DEF LoopInv
    <2>3. i = Len(lights)
        BY <2>1, <2>2 DEF LightsSet
    <2>4. QED
        BY <1>2, <2>1, <2>2, <2>3 DEF LoopInv
<1>18. CASE UNCHANGED vars
    BY <1>18 DEF vars, LoopInv
<1>19. QED
    BY <1>3, <1>4, <1>5, <1>6, <1>7, <1>9, <1>10, <1>11, <1>13, <1>14, <1>15, <1>16, <1>17, <1>18
    DEF Next

\* The loops start in the invariant.
LEMMA LoopInit == Init => LoopInv
BY PacketsAssumption DEF Init, LoopInv

\* parseLightPacket reads bytes of the packet only, for packets of any length.
THEOREM AlwaysReadsInBounds == Spec => []ReadsInBounds
<1>1. LoopInv => ReadsInBounds
    <2> SUFFICES ASSUME LoopInv PROVE Reads \subseteq 0..(Len(packet) - 1)
        BY DEF ReadsInBounds
    <2>1. PICK p : p = packet
        OBVIOUS
    <2>2. p \in Seq(Byte) /\ Len(p) \in Nat
        BY <2>1 DEF LoopInv
    <2>3. CASE pc = "tag" /\ i < Len(p)
        <3>1. i \in 2..Len(p)
            BY <2>1, <2>3 DEF LoopInv, TagScanned
        <3>2. Reads = {i}
            BY <2>1, <2>3 DEF Reads
        <3>3. QED
            BY <2>1, <2>2, <2>3, <3>1, <3>2
    <2>4. CASE pc = "commands" /\ i < maxCount
        <3>1. /\ WellFormed(p) /\ baseOffset = BaseOffset(p) /\ maxCount = MaxCount(p)
              /\ i \in 0..MaxCount(p)
            BY <2>1, <2>4 DEF LoopInv, CommandsScanned, maxCount, MaxCount
        <3>2. baseOffset \in 3..Len(p) /\ MaxCount(p) \in Nat
            BY <2>2, <3>1, BaseOffsetType, ParserReadsInBounds
        <3>3. PICK b : b = baseOffset
            OBVIOUS
        <3>4. PICK n : n = i
            OBVIOUS
        <3>5. /\ b \in Int /\ 3 <= b /\ n \in Int /\ 0 <= n
              /\ n < (Len(p) - b) \div 6
            BY <2>1, <2>4, <3>1, <3>2, <3>3, <3>4 DEF maxCount
        <3>6. b + n * 6 + 5 <= Len(p) - 1 /\ 0 <= b + n * 6
            BY <2>2, <3>5
        <3>7. Reads = (b + n * 6)..(b + n * 6 + 5)
            BY <2>4, <3>3, <3>4 DEF Reads, offset
        <3>8. QED
            BY <2>1, <2>2, <3>5, <3>6, <3>7
    <2>5. CASE ~(pc = "tag" /\ i < Len(p)) /\ ~(pc = "commands" /\ i < maxCount)
        BY <2>1, <2>5 DEF Reads
    <2>6. QED
        BY <2>3, <2>4, <2>5
<1>2. QED
    BY <1>1, LoopInit, LoopStep, PTL DEF Spec

\* The closed form of the parser is what the loops return, for packets of any
\* length.
THEOREM ParserIsAlwaysLoop == Spec => []ParserIsLoop
<1>1. LoopInv => ParserIsLoop
    BY DEF LoopInv, ParserIsLoop
<1>2. QED
    BY <1>1, LoopInit, LoopStep, PTL DEF Spec

\* The closed form of the tag filter is what erasing in place leaves, for tags of
\* any length.
THEOREM FilterIsAlwaysLoop == Spec => []FilterIsLoop
<1>1. LoopInv => FilterIsLoop
    <2> SUFFICES ASSUME LoopInv, pc \in {"lights", "done"}
                 PROVE  text = FilterTag(parseLightPacket(packet).tag)
        BY DEF FilterIsLoop
    <2>1. parseLightPacket(packet) = [tag |-> tag, lights |-> lights] /\ text = FilterTag(tag)
        BY DEF LoopInv
    <2>2. parseLightPacket(packet).tag = tag
        BY <2>1
    <2>3. QED
        BY <2>1, <2>2, Zenon
<1>2. QED
    BY <1>1, LoopInit, LoopStep, PTL DEF Spec

\* The closed form of the DMX packet is what setLightColor leaves in turn, for any
\* number of commands and any configuration of lights.
THEOREM BatchIsAlwaysSequential == Spec => []BatchIsSequential
<1>1. LoopInv => BatchIsSequential
    <2> SUFFICES ASSUME LoopInv, pc = "done"
                 PROVE  setLightColors(EmptyPacket, parseLightPacket(packet).lights) = dmx
        BY DEF BatchIsSequential
    <2>1. /\ parseLightPacket(packet) = [tag |-> tag, lights |-> lights]
          /\ lights \in Seq(LightColor)
          /\ dmx = setLightColors(EmptyPacket, SubSeq(lights, 1, Len(lights)))
        BY DEF LoopInv, LightsSet
    <2>2. SubSeq(lights, 1, Len(lights)) = lights
        BY <2>1, SubSeqFull
    <2>3. parseLightPacket(packet).lights = lights
        BY <2>1
    <2>4. QED
        BY <2>1, <2>2, <2>3
<1>2. QED
    BY <1>1, LoopInit, LoopStep, PTL DEF Spec

\* What Serveri::lightPacket does with a packet in its two loops is what the
\* closed forms say, for every packet and every configuration of lights.
THEOREM HandlerIsAlwaysLoop == Spec => []HandlerIsLoop
BY FilterIsAlwaysLoop, BatchIsAlwaysSequential, PTL DEF HandlerIsLoop

=============================================================================
