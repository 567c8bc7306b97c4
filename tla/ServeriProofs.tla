---------------------------- MODULE ServeriProofs ----------------------------
(***************************************************************************)
(* What holds of the server with any number of clients, any packets and    *)
(* any configuration: the bookkeeping of connections is consistent, the    *)
(* monitor message and the DMX packet follow the light state, no update is *)
(* lost, and the server implements LightShow.                              *)
(***************************************************************************)
EXTENDS ServeriShow, LightsProofs, SequenceTheorems

-----------------------------------------------------------------------------
(* The data                                                                *)

\* A sequence is one over every set that holds its elements.
LEMMA SeqOfElements ==
    ASSUME NEW S, NEW T, NEW t \in Seq(S), \A k \in DOMAIN t : t[k] \in T
    PROVE  t \in Seq(T)
<1>1. t \in [1..Len(t) -> S] /\ Len(t) \in Nat
    BY LenProperties
<1>2. t \in [1..Len(t) -> T]
    BY <1>1
<1>3. QED
    BY <1>1, <1>2, SeqDef

\* The first element of a queue, and the rest.
LEMMA HeadTail ==
    ASSUME NEW S, NEW q \in Seq(S), q # <<>>
    PROVE  /\ Head(q) \in S /\ Head(q) = q[1] /\ 1 \in DOMAIN q
           /\ Tail(q) \in Seq(S)
           /\ \A i \in DOMAIN Tail(q) : /\ i \in Int /\ i + 1 \in DOMAIN q /\ i + 1 # 1
                                        /\ Tail(q)[i] = q[i + 1]
<1>1. Len(q) \in Nat \ {0} /\ DOMAIN q = 1..Len(q)
    BY EmptySeq
<1>2. Tail(q) \in Seq(S) /\ DOMAIN Tail(q) = 1..(Len(q) - 1)
    BY <1>1
<1>3. \A i \in 1..(Len(q) - 1) : Tail(q)[i] = q[i + 1]
    BY <1>1
<1>4. QED
    BY <1>1, <1>2, <1>3

\* A queue with one more element.
LEMMA Appended ==
    ASSUME NEW S, NEW q \in Seq(S), NEW x \in S, NEW t, t = Append(q, x)
    PROVE  /\ t \in Seq(S) /\ Len(t) = Len(q) + 1 /\ Len(q) \in Nat
           /\ DOMAIN q = 1..Len(q) /\ DOMAIN t = 1..(Len(q) + 1)
           /\ \A i \in DOMAIN q : i \in DOMAIN t /\ t[i] = q[i]
           /\ t[Len(q) + 1] = x
<1>1. Len(q) \in Nat /\ DOMAIN q = 1..Len(q)
    BY LenProperties
<1>2. Append(q, x) \in Seq(S) /\ Len(Append(q, x)) = Len(q) + 1
    OBVIOUS
<1>3. DOMAIN Append(q, x) = 1..(Len(q) + 1)
    BY <1>2, LenProperties
<1>4. Append(q, x)[Len(q) + 1] = x
    BY <1>1
<1>5. \A i \in 1..Len(q) : Append(q, x)[i] = q[i]
    BY <1>1
<1>6. QED
    BY <1>1, <1>2, <1>3, <1>4, <1>5

\* A colour is printed as six hexadecimal digits.
LEMMA HexType ==
    ASSUME NEW c \in Color
    PROVE  Hex(c) \in Seq(0..15)
<1>1. ASSUME NEW b \in Byte PROVE HexDigits(b) \in Seq(0..15)
    <2>1. b \div 16 \in 0..15 /\ b % 16 \in 0..15
        BY DEF Byte
    <2>2. QED
        BY <2>1 DEF HexDigits
<1>2. c.red \in Byte /\ c.green \in Byte /\ c.blue \in Byte
    BY DEF Color
<1>3. /\ HexDigits(c.red) \in Seq(0..15)
      /\ HexDigits(c.green) \in Seq(0..15)
      /\ HexDigits(c.blue) \in Seq(0..15)
    BY <1>1, <1>2
<1>4. QED
    BY <1>3 DEF Hex

\* updateMonitorMessage makes a message of every state.
LEMMA RenderType ==
    ASSUME NEW s \in LightState
    PROVE  Render(s) \in Message
<1>1. DOMAIN s.lights = LightIds /\ \A i \in LightIds : s.lights[i] \in Color
    BY DEF LightState
<1>2. s.tag \in Seq(Byte)
    BY DEF LightState
<1>3. Cardinality(DOMAIN s.lights) \in Nat
    <2>1. IsFiniteSet(LightIds)
        BY FS_Interval, LightsAssumption DEF LightIds
    <2>2. QED
        BY <1>1, <2>1, FS_CardinalityType
<1>4. [i \in DOMAIN s.lights |-> Hex(s.lights[i])] \in [LightIds -> Seq(0..15)]
    BY <1>1, HexType
<1>5. QED
    BY <1>2, <1>3, <1>4 DEF Render, Message

\* What is understood of a packet is a tag and light commands.
LEMMA UnderstoodType ==
    ASSUME NEW p \in Packets
    PROVE  /\ Understood[p].tag \in Seq(Byte)
           /\ Understood[p].lights \in Seq(LightColor)
           /\ \A i \in DOMAIN Understood[p].tag : Understood[p].tag[i] \in Whitelist
<1>1. p \in Seq(Byte)
    BY ServeriAssumption
<1>2. parseLightPacket(p) \in [tag : Seq(Byte), lights : Seq(LightColor)]
    BY <1>1, ParserType
<1>3. /\ Understood[p].tag = FilterTag(parseLightPacket(p).tag)
      /\ Understood[p].lights = parseLightPacket(p).lights
    BY <1>2 DEF Understood
<1>4. parseLightPacket(p).tag \in Seq(Byte)
    BY <1>2
<1>5. QED
    BY <1>2, <1>3, <1>4, FilterTagType

\* The colour that a packet leaves in currentState is one of its own for that
\* light, or the old one.
LEMMA LastColorIs ==
    ASSUME NEW lights \in Seq(LightColor), NEW i, NEW old
    PROVE  \/ LastColor(lights, i, old) = old /\ \A k \in DOMAIN lights : lights[k].index # i
           \/ \E k \in DOMAIN lights :
                  /\ lights[k].index = i
                  /\ \A m \in DOMAIN lights : lights[m].index = i => k >= m
                  /\ LastColor(lights, i, old) = lights[k].color
<1> DEFINE For == {k \in DOMAIN lights : lights[k].index = i}
<1>1. LastColor(lights, i, old) = IF For = {} THEN old ELSE lights[Max(For)].color
    BY DEF LastColor
<1>2. Len(lights) \in Nat /\ For \in SUBSET (1..Len(lights))
    OBVIOUS
<1>3. For # {} => Max(For) \in For /\ \A m \in For : Max(For) >= m
    <2> HIDE DEF For
    <2> QED
        BY <1>2, MaxOfPositions
<1>4. QED
    BY <1>1, <1>3

\* lightPacket leaves a state and a DMX packet.
LEMMA LightPacketType ==
    ASSUME NEW p \in Packets, TypeOK, lightPacket(p)
    PROVE  /\ currentState' \in LightState
           /\ dmxPacket' \in DMXPacket
           /\ lightsDirty' = TRUE
<1>1. Understood[p].tag \in Seq(Byte) /\ Understood[p].lights \in Seq(LightColor)
    BY UnderstoodType
<1>2. DOMAIN currentState.lights = LightIds /\ \A i \in LightIds : currentState.lights[i] \in Color
    BY DEF TypeOK, LightState
<1>3. ASSUME NEW i \in LightIds
      PROVE  LastColor(Understood[p].lights, i, currentState.lights[i]) \in Color
    <2>1. ASSUME NEW k \in DOMAIN Understood[p].lights
          PROVE  Understood[p].lights[k].color \in Color
        <3>1. Understood[p].lights[k] \in LightColor
            BY <1>1
        <3>2. QED
            BY <3>1 DEF LightColor
    <2>2. QED
        BY <1>1, <1>2, <2>1, LastColorIs
<1>4. [i \in DOMAIN currentState.lights |->
          LastColor(Understood[p].lights, i, currentState.lights[i])] \in [LightIds -> Color]
    BY <1>2, <1>3
<1>5. currentState' \in LightState
    BY <1>1, <1>4 DEF lightPacket, LightState
<1>6. dmxPacket' \in DMXPacket
    BY <1>1, SetLightColorsType DEF lightPacket, TypeOK, DMXPacket
<1>7. QED
    BY <1>5, <1>6 DEF lightPacket

\* The packet the constructor makes consists of bytes.
LEMMA EmptyPacketType == EmptyPacket \in DMXPacket
<1>1. ASSUME NEW o \in Offsets PROVE EmptyPacket[o] \in Byte
    <2>1. \A n \in 1..4 : <<126, 6, 0, 2>>[n] \in 0..255
        OBVIOUS
    <2>2. o \in Int
        BY LightsAssumption DEF Offsets
    <2>3. QED
        BY <2>1, <2>2 DEF EmptyPacket, Byte
<1>2. EmptyPacket = [o \in Offsets |-> EmptyPacket[o]]
    BY Zenon DEF EmptyPacket
<1>3. QED
    BY <1>1, <1>2 DEF DMXPacket

-----------------------------------------------------------------------------
(* The tables of connections                                               *)

\* An fd in use finds its connection.
LEMMA ConnOfIs ==
    ASSUME FdsOwned, NEW c \in Conns, Live(c)
    PROVE  ConnOf(wsi[c].fd) = c
BY Zenon DEF ConnOf, FdsOwned

\* An entry of pollfds behind the listener's finds its connection.
LEMMA EntryHasConn ==
    ASSUME TypeOK, PollfdsMirrorLws, FdsOwned, NEW i \in DOMAIN pollfds, i >= 3
    PROVE  /\ ConnOf(pollfds[i].fd) \in Conns
           /\ Live(ConnOf(pollfds[i].fd))
           /\ wsi[ConnOf(pollfds[i].fd)].fd = pollfds[i].fd
           /\ pollfds[i].fd > ListenFd
<1>1. i \in 3..Len(pollfds)
    BY DEF TypeOK
<1>2. PICK c \in Conns : Live(c) /\ wsi[c].fd = pollfds[i].fd
    BY <1>1 DEF PollfdsMirrorLws
<1>3. ConnOf(pollfds[i].fd) = c
    BY <1>2, ConnOfIs
<1>4. QED
    BY <1>2, <1>3 DEF FdsOwned

\* While run() serves a connection it is in use, and the one poll reported.
LEMMA ServingIs ==
    ASSUME TypeOK, SnapshotFresh, FdsOwned, NEW c \in Conns, Serving(c)
    PROVE  /\ Live(c)
           /\ processFDs # <<>>
           /\ Head(processFDs) = processFDs[1] /\ 1 \in DOMAIN processFDs
           /\ processFDs[1] \in ReadyFd
           /\ processFDs[1].conn = c
           /\ processFDs[1].fd = wsi[c].fd
<1>1. processFDs # <<>> /\ processFDs[1].fd # ListenFd /\ Head(processFDs) = processFDs[1]
      /\ 1 \in DOMAIN processFDs /\ processFDs[1] \in ReadyFd
    BY DEF Serving, TypeOK
<1>2. Live(processFDs[1].conn) /\ wsi[processFDs[1].conn].fd = processFDs[1].fd
      /\ processFDs[1].conn # "listen"
    BY <1>1 DEF SnapshotFresh
<1>3. processFDs[1].conn \in Conns
    BY <1>1, <1>2 DEF ReadyFd
<1>4. ConnOf(processFDs[1].fd) = processFDs[1].conn
    BY <1>2, <1>3, ConnOfIs
<1>5. QED
    BY <1>1, <1>2, <1>4 DEF Serving

\* setFDEvents leaves the tables in step when libwebsockets changes what it
\* knows of one connection.
LEMMA EventsSet ==
    ASSUME TypeOK, PollfdsMirrorLws, FdsOwned,
           NEW c \in Conns, Live(c),
           NEW w \in Wsi, w.fd = wsi[c].fd, w.state # "none",
           SetEvents(c, w)
    PROVE  /\ wsi' \in [Conns -> Wsi] /\ wsi'[c] = w
           /\ \A d \in Conns : d # c => wsi'[d] = wsi[d]
           /\ \A d \in Conns : (Live(d)' <=> Live(d)) /\ wsi'[d].fd = wsi[d].fd
           /\ pollfds' \in Seq(PollFd)
           /\ pollfds'[1].revents = pollfds[1].revents
           /\ PollfdsMirrorLws' /\ FdsOwned'
<1>1. wsi \in [Conns -> Wsi] /\ pollfds \in Seq(PollFd)
    BY DEF TypeOK
<1>2. wsi' \in [Conns -> Wsi] /\ wsi'[c] = w /\ \A d \in Conns : d # c => wsi'[d] = wsi[d]
    BY <1>1 DEF SetEvents
<1>3. \A d \in Conns : (Live(d)' <=> Live(d)) /\ wsi'[d].fd = wsi[d].fd
    BY <1>2 DEF Live
<1>4. /\ DOMAIN pollfds' = DOMAIN pollfds
      /\ \A i \in DOMAIN pollfds :
             pollfds'[i] = IF pollfds[i].fd = w.fd THEN [pollfds[i] EXCEPT !.events = w.events]
                                                   ELSE pollfds[i]
    BY DEF SetEvents, setFDEvents
<1>5. ASSUME NEW i \in DOMAIN pollfds
      PROVE  /\ pollfds'[i] \in PollFd
             /\ pollfds'[i].fd = pollfds[i].fd
             /\ pollfds'[i].revents = pollfds[i].revents
             /\ pollfds'[i].events = IF pollfds[i].fd = w.fd THEN w.events ELSE pollfds[i].events
    <2>1. pollfds[i] \in PollFd /\ w.events \in SUBSET {POLLIN, POLLOUT}
        BY <1>1 DEF Wsi
    <2>2. QED
        BY <1>4, <2>1 DEF PollFd
<1>6. pollfds' \in Seq(PollFd) /\ Len(pollfds') = Len(pollfds)
    <2>1. pollfds' = [i \in 1..Len(pollfds) |-> pollfds'[i]]
        BY <1>1 DEF SetEvents, setFDEvents
    <2>2. QED
        BY <1>1, <1>5, <2>1
<1>7. FdsOwned'
    BY <1>2, <1>3 DEF FdsOwned, Live
<1>8. PollfdsMirrorLws'
    <2>1. Len(pollfds') >= 2 /\ pollfds'[1].fd = UDPfd /\ pollfds'[2].fd = ListenFd
        BY <1>1, <1>5, <1>6 DEF PollfdsMirrorLws
    <2>2. \A i, j \in DOMAIN pollfds' : pollfds'[i].fd = pollfds'[j].fd => i = j
        BY <1>4, <1>5 DEF PollfdsMirrorLws
    <2>3. ASSUME NEW d \in Conns, Live(d)'
          PROVE  \E i \in DOMAIN pollfds' : /\ pollfds'[i].fd = wsi'[d].fd
                                            /\ pollfds'[i].events = wsi'[d].events
        <3>1. PICK i \in DOMAIN pollfds : pollfds[i].fd = wsi[d].fd
                                          /\ pollfds[i].events = wsi[d].events
            BY <1>3, <2>3 DEF PollfdsMirrorLws
        <3>2. pollfds[i].fd = w.fd <=> d = c
            BY <1>3, <2>3, <3>1 DEF FdsOwned
        <3>3. QED
            BY <1>2, <1>3, <1>4, <1>5, <3>1, <3>2
    <2>4. \A i \in 3..Len(pollfds') : \E d \in Conns : Live(d)' /\ wsi'[d].fd = pollfds'[i].fd
        <3>1. \A i \in 3..Len(pollfds) : \E d \in Conns : Live(d) /\ wsi[d].fd = pollfds[i].fd
            BY DEF PollfdsMirrorLws
        <3>2. \A i \in 3..Len(pollfds) : i \in DOMAIN pollfds
            BY <1>1
        <3>3. QED
            BY <1>3, <1>5, <1>6, <3>1, <3>2
    <2>5. QED
        BY <2>1, <2>2, <2>3, <2>4 DEF PollfdsMirrorLws
<1>9. QED
    <2>1. 1 \in DOMAIN pollfds
        BY <1>1 DEF PollfdsMirrorLws
    <2>2. QED
        BY <1>2, <1>3, <1>5, <1>6, <1>7, <1>8, <2>1

\* A change that leaves the events alone leaves pollfds alone.
LEMMA SameEvents ==
    ASSUME TypeOK, PollfdsMirrorLws, NEW c \in Conns, Live(c)
    PROVE  setFDEvents(pollfds, wsi[c].fd, wsi[c].events) = pollfds
<1>1. pollfds \in Seq(PollFd)
    BY DEF TypeOK
<1>2. ASSUME NEW i \in DOMAIN pollfds, pollfds[i].fd = wsi[c].fd
      PROVE  [pollfds[i] EXCEPT !.events = wsi[c].events] = pollfds[i]
    <2>1. pollfds[i].events = wsi[c].events
        BY <1>2 DEF PollfdsMirrorLws
    <2>2. pollfds[i] \in PollFd
        BY <1>1
    <2>3. QED
        BY <2>1, <2>2 DEF PollFd
<1>3. setFDEvents(pollfds, wsi[c].fd, wsi[c].events) = [i \in DOMAIN pollfds |-> pollfds[i]]
    BY <1>2 DEF setFDEvents
<1>4. QED
    BY <1>1, <1>3

\* A connection that is not in use.
LEMMA NoWsiType == NoWsi \in Wsi /\ NoWsi.proto = "none" /\ NoWsi.state = "none"
<1>1. <<>> \in Seq(Message)
    OBVIOUS
<1>2. QED
    BY <1>1 DEF NoWsi, Wsi, WsiState

\* deleteFD removes the entry of a connection and no other, and leaves the UDP
\* socket and the listener where they are.
LEMMA EntryDeleted ==
    ASSUME TypeOK, PollfdsMirrorLws, FdsOwned,
           NEW c \in Conns, Live(c),
           wsi' = [wsi EXCEPT ![c] = NoWsi],
           pollfds' = deleteFD(pollfds, wsi[c].fd)
    PROVE  wsi' \in [Conns -> Wsi] /\ pollfds' \in Seq(PollFd)
           /\ PollfdsMirrorLws' /\ FdsOwned'
<1> DEFINE K == {i \in DOMAIN pollfds : pollfds[i].fd # wsi[c].fd}
<1>1. wsi \in [Conns -> Wsi] /\ pollfds \in Seq(PollFd)
    BY DEF TypeOK
<1>2. K \in SUBSET (DOMAIN pollfds) /\ pollfds' = Subsequence(pollfds, K)
    BY DEF deleteFD
<1>3. 1..2 \subseteq K
    <2>1. wsi[c].fd > ListenFd
        BY DEF FdsOwned
    <2>2. {1, 2} \subseteq DOMAIN pollfds /\ pollfds[1].fd = UDPfd /\ pollfds[2].fd = ListenFd
        BY <1>1 DEF PollfdsMirrorLws
    <2>3. {1, 2} \subseteq K
        BY <2>1, <2>2 DEF UDPfd, ListenFd
    <2>4. QED
        BY <2>3
<1>4. \A i \in K : i \in DOMAIN pollfds /\ pollfds[i].fd # wsi[c].fd
    OBVIOUS
<1>5. \A i \in DOMAIN pollfds : pollfds[i].fd # wsi[c].fd => i \in K
    OBVIOUS
<1> HIDE DEF K
<1>6. pollfds' \in Seq(PollFd)
    BY <1>1, <1>2, SubsequenceType
<1>7. NoWsi \in Wsi
    BY NoWsiType
<1>8. wsi' \in [Conns -> Wsi] /\ wsi'[c] = NoWsi /\ \A d \in Conns : d # c => wsi'[d] = wsi[d]
    BY <1>1, <1>7
<1>9. \A d \in Conns : Live(d)' <=> Live(d) /\ d # c
    BY <1>8 DEF Live, NoWsi
<1>10. FdsOwned'
    BY <1>8, <1>9 DEF FdsOwned, Live
<1>11. /\ Len(pollfds') >= 2 /\ pollfds'[1] = pollfds[1] /\ pollfds'[2] = pollfds[2]
    <2>1. \A k \in 1..2 : k \in DOMAIN pollfds' /\ pollfds'[k] = pollfds[k]
        BY <1>1, <1>2, <1>3, SubsequencePrefix
    <2>2. QED
        BY <1>6, <2>1
<1>12. ASSUME NEW i \in DOMAIN pollfds', NEW j \in DOMAIN pollfds',
              pollfds'[i].fd = pollfds'[j].fd
       PROVE  i = j
    <2>1. ASSUME NEW k \in DOMAIN pollfds', NEW l \in DOMAIN pollfds', k < l
          PROVE  pollfds'[k].fd # pollfds'[l].fd
        <3>1. PICK m, n \in K : m < n /\ pollfds'[k] = pollfds[m] /\ pollfds'[l] = pollfds[n]
            BY <1>1, <1>2, <2>1, SubsequenceOrder
        <3>2. m # n /\ m \in DOMAIN pollfds /\ n \in DOMAIN pollfds
            BY <1>1, <1>4, <3>1
        <3>3. QED
            BY <3>1, <3>2 DEF PollfdsMirrorLws
    <2>2. i \in Int /\ j \in Int
        BY <1>6
    <2>3. QED
        BY <1>12, <2>1, <2>2
<1>13. ASSUME NEW d \in Conns, Live(d)'
       PROVE  \E i \in DOMAIN pollfds' : /\ pollfds'[i].fd = wsi'[d].fd
                                         /\ pollfds'[i].events = wsi'[d].events
    <2>1. Live(d) /\ d # c
        BY <1>9, <1>13
    <2>2. PICK i \in DOMAIN pollfds : /\ pollfds[i].fd = wsi[d].fd
                                      /\ pollfds[i].events = wsi[d].events
        BY <2>1 DEF PollfdsMirrorLws
    <2>3. i \in K
        BY <1>5, <2>1, <2>2 DEF FdsOwned
    <2>4. PICK k \in DOMAIN pollfds' : pollfds'[k] = pollfds[i]
        BY <1>1, <1>2, <2>3, SubsequenceElements
    <2>5. QED
        BY <1>8, <2>1, <2>2, <2>4
<1>14. ASSUME NEW i \in 3..Len(pollfds')
       PROVE  \E d \in Conns : Live(d)' /\ wsi'[d].fd = pollfds'[i].fd
    <2>1. i \in DOMAIN pollfds' /\ 1 \in DOMAIN pollfds' /\ 2 \in DOMAIN pollfds' /\ i # 1 /\ i # 2
        BY <1>6, <1>11
    <2>2. PICK m \in K : pollfds'[i] = pollfds[m]
        BY <1>1, <1>2, <2>1, SubsequenceElements
    <2>3. m # 1 /\ m # 2
        BY <1>11, <1>12, <2>1, <2>2
    <2>4. m \in 3..Len(pollfds) /\ pollfds[m].fd # wsi[c].fd
        BY <1>1, <1>4, <2>3
    <2>5. PICK d \in Conns : Live(d) /\ wsi[d].fd = pollfds[m].fd
        BY <2>4 DEF PollfdsMirrorLws
    <2>6. QED
        BY <1>8, <1>9, <2>2, <2>4, <2>5
<1>15. PollfdsMirrorLws'
    <2>1. pollfds'[1].fd = UDPfd /\ pollfds'[2].fd = ListenFd
        BY <1>11 DEF PollfdsMirrorLws
    <2>2. QED
        BY <1>11, <1>12, <1>13, <1>14, <2>1 DEF PollfdsMirrorLws
<1>16. QED
    BY <1>6, <1>8, <1>10, <1>15

\* The snapshot stays good while run() works through it, as long as the
\* connections that are still to be served keep their fds.
LEMMA SnapshotKept ==
    ASSUME TypeOK, SnapshotFresh, RoundConsistent,
           \/ processFDs' = processFDs
           \/ processFDs # <<>> /\ processFDs' = Tail(processFDs),
           \A d \in Conns : Live(d) /\ (\E i \in DOMAIN processFDs' : processFDs'[i].conn = d)
                            => Live(d)' /\ wsi'[d].fd = wsi[d].fd
    PROVE  /\ processFDs' \in Seq(ReadyFd)
           /\ SnapshotFresh'
           /\ \A i, j \in DOMAIN processFDs' : processFDs'[i].fd = processFDs'[j].fd => i = j
<1>1. processFDs \in Seq(ReadyFd)
    BY DEF TypeOK
<1>2. CASE processFDs' = processFDs
    <2>1. ASSUME NEW i \in DOMAIN processFDs, processFDs[i].conn # "listen"
          PROVE  /\ wsi'[processFDs[i].conn].state # "none"
                 /\ wsi'[processFDs[i].conn].fd = processFDs[i].fd
        <3>0. processFDs[i] \in ReadyFd
            BY <1>1
        <3>1. PICK d \in Conns : processFDs[i].conn = d
            BY <2>1, <3>0 DEF ReadyFd
        <3>2. Live(d) /\ wsi[d].fd = processFDs[i].fd
            BY <2>1, <3>1 DEF SnapshotFresh
        <3>3. QED
            BY <1>2, <3>1, <3>2 DEF Live
    <2>2. \A i \in DOMAIN processFDs : processFDs[i].conn = "listen" =>
              processFDs[i].fd = ListenFd /\ i = 1
        BY DEF SnapshotFresh
    <2>3. SnapshotFresh'
        BY <1>2, <2>1, <2>2 DEF SnapshotFresh, Live
    <2>4. QED
        BY <1>1, <1>2, <2>3 DEF RoundConsistent
<1>3. CASE processFDs # <<>> /\ processFDs' = Tail(processFDs)
    <2>1. processFDs' \in Seq(ReadyFd)
        BY <1>1, <1>3
    <2>2. \A i \in DOMAIN processFDs' : /\ i + 1 \in DOMAIN processFDs /\ i + 1 # 1
                                        /\ processFDs'[i] = processFDs[i + 1]
        BY <1>1, <1>3
    <2>3. \A i, j \in DOMAIN processFDs' : processFDs'[i].fd = processFDs'[j].fd => i = j
        <3>1. \A i \in DOMAIN processFDs' : i \in Int
            BY <2>1
        <3>2. QED
            BY <2>2, <3>1 DEF RoundConsistent
    <2>4. ASSUME NEW i \in DOMAIN processFDs'
          PROVE  /\ processFDs'[i].conn # "listen"
                 /\ wsi'[processFDs'[i].conn].state # "none"
                 /\ wsi'[processFDs'[i].conn].fd = processFDs'[i].fd
        <3>1. processFDs'[i] \in ReadyFd /\ processFDs'[i].conn # "listen"
            BY <2>1, <2>2 DEF SnapshotFresh
        <3>2. PICK d \in Conns : processFDs'[i].conn = d
            BY <3>1 DEF ReadyFd
        <3>3. Live(d) /\ wsi[d].fd = processFDs'[i].fd
            BY <2>2, <3>1, <3>2 DEF SnapshotFresh
        <3>4. QED
            BY <3>1, <3>2, <3>3 DEF Live
    <2>5. SnapshotFresh'
        BY <2>4 DEF SnapshotFresh, Live
    <2>6. QED
        BY <2>1, <2>3, <2>5
<1>4. QED
    BY <1>2, <1>3

-----------------------------------------------------------------------------
(* Steps that several actions share                                        *)

\* Nothing is lost track of when a connection ends.
LEMMA KillKeeps ==
    ASSUME Bookkeeping, NEW c \in Conns, Serving(c), Kill(c),
           inbuf' \in {inbuf, <<>>},
           UNCHANGED <<lightVars, outVars, listenq, udpq>>
    PROVE  Bookkeeping'
<1>1. /\ TypeOK /\ MonitorsAreLive /\ PollfdsMirrorLws /\ SnapshotFresh
      /\ FdsOwned /\ BacklogNew /\ UpgradedOnce /\ RoundConsistent
    BY DEF Bookkeeping
<1>2. /\ Live(c) /\ processFDs # <<>>
      /\ 1 \in DOMAIN processFDs /\ processFDs[1].fd = wsi[c].fd
    BY <1>1, ServingIs
<1>3. /\ wsi' = [wsi EXCEPT ![c] = NoWsi]
      /\ pollfds' = deleteFD(pollfds, wsi[c].fd)
      /\ monitorConnections' = IF wsi[c].proto = "monitor" THEN monitorConnections \ {c}
                                                           ELSE monitorConnections
      /\ rx' = [rx EXCEPT ![c] = <<>>] /\ tx' = [tx EXCEPT ![c] = <<>>]
      /\ peer' = [peer EXCEPT ![c] = "idle"] /\ shown' = [shown EXCEPT ![c] = <<>>]
      /\ pc' = "service" /\ processFDs' = Tail(processFDs)
    BY DEF Kill, ServiceReturns, deleteMonitor
<1>4. wsi' \in [Conns -> Wsi] /\ pollfds' \in Seq(PollFd) /\ PollfdsMirrorLws' /\ FdsOwned'
    BY <1>1, <1>2, <1>3, EntryDeleted
<1>5. /\ wsi'[c] = NoWsi /\ \A d \in Conns : d # c => wsi'[d] = wsi[d]
      /\ \A d \in Conns : Live(d)' <=> Live(d) /\ d # c
    BY <1>1, <1>3 DEF TypeOK, Live, NoWsi
<1>6. /\ processFDs' \in Seq(ReadyFd) /\ SnapshotFresh'
      /\ \A i, j \in DOMAIN processFDs' : processFDs'[i].fd = processFDs'[j].fd => i = j
    <2>1. ASSUME NEW i \in DOMAIN processFDs' PROVE processFDs'[i].conn # c
        <3>1. /\ i + 1 \in DOMAIN processFDs /\ i + 1 # 1
              /\ processFDs'[i] = processFDs[i + 1]
            BY <1>1, <1>2, <1>3 DEF TypeOK
        <3>2. processFDs[i + 1].conn = c => processFDs[i + 1].fd = wsi[c].fd
            BY <1>1, <3>1, ServeriAssumption DEF SnapshotFresh
        <3>3. QED
            BY <1>1, <1>2, <3>1, <3>2 DEF RoundConsistent
    <2>2. QED
        BY <1>1, <1>2, <1>3, <1>5, <2>1, SnapshotKept
<1>7. MonitorsAreLive'
    BY <1>1, <1>2, <1>3, <1>5 DEF MonitorsAreLive
<1>8. TypeOK'
    <2>1. rx' \in [Conns -> Seq(Frame)] /\ tx' \in [Conns -> Seq(Message)]
          /\ shown' \in [Conns -> Seq(Message)]
        BY <1>1, <1>3 DEF TypeOK
    <2>2. peer' \in [Conns -> {"idle", "connected", "requested", "fin", "rst", "lost"}]
        BY <1>1, <1>3 DEF TypeOK
    <2>3. inbuf' \in Seq(Frame) /\ monitorConnections' \in SUBSET Conns
        <3>1. inbuf \in Seq(Frame) /\ monitorConnections \in SUBSET Conns
            BY <1>1 DEF TypeOK
        <3>2. inbuf' = inbuf \/ inbuf' = <<>>
            OBVIOUS
        <3>3. <<>> \in Seq(Frame)
            OBVIOUS
        <3>4. QED
            BY <1>3, <3>1, <3>2, <3>3
    <2>4. QED
        BY <1>1, <1>3, <1>4, <1>6, <2>1, <2>2, <2>3 DEF TypeOK, lightVars, outVars
<1>9. BacklogNew'
    <2>1. /\ peer'[c] = "idle" /\ \A d \in Conns : d # c => peer'[d] = peer[d]
          /\ listenq' = listenq /\ \A i \in DOMAIN listenq : listenq[i] \in Conns
        BY <1>1, <1>3 DEF TypeOK
    <2>2. \A i \in DOMAIN listenq : listenq[i] # c
        BY <1>1, <1>2 DEF BacklogNew
    <2>3. \A i \in DOMAIN listenq : wsi'[listenq[i]].state = "none" /\ peer'[listenq[i]] # "idle"
        BY <1>1, <1>5, <2>1, <2>2 DEF BacklogNew, Live
    <2>4. QED
        BY <1>1, <1>5, <2>1, <2>3 DEF BacklogNew, Live
<1>10. UpgradedOnce'
    <2>1. ASSUME NEW d \in Conns PROVE ~InFrames(d)'
        BY <1>3 DEF InFrames
    <2>2. /\ rx'[c] = <<>> /\ \A d \in Conns : d # c => rx'[d] = rx[d] /\ peer'[d] = peer[d]
        BY <1>1, <1>3 DEF TypeOK
    <2>3. wsi'[c].proto = "none" /\ wsi'[c].state = "none" /\ Len(rx'[c]) <= 1
        BY <1>5, <2>2 DEF NoWsi
    <2>4. QED
        BY <1>1, <1>5, <2>1, <2>2, <2>3 DEF UpgradedOnce
<1>11. RoundConsistent'
    BY <1>3, <1>6 DEF RoundConsistent
<1>12. QED
    BY <1>4, <1>6, <1>7, <1>8, <1>9, <1>10, <1>11 DEF Bookkeeping

\* The tables, the snapshot and the accept queue after a step that changes one
\* connection and leaves it in use.
LEMMA ConnKept ==
    ASSUME Bookkeeping, NEW c \in Conns, Serving(c),
           NEW w \in Wsi, w.fd = wsi[c].fd, w.state # "none", SetEvents(c, w),
           processFDs' = processFDs \/ processFDs' = Tail(processFDs),
           UNCHANGED <<listenq, peer>>
    PROVE  /\ wsi' \in [Conns -> Wsi] /\ wsi'[c] = w
           /\ \A d \in Conns : d # c => wsi'[d] = wsi[d]
           /\ pollfds' \in Seq(PollFd) /\ processFDs' \in Seq(ReadyFd)
           /\ PollfdsMirrorLws' /\ FdsOwned' /\ SnapshotFresh' /\ BacklogNew'
           /\ \A i, j \in DOMAIN processFDs' : processFDs'[i].fd = processFDs'[j].fd => i = j
           /\ w.proto = wsi[c].proto /\ UNCHANGED monitorConnections => MonitorsAreLive'
<1>1. /\ TypeOK /\ MonitorsAreLive /\ PollfdsMirrorLws /\ SnapshotFresh
      /\ FdsOwned /\ BacklogNew /\ RoundConsistent
    BY DEF Bookkeeping
<1>2. Live(c) /\ processFDs # <<>>
    BY <1>1, ServingIs
<1>3. /\ wsi' \in [Conns -> Wsi] /\ wsi'[c] = w
      /\ \A d \in Conns : d # c => wsi'[d] = wsi[d]
      /\ \A d \in Conns : (Live(d)' <=> Live(d)) /\ wsi'[d].fd = wsi[d].fd
      /\ pollfds' \in Seq(PollFd) /\ PollfdsMirrorLws' /\ FdsOwned'
    BY <1>1, <1>2, EventsSet
<1>4. /\ processFDs' \in Seq(ReadyFd) /\ SnapshotFresh'
      /\ \A i, j \in DOMAIN processFDs' : processFDs'[i].fd = processFDs'[j].fd => i = j
    BY <1>1, <1>2, <1>3, SnapshotKept
<1>5. BacklogNew'
    <2>1. \A i \in DOMAIN listenq : listenq[i] \in Conns
        BY <1>1 DEF TypeOK
    <2>2. QED
        BY <1>1, <1>3, <2>1 DEF BacklogNew, Live
<1>6. ASSUME w.proto = wsi[c].proto, UNCHANGED monitorConnections
      PROVE  MonitorsAreLive'
    <2>1. \A d \in Conns : wsi'[d].proto = wsi[d].proto
        BY <1>3, <1>6
    <2>2. QED
        BY <1>1, <1>3, <1>6, <2>1 DEF MonitorsAreLive
<1>7. QED
    BY <1>3, <1>4, <1>5, <1>6

\* Nobody is upgraded twice as long as no upgrade request arrives.
LEMMA UpgradeKept ==
    ASSUME UpgradedOnce, UNCHANGED <<rx, peer>>,
           \A d \in Conns : /\ wsi'[d].proto = wsi[d].proto
                            /\ wsi'[d].state = "established" => wsi[d].state = "established",
           \A d \in Conns : InFrames(d)' =>
               /\ InFrames(d)
               /\ Len(inbuf) = 1 => Len(inbuf') = 1
               /\ \A i \in DOMAIN inbuf' : \E j \in DOMAIN inbuf : inbuf'[i] = inbuf[j]
    PROVE  UpgradedOnce'
<1> SUFFICES ASSUME NEW d \in Conns
             PROVE  /\ peer'[d] \in {"idle", "connected"} =>
                          rx'[d] = <<>> /\ wsi'[d].proto = "none" /\ ~InFrames(d)'
                    /\ wsi'[d].proto = "none" =>
                          /\ wsi'[d].state # "established" /\ Len(rx'[d]) <= 1
                          /\ InFrames(d)' => rx'[d] = <<>> /\ Len(inbuf') = 1
                    /\ wsi'[d].proto # "none" =>
                          /\ \A i \in DOMAIN rx'[d] : rx'[d][i].kind # "request"
                          /\ InFrames(d)' => \A i \in DOMAIN inbuf' : inbuf'[i].kind # "request"
    BY DEF UpgradedOnce
<1>1. /\ peer[d] \in {"idle", "connected"} =>
            rx[d] = <<>> /\ wsi[d].proto = "none" /\ ~InFrames(d)
      /\ wsi[d].proto = "none" =>
            /\ wsi[d].state # "established" /\ Len(rx[d]) <= 1
            /\ InFrames(d) => rx[d] = <<>> /\ Len(inbuf) = 1
      /\ wsi[d].proto # "none" =>
            /\ \A i \in DOMAIN rx[d] : rx[d][i].kind # "request"
            /\ InFrames(d) => \A i \in DOMAIN inbuf : inbuf[i].kind # "request"
    BY DEF UpgradedOnce
<1>2. rx'[d] = rx[d] /\ peer'[d] = peer[d]
    OBVIOUS
<1> HIDE DEF InFrames
<1>3. QED
    BY <1>1, <1>2

\* While frames are handled, they are those of the connection being served.
LEMMA HandlingIs ==
    ASSUME Bookkeeping, NEW c \in Conns, NEW kind, Handling(c, kind)
    PROVE  /\ Serving(c) /\ Live(c) /\ pc = "frames"
           /\ \A d \in Conns : InFrames(d) <=> d = c
           /\ inbuf # <<>> /\ Head(inbuf) = inbuf[1] /\ inbuf[1] \in Frame
           /\ 1 \in DOMAIN inbuf /\ Tail(inbuf) \in Seq(Frame)
           /\ inbuf[1].kind = kind
           /\ Len(inbuf) = 1 => Tail(inbuf) = <<>>
           /\ \A i \in DOMAIN Tail(inbuf) :
                  i + 1 \in DOMAIN inbuf /\ Tail(inbuf)[i] = inbuf[i + 1]
<1>1. TypeOK /\ SnapshotFresh /\ FdsOwned /\ RoundConsistent
    BY DEF Bookkeeping
<1>2. pc = "frames" /\ Serving(c) /\ Head(inbuf).kind = kind
    BY DEF Handling
<1>3. inbuf # <<>> /\ inbuf \in Seq(Frame)
    BY <1>1, <1>2 DEF RoundConsistent, TypeOK
<1>4. /\ Head(inbuf) = inbuf[1] /\ inbuf[1] \in Frame /\ 1 \in DOMAIN inbuf
      /\ Tail(inbuf) \in Seq(Frame)
      /\ \A i \in DOMAIN Tail(inbuf) :
             i + 1 \in DOMAIN inbuf /\ Tail(inbuf)[i] = inbuf[i + 1]
    BY <1>3
<1>5. Live(c) /\ processFDs # <<>> /\ Head(processFDs).conn = c
    BY <1>1, <1>2, ServingIs
<1>6. \A d \in Conns : InFrames(d) <=> d = c
    BY <1>2, <1>5 DEF InFrames
<1>7. Len(inbuf) = 1 => Tail(inbuf) = <<>>
    <2>1. Len(Tail(inbuf)) = Len(inbuf) - 1
        BY <1>3
    <2>2. QED
        BY <1>4, <2>1, EmptySeq
<1>8. QED
    BY <1>2, <1>3, <1>4, <1>5, <1>6, <1>7

\* What FrameDone leaves.
LEMMA FrameDoneIs ==
    ASSUME Bookkeeping, NEW c \in Conns, NEW kind, Handling(c, kind), FrameDone
    PROVE  /\ inbuf' \in Seq(Frame) /\ inbuf' = Tail(inbuf)
           /\ pc' \in {"service", "frames"}
           /\ processFDs' = processFDs \/ processFDs' = Tail(processFDs)
           /\ pc' = "frames" => inbuf' # <<>> /\ UNCHANGED loopVars
           /\ \A d \in Conns : InFrames(d)' =>
                  /\ InFrames(d)
                  /\ Len(inbuf) = 1 => Len(inbuf') = 1
                  /\ \A i \in DOMAIN inbuf' : \E j \in DOMAIN inbuf : inbuf'[i] = inbuf[j]
<1>1. /\ pc = "frames" /\ Tail(inbuf) \in Seq(Frame)
      /\ Len(inbuf) = 1 => Tail(inbuf) = <<>>
      /\ \A i \in DOMAIN Tail(inbuf) :
             i + 1 \in DOMAIN inbuf /\ Tail(inbuf)[i] = inbuf[i + 1]
    BY HandlingIs
<1>2. inbuf' = Tail(inbuf)
    BY DEF FrameDone
<1>3. CASE Tail(inbuf) = <<>>
    <2>1. pc' = "service" /\ processFDs' = Tail(processFDs)
        BY <1>3 DEF FrameDone, ServiceReturns
    <2>2. \A d \in Conns : ~InFrames(d)'
        BY <2>1 DEF InFrames
    <2>3. QED
        BY <1>1, <1>2, <2>1, <2>2
<1>4. CASE Tail(inbuf) # <<>>
    <2>1. pc' = pc /\ processFDs' = processFDs
        BY <1>4 DEF FrameDone, loopVars
    <2>2. \A d \in Conns : InFrames(d)' <=> InFrames(d)
        BY <2>1 DEF InFrames
    <2>3. Len(inbuf) # 1
        BY <1>1, <1>4
    <2>4. \A i \in DOMAIN inbuf' : \E j \in DOMAIN inbuf : inbuf'[i] = inbuf[j]
        BY <1>1, <1>2
    <2>5. QED
        BY <1>1, <1>2, <1>4, <2>1, <2>2, <2>3, <2>4 DEF loopVars
<1>5. QED
    BY <1>3, <1>4

\* A step that changes one connection without upgrading or ending it.
LEMMA ConnStep ==
    ASSUME Bookkeeping, NEW c \in Conns, Serving(c),
           NEW w \in Wsi, w.fd = wsi[c].fd, w.proto = wsi[c].proto, w.state # "none",
           w.state = "established" => wsi[c].state = "established",
           SetEvents(c, w),
           pc' \in {"service", "pollin", "frames"},
           processFDs' = processFDs \/ processFDs' = Tail(processFDs),
           pc' = "frames" => inbuf' # <<>> /\ processFDs' = processFDs,
           \A d \in Conns : InFrames(d)' =>
               /\ InFrames(d)
               /\ Len(inbuf) = 1 => Len(inbuf') = 1
               /\ \A i \in DOMAIN inbuf' : \E j \in DOMAIN inbuf : inbuf'[i] = inbuf[j],
           inbuf' \in Seq(Frame), tx' \in [Conns -> Seq(Message)],
           lightsDirty' \in BOOLEAN, currentState' \in LightState, dmxPacket' \in DMXPacket,
           UNCHANGED <<outVars, monitorConnections, listenq, udpq, rx, peer, shown>>
    PROVE  Bookkeeping'
<1>1. /\ TypeOK /\ SnapshotFresh /\ FdsOwned /\ UpgradedOnce /\ RoundConsistent
    BY DEF Bookkeeping
<1>2. /\ wsi' \in [Conns -> Wsi] /\ wsi'[c] = w
      /\ \A d \in Conns : d # c => wsi'[d] = wsi[d]
      /\ pollfds' \in Seq(PollFd) /\ processFDs' \in Seq(ReadyFd)
      /\ PollfdsMirrorLws' /\ FdsOwned' /\ SnapshotFresh' /\ BacklogNew'
      /\ \A i, j \in DOMAIN processFDs' : processFDs'[i].fd = processFDs'[j].fd => i = j
      /\ MonitorsAreLive'
    BY ConnKept
<1>3. TypeOK'
    BY <1>1, <1>2 DEF TypeOK, outVars
<1>4. UpgradedOnce'
    BY <1>1, <1>2, UpgradeKept
<1>5. RoundConsistent'
    <2>1. processFDs # <<>> /\ Head(processFDs).fd # ListenFd
        BY DEF Serving
    <2>2. QED
        BY <1>2, <2>1 DEF RoundConsistent
<1>6. QED
    BY <1>2, <1>3, <1>4, <1>5 DEF Bookkeeping

\* The same, outside of the handling of frames.
LEMMA ServiceStep ==
    ASSUME Bookkeeping, NEW c \in Conns, Serving(c),
           NEW w \in Wsi, w.fd = wsi[c].fd, w.proto = wsi[c].proto, w.state # "none",
           w.state = "established" => wsi[c].state = "established",
           SetEvents(c, w),
           pc' \in {"service", "pollin"},
           processFDs' = processFDs \/ processFDs' = Tail(processFDs),
           tx' \in [Conns -> Seq(Message)],
           UNCHANGED <<lightVars, outVars, monitorConnections, inbuf, listenq, udpq, rx, peer,
                       shown>>
    PROVE  Bookkeeping'
<1>1. \A d \in Conns : ~InFrames(d)'
    BY DEF InFrames
<1>2. /\ inbuf' \in Seq(Frame)
      /\ lightsDirty' \in BOOLEAN /\ currentState' \in LightState /\ dmxPacket' \in DMXPacket
    BY DEF Bookkeeping, TypeOK, lightVars
<1>3. QED
    BY <1>1, <1>2, ConnStep

-----------------------------------------------------------------------------
(* The actions of a connection's service                                   *)

\* Sending an unsent rest keeps the bookkeeping, or ends the connection.
LEMMA FlushBacklogKeeps ==
    ASSUME Bookkeeping, NEW c \in Conns, FlushBacklog(c)
    PROVE  Bookkeeping'
<1>1. Serving(c)
    BY DEF FlushBacklog, Polledout
<1>2. CASE peer[c] = "rst" \/ wsi[c].state = "flushing"
    BY <1>1, <1>2, KillKeeps DEF FlushBacklog
<1>3. CASE ~(peer[c] = "rst" \/ wsi[c].state = "flushing")
    <2> DEFINE w == [wsi[c] EXCEPT !.backlog = <<>>]
    <2>1. /\ TypeOK /\ PollfdsMirrorLws /\ Live(c)
        BY <1>1, ServingIs DEF Bookkeeping
    <2>2. wsi[c] \in Wsi /\ wsi \in [Conns -> Wsi] /\ tx \in [Conns -> Seq(Message)]
        BY <2>1 DEF TypeOK
    <2>3. /\ w \in Wsi /\ w.fd = wsi[c].fd /\ w.proto = wsi[c].proto /\ w.state = wsi[c].state
          /\ w.events = wsi[c].events /\ wsi[c].backlog \in Seq(Message)
        <3>1. <<>> \in Seq(Message)
            OBVIOUS
        <3>2. QED
            BY <2>2, <3>1 DEF Wsi
    <2>4. SetEvents(c, w)
        <3>1. wsi' = [wsi EXCEPT ![c] = w] /\ pollfds' = pollfds
            BY <1>3, <2>2 DEF FlushBacklog
        <3>2. QED
            BY <2>1, <2>3, <3>1, SameEvents DEF SetEvents
    <2>5. tx' \in [Conns -> Seq(Message)]
        <3>1. \E t \in {tx[c], tx[c] \o wsi[c].backlog} : tx' = [tx EXCEPT ![c] = t]
            BY <1>3 DEF FlushBacklog
        <3>2. tx[c] \in Seq(Message) /\ tx[c] \o wsi[c].backlog \in Seq(Message)
            BY <2>2, <2>3
        <3>3. QED
            BY <2>2, <3>1, <3>2
    <2>6. /\ pc' = "pollin" /\ processFDs' = processFDs
          /\ UNCHANGED <<lightVars, outVars, monitorConnections, inbuf, listenq, udpq, rx, peer,
                         shown>>
        BY <1>3 DEF FlushBacklog
    <2>7. w.state # "none"
        BY <2>1, <2>3 DEF Live
    <2> HIDE DEF w
    <2>8. QED
        BY <1>1, <2>3, <2>4, <2>5, <2>6, <2>7, ServiceStep
<1>4. QED
    BY <1>2, <1>3

\* The end of a connection whose close was answered.
LEMMA FinishCloseKeeps ==
    ASSUME Bookkeeping, NEW c \in Conns, FinishClose(c)
    PROVE  Bookkeeping'
BY KillKeeps DEF FinishClose, Polledout

\* Answering a ping keeps the bookkeeping, or ends the connection.
LEMMA SendPongKeeps ==
    ASSUME Bookkeeping, NEW c \in Conns, SendPong(c)
    PROVE  Bookkeeping'
<1>1. Serving(c)
    BY DEF SendPong, Polledout
<1>2. CASE peer[c] = "rst"
    BY <1>1, <1>2, KillKeeps DEF SendPong
<1>3. CASE peer[c] # "rst"
    <2> DEFINE w == [wsi[c] EXCEPT !.pong = FALSE]
    <2>1. /\ TypeOK /\ PollfdsMirrorLws /\ Live(c)
        BY <1>1, ServingIs DEF Bookkeeping
    <2>2. wsi[c] \in Wsi /\ wsi \in [Conns -> Wsi] /\ tx \in [Conns -> Seq(Message)]
        BY <2>1 DEF TypeOK
    <2>3. /\ w \in Wsi /\ w.fd = wsi[c].fd /\ w.proto = wsi[c].proto /\ w.state = wsi[c].state
          /\ w.events = wsi[c].events
        BY <2>2 DEF Wsi
    <2>4. SetEvents(c, w)
        <3>1. wsi' = [wsi EXCEPT ![c] = w] /\ pollfds' = pollfds
            BY <1>3, <2>2 DEF SendPong
        <3>2. QED
            BY <2>1, <2>3, <3>1, SameEvents DEF SetEvents
    <2>5. /\ pc' = "pollin" /\ processFDs' = processFDs /\ tx' = tx
          /\ UNCHANGED <<lightVars, outVars, monitorConnections, inbuf, listenq, udpq, rx, peer,
                         shown>>
        BY <1>3 DEF SendPong, socketVars
    <2>6. w.state # "none"
        BY <2>1, <2>3 DEF Live
    <2> HIDE DEF w
    <2>7. QED
        BY <1>1, <2>2, <2>3, <2>4, <2>5, <2>6, ServiceStep
<1>4. QED
    BY <1>2, <1>3

\* SERVER_WRITEABLE of a monitor: only its events and its backlog change.
LEMMA MonitorWriteableKeeps ==
    ASSUME Bookkeeping, NEW c \in Conns, MonitorWriteable(c)
    PROVE  Bookkeeping'
<1> DEFINE v == [wsi[c] EXCEPT !.events = @ \ {POLLOUT}]
           w == [v EXCEPT !.backlog = <<monitorMessage>>, !.events = @ \cup {POLLOUT}]
<1>1. Serving(c) /\ pc' = "pollin" /\ processFDs' = processFDs
      /\ UNCHANGED <<lightVars, outVars, monitorConnections, inbuf, listenq, udpq, rx, peer,
                     shown>>
    BY DEF MonitorWriteable, UserWriteable, Polledout
<1>2. TypeOK /\ Live(c)
    BY <1>1, ServingIs DEF Bookkeeping
<1>3. wsi[c] \in Wsi /\ tx \in [Conns -> Seq(Message)] /\ monitorMessage \in Message
    BY <1>2 DEF TypeOK
<1>4. /\ v \in Wsi /\ v.fd = wsi[c].fd /\ v.proto = wsi[c].proto /\ v.state = wsi[c].state
    BY <1>3 DEF Wsi
<1>5. /\ w \in Wsi /\ w.fd = wsi[c].fd /\ w.proto = wsi[c].proto /\ w.state = wsi[c].state
    <2>1. <<monitorMessage>> \in Seq(Message)
        BY <1>3
    <2>2. QED
        BY <1>4, <2>1 DEF Wsi, POLLOUT
<1>6. \/ /\ SetEvents(c, v)
         /\ tx' = [tx EXCEPT ![c] = IF Gone(c) THEN @ ELSE Append(@, monitorMessage)]
      \/ SetEvents(c, w) /\ UNCHANGED tx
    BY DEF MonitorWriteable
<1>7. v.state # "none" /\ w.state # "none"
    BY <1>2, <1>4, <1>5 DEF Live
<1>8. tx' \in [Conns -> Seq(Message)]
    <2>1. tx' = tx \/ \E t \in {tx[c], Append(tx[c], monitorMessage)} : tx' = [tx EXCEPT ![c] = t]
        BY <1>6
    <2>2. tx[c] \in Seq(Message) /\ Append(tx[c], monitorMessage) \in Seq(Message)
        BY <1>3
    <2>3. QED
        BY <1>3, <2>1, <2>2
<1> HIDE DEF v, w
<1>9. CASE SetEvents(c, v)
    BY <1>1, <1>4, <1>7, <1>8, <1>9, ServiceStep
<1>10. CASE SetEvents(c, w)
    BY <1>1, <1>5, <1>7, <1>8, <1>10, ServiceStep
<1>11. QED
    BY <1>6, <1>9, <1>10

\* A writeable callback that does nothing only clears POLLOUT.
LEMMA DummyWriteableKeeps ==
    ASSUME Bookkeeping, NEW c \in Conns, DummyWriteable(c)
    PROVE  Bookkeeping'
<1> DEFINE v == [wsi[c] EXCEPT !.events = @ \ {POLLOUT}]
<1>1. /\ Serving(c) /\ pc' = "pollin" /\ processFDs' = processFDs /\ SetEvents(c, v)
      /\ UNCHANGED <<lightVars, outVars, monitorConnections, inbuf, listenq, udpq, rx, tx, peer,
                     shown>>
    BY DEF DummyWriteable, UserWriteable, Polledout, socketVars
<1>2. TypeOK /\ Live(c)
    BY <1>1, ServingIs DEF Bookkeeping
<1>3. wsi[c] \in Wsi /\ tx' \in [Conns -> Seq(Message)]
    BY <1>1, <1>2 DEF TypeOK
<1>4. v \in Wsi /\ v.fd = wsi[c].fd /\ v.proto = wsi[c].proto /\ v.state = wsi[c].state
    BY <1>3 DEF Wsi
<1>5. v.state # "none"
    BY <1>2, <1>4 DEF Live
<1> HIDE DEF v
<1>6. QED
    BY <1>1, <1>3, <1>4, <1>5, ServiceStep

\* An unchanged connection is one whose events are set to what they are.
LEMMA StayEvents ==
    ASSUME TypeOK, PollfdsMirrorLws, NEW c \in Conns, Live(c), UNCHANGED <<wsi, pollfds>>
    PROVE  SetEvents(c, wsi[c]) /\ wsi[c] \in Wsi /\ wsi[c].state # "none"
<1>1. wsi \in [Conns -> Wsi]
    BY DEF TypeOK
<1>2. wsi' = [wsi EXCEPT ![c] = wsi[c]]
    BY <1>1
<1>3. QED
    BY <1>1, <1>2, SameEvents DEF SetEvents, Live

\* A connection that has nothing to read is left as it is.
LEMMA NothingToReadKeeps ==
    ASSUME Bookkeeping, NEW c \in Conns, NothingToRead(c)
    PROVE  Bookkeeping'
<1>1. /\ Serving(c) /\ pc' = "service" /\ processFDs' = Tail(processFDs)
      /\ UNCHANGED <<lightVars, outVars, monitorConnections, inbuf, listenq, udpq, rx, peer,
                     shown, wsi, pollfds, tx>>
    BY DEF NothingToRead, AtPollin, ServiceReturns, lwsVars, socketVars
<1>2. TypeOK /\ PollfdsMirrorLws /\ Live(c)
    BY <1>1, ServingIs DEF Bookkeeping
<1>3. SetEvents(c, wsi[c]) /\ wsi[c] \in Wsi /\ wsi[c].state # "none"
    BY <1>1, <1>2, StayEvents
<1>4. tx' \in [Conns -> Seq(Message)]
    BY <1>1, <1>2 DEF TypeOK
<1>5. QED
    BY <1>1, <1>3, <1>4, ServiceStep

\* A connection whose client is gone ends, or is kept for its unsent data.
LEMMA ReadFailsKeeps ==
    ASSUME Bookkeeping, NEW c \in Conns, ReadFails(c)
    PROVE  Bookkeeping'
<1>1. Serving(c) /\ Close(c) /\ UNCHANGED <<lightVars, outVars, inbuf, listenq, udpq>>
    BY DEF ReadFails, AtPollin
<1>2. CASE Kill(c)
    BY <1>1, <1>2, KillKeeps
<1>3. CASE ~Kill(c)
    <2> DEFINE w == [wsi[c] EXCEPT !.state = "flushing", !.events = @ \cup {POLLOUT}]
    <2>1. /\ SetEvents(c, w) /\ pc' = "service" /\ processFDs' = Tail(processFDs)
          /\ UNCHANGED <<monitorConnections, rx, tx, peer, shown>>
        BY <1>1, <1>3 DEF Close, ServiceReturns, socketVars
    <2>2. TypeOK /\ Live(c)
        BY <1>1, ServingIs DEF Bookkeeping
    <2>3. wsi[c] \in Wsi /\ tx' \in [Conns -> Seq(Message)]
        BY <2>1, <2>2 DEF TypeOK
    <2>4. w \in Wsi /\ w.fd = wsi[c].fd /\ w.proto = wsi[c].proto /\ w.state = "flushing"
        BY <2>3 DEF Wsi, WsiState, POLLOUT
    <2> HIDE DEF w
    <2>5. QED
        BY <1>1, <2>1, <2>3, <2>4, ServiceStep
<1>4. QED
    BY <1>2, <1>3

\* A read moves frames to inbuf: the upgrade request alone, or no request.
LEMMA ReadKeeps ==
    ASSUME Bookkeeping, NEW c \in Conns, Read(c)
    PROVE  Bookkeeping'
<1>1. /\ TypeOK /\ MonitorsAreLive /\ PollfdsMirrorLws /\ SnapshotFresh
      /\ FdsOwned /\ BacklogNew /\ UpgradedOnce /\ RoundConsistent
    BY DEF Bookkeeping
<1>2. /\ Serving(c) /\ pc' = "frames" /\ processFDs' = processFDs
      /\ UNCHANGED <<lightVars, outVars, lwsVars, listenq, udpq, tx, peer, shown>>
    BY DEF Read, AtPollin
<1>3. /\ Live(c) /\ processFDs # <<>> /\ Head(processFDs).conn = c
      /\ Head(processFDs).fd # ListenFd
    BY <1>1, <1>2, ServingIs DEF Serving
<1>4. PICK n \in 1..Len(rx[c]) :
          /\ inbuf' = SubSeq(rx[c], 1, n)
          /\ rx' = [rx EXCEPT ![c] = SubSeq(rx[c], n + 1, Len(rx[c]))]
    BY DEF Read
<1>5. rx \in [Conns -> Seq(Frame)] /\ rx[c] \in Seq(Frame) /\ Len(rx[c]) \in Nat
    BY <1>1 DEF TypeOK
<1>6. /\ inbuf' \in Seq(Frame) /\ Len(inbuf') = n
      /\ \A i \in DOMAIN inbuf' : i \in DOMAIN rx[c] /\ inbuf'[i] = rx[c][i]
    BY <1>4, <1>5
<1>7. /\ rx'[c] \in Seq(Frame) /\ Len(rx'[c]) = Len(rx[c]) - n
      /\ \A i \in DOMAIN rx'[c] : i + n \in DOMAIN rx[c] /\ rx'[c][i] = rx[c][i + n]
    BY <1>4, <1>5
<1>8. \A d \in Conns : d # c => rx'[d] = rx[d]
    BY <1>4, <1>5
<1>9. rx' \in [Conns -> Seq(Frame)]
    BY <1>4, <1>5, <1>7
<1>10. \A d \in Conns : InFrames(d)' <=> d = c
    BY <1>2, <1>3 DEF InFrames
<1>11. MonitorsAreLive' /\ PollfdsMirrorLws' /\ FdsOwned' /\ SnapshotFresh' /\ BacklogNew'
    BY <1>1, <1>2 DEF lwsVars, MonitorsAreLive, PollfdsMirrorLws, FdsOwned, SnapshotFresh,
                      BacklogNew, Live
<1>12. inbuf' # <<>>
    <2>1. Len(inbuf') # 0
        BY <1>6
    <2>2. QED
        BY ONLY <2>1, EmptySeq
<1>13. RoundConsistent'
    BY <1>1, <1>2, <1>3, <1>12 DEF RoundConsistent
<1>14. TypeOK'
    BY <1>1, <1>2, <1>6, <1>9 DEF TypeOK, lightVars, outVars, lwsVars
<1>15. UpgradedOnce'
    <2>1. rx[c] # <<>>
        BY <1>4, <1>5
    <2>2. peer'[c] \notin {"idle", "connected"}
        BY <1>1, <1>2, <2>1 DEF UpgradedOnce
    <2>3. wsi[c].proto = "none" =>
              wsi'[c].state # "established" /\ rx'[c] = <<>> /\ Len(rx'[c]) <= 1 /\ Len(inbuf') = 1
        <3>1. wsi[c].proto = "none" => wsi[c].state # "established" /\ Len(rx[c]) <= 1
            BY <1>1 DEF UpgradedOnce
        <3>2. Len(rx[c]) <= 1 => n = 1 /\ Len(rx'[c]) = 0
            BY <1>5, <1>7
        <3>3. Len(rx'[c]) = 0 => rx'[c] = <<>>
            BY <1>7, EmptySeq
        <3>4. QED
            BY <1>2, <1>6, <3>1, <3>2, <3>3 DEF lwsVars
    <2>4. wsi[c].proto # "none" =>
              /\ \A i \in DOMAIN rx'[c] : rx'[c][i].kind # "request"
              /\ \A i \in DOMAIN inbuf' : inbuf'[i].kind # "request"
        BY <1>1, <1>6, <1>7 DEF UpgradedOnce
    <2>5. wsi' = wsi /\ peer' = peer
        BY <1>2 DEF lwsVars
    <2>6. ASSUME NEW d \in Conns, d # c
          PROVE  /\ peer'[d] \in {"idle", "connected"} =>
                        rx'[d] = <<>> /\ wsi'[d].proto = "none" /\ ~InFrames(d)'
                 /\ wsi'[d].proto = "none" =>
                        /\ wsi'[d].state # "established" /\ Len(rx'[d]) <= 1 /\ ~InFrames(d)'
                 /\ wsi'[d].proto # "none" =>
                        /\ \A i \in DOMAIN rx'[d] : rx'[d][i].kind # "request"
                        /\ ~InFrames(d)'
        BY <1>1, <1>8, <1>10, <2>5, <2>6 DEF UpgradedOnce
    <2>7. QED
        BY <2>2, <2>3, <2>4, <2>5, <2>6 DEF UpgradedOnce
<1>16. QED
    BY <1>11, <1>13, <1>14, <1>15 DEF Bookkeeping

\* The upgrade makes a websocket, and a monitor of it if it asked for that.
LEMMA UpgradeKeeps ==
    ASSUME Bookkeeping, NEW c \in Conns, Upgrade(c)
    PROVE  Bookkeeping'
<1> DEFINE proto == Head(inbuf).proto
           w == [wsi[c] EXCEPT !.state = "established", !.proto = proto,
                     !.events = IF proto = "monitor" THEN @ \cup {POLLOUT} ELSE @]
<1>1. /\ Handling(c, "request") /\ proto \in Protocols /\ SetEvents(c, w)
      /\ monitorConnections' = IF proto = "monitor" THEN monitorConnections \cup {c}
                                                    ELSE monitorConnections
      /\ FrameDone
      /\ UNCHANGED <<lightVars, outVars, listenq, udpq, socketVars>>
    BY DEF Upgrade, addMonitor, EstablishedEvents
<1>2. TypeOK /\ MonitorsAreLive /\ SnapshotFresh /\ FdsOwned /\ UpgradedOnce
    BY DEF Bookkeeping
<1>3. /\ Serving(c) /\ Live(c) /\ \A d \in Conns : InFrames(d) <=> d = c
      /\ 1 \in DOMAIN inbuf /\ inbuf[1].kind = "request"
      /\ Len(inbuf) = 1 => Tail(inbuf) = <<>>
    BY <1>1, HandlingIs
<1>4. wsi[c].proto = "none" /\ rx[c] = <<>> /\ Len(inbuf) = 1
    BY <1>2, <1>3 DEF UpgradedOnce
<1>5. /\ inbuf' = <<>> /\ pc' = "service" /\ processFDs' = Tail(processFDs)
    BY <1>1, <1>3, <1>4 DEF FrameDone, ServiceReturns
<1>6. wsi[c] \in Wsi
    BY <1>2 DEF TypeOK
<1>7. w \in Wsi /\ w.fd = wsi[c].fd /\ w.proto = proto /\ w.state = "established"
    BY <1>1, <1>6 DEF Wsi, WsiState, Protocols, POLLOUT
<1>8. UNCHANGED <<listenq, peer, rx>>
    BY <1>1 DEF socketVars
<1>9. proto # "none"
    BY <1>1 DEF Protocols
<1> HIDE DEF proto, w
<1>10. /\ wsi' \in [Conns -> Wsi] /\ wsi'[c] = w
       /\ \A d \in Conns : d # c => wsi'[d] = wsi[d]
       /\ pollfds' \in Seq(PollFd) /\ processFDs' \in Seq(ReadyFd)
       /\ PollfdsMirrorLws' /\ FdsOwned' /\ SnapshotFresh' /\ BacklogNew'
       /\ \A i, j \in DOMAIN processFDs' : processFDs'[i].fd = processFDs'[j].fd => i = j
    BY <1>1, <1>3, <1>5, <1>7, <1>8, ConnKept
<1>11. MonitorsAreLive'
    <2>1. c \notin monitorConnections
        BY <1>2, <1>4 DEF MonitorsAreLive
    <2>2. \A d \in Conns : d # c => (Live(d)' <=> Live(d)) /\ wsi'[d].proto = wsi[d].proto
        BY <1>10 DEF Live
    <2>3. Live(c)' /\ wsi'[c].proto = proto
        BY <1>7, <1>10 DEF Live
    <2>4. QED
        BY <1>1, <1>2, <2>1, <2>2, <2>3 DEF MonitorsAreLive
<1>12. UpgradedOnce'
    <2>1. \A d \in Conns : ~InFrames(d)'
        BY <1>5 DEF InFrames
    <2>2. peer[c] \notin {"idle", "connected"}
        BY <1>2, <1>3 DEF UpgradedOnce
    <2>3. ASSUME NEW d \in Conns
          PROVE  /\ peer'[d] \in {"idle", "connected"} => rx'[d] = <<>> /\ wsi'[d].proto = "none"
                 /\ wsi'[d].proto = "none" =>
                        wsi'[d].state # "established" /\ Len(rx'[d]) <= 1
                 /\ wsi'[d].proto # "none" =>
                        \A i \in DOMAIN rx'[d] : rx'[d][i].kind # "request"
        <3>1. CASE d = c
            <4>1. \A i \in DOMAIN rx'[c] : FALSE
                BY <1>4, <1>8
            <4>2. QED
                BY <1>7, <1>8, <1>9, <1>10, <2>2, <3>1, <4>1
        <3>2. CASE d # c
            BY <1>2, <1>8, <1>10, <3>2 DEF UpgradedOnce
        <3>3. QED
            BY <3>1, <3>2
    <2>4. QED
        BY <2>1, <2>3 DEF UpgradedOnce
<1>13. RoundConsistent'
    BY <1>5, <1>10 DEF RoundConsistent
<1>14. TypeOK'
    <2>1. monitorConnections' \in SUBSET Conns /\ inbuf' \in Seq(Frame)
        BY <1>1, <1>2, <1>5 DEF TypeOK
    <2>2. QED
        BY <1>1, <1>2, <1>5, <1>10, <2>1 DEF TypeOK, lightVars, outVars, socketVars
<1>15. QED
    BY <1>10, <1>11, <1>12, <1>13, <1>14 DEF Bookkeeping

\* A rejected upgrade ends the connection.
LEMMA RejectUpgradeKeeps ==
    ASSUME Bookkeeping, NEW c \in Conns, RejectUpgrade(c)
    PROVE  Bookkeeping'
BY KillKeeps DEF RejectUpgrade, Handling

\* A frame of a websocket that leaves its protocol alone.
LEMMA FrameStep ==
    ASSUME Bookkeeping, NEW c \in Conns, NEW kind, Handling(c, kind), FrameDone,
           NEW w \in Wsi, w.fd = wsi[c].fd, w.proto = wsi[c].proto, w.state # "none",
           w.state = "established" => wsi[c].state = "established",
           SetEvents(c, w),
           lightsDirty' \in BOOLEAN, currentState' \in LightState, dmxPacket' \in DMXPacket,
           UNCHANGED <<outVars, monitorConnections, listenq, udpq, socketVars>>
    PROVE  Bookkeeping'
<1>1. Serving(c)
    BY HandlingIs
<1>2. /\ inbuf' \in Seq(Frame) /\ pc' \in {"service", "frames"}
      /\ processFDs' = processFDs \/ processFDs' = Tail(processFDs)
      /\ pc' = "frames" => inbuf' # <<>> /\ UNCHANGED loopVars
      /\ \A d \in Conns : InFrames(d)' =>
             /\ InFrames(d)
             /\ Len(inbuf) = 1 => Len(inbuf') = 1
             /\ \A i \in DOMAIN inbuf' : \E j \in DOMAIN inbuf : inbuf'[i] = inbuf[j]
    BY FrameDoneIs
<1>3. tx' \in [Conns -> Seq(Message)] /\ UNCHANGED <<rx, peer, shown>>
    BY DEF Bookkeeping, TypeOK, socketVars
<1>4. pc' = "frames" => inbuf' # <<>> /\ processFDs' = processFDs
    BY <1>2 DEF loopVars
<1>5. QED
    BY <1>1, <1>2, <1>3, <1>4, ConnStep

\* A light packet over a websocket, or anything a monitor sends.
LEMMA ReceiveKeeps ==
    ASSUME Bookkeeping, NEW c \in Conns, Receive(c)
    PROVE  Bookkeeping'
<1>1. /\ Handling(c, "data") /\ FrameDone
      /\ UNCHANGED <<outVars, lwsVars, listenq, udpq, socketVars>>
    BY DEF Receive
<1>2. TypeOK /\ PollfdsMirrorLws
    BY DEF Bookkeeping
<1>3. Live(c) /\ Head(inbuf) = inbuf[1] /\ inbuf[1] \in Frame /\ inbuf[1].kind = "data"
    BY <1>1, HandlingIs
<1>4. Head(inbuf).packet \in Packets
    BY <1>3 DEF Frame
<1>5. /\ lightsDirty' \in BOOLEAN /\ currentState' \in LightState /\ dmxPacket' \in DMXPacket
    <2>1. CASE lightPacket(Head(inbuf).packet)
        BY <1>2, <1>4, <2>1, LightPacketType
    <2>2. CASE UNCHANGED lightVars
        BY <1>2, <2>2 DEF TypeOK, lightVars
    <2>3. QED
        BY <2>1, <2>2 DEF Receive
<1>6. UNCHANGED <<wsi, pollfds, monitorConnections>>
    BY <1>1 DEF lwsVars
<1>7. SetEvents(c, wsi[c]) /\ wsi[c] \in Wsi /\ wsi[c].state # "none"
    BY <1>2, <1>3, <1>6, StayEvents
<1>8. QED
    BY <1>1, <1>5, <1>6, <1>7, FrameStep

\* A plain request changes the state of its connection only.
LEMMA PlainRequestKeeps ==
    ASSUME Bookkeeping, NEW c \in Conns, PlainRequest(c)
    PROVE  Bookkeeping'
<1> DEFINE w == [wsi[c] EXCEPT !.state = "transaction"]
<1>1. /\ Handling(c, "request") /\ FrameDone /\ pollfds' = pollfds
      /\ UNCHANGED <<lightVars, outVars, monitorConnections, listenq, udpq, socketVars>>
    BY DEF PlainRequest
<1>2. TypeOK /\ PollfdsMirrorLws
    BY DEF Bookkeeping
<1>3. Live(c)
    BY <1>1, HandlingIs
<1>4. wsi \in [Conns -> Wsi] /\ wsi[c] \in Wsi
    BY <1>2 DEF TypeOK
<1>5. /\ w \in Wsi /\ w.fd = wsi[c].fd /\ w.proto = wsi[c].proto
      /\ w.state = "transaction" /\ w.events = wsi[c].events
    BY <1>4 DEF Wsi, WsiState
<1>6. SetEvents(c, w)
    <2>1. wsi' = [wsi EXCEPT ![c] = w]
        BY <1>4 DEF PlainRequest
    <2>2. QED
        BY <1>1, <1>2, <1>3, <1>5, <2>1, SameEvents DEF SetEvents
<1>7. lightsDirty' \in BOOLEAN /\ currentState' \in LightState /\ dmxPacket' \in DMXPacket
    BY <1>1, <1>2 DEF TypeOK, lightVars
<1>8. w.state # "none" /\ w.state # "established"
    BY <1>5
<1> HIDE DEF w
<1>9. QED
    BY <1>1, <1>5, <1>6, <1>7, <1>8, FrameStep

\* A ping, answered now or with the pong that is already due.
LEMMA ReceivePingKeeps ==
    ASSUME Bookkeeping, NEW c \in Conns, ReceivePing(c)
    PROVE  Bookkeeping'
<1>1. /\ Handling(c, "ping") /\ FrameDone
      /\ UNCHANGED <<lightVars, outVars, monitorConnections, listenq, udpq, socketVars>>
    BY DEF ReceivePing
<1>2. TypeOK /\ PollfdsMirrorLws
    BY DEF Bookkeeping
<1>3. Live(c)
    BY <1>1, HandlingIs
<1>4. /\ lightsDirty' \in BOOLEAN /\ currentState' \in LightState /\ dmxPacket' \in DMXPacket
    BY <1>1, <1>2 DEF TypeOK, lightVars
<1>5. CASE UNCHANGED <<wsi, pollfds>>
    <2>1. SetEvents(c, wsi[c]) /\ wsi[c] \in Wsi /\ wsi[c].state # "none"
        BY <1>2, <1>3, <1>5, StayEvents
    <2>2. QED
        BY <1>1, <1>4, <2>1, FrameStep
<1>6. CASE ~ UNCHANGED <<wsi, pollfds>>
    <2> DEFINE w == [wsi[c] EXCEPT !.pong = TRUE, !.events = @ \cup {POLLOUT}]
    <2>1. SetEvents(c, w)
        BY <1>6 DEF ReceivePing
    <2>2. wsi[c] \in Wsi
        BY <1>2 DEF TypeOK
    <2>3. w \in Wsi /\ w.fd = wsi[c].fd /\ w.proto = wsi[c].proto /\ w.state = wsi[c].state
        BY <2>2 DEF Wsi, POLLOUT
    <2>4. w.state # "none"
        BY <1>3, <2>3 DEF Live
    <2> HIDE DEF w
    <2>5. QED
        BY <1>1, <1>4, <2>1, <2>3, <2>4, FrameStep
<1>7. QED
    BY <1>5, <1>6

\* A close frame, answered when the socket is writable; it ends the connection
\* in the middle of a message.
LEMMA ReceiveCloseKeeps ==
    ASSUME Bookkeeping, NEW c \in Conns, ReceiveClose(c)
    PROVE  Bookkeeping'
<1> DEFINE w == [wsi[c] EXCEPT !.state = "returned_close", !.events = @ \cup {POLLOUT}]
<1>1. CASE wsi[c].backlog # <<>>
    BY <1>1, KillKeeps DEF ReceiveClose, Handling
<1>2. CASE wsi[c].backlog = <<>>
    <2>1. /\ Handling(c, "close") /\ FrameDone /\ SetEvents(c, w)
          /\ UNCHANGED <<lightVars, outVars, monitorConnections, listenq, udpq, socketVars>>
        BY <1>2 DEF ReceiveClose
    <2>2. TypeOK
        BY DEF Bookkeeping
    <2>3. /\ lightsDirty' \in BOOLEAN /\ currentState' \in LightState
          /\ dmxPacket' \in DMXPacket /\ wsi[c] \in Wsi
        BY <2>1, <2>2 DEF TypeOK, lightVars
    <2>4. /\ w \in Wsi /\ w.fd = wsi[c].fd /\ w.proto = wsi[c].proto
          /\ w.state = "returned_close"
        BY <2>3 DEF Wsi, WsiState, POLLOUT
    <2> HIDE DEF w
    <2>5. QED
        BY <2>1, <2>3, <2>4, FrameStep
<1>3. QED
    BY <1>1, <1>2

-----------------------------------------------------------------------------
(* The rest of the loop                                                    *)

\* Nothing about the connections depends on where else the loop is.
LEMMA LoopStep ==
    ASSUME Bookkeeping, pc' \in {"poll", "exited", "aborted"},
           UNCHANGED <<processFDs, lightVars, outVars, lwsVars, inbuf, listenq, udpq,
                       socketVars>>
    PROVE  Bookkeeping'
<1>1. /\ TypeOK /\ MonitorsAreLive /\ PollfdsMirrorLws /\ SnapshotFresh
      /\ FdsOwned /\ BacklogNew /\ UpgradedOnce /\ RoundConsistent
    BY DEF Bookkeeping
<1>2. TypeOK'
    BY <1>1 DEF TypeOK, lightVars, outVars, lwsVars, socketVars
<1>3. MonitorsAreLive' /\ PollfdsMirrorLws' /\ FdsOwned' /\ SnapshotFresh' /\ BacklogNew'
    BY <1>1 DEF lwsVars, socketVars, MonitorsAreLive, PollfdsMirrorLws, FdsOwned,
                SnapshotFresh, BacklogNew, Live
<1>4. UpgradedOnce'
    <2>1. \A d \in Conns : ~InFrames(d)'
        BY DEF InFrames
    <2>2. wsi' = wsi /\ UNCHANGED <<rx, peer>>
        BY DEF lwsVars, socketVars
    <2>3. QED
        BY <1>1, <2>1, <2>2, UpgradeKept
<1>5. RoundConsistent'
    BY <1>1 DEF RoundConsistent
<1>6. QED
    BY <1>2, <1>3, <1>4, <1>5 DEF Bookkeeping

\* A poll or a recvfrom that fails, a round without an update, and the abort.
LEMMA LoopActionsKeep ==
    ASSUME Bookkeeping,
           PollFails \/ RecvFails \/ NoUpdate \/ \E c \in Conns : LightWriteable(c)
    PROVE  Bookkeeping'
BY LoopStep DEF PollFails, RecvFails, NoUpdate, LightWriteable

\* poll and the scan write revents only.
LEMMA ReventsOnly ==
    ASSUME TypeOK, PollfdsMirrorLws, wsi' = wsi,
           NEW r \in [DOMAIN pollfds -> SUBSET {POLLIN, POLLOUT}],
           pollfds' = [i \in DOMAIN pollfds |-> [pollfds[i] EXCEPT !.revents = r[i]]]
    PROVE  /\ pollfds' \in Seq(PollFd) /\ PollfdsMirrorLws'
           /\ pollfds'[1].revents = r[1]
<1>1. pollfds \in Seq(PollFd)
    BY DEF TypeOK
<1>2. ASSUME NEW i \in DOMAIN pollfds
      PROVE  /\ pollfds'[i] \in PollFd
             /\ pollfds'[i].fd = pollfds[i].fd /\ pollfds'[i].events = pollfds[i].events
             /\ pollfds'[i].revents = r[i]
    <2>1. pollfds[i] \in PollFd
        BY <1>1
    <2>2. pollfds'[i] = [pollfds[i] EXCEPT !.revents = r[i]] /\ r[i] \in SUBSET {POLLIN, POLLOUT}
        OBVIOUS
    <2>3. QED
        BY <2>1, <2>2 DEF PollFd
<1>3. pollfds' \in Seq(PollFd) /\ DOMAIN pollfds' = DOMAIN pollfds /\ Len(pollfds') = Len(pollfds)
    <2>1. pollfds' = [i \in 1..Len(pollfds) |-> pollfds'[i]]
        BY <1>1
    <2>2. QED
        BY <1>1, <1>2, <2>1
<1>4. /\ Len(pollfds) >= 2 /\ pollfds[1].fd = UDPfd /\ pollfds[2].fd = ListenFd
      /\ {1, 2} \subseteq DOMAIN pollfds
    BY <1>1 DEF PollfdsMirrorLws
<1>5. \A i, j \in DOMAIN pollfds' : pollfds'[i].fd = pollfds'[j].fd => i = j
    BY <1>2, <1>3 DEF PollfdsMirrorLws
<1>6. ASSUME NEW c \in Conns, Live(c)'
      PROVE  \E i \in DOMAIN pollfds' : /\ pollfds'[i].fd = wsi'[c].fd
                                        /\ pollfds'[i].events = wsi'[c].events
    <2>1. Live(c)
        BY <1>6 DEF Live
    <2>2. PICK i \in DOMAIN pollfds : /\ pollfds[i].fd = wsi[c].fd
                                      /\ pollfds[i].events = wsi[c].events
        BY <2>1 DEF PollfdsMirrorLws
    <2>3. QED
        BY <1>2, <1>3, <2>2
<1>7. \A i \in 3..Len(pollfds') : \E c \in Conns : Live(c)' /\ wsi'[c].fd = pollfds'[i].fd
    <2>1. \A i \in 3..Len(pollfds) : i \in DOMAIN pollfds
        BY <1>1
    <2>2. QED
        BY <1>2, <1>3, <2>1 DEF PollfdsMirrorLws, Live
<1>8. PollfdsMirrorLws'
    <2>1. Len(pollfds') >= 2 /\ pollfds'[1].fd = UDPfd /\ pollfds'[2].fd = ListenFd
        BY <1>2, <1>3, <1>4
    <2>2. QED
        BY <1>5, <1>6, <1>7, <2>1 DEF PollfdsMirrorLws
<1>9. QED
    BY <1>2, <1>3, <1>4, <1>8

\* What poll reports of the UDP socket is true.
LEMMA PollKeeps ==
    ASSUME Bookkeeping, Poll
    PROVE  Bookkeeping'
<1> DEFINE r == [i \in DOMAIN pollfds |-> Revents(pollfds[i])]
<1>1. /\ TypeOK /\ MonitorsAreLive /\ PollfdsMirrorLws /\ SnapshotFresh
      /\ FdsOwned /\ BacklogNew /\ UpgradedOnce /\ RoundConsistent
    BY DEF Bookkeeping
<1>2. /\ pollfds' = [i \in DOMAIN pollfds |-> [pollfds[i] EXCEPT !.revents = r[i]]]
      /\ pc' = "scan"
      /\ UNCHANGED <<processFDs, lightVars, outVars, wsi, monitorConnections, inbuf, listenq,
                     udpq, socketVars>>
    BY DEF Poll
<1>3. pollfds \in Seq(PollFd) /\ 1 \in DOMAIN pollfds /\ pollfds[1].fd = UDPfd
    BY <1>1 DEF TypeOK, PollfdsMirrorLws
<1>4. r \in [DOMAIN pollfds -> SUBSET {POLLIN, POLLOUT}]
    <2>1. ASSUME NEW i \in DOMAIN pollfds PROVE Revents(pollfds[i]) \in SUBSET {POLLIN, POLLOUT}
        <3>1. pollfds[i] \in PollFd
            BY <1>3
        <3>2. pollfds[i].events \in SUBSET {POLLIN, POLLOUT}
            BY <3>1 DEF PollFd
        <3>3. QED
            BY <3>2 DEF Revents
    <2>2. QED
        BY <2>1
<1>5. r[1] # {} => udpq # <<>>
    BY <1>3 DEF Revents, UDPfd, ListenFd
<1> HIDE DEF r
<1>6. /\ pollfds' \in Seq(PollFd) /\ PollfdsMirrorLws' /\ pollfds'[1].revents = r[1]
    BY <1>1, <1>2, <1>4, ReventsOnly
<1>7. MonitorsAreLive' /\ FdsOwned' /\ SnapshotFresh' /\ BacklogNew'
    BY <1>1, <1>2 DEF socketVars, MonitorsAreLive, FdsOwned, SnapshotFresh, BacklogNew, Live
<1>8. UpgradedOnce'
    <2>1. \A d \in Conns : ~InFrames(d)'
        BY <1>2 DEF InFrames
    <2>2. wsi' = wsi /\ UNCHANGED <<rx, peer>>
        BY <1>2 DEF socketVars
    <2>3. QED
        BY <1>1, <2>1, <2>2, UpgradeKept
<1>9. RoundConsistent'
    BY <1>1, <1>2, <1>5, <1>6 DEF RoundConsistent
<1>10. TypeOK'
    BY <1>1, <1>2, <1>6 DEF TypeOK, lightVars, outVars, socketVars
<1>11. QED
    BY <1>6, <1>7, <1>8, <1>9, <1>10 DEF Bookkeeping

\* The scan copies to processFDs what is ready, each entry with the connection
\* it belongs to, the listener first.
LEMMA ScanKeeps ==
    ASSUME Bookkeeping, ScanPollfds
    PROVE  Bookkeeping'
<1> DEFINE Snapshot(e) ==
               [fd |-> e.fd, revents |-> e.revents,
                conn |-> IF e.fd = ListenFd THEN "listen" ELSE ConnOf(e.fd)]
           s == [i \in DOMAIN pollfds |-> Snapshot(pollfds[i])]
           S == {Snapshot(pollfds[i]) : i \in DOMAIN pollfds}
           Ready == {i \in DOMAIN pollfds : pollfds[i].revents # {}}
           K == {i \in Ready : pollfds[i].fd # UDPfd}
           r == [i \in DOMAIN pollfds |-> {}]
<1>1. /\ TypeOK /\ MonitorsAreLive /\ PollfdsMirrorLws /\ SnapshotFresh
      /\ FdsOwned /\ BacklogNew /\ UpgradedOnce /\ RoundConsistent
    BY DEF Bookkeeping
<1>2. /\ pc = "scan" /\ pc' = "service"
      /\ processFDs' = Subsequence(s, K)
      /\ IF \E i \in Ready : pollfds[i].fd = UDPfd
         THEN lightPacket(Head(udpq)) /\ udpq' = Tail(udpq)
         ELSE UNCHANGED <<lightVars, udpq>>
      /\ pollfds' = [i \in DOMAIN pollfds |-> [pollfds[i] EXCEPT !.revents = r[i]]]
      /\ UNCHANGED <<outVars, wsi, monitorConnections, inbuf, listenq, socketVars>>
    BY DEF ScanPollfds, Scanned
<1>3. /\ pollfds \in Seq(PollFd) /\ {1, 2} \subseteq DOMAIN pollfds
      /\ pollfds[1].fd = UDPfd /\ pollfds[2].fd = ListenFd
      /\ \A i, j \in DOMAIN pollfds : pollfds[i].fd = pollfds[j].fd => i = j
    BY <1>1 DEF TypeOK, PollfdsMirrorLws
<1>4. /\ currentState' \in LightState /\ dmxPacket' \in DMXPacket /\ lightsDirty' \in BOOLEAN
      /\ udpq' \in Seq(Packets)
    <2>1. CASE \E i \in Ready : pollfds[i].fd = UDPfd
        <3>1. PICK i \in Ready : pollfds[i].fd = UDPfd
            BY <2>1
        <3>2. i = 1 /\ pollfds[1].revents # {}
            BY <1>3, <3>1
        <3>3. udpq # <<>> /\ udpq \in Seq(Packets)
            BY <1>1, <1>2, <3>2 DEF RoundConsistent, TypeOK
        <3>4. Head(udpq) \in Packets /\ Tail(udpq) \in Seq(Packets)
            BY <3>3
        <3>5. lightPacket(Head(udpq)) /\ udpq' = Tail(udpq)
            BY <1>2, <2>1
        <3>6. QED
            BY <1>1, <3>4, <3>5, LightPacketType
    <2>2. CASE ~ \E i \in Ready : pollfds[i].fd = UDPfd
        BY <1>1, <1>2, <2>2 DEF TypeOK, lightVars
    <2>3. QED
        BY <2>1, <2>2
<1>5. pollfds' \in Seq(PollFd) /\ PollfdsMirrorLws'
    <2>1. r \in [DOMAIN pollfds -> SUBSET {POLLIN, POLLOUT}]
        OBVIOUS
    <2> HIDE DEF r
    <2>2. QED
        BY <1>1, <1>2, <2>1, ReventsOnly
<1>6. s \in Seq(S) /\ K \in SUBSET (DOMAIN s) /\ DOMAIN s = DOMAIN pollfds
    BY <1>3
<1>7. ASSUME NEW i \in K
      PROVE  /\ i \in DOMAIN pollfds /\ i >= 2
             /\ s[i] \in ReadyFd /\ s[i].fd = pollfds[i].fd
             /\ i = 2 => s[i].conn = "listen" /\ s[i].fd = ListenFd
             /\ i # 2 => /\ s[i].conn \in Conns /\ s[i].conn # "listen"
                         /\ Live(s[i].conn) /\ wsi[s[i].conn].fd = s[i].fd
    <2>1. i \in DOMAIN pollfds /\ pollfds[i].fd # UDPfd /\ i \in Nat /\ i >= 1
        BY <1>3
    <2>2. i >= 2 /\ pollfds[i] \in PollFd
        BY <1>3, <2>1
    <2>3. pollfds[i].fd \in Nat /\ pollfds[i].revents \in SUBSET {POLLIN, POLLOUT}
        BY <2>2 DEF PollFd
    <2>4. s[i] = Snapshot(pollfds[i])
        BY <2>1
    <2>5. CASE i = 2
        BY <1>3, <2>1, <2>2, <2>3, <2>4, <2>5 DEF ReadyFd
    <2>6. CASE i # 2
        <3>1. pollfds[i].fd # ListenFd
            BY <1>3, <2>1, <2>6
        <3>2. /\ ConnOf(pollfds[i].fd) \in Conns /\ Live(ConnOf(pollfds[i].fd))
              /\ wsi[ConnOf(pollfds[i].fd)].fd = pollfds[i].fd
            BY <1>1, <2>1, <2>2, <2>6, EntryHasConn
        <3>3. s[i].conn = ConnOf(pollfds[i].fd) /\ s[i].fd = pollfds[i].fd
              /\ s[i].revents = pollfds[i].revents
            BY <2>4, <3>1
        <3>4. s[i] \in ReadyFd
            BY <2>3, <2>4, <3>1, <3>2 DEF ReadyFd
        <3>5. QED
            BY <2>1, <2>2, <2>6, <3>2, <3>3, <3>4, ServeriAssumption
    <2>7. QED
        BY <2>5, <2>6
<1> HIDE DEF s, S, K, Ready, r
<1>8. /\ processFDs' \in Seq(S)
      /\ DOMAIN processFDs' = 1..Cardinality(K)
      /\ \A k \in DOMAIN processFDs' : \E i \in K : processFDs'[k] = s[i]
    BY <1>2, <1>6, SubsequenceType, SubsequenceElements
<1>9. processFDs' \in Seq(ReadyFd)
    <2>1. \A k \in DOMAIN processFDs' : processFDs'[k] \in ReadyFd
        BY <1>7, <1>8
    <2>2. QED
        BY <1>8, <2>1, SeqOfElements
<1>10. ASSUME NEW k \in DOMAIN processFDs', NEW l \in DOMAIN processFDs', k < l
       PROVE  \E i, j \in K : i < j /\ processFDs'[k] = s[i] /\ processFDs'[l] = s[j]
    BY <1>2, <1>6, <1>10, SubsequenceOrder
<1>11. ASSUME NEW k \in DOMAIN processFDs', NEW l \in DOMAIN processFDs',
              processFDs'[k].fd = processFDs'[l].fd
       PROVE  k = l
    <2>1. ASSUME NEW m \in DOMAIN processFDs', NEW n \in DOMAIN processFDs', m < n
          PROVE  processFDs'[m].fd # processFDs'[n].fd
        <3>1. PICK i, j \in K : i < j /\ processFDs'[m] = s[i] /\ processFDs'[n] = s[j]
            BY <1>10, <2>1
        <3>2. i # j
            BY <1>3, <1>7, <3>1
        <3>3. QED
            BY <1>3, <1>7, <3>1, <3>2
    <2>2. k \in Int /\ l \in Int
        BY <1>9
    <2>3. QED
        BY <1>11, <2>1, <2>2
<1>12. SnapshotFresh'
    <2>1. ASSUME NEW k \in DOMAIN processFDs'
          PROVE  \/ processFDs'[k].conn = "listen" /\ processFDs'[k].fd = ListenFd /\ k = 1
                 \/ /\ processFDs'[k].conn # "listen"
                    /\ wsi'[processFDs'[k].conn].state # "none"
                    /\ wsi'[processFDs'[k].conn].fd = processFDs'[k].fd
        <3>1. PICK i \in K : processFDs'[k] = s[i]
            BY <1>8
        <3>2. CASE i # 2
            BY <1>2, <1>7, <3>1, <3>2 DEF Live
        <3>3. CASE i = 2
            <4>1. processFDs'[k].conn = "listen" /\ processFDs'[k].fd = ListenFd
                BY <1>7, <3>1, <3>3
            <4>2. k = 1
                <5>1. SUFFICES ASSUME k # 1 PROVE FALSE
                    OBVIOUS
                <5>2. 1 \in DOMAIN processFDs' /\ 1 < k
                    BY <1>9, <5>1
                <5>3. PICK m, n \in K : m < n /\ processFDs'[1] = s[m] /\ processFDs'[k] = s[n]
                    BY <1>10, <5>2
                <5>4. n = 2
                    BY <1>3, <1>7, <4>1, <5>3
                <5>5. QED
                    BY <1>3, <1>7, <5>3, <5>4
            <4>3. QED
                BY <4>1, <4>2
        <3>4. QED
            BY <3>2, <3>3
    <2>2. QED
        BY <2>1 DEF SnapshotFresh, Live
<1>13. MonitorsAreLive' /\ FdsOwned' /\ BacklogNew'
    BY <1>1, <1>2 DEF socketVars, MonitorsAreLive, FdsOwned, BacklogNew, Live
<1>14. UpgradedOnce'
    <2>1. \A d \in Conns : ~InFrames(d)'
        BY <1>2 DEF InFrames
    <2>2. wsi' = wsi /\ UNCHANGED <<rx, peer>>
        BY <1>2 DEF socketVars
    <2>3. QED
        BY <1>1, <2>1, <2>2, UpgradeKept
<1>15. RoundConsistent'
    BY <1>2, <1>11 DEF RoundConsistent
<1>16. TypeOK'
    BY <1>1, <1>2, <1>4, <1>5, <1>9 DEF TypeOK, outVars, socketVars
<1>17. QED
    BY <1>5, <1>12, <1>13, <1>14, <1>15, <1>16 DEF Bookkeeping

\* As long as somebody waits to be accepted, one of the fds that the model
\* numbers connections with is free.
LEMMA FreeFd ==
    ASSUME TypeOK, NEW c \in Conns, ~Live(c)
    PROVE  LET Used == {wsi[d].fd : d \in {e \in Conns : Live(e)}}
               fd == Min((ListenFd + 1 .. ListenFd + Cardinality(Conns)) \ Used)
           IN  fd \in Nat /\ fd > ListenFd /\ fd \notin Used
<1> DEFINE L == {e \in Conns : Live(e)}
           Used == {wsi[d].fd : d \in L}
           Slots == ListenFd + 1 .. ListenFd + Cardinality(Conns)
           f == [d \in L |-> wsi[d].fd]
<1>1. IsFiniteSet(Conns) /\ Cardinality(Conns) \in Nat
    BY ServeriAssumption, FS_CardinalityType
<1>2. L \in SUBSET (Conns \ {c})
    OBVIOUS
<1>3. IsFiniteSet(Conns \ {c}) /\ Cardinality(Conns \ {c}) = Cardinality(Conns) - 1
    BY <1>1, FS_RemoveElement
<1>4. IsFiniteSet(L) /\ Cardinality(L) <= Cardinality(Conns) - 1 /\ Cardinality(L) \in Nat
    <2> HIDE DEF L
    <2> QED
        BY <1>2, <1>3, FS_Subset, FS_CardinalityType
<1>5. f \in Surjection(L, Used)
    BY DEF Surjection
<1>6. IsFiniteSet(Used) /\ Cardinality(Used) <= Cardinality(L) /\ Cardinality(Used) \in Nat
    <2> HIDE DEF L, Used, f
    <2> QED
        BY <1>4, <1>5, FS_Surjection, FS_CardinalityType
<1>7. IsFiniteSet(Slots) /\ Cardinality(Slots) = Cardinality(Conns)
    <2>1. CASE Cardinality(Conns) = 0
        BY <1>1, <1>4, <2>1
    <2>2. CASE Cardinality(Conns) # 0
        BY <1>1, <2>2, FS_Interval DEF ListenFd
    <2>3. QED
        BY <2>1, <2>2
<1>8. Slots \ Used # {}
    <2>1. SUFFICES ASSUME Slots \in SUBSET Used PROVE FALSE
        OBVIOUS
    <2> HIDE DEF Slots, Used, L
    <2>2. Cardinality(Slots) <= Cardinality(Used)
        BY <1>6, <2>1, FS_Subset
    <2>3. QED
        BY <1>1, <1>4, <1>6, <1>7, <2>2
<1>9. Slots \ Used \in SUBSET Nat
    BY <1>1 DEF ListenFd
<1>10. Min(Slots \ Used) \in Slots \ Used
    <2> HIDE DEF Slots, Used
    <2> QED
        BY <1>8, <1>9, MinOfNats
<1>11. QED
    BY <1>1, <1>10 DEF ListenFd

\* addFD gives an accepted connection an entry of its own.
LEMMA EntryAdded ==
    ASSUME TypeOK, PollfdsMirrorLws, FdsOwned,
           NEW c \in Conns, ~Live(c), NEW fd \in Nat, fd > ListenFd,
           \A d \in Conns : Live(d) => wsi[d].fd # fd,
           NEW w \in Wsi, w.state # "none", w.fd = fd, w.events = {POLLIN},
           wsi' = [wsi EXCEPT ![c] = w],
           NEW e \in PollFd, e.fd = fd, e.events = {POLLIN}, pollfds' = Append(pollfds, e)
    PROVE  /\ wsi' \in [Conns -> Wsi] /\ pollfds' \in Seq(PollFd)
           /\ PollfdsMirrorLws' /\ FdsOwned'
<1>1. wsi \in [Conns -> Wsi] /\ pollfds \in Seq(PollFd)
    BY DEF TypeOK
<1>2. /\ wsi' \in [Conns -> Wsi] /\ wsi'[c] = w
      /\ \A d \in Conns : d # c => wsi'[d] = wsi[d]
      /\ \A d \in Conns : Live(d)' <=> Live(d) \/ d = c
    BY <1>1 DEF Live
<1>3. FdsOwned'
    <2>1. \A d \in Conns : IF Live(d)' THEN wsi'[d].fd > ListenFd ELSE wsi'[d] = NoWsi
        BY <1>2 DEF FdsOwned
    <2>2. \A d, g \in Conns : Live(d)' /\ Live(g)' /\ wsi'[d].fd = wsi'[g].fd => d = g
        BY <1>2 DEF FdsOwned
    <2>3. QED
        BY <2>1, <2>2 DEF FdsOwned
<1>4. /\ pollfds' \in Seq(PollFd) /\ Len(pollfds') = Len(pollfds) + 1 /\ Len(pollfds) \in Nat
      /\ DOMAIN pollfds = 1..Len(pollfds) /\ DOMAIN pollfds' = 1..(Len(pollfds) + 1)
      /\ \A i \in DOMAIN pollfds : i \in DOMAIN pollfds' /\ pollfds'[i] = pollfds[i]
      /\ pollfds'[Len(pollfds) + 1] = e
    BY <1>1, Appended
<1>5. /\ Len(pollfds) >= 2 /\ 1 \in DOMAIN pollfds /\ 2 \in DOMAIN pollfds
      /\ pollfds[1].fd = UDPfd /\ pollfds[2].fd = ListenFd
    BY <1>4 DEF PollfdsMirrorLws
<1>6. ASSUME NEW i \in DOMAIN pollfds PROVE pollfds[i].fd # fd
    <2>1. CASE i \in {1, 2}
        BY <1>5, <2>1 DEF UDPfd, ListenFd
    <2>2. CASE i \notin {1, 2}
        <3>1. i \in 3..Len(pollfds)
            BY <1>4, <2>2
        <3>2. QED
            BY <3>1 DEF PollfdsMirrorLws
    <2>3. QED
        BY <2>1, <2>2
<1>7. ASSUME NEW i \in DOMAIN pollfds', NEW j \in DOMAIN pollfds',
             pollfds'[i].fd = pollfds'[j].fd
      PROVE  i = j
    <2>1. CASE i \in DOMAIN pollfds /\ j \in DOMAIN pollfds
        BY <1>4, <1>7, <2>1 DEF PollfdsMirrorLws
    <2>2. CASE i \in DOMAIN pollfds /\ j \notin DOMAIN pollfds
        <3>1. j = Len(pollfds) + 1
            BY <1>4, <2>2
        <3>2. QED
            BY <1>4, <1>6, <1>7, <2>2, <3>1
    <2>3. CASE i \notin DOMAIN pollfds /\ j \in DOMAIN pollfds
        <3>1. i = Len(pollfds) + 1
            BY <1>4, <2>3
        <3>2. QED
            BY <1>4, <1>6, <1>7, <2>3, <3>1
    <2>4. CASE i \notin DOMAIN pollfds /\ j \notin DOMAIN pollfds
        BY <1>4, <2>4
    <2>5. QED
        BY <2>1, <2>2, <2>3, <2>4
<1>8. ASSUME NEW d \in Conns, Live(d)'
       PROVE  \E i \in DOMAIN pollfds' : /\ pollfds'[i].fd = wsi'[d].fd
                                         /\ pollfds'[i].events = wsi'[d].events
    <2>1. CASE d = c
        <3>1. Len(pollfds) + 1 \in DOMAIN pollfds'
            BY <1>4
        <3>2. QED
            BY <1>2, <1>4, <2>1, <3>1
    <2>2. CASE d # c
        <3>1. PICK i \in DOMAIN pollfds : /\ pollfds[i].fd = wsi[d].fd
                                          /\ pollfds[i].events = wsi[d].events
            BY <1>2, <1>8, <2>2 DEF PollfdsMirrorLws
        <3>2. i \in DOMAIN pollfds' /\ pollfds'[i] = pollfds[i]
            BY <1>4
        <3>3. QED
            BY <1>2, <2>2, <3>1, <3>2
    <2>3. QED
        BY <2>1, <2>2
<1>9. ASSUME NEW i \in 3..Len(pollfds')
       PROVE  \E d \in Conns : Live(d)' /\ wsi'[d].fd = pollfds'[i].fd
    <2>1. CASE i = Len(pollfds) + 1
        BY <1>2, <1>4, <2>1
    <2>2. CASE i # Len(pollfds) + 1
        <3>1. i \in 3..Len(pollfds) /\ i \in DOMAIN pollfds
            BY <1>4, <2>2
        <3>2. PICK d \in Conns : Live(d) /\ wsi[d].fd = pollfds[i].fd
            BY <3>1 DEF PollfdsMirrorLws
        <3>3. QED
            BY <1>2, <1>4, <3>1, <3>2
    <2>3. QED
        BY <2>1, <2>2
<1>10. PollfdsMirrorLws'
    <2>1. Len(pollfds') >= 2 /\ pollfds'[1].fd = UDPfd /\ pollfds'[2].fd = ListenFd
        <3>1. pollfds'[1].fd = UDPfd /\ pollfds'[2].fd = ListenFd
            BY ONLY <1>4, <1>5, Zenon
        <3>2. QED
            BY <1>4, <1>5, <3>1
    <2>2. QED
        BY <1>7, <1>8, <1>9, <2>1 DEF PollfdsMirrorLws
<1>11. QED
    BY <1>2, <1>3, <1>4, <1>10

\* The listener: a new connection gets an fd that is in no table.
LEMMA AcceptKeeps ==
    ASSUME Bookkeeping, Accept
    PROVE  Bookkeeping'
<1> DEFINE c == Head(listenq)
           Used == {wsi[d].fd : d \in {e \in Conns : Live(e)}}
           fd == Min((ListenFd + 1 .. ListenFd + Cardinality(Conns)) \ Used)
           w == [NoWsi EXCEPT !.state = "http", !.fd = fd, !.events = {POLLIN}]
           e == [fd |-> fd, events |-> {POLLIN}, revents |-> {}]
<1>1. /\ TypeOK /\ MonitorsAreLive /\ PollfdsMirrorLws /\ SnapshotFresh
      /\ FdsOwned /\ BacklogNew /\ UpgradedOnce /\ RoundConsistent
    BY DEF Bookkeeping
<1>2. /\ pc = "service" /\ processFDs # <<>> /\ listenq # <<>>
      /\ listenq' = Tail(listenq)
      /\ wsi' = [wsi EXCEPT ![c] = w]
      /\ pollfds' = Append(pollfds, e)
      /\ IF Tail(listenq) = <<>> THEN ServiceReturns ELSE UNCHANGED loopVars
      /\ UNCHANGED <<lightVars, outVars, monitorConnections, inbuf, udpq, socketVars>>
    BY DEF Accept, addFD
<1>3. /\ c \in Conns /\ c = listenq[1] /\ 1 \in DOMAIN listenq
      /\ Tail(listenq) \in Seq(Conns)
      /\ \A i \in DOMAIN Tail(listenq) : /\ i \in Int /\ i + 1 \in DOMAIN listenq /\ i + 1 # 1
                                         /\ Tail(listenq)[i] = listenq[i + 1]
    <2>1. listenq \in Seq(Conns)
        BY <1>1 DEF TypeOK
    <2>2. QED
        BY <1>2, <2>1, HeadTail
<1>4. ~Live(c) /\ peer[c] # "idle"
    BY <1>1, <1>3 DEF BacklogNew
<1> HIDE DEF c
<1>5. fd \in Nat /\ fd > ListenFd /\ \A d \in Conns : Live(d) => wsi[d].fd # fd
    <2>1. fd \in Nat /\ fd > ListenFd /\ fd \notin Used
        BY <1>1, <1>3, <1>4, FreeFd
    <2> HIDE DEF fd
    <2>2. QED
        BY <2>1
<1> HIDE DEF fd, Used
<1>6. w \in Wsi /\ w.state = "http" /\ w.fd = fd /\ w.events = {POLLIN} /\ w.proto = "none"
    BY <1>5, NoWsiType DEF Wsi, WsiState
<1>e. e \in PollFd /\ e.fd = fd /\ e.events = {POLLIN}
    BY <1>5 DEF PollFd
<1> HIDE DEF w, e
<1>7. /\ wsi' \in [Conns -> Wsi] /\ pollfds' \in Seq(PollFd) /\ PollfdsMirrorLws' /\ FdsOwned'
    BY <1>1, <1>2, <1>3, <1>4, <1>5, <1>6, <1>e, EntryAdded
<1>8. /\ wsi'[c] = w /\ \A d \in Conns : d # c => wsi'[d] = wsi[d]
      /\ \A d \in Conns : Live(d)' <=> Live(d) \/ d = c
    BY <1>1, <1>2, <1>3, <1>6 DEF TypeOK, Live
<1>9. pc' = "service" /\ (processFDs' = processFDs \/ processFDs' = Tail(processFDs))
    BY <1>2 DEF ServiceReturns, loopVars
<1>10. /\ processFDs' \in Seq(ReadyFd) /\ SnapshotFresh'
       /\ \A i, j \in DOMAIN processFDs' : processFDs'[i].fd = processFDs'[j].fd => i = j
    <2>1. \A d \in Conns : Live(d) => Live(d)' /\ wsi'[d].fd = wsi[d].fd
        BY <1>4, <1>8
    <2>2. QED
        BY <1>1, <1>2, <1>9, <2>1, SnapshotKept
<1>11. wsi[c].proto = "none"
    BY <1>1, <1>3, <1>4 DEF FdsOwned, NoWsi
<1>12. MonitorsAreLive'
    <2>1. \A d \in Conns : wsi'[d].proto = wsi[d].proto
        BY <1>6, <1>8, <1>11
    <2>2. monitorConnections' = monitorConnections
        BY <1>2
    <2>3. \A d \in Conns : Live(d)' /\ wsi'[d].proto = "monitor" <=> Live(d) /\ wsi[d].proto = "monitor"
        BY <1>8, <1>11, <2>1
    <2>4. QED
        BY <1>1, <2>2, <2>3 DEF MonitorsAreLive
<1>13. BacklogNew'
    <2>1. UNCHANGED peer
        BY <1>2 DEF socketVars
    <2>2. ASSUME NEW i \in DOMAIN listenq'
          PROVE  /\ i + 1 \in DOMAIN listenq /\ i + 1 # 1 /\ listenq'[i] = listenq[i + 1]
                 /\ listenq[i + 1] # c /\ listenq[i + 1] \in Conns
        BY <1>1, <1>2, <1>3 DEF BacklogNew, TypeOK
    <2>3. \A i \in DOMAIN listenq' : wsi'[listenq'[i]].state = "none" /\ peer'[listenq'[i]] # "idle"
        BY <1>1, <1>8, <2>1, <2>2 DEF BacklogNew, Live
    <2>4. \A i, j \in DOMAIN listenq' : listenq'[i] = listenq'[j] => i = j
        BY <1>1, <1>2, <1>3, <2>2 DEF BacklogNew
    <2>5. \A d \in Conns : peer'[d] = "idle" => ~Live(d)'
        BY <1>1, <1>4, <1>8, <2>1 DEF BacklogNew
    <2>6. QED
        BY <2>3, <2>4, <2>5 DEF BacklogNew, Live
<1>14. UpgradedOnce'
    <2>1. \A d \in Conns : ~InFrames(d)'
        BY <1>9 DEF InFrames
    <2>2. UNCHANGED <<rx, peer>>
        BY <1>2 DEF socketVars
    <2>3. \A d \in Conns : /\ wsi'[d].proto = wsi[d].proto
                           /\ wsi'[d].state = "established" => wsi[d].state = "established"
        BY <1>6, <1>8, <1>11
    <2>4. QED
        BY <1>1, <2>1, <2>2, <2>3, UpgradeKept
<1>15. RoundConsistent'
    BY <1>9, <1>10 DEF RoundConsistent
<1>16. TypeOK'
    BY <1>1, <1>2, <1>3, <1>7, <1>9, <1>10 DEF TypeOK, lightVars, outVars, socketVars
<1>17. QED
    BY <1>7, <1>10, <1>12, <1>13, <1>14, <1>15, <1>16 DEF Bookkeeping

\* The update asks for a write on exactly the open monitors, in both tables.
LEMMA UpdateKeeps ==
    ASSUME Bookkeeping, Update
    PROVE  Bookkeeping'
<1>1. /\ TypeOK /\ MonitorsAreLive /\ PollfdsMirrorLws /\ SnapshotFresh
      /\ FdsOwned /\ BacklogNew /\ UpgradedOnce /\ RoundConsistent
    BY DEF Bookkeeping
<1>2. /\ pc' = "poll" /\ lightsDirty' = FALSE
      /\ tty' \in {tty, <<dmxPacket>>} /\ monitorMessage' = Render(currentState)
      /\ UNCHANGED <<processFDs, currentState, dmxPacket, monitorConnections, inbuf, listenq,
                     udpq, socketVars>>
    BY DEF Update
<1>3. wsi \in [Conns -> Wsi] /\ pollfds \in Seq(PollFd)
    BY <1>1 DEF TypeOK
<1>4. ASSUME NEW d \in Conns
      PROVE  /\ wsi'[d] \in Wsi /\ wsi'[d].fd = wsi[d].fd
             /\ wsi'[d].state = wsi[d].state /\ wsi'[d].proto = wsi[d].proto
             /\ wsi'[d].events = IF d \in monitorConnections THEN wsi[d].events \cup {POLLOUT}
                                                             ELSE wsi[d].events
             /\ d \notin monitorConnections => wsi'[d] = wsi[d]
    <2>1. wsi[d] \in Wsi
        BY <1>3
    <2>2. wsi'[d] = IF d \in monitorConnections THEN [wsi[d] EXCEPT !.events = @ \cup {POLLOUT}]
                                                ELSE wsi[d]
        BY DEF Update, RequestWriteable
    <2>3. QED
        BY <2>1, <2>2 DEF Wsi, POLLOUT
<1>5. wsi' \in [Conns -> Wsi]
    <2>1. wsi' = [d \in Conns |-> wsi'[d]]
        BY DEF Update
    <2>2. QED
        BY <1>4, <2>1
<1>6. \A d \in Conns : Live(d)' <=> Live(d)
    BY <1>4 DEF Live
<1>7. ASSUME NEW i \in DOMAIN pollfds
      PROVE  /\ pollfds'[i] \in PollFd /\ pollfds'[i].fd = pollfds[i].fd
             /\ \A d \in monitorConnections : wsi[d].fd = pollfds[i].fd =>
                    pollfds'[i].events = wsi[d].events \cup {POLLOUT}
             /\ (\A d \in monitorConnections : wsi[d].fd # pollfds[i].fd) =>
                    pollfds'[i] = pollfds[i]
    <2>1. pollfds[i] \in PollFd
        BY <1>3
    <2>2. pollfds'[i] =
              IF \E c \in monitorConnections : wsi[c].fd = pollfds[i].fd
              THEN [pollfds[i] EXCEPT !.events = RequestWriteable(ConnOf(pollfds[i].fd)).events]
              ELSE pollfds[i]
        BY DEF Update
    <2>3. ASSUME NEW d \in monitorConnections, wsi[d].fd = pollfds[i].fd
          PROVE  /\ pollfds'[i] \in PollFd /\ pollfds'[i].fd = pollfds[i].fd
                 /\ pollfds'[i].events = wsi[d].events \cup {POLLOUT}
        <3>1. d \in Conns /\ Live(d)
            BY <1>1 DEF MonitorsAreLive
        <3>2. ConnOf(pollfds[i].fd) = d
            BY <1>1, <2>3, <3>1, ConnOfIs
        <3>3. wsi[d] \in Wsi
            BY <1>3, <3>1
        <3>4. RequestWriteable(d).events = wsi[d].events \cup {POLLOUT}
              /\ wsi[d].events \cup {POLLOUT} \in SUBSET {POLLIN, POLLOUT}
            BY <3>3 DEF RequestWriteable, Wsi
        <3>5. pollfds'[i] = [pollfds[i] EXCEPT !.events = wsi[d].events \cup {POLLOUT}]
            BY <2>2, <2>3, <3>2, <3>4
        <3>6. QED
            BY <2>1, <3>4, <3>5 DEF PollFd
    <2>4. QED
        BY <2>1, <2>2, <2>3
<1>8. pollfds' \in Seq(PollFd) /\ Len(pollfds') = Len(pollfds) /\ DOMAIN pollfds' = DOMAIN pollfds
    <2>1. /\ pollfds' = [i \in DOMAIN pollfds |-> pollfds'[i]]
          /\ DOMAIN pollfds = 1..Len(pollfds) /\ Len(pollfds) \in Nat
        BY <1>3 DEF Update
    <2>2. QED
        BY <1>7, <2>1
<1>9. FdsOwned'
    <2>1. \A d \in Conns : ~Live(d) => d \notin monitorConnections
        BY <1>1 DEF MonitorsAreLive
    <2>2. QED
        BY <1>1, <1>4, <1>6, <2>1 DEF FdsOwned
<1>10. PollfdsMirrorLws'
    <2>1. Len(pollfds') >= 2 /\ pollfds'[1].fd = UDPfd /\ pollfds'[2].fd = ListenFd
        <3>1. 1 \in DOMAIN pollfds /\ 2 \in DOMAIN pollfds
            BY <1>1, <1>3 DEF PollfdsMirrorLws
        <3>2. QED
            BY <1>1, <1>7, <1>8, <3>1 DEF PollfdsMirrorLws
    <2>2. \A i, j \in DOMAIN pollfds' : pollfds'[i].fd = pollfds'[j].fd => i = j
        BY <1>1, <1>7, <1>8 DEF PollfdsMirrorLws
    <2>3. ASSUME NEW d \in Conns, Live(d)'
          PROVE  \E i \in DOMAIN pollfds' : /\ pollfds'[i].fd = wsi'[d].fd
                                            /\ pollfds'[i].events = wsi'[d].events
        <3>1. Live(d)
            BY <1>6, <2>3
        <3>2. PICK i \in DOMAIN pollfds : /\ pollfds[i].fd = wsi[d].fd
                                          /\ pollfds[i].events = wsi[d].events
            BY <1>1, <3>1 DEF PollfdsMirrorLws
        <3>3. CASE d \in monitorConnections
            <4>1. /\ pollfds'[i].events = wsi[d].events \cup {POLLOUT}
                  /\ pollfds'[i].fd = pollfds[i].fd
                BY <1>7, <3>2, <3>3
            <4>2. /\ wsi'[d].events = wsi[d].events \cup {POLLOUT}
                  /\ wsi'[d].fd = wsi[d].fd
                BY <1>4, <3>3
            <4>3. i \in DOMAIN pollfds'
                BY <1>8
            <4>4. QED
                BY <3>2, <4>1, <4>2, <4>3, Zenon
        <3>4. CASE d \notin monitorConnections
            <4>1. \A g \in monitorConnections : wsi[g].fd # pollfds[i].fd
                BY <1>1, <3>1, <3>2, <3>4 DEF MonitorsAreLive, FdsOwned
            <4>2. pollfds'[i] = pollfds[i]
                BY <1>7, <4>1
            <4>3. QED
                BY <1>4, <1>8, <3>2, <3>4, <4>2
        <3>5. QED
            BY <3>3, <3>4
    <2>4. ASSUME NEW i \in 3..Len(pollfds')
          PROVE  \E d \in Conns : Live(d)' /\ wsi'[d].fd = pollfds'[i].fd
        <3>1. i \in 3..Len(pollfds) /\ i \in DOMAIN pollfds
            BY <1>3, <1>8
        <3>2. PICK d \in Conns : Live(d) /\ wsi[d].fd = pollfds[i].fd
            BY <1>1, <3>1 DEF PollfdsMirrorLws
        <3>3. QED
            BY <1>4, <1>6, <1>7, <3>1, <3>2
    <2>5. QED
        BY <2>1, <2>2, <2>3, <2>4 DEF PollfdsMirrorLws
<1>11. MonitorsAreLive'
    BY <1>1, <1>2, <1>4, <1>6 DEF MonitorsAreLive
<1>12. SnapshotFresh' /\ \A i, j \in DOMAIN processFDs' : processFDs'[i].fd = processFDs'[j].fd => i = j
    BY <1>1, <1>2, <1>4, <1>6, SnapshotKept
<1>13. BacklogNew'
    <2>1. \A i \in DOMAIN listenq : listenq[i] \in Conns
        BY <1>1 DEF TypeOK
    <2>2. listenq' = listenq /\ peer' = peer
        BY <1>2 DEF socketVars
    <2>3. QED
        BY <1>1, <1>4, <2>1, <2>2 DEF BacklogNew, Live
<1>14. UpgradedOnce'
    <2>1. \A d \in Conns : ~InFrames(d)'
        BY <1>2 DEF InFrames
    <2>2. UNCHANGED <<rx, peer>>
        BY <1>2 DEF socketVars
    <2>3. QED
        BY <1>1, <1>4, <2>1, <2>2, UpgradeKept
<1>15. RoundConsistent'
    BY <1>2, <1>12 DEF RoundConsistent
<1>16. TypeOK'
    <2>1. monitorMessage' \in Message
        BY <1>1, <1>2, RenderType DEF TypeOK
    <2>2. tty \in Seq(DMXPacket) /\ <<dmxPacket>> \in Seq(DMXPacket)
        BY <1>1 DEF TypeOK
    <2>3. tty' \in Seq(DMXPacket)
        BY <1>2, <2>2
    <2>4. QED
        BY <1>1, <1>2, <1>5, <1>8, <2>1, <2>3 DEF TypeOK, socketVars
<1>17. QED
    BY <1>9, <1>10, <1>11, <1>12, <1>13, <1>14, <1>15, <1>16 DEF Bookkeeping

-----------------------------------------------------------------------------
(* The clients                                                             *)

\* A client touches neither the tables nor the snapshot.
LEMMA ClientStep ==
    ASSUME Bookkeeping, UNCHANGED serverVars
    PROVE  /\ MonitorsAreLive' /\ PollfdsMirrorLws' /\ SnapshotFresh' /\ FdsOwned'
           /\ \A d \in Conns : InFrames(d)' <=> InFrames(d)
           /\ UNCHANGED <<pc, pollfds, processFDs, lightsDirty, currentState, monitorMessage,
                          monitorConnections, dmxPacket, tty, wsi, inbuf>>
<1>1. UNCHANGED <<pc, pollfds, processFDs, lightsDirty, currentState, monitorMessage,
                  monitorConnections, dmxPacket, tty, wsi, inbuf>>
    BY DEF serverVars, loopVars, lightVars, outVars, lwsVars
<1>2. MonitorsAreLive' /\ PollfdsMirrorLws' /\ SnapshotFresh' /\ FdsOwned'
    BY <1>1 DEF Bookkeeping, MonitorsAreLive, PollfdsMirrorLws, SnapshotFresh, FdsOwned, Live
<1>3. \A d \in Conns : InFrames(d)' <=> InFrames(d)
    BY <1>1 DEF InFrames
<1>4. QED
    BY <1>1, <1>2, <1>3

\* A datagram, or a client that reads, leaves all connections alone.
LEMMA QuietClientKeeps ==
    ASSUME Bookkeeping,
           (\E p \in Packets : SendUDP(p)) \/ (\E c \in Conns : ClientReads(c))
    PROVE  Bookkeeping'
<1>1. /\ TypeOK /\ BacklogNew /\ UpgradedOnce /\ RoundConsistent
    BY DEF Bookkeeping
<1>2. UNCHANGED <<serverVars, listenq, rx, peer>>
    BY DEF SendUDP, ClientReads, socketVars
<1>3. /\ MonitorsAreLive' /\ PollfdsMirrorLws' /\ SnapshotFresh' /\ FdsOwned'
      /\ \A d \in Conns : InFrames(d)' <=> InFrames(d)
      /\ UNCHANGED <<pc, pollfds, processFDs, lightsDirty, currentState, monitorMessage,
                     monitorConnections, dmxPacket, tty, wsi, inbuf>>
    BY <1>2, ClientStep
<1>4. BacklogNew' /\ UpgradedOnce'
    <2>1. BacklogNew'
        BY <1>1, <1>2, <1>3 DEF BacklogNew, Live
    <2>2. UpgradedOnce'
        BY <1>1, <1>2, <1>3, UpgradeKept
    <2>3. QED
        BY <2>1, <2>2
<1>5. /\ udpq' \in Seq(Packets) /\ (udpq # <<>> => udpq' # <<>>)
      /\ tx' \in [Conns -> Seq(Message)] /\ shown' \in [Conns -> Seq(Message)]
    <2>1. udpq \in Seq(Packets) /\ tx \in [Conns -> Seq(Message)] /\ shown \in [Conns -> Seq(Message)]
        BY <1>1 DEF TypeOK
    <2>2. ASSUME NEW p \in Packets, SendUDP(p)
          PROVE  /\ udpq' \in Seq(Packets) /\ udpq' # <<>>
                 /\ tx' = tx /\ shown' = shown
        <3>1. udpq' = Append(udpq, p)
            BY <2>2 DEF SendUDP
        <3>2. QED
            BY <2>1, <2>2, <3>1 DEF SendUDP, socketVars
    <2>3. ASSUME NEW c \in Conns, ClientReads(c)
          PROVE  /\ udpq' = udpq /\ tx' \in [Conns -> Seq(Message)]
                 /\ shown' \in [Conns -> Seq(Message)]
        <3>1. tx[c] \in Seq(Message) /\ tx[c] # <<>>
            BY <2>1, <2>3 DEF ClientReads
        <3>2. Head(tx[c]) \in Message /\ Tail(tx[c]) \in Seq(Message)
            BY <3>1, HeadTail
        <3>3. <<Head(tx[c])>> \in Seq(Message)
            BY <3>2
        <3>4. QED
            BY <2>1, <2>3, <3>2, <3>3 DEF ClientReads
    <2>4. QED
        BY <2>1, <2>2, <2>3
<1>6. RoundConsistent'
    BY <1>1, <1>3, <1>5 DEF RoundConsistent
<1>7. TypeOK'
    BY <1>1, <1>2, <1>3, <1>5 DEF TypeOK
<1>8. QED
    BY <1>3, <1>4, <1>6, <1>7 DEF Bookkeeping

\* A new connection waits once.
LEMMA ConnectKeeps ==
    ASSUME Bookkeeping, NEW c \in Conns, Connect(c)
    PROVE  Bookkeeping'
<1>1. /\ TypeOK /\ BacklogNew /\ UpgradedOnce /\ RoundConsistent
    BY DEF Bookkeeping
<1>2. /\ peer[c] = "idle" /\ peer' = [peer EXCEPT ![c] = "connected"]
      /\ listenq' = Append(listenq, c)
      /\ UNCHANGED <<serverVars, udpq, rx, tx, shown>>
    BY DEF Connect
<1>3. /\ MonitorsAreLive' /\ PollfdsMirrorLws' /\ SnapshotFresh' /\ FdsOwned'
      /\ \A d \in Conns : InFrames(d)' <=> InFrames(d)
      /\ UNCHANGED <<pc, pollfds, processFDs, lightsDirty, currentState, monitorMessage,
                     monitorConnections, dmxPacket, tty, wsi, inbuf>>
    BY <1>2, ClientStep
<1>4. /\ listenq \in Seq(Conns) /\ peer \in [Conns -> {"idle", "connected", "requested", "fin", "rst", "lost"}]
    BY <1>1 DEF TypeOK
<1>5. /\ listenq' \in Seq(Conns) /\ Len(listenq) \in Nat
      /\ DOMAIN listenq = 1..Len(listenq) /\ DOMAIN listenq' = 1..(Len(listenq) + 1)
      /\ \A i \in DOMAIN listenq : i \in DOMAIN listenq' /\ listenq'[i] = listenq[i]
      /\ listenq'[Len(listenq) + 1] = c
    BY <1>2, <1>4, Appended
<1>6. /\ peer'[c] = "connected" /\ \A d \in Conns : d # c => peer'[d] = peer[d]
      /\ peer' \in [Conns -> {"idle", "connected", "requested", "fin", "rst", "lost"}]
    BY <1>2, <1>4
<1>7. BacklogNew'
    <2>1. \A i \in DOMAIN listenq : listenq[i] # c /\ listenq[i] \in Conns
        BY <1>1, <1>2, <1>4 DEF BacklogNew
    <2>2. ASSUME NEW i \in DOMAIN listenq'
          PROVE  \/ i \in DOMAIN listenq /\ listenq'[i] = listenq[i]
                 \/ i = Len(listenq) + 1 /\ listenq'[i] = c
        BY <1>5
    <2>3. ~Live(c)
        BY <1>1, <1>2 DEF BacklogNew
    <2>4. \A i \in DOMAIN listenq' :
              wsi'[listenq'[i]].state = "none" /\ peer'[listenq'[i]] # "idle"
        BY <1>1, <1>3, <1>6, <2>1, <2>2, <2>3 DEF BacklogNew, Live
    <2>5. ASSUME NEW i \in DOMAIN listenq', NEW j \in DOMAIN listenq', listenq'[i] = listenq'[j]
          PROVE  i = j
        BY <1>1, <2>1, <2>2, <2>5 DEF BacklogNew
    <2>6. \A d \in Conns : peer'[d] = "idle" => ~Live(d)'
        BY <1>1, <1>3, <1>6 DEF BacklogNew, Live
    <2>7. QED
        BY <2>4, <2>5, <2>6 DEF BacklogNew, Live
<1>8. UpgradedOnce'
    <2>1. \A d \in Conns : peer'[d] \in {"idle", "connected"} => peer[d] \in {"idle", "connected"}
        BY <1>2, <1>6
    <2>2. QED
        BY <1>1, <1>2, <1>3, <2>1 DEF UpgradedOnce
<1>9. RoundConsistent'
    BY <1>1, <1>2, <1>3 DEF RoundConsistent
<1>10. TypeOK'
    BY <1>1, <1>2, <1>3, <1>5, <1>6 DEF TypeOK
<1>11. QED
    BY <1>3, <1>7, <1>8, <1>9, <1>10 DEF Bookkeeping

\* A client that sends or leaves does not move in the accept queue.
LEMMA ConnectedClientStep ==
    ASSUME Bookkeeping, NEW c \in Conns,
           rx' \in [Conns -> Seq(Frame)], tx' \in [Conns -> Seq(Message)],
           peer' \in [Conns -> {"idle", "connected", "requested", "fin", "rst", "lost"}],
           peer[c] # "idle", peer'[c] # "idle",
           \A d \in Conns : d # c => rx'[d] = rx[d] /\ peer'[d] = peer[d],
           UNCHANGED <<serverVars, listenq, udpq, shown>>,
           /\ peer'[c] \in {"idle", "connected"} =>
                  rx'[c] = <<>> /\ wsi[c].proto = "none" /\ ~InFrames(c)
           /\ wsi[c].proto = "none" => /\ Len(rx'[c]) <= 1
                                       /\ InFrames(c) => rx'[c] = <<>>
           /\ wsi[c].proto # "none" => \A i \in DOMAIN rx'[c] : rx'[c][i].kind # "request"
    PROVE  Bookkeeping'
<1>1. /\ TypeOK /\ BacklogNew /\ UpgradedOnce /\ RoundConsistent
    BY DEF Bookkeeping
<1>2. /\ MonitorsAreLive' /\ PollfdsMirrorLws' /\ SnapshotFresh' /\ FdsOwned'
      /\ \A d \in Conns : InFrames(d)' <=> InFrames(d)
      /\ UNCHANGED <<pc, pollfds, processFDs, lightsDirty, currentState, monitorMessage,
                     monitorConnections, dmxPacket, tty, wsi, inbuf>>
    BY ClientStep
<1>3. BacklogNew'
    <2>1. \A d \in Conns : peer'[d] = "idle" <=> peer[d] = "idle"
        OBVIOUS
    <2>2. \A i \in DOMAIN listenq : listenq[i] \in Conns
        BY <1>1 DEF TypeOK
    <2>3. QED
        BY <1>1, <1>2, <2>1, <2>2 DEF BacklogNew, Live
<1>4. UpgradedOnce'
    <2>1. ASSUME NEW d \in Conns
          PROVE  /\ peer'[d] \in {"idle", "connected"} =>
                        rx'[d] = <<>> /\ wsi'[d].proto = "none" /\ ~InFrames(d)'
                 /\ wsi'[d].proto = "none" =>
                        /\ wsi'[d].state # "established" /\ Len(rx'[d]) <= 1
                        /\ InFrames(d)' => rx'[d] = <<>> /\ Len(inbuf') = 1
                 /\ wsi'[d].proto # "none" =>
                        /\ \A i \in DOMAIN rx'[d] : rx'[d][i].kind # "request"
                        /\ InFrames(d)' => \A i \in DOMAIN inbuf' : inbuf'[i].kind # "request"
        <3>1. /\ peer[d] \in {"idle", "connected"} =>
                    rx[d] = <<>> /\ wsi[d].proto = "none" /\ ~InFrames(d)
              /\ wsi[d].proto = "none" =>
                    /\ wsi[d].state # "established" /\ Len(rx[d]) <= 1
                    /\ InFrames(d) => rx[d] = <<>> /\ Len(inbuf) = 1
              /\ wsi[d].proto # "none" =>
                    /\ \A i \in DOMAIN rx[d] : rx[d][i].kind # "request"
                    /\ InFrames(d) => \A i \in DOMAIN inbuf : inbuf[i].kind # "request"
            BY <1>1 DEF UpgradedOnce
        <3> HIDE DEF InFrames
        <3>2. CASE d = c
            BY <1>2, <3>1, <3>2
        <3>3. CASE d # c
            BY <1>2, <3>1, <3>3
        <3>4. QED
            BY <3>2, <3>3
    <2>2. QED
        BY <2>1 DEF UpgradedOnce
<1>5. RoundConsistent'
    BY <1>1, <1>2 DEF RoundConsistent
<1>6. TypeOK'
    BY <1>1, <1>2 DEF TypeOK
<1>7. QED
    BY <1>2, <1>3, <1>4, <1>5, <1>6 DEF Bookkeeping

\* The upgrade request is the first thing a client sends.
LEMMA SendRequestKeeps ==
    ASSUME Bookkeeping, NEW c \in Conns, NEW proto \in Requests, SendRequest(c, proto)
    PROVE  Bookkeeping'
<1> DEFINE frame == [kind |-> "request", proto |-> proto]
<1>1. TypeOK /\ UpgradedOnce
    BY DEF Bookkeeping
<1>2. /\ peer[c] = "connected" /\ peer' = [peer EXCEPT ![c] = "requested"]
      /\ rx' = [rx EXCEPT ![c] = Append(rx[c], frame)]
      /\ UNCHANGED <<serverVars, listenq, udpq, tx, shown>>
    BY DEF SendRequest, ClientSends
<1>3. rx[c] = <<>> /\ wsi[c].proto = "none" /\ ~InFrames(c)
    BY <1>1, <1>2 DEF UpgradedOnce
<1>4. /\ peer \in [Conns -> {"idle", "connected", "requested", "fin", "rst", "lost"}]
      /\ rx \in [Conns -> Seq(Frame)] /\ tx \in [Conns -> Seq(Message)]
    BY <1>1 DEF TypeOK
<1>5. /\ peer' \in [Conns -> {"idle", "connected", "requested", "fin", "rst", "lost"}]
      /\ peer'[c] = "requested" /\ \A d \in Conns : d # c => peer'[d] = peer[d]
    BY <1>2, <1>4
<1>6. frame \in Frame
    BY ServeriAssumption DEF Frame, Protocols
<1> HIDE DEF frame
<1>7. Append(rx[c], frame) \in Seq(Frame) /\ Len(Append(rx[c], frame)) <= 1
    BY <1>3, <1>4, <1>6
<1>8. /\ rx' \in [Conns -> Seq(Frame)] /\ Len(rx'[c]) <= 1
      /\ \A d \in Conns : d # c => rx'[d] = rx[d]
    BY <1>2, <1>4, <1>7
<1>9. tx' \in [Conns -> Seq(Message)] /\ peer[c] # "idle" /\ peer'[c] # "idle"
      /\ peer'[c] \notin {"idle", "connected"}
    BY <1>2, <1>4, <1>5
<1>10. QED
    BY <1>2, <1>3, <1>5, <1>8, <1>9, ConnectedClientStep

\* What an open websocket sends is no upgrade request.
LEMMA SendFrameKeeps ==
    ASSUME Bookkeeping, NEW c \in Conns, NEW frame \in Frame, frame.kind # "request",
           Open(c), ClientSends(c, frame), UNCHANGED peer
    PROVE  Bookkeeping'
<1>1. TypeOK /\ UpgradedOnce
    BY DEF Bookkeeping
<1>2. /\ peer[c] = "requested" /\ wsi[c].proto # "none"
      /\ rx' = [rx EXCEPT ![c] = Append(rx[c], frame)]
      /\ UNCHANGED <<serverVars, listenq, udpq, tx, shown>>
    BY <1>1 DEF Open, ClientSends, UpgradedOnce
<1>3. /\ peer \in [Conns -> {"idle", "connected", "requested", "fin", "rst", "lost"}]
      /\ rx \in [Conns -> Seq(Frame)] /\ tx \in [Conns -> Seq(Message)]
    BY <1>1 DEF TypeOK
<1>4. PICK t : t = Append(rx[c], frame)
    OBVIOUS
<1>5. /\ t \in Seq(Frame) /\ Len(rx[c]) \in Nat
      /\ DOMAIN rx[c] = 1..Len(rx[c]) /\ DOMAIN t = 1..(Len(rx[c]) + 1)
      /\ \A i \in DOMAIN rx[c] : t[i] = rx[c][i]
      /\ t[Len(rx[c]) + 1] = frame
    <2>1. rx[c] \in Seq(Frame)
        BY <1>3
    <2>2. QED
        BY <1>4, <2>1, Appended
<1>6. \A i \in DOMAIN t : t[i].kind # "request"
    <2>1. \A i \in DOMAIN rx[c] : rx[c][i].kind # "request"
        BY <1>1, <1>2 DEF UpgradedOnce
    <2>2. \A i \in DOMAIN t : i \in DOMAIN rx[c] \/ i = Len(rx[c]) + 1
        BY <1>5
    <2>3. QED
        BY <1>5, <2>1, <2>2
<1>7. /\ rx' \in [Conns -> Seq(Frame)] /\ rx'[c] = t
      /\ \A d \in Conns : d # c => rx'[d] = rx[d]
    BY <1>2, <1>3, <1>4, <1>5
<1>8. /\ tx' \in [Conns -> Seq(Message)] /\ peer' = peer
      /\ peer' \in [Conns -> {"idle", "connected", "requested", "fin", "rst", "lost"}]
      /\ peer[c] # "idle" /\ peer'[c] # "idle" /\ peer'[c] \notin {"idle", "connected"}
    BY <1>2, <1>3
<1>9. QED
    BY <1>2, <1>6, <1>7, <1>8, ConnectedClientStep

\* Data, pings and close frames.
LEMMA SendKeeps ==
    ASSUME Bookkeeping, NEW c \in Conns,
           (\E p \in Packets : SendData(c, p)) \/ SendPing(c) \/ SendClose(c)
    PROVE  Bookkeeping'
<1>1. ASSUME NEW p \in Packets, SendData(c, p) PROVE Bookkeeping'
    <2>1. [kind |-> "data", packet |-> p] \in Frame
        BY DEF Frame
    <2>2. QED
        BY <1>1, <2>1, SendFrameKeeps DEF SendData
<1>2. CASE SendPing(c)
    <2>1. [kind |-> "ping"] \in Frame
        BY DEF Frame
    <2>2. QED
        BY <1>2, <2>1, SendFrameKeeps DEF SendPing
<1>3. CASE SendClose(c)
    <2>1. [kind |-> "close"] \in Frame
        BY DEF Frame
    <2>2. QED
        BY <1>3, <2>1, SendFrameKeeps DEF SendClose
<1>4. QED
    BY <1>1, <1>2, <1>3

\* A client that leaves, with or without what it has sent.
LEMMA LeaveKeeps ==
    ASSUME Bookkeeping, NEW c \in Conns, peer[c] # "idle",
           NEW p \in {"fin", "rst", "lost"}, peer' = [peer EXCEPT ![c] = p],
           rx' = rx \/ rx' = [rx EXCEPT ![c] = <<>>],
           tx' = tx \/ tx' = [tx EXCEPT ![c] = <<>>],
           UNCHANGED <<serverVars, listenq, udpq, shown>>
    PROVE  Bookkeeping'
<1>1. TypeOK /\ UpgradedOnce
    BY DEF Bookkeeping
<1>2. /\ peer \in [Conns -> {"idle", "connected", "requested", "fin", "rst", "lost"}]
      /\ rx \in [Conns -> Seq(Frame)] /\ tx \in [Conns -> Seq(Message)]
    BY <1>1 DEF TypeOK
<1>3. tx' \in [Conns -> Seq(Message)]
    <2>1. CASE tx' = tx
        BY <1>2, <2>1
    <2>2. CASE tx' = [tx EXCEPT ![c] = <<>>]
        <3>1. <<>> \in Seq(Message)
            OBVIOUS
        <3>2. QED
            BY <1>2, <2>2, <3>1
    <2>3. QED
        BY <2>1, <2>2
<1>4. /\ peer' \in [Conns -> {"idle", "connected", "requested", "fin", "rst", "lost"}]
      /\ peer'[c] \in {"fin", "rst", "lost"}
      /\ \A d \in Conns : d # c => peer'[d] = peer[d]
    BY <1>2
<1>5. /\ rx' \in [Conns -> Seq(Frame)] /\ (rx'[c] = rx[c] \/ rx'[c] = <<>>)
      /\ \A d \in Conns : d # c => rx'[d] = rx[d]
    <2>1. CASE rx' = rx
        BY <1>2, <2>1
    <2>2. CASE rx' = [rx EXCEPT ![c] = <<>>]
        <3>1. <<>> \in Seq(Frame)
            OBVIOUS
        <3>2. QED
            BY <1>2, <2>2, <3>1
    <2>3. QED
        BY <2>1, <2>2
<1>6. /\ wsi[c].proto = "none" => /\ Len(rx'[c]) <= 1
                                  /\ InFrames(c) => rx'[c] = <<>>
      /\ wsi[c].proto # "none" => \A i \in DOMAIN rx'[c] : rx'[c][i].kind # "request"
    <2>1. /\ wsi[c].proto = "none" => /\ Len(rx[c]) <= 1
                                      /\ InFrames(c) => rx[c] = <<>>
          /\ wsi[c].proto # "none" => \A i \in DOMAIN rx[c] : rx[c][i].kind # "request"
        BY <1>1 DEF UpgradedOnce
    <2>2. Len(<<>>) = 0 /\ \A i \in DOMAIN <<>> : FALSE
        OBVIOUS
    <2>3. QED
        BY <1>5, <2>1, <2>2
<1>7. QED
    BY <1>3, <1>4, <1>5, <1>6, ConnectedClientStep

\* A client that closes or resets its socket.
LEMMA DisconnectKeeps ==
    ASSUME Bookkeeping, NEW c \in Conns, Disconnect(c)
    PROVE  Bookkeeping'
<1>1. /\ peer[c] # "idle" /\ tx' = [tx EXCEPT ![c] = <<>>]
      /\ UNCHANGED <<serverVars, listenq, udpq, shown>>
      /\ rx' = rx \/ rx' = [rx EXCEPT ![c] = <<>>]
      /\ \E p \in {"fin", "rst"} : peer' = [peer EXCEPT ![c] = p]
    BY DEF Disconnect
<1>2. PICK p \in {"fin", "rst"} : peer' = [peer EXCEPT ![c] = p]
    BY <1>1
<1>3. QED
    BY <1>1, <1>2, LeaveKeeps

\* A client that vanishes, and the kernel that finds out.
LEMMA LostKeeps ==
    ASSUME Bookkeeping, NEW c \in Conns, Vanish(c) \/ GiveUp(c)
    PROVE  Bookkeeping'
<1>1. /\ peer[c] # "idle"
      /\ tx' = tx \/ tx' = [tx EXCEPT ![c] = <<>>]
      /\ UNCHANGED <<serverVars, listenq, udpq, shown>>
      /\ rx' = rx \/ rx' = [rx EXCEPT ![c] = <<>>]
      /\ \E p \in {"rst", "lost"} : peer' = [peer EXCEPT ![c] = p]
    BY DEF Vanish, GiveUp
<1>2. PICK p \in {"rst", "lost"} : peer' = [peer EXCEPT ![c] = p]
    BY <1>1
<1>3. QED
    BY <1>1, <1>2, LeaveKeeps

-----------------------------------------------------------------------------
(* The bookkeeping is an invariant                                         *)

\* The constructor leaves the bookkeeping in order.
LEMMA BookkeepingInit == Init => Bookkeeping
<1> SUFFICES ASSUME Init PROVE Bookkeeping
    OBVIOUS
<1>1. TypeOK
    <2>1. currentState \in LightState /\ monitorMessage \in Message
        <3>1. Black \in Color
            BY DEF Black, Color, Byte
        <3>2. <<>> \in Seq(Byte)
            OBVIOUS
        <3>3. currentState \in LightState
            BY <3>1, <3>2 DEF Init, LightState
        <3>4. QED
            BY <3>3, RenderType DEF Init
    <2>2. dmxPacket \in DMXPacket
        BY EmptyPacketType DEF Init
    <2>3. wsi \in [Conns -> Wsi]
        BY NoWsiType DEF Init
    <2>4. pollfds \in Seq(PollFd)
        BY DEF Init, PollFd, UDPfd, ListenFd
    <2>5. /\ processFDs \in Seq(ReadyFd) /\ tty \in Seq(DMXPacket) /\ inbuf \in Seq(Frame)
          /\ listenq \in Seq(Conns) /\ udpq \in Seq(Packets)
        BY DEF Init
    <2>6. /\ rx \in [Conns -> Seq(Frame)] /\ tx \in [Conns -> Seq(Message)]
          /\ shown \in [Conns -> Seq(Message)]
          /\ peer \in [Conns -> {"idle", "connected", "requested", "fin", "rst", "lost"}]
        BY DEF Init
    <2>7. QED
        BY <2>1, <2>2, <2>3, <2>4, <2>5, <2>6 DEF Init, TypeOK
<1>2. \A c \in Conns : wsi[c] = NoWsi /\ ~Live(c)
    BY DEF Init, Live, NoWsi
<1>3. MonitorsAreLive
    BY <1>2 DEF Init, MonitorsAreLive
<1>4. PollfdsMirrorLws
    <2>1. /\ Len(pollfds) = 2 /\ DOMAIN pollfds = {1, 2}
          /\ pollfds[1].fd = UDPfd /\ pollfds[2].fd = ListenFd
        BY DEF Init
    <2>2. QED
        BY <1>2, <2>1 DEF PollfdsMirrorLws, UDPfd, ListenFd
<1>5. SnapshotFresh /\ FdsOwned
    BY <1>2 DEF Init, SnapshotFresh, FdsOwned
<1>6. BacklogNew
    BY <1>2 DEF Init, BacklogNew
<1>7. UpgradedOnce
    <2>1. \A c \in Conns : ~InFrames(c)
        BY DEF Init, InFrames
    <2>2. \A c \in Conns : rx[c] = <<>> /\ Len(rx[c]) = 0
        BY DEF Init
    <2>3. QED
        BY <1>2, <2>1, <2>2, NoWsiType DEF UpgradedOnce
<1>8. RoundConsistent
    BY DEF Init, RoundConsistent
<1>9. QED
    BY <1>1, <1>3, <1>4, <1>5, <1>6, <1>7, <1>8 DEF Bookkeeping

\* Every step of the server and of the clients keeps it.
LEMMA BookkeepingNext == Bookkeeping /\ [Next]_vars => Bookkeeping'
<1> SUFFICES ASSUME Bookkeeping, [Next]_vars PROVE Bookkeeping'
    OBVIOUS
<1>1. CASE Poll
    BY <1>1, PollKeeps
<1>2. CASE ScanPollfds
    BY <1>2, ScanKeeps
<1>3. CASE Accept
    BY <1>3, AcceptKeeps
<1>4. CASE Update
    BY <1>4, UpdateKeeps
<1>5. CASE PollFails \/ RecvFails \/ NoUpdate
    BY <1>5, LoopActionsKeep
<1>6. ASSUME NEW c \in Conns, ServiceConn(c) PROVE Bookkeeping'
    <2>1. CASE FlushBacklog(c)
        BY <2>1, FlushBacklogKeeps
    <2>2. CASE FinishClose(c)
        BY <2>2, FinishCloseKeeps
    <2>3. CASE SendPong(c)
        BY <2>3, SendPongKeeps
    <2>4. CASE MonitorWriteable(c)
        BY <2>4, MonitorWriteableKeeps
    <2>5. CASE LightWriteable(c)
        BY <2>5, LoopActionsKeep
    <2>6. CASE NothingToRead(c)
        BY <2>6, NothingToReadKeeps
    <2>7. CASE ReadFails(c)
        BY <2>7, ReadFailsKeeps
    <2>8. CASE Read(c)
        BY <2>8, ReadKeeps
    <2>9. CASE Upgrade(c)
        BY <2>9, UpgradeKeeps
    <2>10. CASE RejectUpgrade(c)
        BY <2>10, RejectUpgradeKeeps
    <2>11. CASE Receive(c)
        BY <2>11, ReceiveKeeps
    <2>12. CASE ReceivePing(c)
        BY <2>12, ReceivePingKeeps
    <2>13. CASE ReceiveClose(c)
        BY <2>13, ReceiveCloseKeeps
    <2>14. CASE DummyWriteable(c)
        BY <2>14, DummyWriteableKeeps
    <2>15. CASE PlainRequest(c)
        BY <2>15, PlainRequestKeeps
    <2>16. QED
        BY <1>6, <2>1, <2>2, <2>3, <2>4, <2>5, <2>6, <2>7, <2>8, <2>9, <2>10, <2>11, <2>12,
           <2>13, <2>14, <2>15 DEF ServiceConn
<1>7. ASSUME NEW c \in Conns, Client(c) PROVE Bookkeeping'
    <2>1. CASE Connect(c)
        BY <2>1, ConnectKeeps
    <2>2. ASSUME NEW proto \in Requests, SendRequest(c, proto)
          PROVE  Bookkeeping'
        BY <2>2, SendRequestKeeps
    <2>3. CASE (\E p \in Packets : SendData(c, p)) \/ SendPing(c) \/ SendClose(c)
        BY <2>3, SendKeeps
    <2>4. CASE Disconnect(c)
        BY <2>4, DisconnectKeeps
    <2>5. CASE ClientReads(c)
        BY <2>5, QuietClientKeeps
    <2>6. CASE Vanish(c) \/ GiveUp(c)
        BY <2>6, LostKeeps
    <2>7. QED
        BY <1>7, <2>1, <2>2, <2>3, <2>4, <2>5, <2>6 DEF Client
<1>8. CASE \E p \in Packets : SendUDP(p)
    BY <1>8, QuietClientKeeps
<1>9. CASE UNCHANGED vars
    <2>1. UNCHANGED <<serverVars, listenq, udpq, rx, tx, peer, shown>>
        BY <1>9 DEF vars, serverVars, socketVars
    <2>2. TypeOK /\ BacklogNew /\ UpgradedOnce /\ RoundConsistent
        BY DEF Bookkeeping
    <2>3. /\ MonitorsAreLive' /\ PollfdsMirrorLws' /\ SnapshotFresh' /\ FdsOwned'
          /\ \A d \in Conns : InFrames(d)' <=> InFrames(d)
          /\ UNCHANGED <<pc, pollfds, processFDs, lightsDirty, currentState, monitorMessage,
                         monitorConnections, dmxPacket, tty, wsi, inbuf>>
        BY <2>1, ClientStep
    <2>4. TypeOK'
        BY <2>1, <2>2, <2>3 DEF TypeOK
    <2>5. BacklogNew' /\ RoundConsistent'
        BY <2>1, <2>2, <2>3 DEF BacklogNew, RoundConsistent, Live
    <2>6. UpgradedOnce'
        BY <2>1, <2>2, <2>3, UpgradeKept
    <2>7. QED
        BY <2>3, <2>4, <2>5, <2>6 DEF Bookkeeping
<1>10. QED
    BY <1>1, <1>2, <1>3, <1>4, <1>5, <1>6, <1>7, <1>8, <1>9 DEF Next, Run

\* The bookkeeping of connections holds in every reachable state, with any
\* number of clients: every fd that libwebsockets polls is in pollfds once
\* (addFD, deleteFD, setFDEvents), monitorConnections has exactly the open
\* monitors, and no entry of a round's snapshot goes stale.
THEOREM BookkeepingInvariant == Spec => []Bookkeeping
<1>1. Init => Bookkeeping
    BY BookkeepingInit
<1>2. Bookkeeping /\ [Next]_vars => Bookkeeping'
    BY BookkeepingNext
<1>3. QED
    BY <1>1, <1>2, PTL DEF Spec

\* Every variable has its type in every reachable state.
THEOREM TypeCorrect == Spec => []TypeOK
<1>1. Bookkeeping => TypeOK
    BY DEF Bookkeeping
<1>2. QED
    BY <1>1, BookkeepingInvariant, PTL

\* Update never passes a freed wsi to lws_callback_on_writable, and forgets no
\* monitor.
THEOREM MonitorsLive == Spec => []MonitorsAreLive
<1>1. Bookkeeping => MonitorsAreLive
    BY DEF Bookkeeping
<1>2. QED
    BY <1>1, BookkeepingInvariant, PTL

\* pollfds and libwebsockets' table of connections agree.
THEOREM PollfdsMirror == Spec => []PollfdsMirrorLws
<1>1. Bookkeeping => PollfdsMirrorLws
    BY DEF Bookkeeping
<1>2. QED
    BY <1>1, BookkeepingInvariant, PTL

\* lws_service_fd is never called for a connection other than the one poll
\* reported, although fds are closed and reused within a round.
THEOREM SnapshotStaysFresh == Spec => []SnapshotFresh
<1>1. Bookkeeping => SnapshotFresh
    BY DEF Bookkeeping
<1>2. QED
    BY <1>1, BookkeepingInvariant, PTL

-----------------------------------------------------------------------------
(* What the server shows                                                   *)

\* The steps as the light state sees them: nothing, a packet, or the update at
\* the end of a round.
LEMMA LightSteps ==
    ASSUME Bookkeeping, [Next]_vars
    PROVE  \/ /\ UNCHANGED <<lightVars, outVars>>
              /\ pc' = "poll" => pc = "poll" \/ ~lightsDirty
           \/ /\ \E p \in Packets : lightPacket(p)
              /\ UNCHANGED outVars
              /\ pc' # "poll"
           \/ Update
<1> DEFINE Goal ==
           \/ /\ UNCHANGED <<lightVars, outVars>>
              /\ pc' = "poll" => pc = "poll" \/ ~lightsDirty
           \/ /\ \E p \in Packets : lightPacket(p)
              /\ UNCHANGED outVars
              /\ pc' # "poll"
           \/ Update
<1>1. CASE Poll \/ PollFails \/ RecvFails \/ NoUpdate \/ Update
    BY <1>1 DEF Poll, PollFails, RecvFails, NoUpdate
<1>2. CASE Accept
    <2>1. UNCHANGED <<lightVars, outVars>> /\ pc' # "poll"
        BY <1>2 DEF Accept, ServiceReturns, loopVars
    <2>2. QED
        BY <2>1
<1>3. CASE ScanPollfds
    <2>1. pc = "scan" /\ pc' = "service" /\ UNCHANGED outVars
        BY <1>3 DEF ScanPollfds
    <2>2. CASE UNCHANGED lightVars
        BY <2>1, <2>2
    <2>3. CASE ~ UNCHANGED lightVars
        <3>1. lightPacket(Head(udpq)) /\ \E i \in DOMAIN pollfds :
                  pollfds[i].revents # {} /\ pollfds[i].fd = UDPfd
            BY <1>3, <2>3 DEF ScanPollfds, Scanned
        <3>2. pollfds[1].revents # {}
            <4>1. PICK i \in DOMAIN pollfds :
                      pollfds[i].revents # {} /\ pollfds[i].fd = UDPfd
                BY <3>1
            <4>2. /\ 1 \in DOMAIN pollfds
                  /\ pollfds[1].fd = UDPfd
                  /\ \A j, k \in DOMAIN pollfds : pollfds[j].fd = pollfds[k].fd => j = k
                BY DEF Bookkeeping, PollfdsMirrorLws
            <4>3. i = 1
                BY <4>1, <4>2
            <4>4. QED
                BY <4>1, <4>3
        <3>3. udpq \in Seq(Packets) /\ udpq # <<>>
            BY <2>1, <3>2 DEF Bookkeeping, TypeOK, RoundConsistent
        <3>4. Head(udpq) \in Packets
            BY <3>3
        <3>5. QED
            BY <2>1, <3>1, <3>4
    <2>4. QED
        BY <2>2, <2>3
<1>4. ASSUME NEW c \in Conns, ServiceConn(c) PROVE Goal
    <2>1. CASE FlushBacklog(c) \/ FinishClose(c) \/ SendPong(c)
        <3>1. UNCHANGED <<lightVars, outVars>> /\ pc' # "poll"
            BY <2>1 DEF FlushBacklog, FinishClose, SendPong, Kill, ServiceReturns
        <3>2. QED
            BY <3>1
    <2>2. CASE \/ MonitorWriteable(c) \/ LightWriteable(c) \/ DummyWriteable(c)
               \/ NothingToRead(c) \/ Read(c)
        <3>1. UNCHANGED <<lightVars, outVars>> /\ pc' # "poll"
            BY <2>2 DEF MonitorWriteable, LightWriteable, DummyWriteable, NothingToRead, Read,
                        ServiceReturns
        <3>2. QED
            BY <3>1
    <2>3. CASE ReadFails(c) \/ RejectUpgrade(c)
        <3>1. UNCHANGED <<lightVars, outVars>> /\ pc' # "poll"
            BY <2>3 DEF ReadFails, RejectUpgrade, Close, Kill, ServiceReturns
        <3>2. QED
            BY <3>1
    <2>4. CASE Upgrade(c) \/ PlainRequest(c) \/ ReceivePing(c) \/ ReceiveClose(c)
        <3>1. \E kind \in {"request", "ping", "close"} : Handling(c, kind)
            BY <2>4 DEF Upgrade, PlainRequest, ReceivePing, ReceiveClose
        <3>2. FrameDone \/ pc' = "service"
            BY <2>4 DEF Upgrade, PlainRequest, ReceivePing, ReceiveClose, Kill, ServiceReturns
        <3>3. pc' # "poll"
            BY <3>1, <3>2, FrameDoneIs
        <3>4. UNCHANGED <<lightVars, outVars>>
            BY <2>4 DEF Upgrade, PlainRequest, ReceivePing, ReceiveClose
        <3>5. QED
            BY <3>3, <3>4
    <2>5. CASE Receive(c)
        <3>1. FrameDone /\ Handling(c, "data") /\ UNCHANGED outVars
            BY <2>5 DEF Receive
        <3>2. pc' # "poll"
            BY <3>1, FrameDoneIs
        <3>3. Head(inbuf).packet \in Packets
            <4>1. Head(inbuf) \in Frame /\ Head(inbuf).kind = "data"
                BY <3>1, HandlingIs
            <4>2. QED
                BY <4>1 DEF Frame
        <3>4. UNCHANGED lightVars \/ lightPacket(Head(inbuf).packet)
            BY <2>5 DEF Receive
        <3>5. QED
            BY <3>1, <3>2, <3>3, <3>4
    <2>6. QED
        BY <1>4, <2>1, <2>2, <2>3, <2>4, <2>5 DEF ServiceConn
<1>5. CASE UNCHANGED serverVars
    BY <1>5 DEF serverVars, loopVars
<1>6. ASSUME NEW c \in Conns, Client(c) PROVE UNCHANGED serverVars
    BY <1>6 DEF Client, Connect, SendRequest, SendData, SendPing, SendClose, Disconnect,
                ClientReads, ClientSends, Vanish, GiveUp
<1>7. ASSUME NEW p \in Packets, SendUDP(p) PROVE UNCHANGED serverVars
    BY <1>7 DEF SendUDP
<1>8. CASE UNCHANGED vars
    <2>1. UNCHANGED serverVars
        BY <1>8 DEF vars, serverVars
    <2>2. QED
        BY <1>5, <2>1
<1>9. QED
    BY <1>1, <1>2, <1>3, <1>4, <1>5, <1>6, <1>7, <1>8 DEF Next, Run

-----------------------------------------------------------------------------

\* A monitor that is sent the message is sent the state of the lights, unless
\* an update is still due (updateMonitorMessage, lightsDirty).
THEOREM MessageStaysCurrent == Spec => []MessageCurrent
<1>1. Init => MessageCurrent
    BY DEF Init, MessageCurrent
<1>2. Bookkeeping /\ MessageCurrent /\ [Next]_vars => MessageCurrent'
    <2> SUFFICES ASSUME Bookkeeping, MessageCurrent, [Next]_vars PROVE MessageCurrent'
        OBVIOUS
    <2>1. CASE UNCHANGED <<lightVars, outVars>>
        BY <2>1 DEF MessageCurrent, lightVars, outVars
    <2>2. CASE \E p \in Packets : lightPacket(p)
        BY <2>2 DEF MessageCurrent, lightPacket
    <2>3. CASE Update
        BY <2>3 DEF MessageCurrent, Update
    <2>4. QED
        BY <2>1, <2>2, <2>3, LightSteps
<1>3. QED
    BY <1>1, <1>2, BookkeepingInvariant, PTL DEF Spec

\* run() never blocks in poll with a DMX packet that it has not written, but
\* for the one the constructor made (Serveri::run, DMXController::update).
THEOREM FrameAlwaysWritten == Spec => []FrameWritten
<1> DEFINE Written == ~lightsDirty /\ "tty" \notin Faults => tty = <<dmxPacket>>
           Inv == FrameWritten /\ Written
<1>1. Init => Inv
    BY DEF Init, FrameWritten
<1>2. Bookkeeping /\ Inv /\ [Next]_vars => Inv'
    <2> SUFFICES ASSUME Bookkeeping, Inv, [Next]_vars PROVE Inv'
        OBVIOUS
    <2>1. CASE /\ UNCHANGED <<lightVars, outVars>>
               /\ pc' = "poll" => pc = "poll" \/ ~lightsDirty
        BY <2>1 DEF FrameWritten, lightVars, outVars
    <2>2. CASE (\E p \in Packets : lightPacket(p)) /\ pc' # "poll"
        BY <2>2 DEF FrameWritten, lightPacket
    <2>3. CASE Update
        BY <2>3 DEF FrameWritten, Update
    <2>4. QED
        BY <2>1, <2>2, <2>3, LightSteps
<1>3. Inv => FrameWritten
    OBVIOUS
<1>4. QED
    BY <1>1, <1>2, <1>3, BookkeepingInvariant, PTL DEF Spec

\* No packet of any client changes the header or the terminator that the
\* adapter needs (setLightColor).
LEMMA FramingStays == Spec => []FramingIntact(dmxPacket)
<1>1. Init => FramingIntact(dmxPacket)
    BY DEF Init, FramingIntact
<1>2. Bookkeeping /\ FramingIntact(dmxPacket) /\ [Next]_vars => FramingIntact(dmxPacket)'
    <2> SUFFICES ASSUME Bookkeeping, FramingIntact(dmxPacket), [Next]_vars
                 PROVE  FramingIntact(dmxPacket)'
        OBVIOUS
    <2>1. CASE UNCHANGED lightVars
        BY <2>1 DEF FramingIntact, lightVars
    <2>2. ASSUME NEW p \in Packets, lightPacket(p) PROVE FramingIntact(dmxPacket)'
        <3>1. FramingIntact(setLightColors(dmxPacket, Understood[p].lights))
            BY UnderstoodType, FramingPreserved
        <3>2. dmxPacket' = setLightColors(dmxPacket, Understood[p].lights)
            BY <2>2 DEF lightPacket
        <3>3. QED
            BY <3>1, <3>2 DEF FramingIntact
    <2>3. CASE Update
        BY <2>3 DEF FramingIntact, Update
    <2>4. QED
        BY <2>1, <2>2, <2>3, LightSteps
<1>3. QED
    BY <1>1, <1>2, BookkeepingInvariant, PTL DEF Spec

\* The start code stays 0 where addresses count from one.
LEMMA StartCodeStays == Spec => []StartCodeIntact
<1>1. Init => StartCodeIntact
    BY LightsAssumption DEF Init, StartCodeIntact, EmptyPacket, Offsets
<1>2. Bookkeeping /\ StartCodeIntact /\ [Next]_vars => StartCodeIntact'
    <2> SUFFICES ASSUME Bookkeeping, StartCodeIntact, [Next]_vars PROVE StartCodeIntact'
        OBVIOUS
    <2>1. CASE UNCHANGED lightVars
        BY <2>1 DEF StartCodeIntact, lightVars
    <2>2. ASSUME NEW p \in Packets, lightPacket(p) PROVE StartCodeIntact'
        <3>1. dmxPacket' = setLightColors(dmxPacket, Understood[p].lights)
            BY <2>2 DEF lightPacket
        <3>2. QED
            BY <3>1, UnderstoodType, StartCodePreserved DEF StartCodeIntact
    <2>3. CASE Update
        BY <2>3 DEF StartCodeIntact, Update
    <2>4. QED
        BY <2>1, <2>2, <2>3, LightSteps
<1>3. QED
    BY <1>1, <1>2, BookkeepingInvariant, PTL DEF Spec

\* The DMX packet keeps header, terminator and start code, whatever packets the
\* clients send.
THEOREM DMXStaysFramed == Spec => []DMXFramed
<1>1. FramingIntact(dmxPacket) /\ StartCodeIntact => DMXFramed
    BY DEF DMXFramed
<1>2. QED
    BY <1>1, FramingStays, StartCodeStays, PTL

-----------------------------------------------------------------------------

\* A parsed tag has no NUL in it: it ends at the first one.
LEMMA TagHasNoNul ==
    ASSUME NEW p \in Seq(Byte), WellFormed(p), NEW i \in DOMAIN ParsedTag(p)
    PROVE  ParsedTag(p)[i] # 0
<1>1. CASE TagEnds(p) = {}
    BY <1>1 DEF ParsedTag
<1>2. CASE TagEnds(p) # {}
    <2> DEFINE n == Min(TagEnds(p))
    <2>1. n \in TagEnds(p) /\ \A j \in TagEnds(p) : n <= j
        BY <1>2, BaseOffsetType
    <2>2. n \in 2..(Len(p) - 1) /\ Len(p) \in Nat
        BY <2>1 DEF TagEnds
    <2>3. ParsedTag(p) = SubSeq(p, 3, n)
        BY <1>2 DEF ParsedTag
    <2> HIDE DEF n
    <2>4. i \in 1..(n - 2) /\ ParsedTag(p)[i] = p[i + 2]
        BY <2>2, <2>3
    <2>5. i + 1 \in 2..(Len(p) - 1) /\ i + 1 < n
        BY <2>2, <2>4
    <2>6. i + 1 \notin TagEnds(p)
        BY <2>1, <2>2, <2>5
    <2>7. QED
        BY <2>4, <2>5, <2>6 DEF TagEnds
<1>3. QED
    BY <1>1, <1>2

\* Whatever bytes clients send, the tag has characters only that json::dump
\* takes (the filter of Serveri::lightPacket).
THEOREM TagStaysClean == Spec => []TagIsClean
<1>1. Init => TagIsClean
    BY DEF Init, TagIsClean
<1>2. Bookkeeping /\ TagIsClean /\ [Next]_vars => TagIsClean'
    <2> SUFFICES ASSUME Bookkeeping, TagIsClean, [Next]_vars PROVE TagIsClean'
        OBVIOUS
    <2>1. CASE UNCHANGED currentState
        BY <2>1 DEF TagIsClean
    <2>2. ASSUME NEW p \in Packets, lightPacket(p) PROVE TagIsClean'
        <3> DEFINE tag == parseLightPacket(p).tag
        <3>1. p \in Seq(Byte)
            BY ServeriAssumption
        <3>2. tag \in Seq(Byte) /\ \A i \in DOMAIN tag : tag[i] # 0
            <4>1. tag \in Seq(Byte)
                BY <3>1, ParserType
            <4>2. CASE WellFormed(p)
                BY <3>1, <4>1, <4>2, TagHasNoNul DEF parseLightPacket
            <4>3. CASE ~WellFormed(p)
                BY <4>3 DEF parseLightPacket
            <4>4. QED
                BY <4>1, <4>2, <4>3
        <3>3. Understood[p].tag = FilterTag(tag)
            <4>1. parseLightPacket(p) \in [tag : Seq(Byte), lights : Seq(LightColor)]
                BY <3>1, ParserType
            <4>2. QED
                BY <4>1 DEF Understood
        <3>4. currentState'.tag = Understood[p].tag
            BY <2>2 DEF lightPacket
        <3> HIDE DEF tag
        <3>5. \A i \in DOMAIN FilterTag(tag) : FilterTag(tag)[i] \in Whitelist \ {0}
            BY <3>2, FilterTagType
        <3>6. QED
            BY <3>3, <3>4, <3>5 DEF TagIsClean
    <2>3. CASE Update
        BY <2>1, <2>3 DEF Update
    <2>4. QED
        BY <2>1, <2>2, <2>3, LightSteps DEF lightVars
<1>3. QED
    BY <1>1, <1>2, BookkeepingInvariant, PTL DEF Spec

\* Where no two lights overlap, the commands that write a channel of light i
\* are the commands for light i.
LEMMA WritersOfLight ==
    ASSUME NEW lights \in Seq(LightColor), NEW i \in LightIds, NoOverlap,
           NEW o \in Channels(i)
    PROVE  Writers(lights, o) = {k \in DOMAIN lights : lights[k].index = i}
BY DEF Writers, NoOverlap

\* The state the monitors are shown and the DMX packet agree on every light
\* (the two halves of the loop in Serveri::lightPacket).
THEOREM LightsAgree == Spec => []LightsMatchDMX
<1> DEFINE Agree(i) == \/ Shows(dmxPacket, i, currentState.lights[i])
                       \/ /\ currentState.lights[i] = Black
                          /\ \A o \in Channels(i) : dmxPacket[o] = 0
<1>1. Init => LightsMatchDMX
    <2> SUFFICES ASSUME Init, NEW i \in LightIds PROVE Agree(i)
        BY DEF LightsMatchDMX
    <2>1. currentState.lights[i] = Black
        BY DEF Init
    <2>2. ASSUME NEW o \in Channels(i) PROVE dmxPacket[o] = 0
        <3>1. o \in 4..(PacketSize - 2) /\ PacketSize \in Nat
            BY ChannelsInPacket, LightsAssumption
        <3>2. EmptyPacket[o] = 0
            BY <3>1 DEF EmptyPacket, Offsets
        <3>3. QED
            BY <3>2 DEF Init
    <2>3. QED
        BY <2>1, <2>2
<1>2. Bookkeeping /\ LightsMatchDMX /\ [Next]_vars => LightsMatchDMX'
    <2> SUFFICES ASSUME Bookkeeping, LightsMatchDMX, [Next]_vars PROVE LightsMatchDMX'
        OBVIOUS
    <2>1. CASE UNCHANGED <<currentState, dmxPacket>>
        BY <2>1 DEF LightsMatchDMX, Shows
    <2>2. ASSUME NEW p \in Packets, lightPacket(p) PROVE LightsMatchDMX'
        <3> DEFINE ls == Understood[p].lights
                   old == currentState.lights
        <3> SUFFICES ASSUME NoOverlap, NEW i \in LightIds PROVE Agree(i)'
            BY DEF LightsMatchDMX
        <3>1. ls \in Seq(LightColor)
            BY UnderstoodType
        <3>2. /\ currentState'.lights[i] = LastColor(ls, i, old[i])
              /\ dmxPacket' = setLightColors(dmxPacket, ls)
            BY <2>2 DEF lightPacket, Bookkeeping, TypeOK, LightState
        <3>3. Agree(i)
            BY DEF LightsMatchDMX
        <3>4. \A o \in Channels(i) : /\ o \in Offsets
                                    /\ Writers(ls, o) = {k \in DOMAIN ls : ls[k].index = i}
            <4>1. \A o \in Channels(i) : o \in Offsets
                BY ChannelsInPacket, LightsAssumption DEF Offsets
            <4>2. QED
                BY <3>1, <4>1, WritersOfLight
        <3> HIDE DEF ls
        <3>5. CASE \A k \in DOMAIN ls : ls[k].index # i
            <4>1. LastColor(ls, i, old[i]) = old[i]
                BY <3>1, <3>5, LastColorIs
            <4>2. \A o \in Channels(i) : dmxPacket'[o] = dmxPacket[o]
                BY <3>1, <3>2, <3>4, <3>5, SetLightColorsAt
            <4>3. QED
                BY <3>2, <3>3, <4>1, <4>2 DEF Shows
        <3>6. CASE \E k \in DOMAIN ls : ls[k].index = i
            <4>1. PICK k \in DOMAIN ls :
                      /\ ls[k].index = i
                      /\ \A m \in DOMAIN ls : ls[m].index = i => k >= m
                      /\ LastColor(ls, i, old[i]) = ls[k].color
                BY <3>1, <3>6, LastColorIs
            <4>2. ASSUME NEW o \in Channels(i)
                  PROVE  dmxPacket'[o] = ChannelByte([index |-> i, color |-> ls[k].color], o)
                <5>1. PICK w \in Writers(ls, o) :
                          /\ \A m \in Writers(ls, o) : w >= m
                          /\ setLightColors(dmxPacket, ls)[o] = ChannelByte(ls[w], o)
                    BY <3>1, <3>4, <4>1, SetLightColorsAt
                <5>2. w = k
                    <6>1. w \in DOMAIN ls /\ ls[w].index = i /\ k \in Writers(ls, o)
                        BY <3>4, <4>1, <5>1
                    <6>2. w >= k /\ k >= w /\ w \in Nat /\ k \in Nat
                        BY <3>1, <4>1, <5>1, <6>1
                    <6>3. QED
                        BY <6>2
                <5>3. ChannelByte(ls[k], o) = ChannelByte([index |-> i, color |-> ls[k].color], o)
                    BY <4>1 DEF ChannelByte
                <5>4. QED
                    BY <3>2, <5>1, <5>2, <5>3
            <4>3. currentState'.lights[i] = ls[k].color
                BY <3>2, <4>1
            <4>4. QED
                BY <4>2, <4>3 DEF Shows
        <3>7. QED
            BY <3>5, <3>6
    <2>3. CASE Update
        BY <2>1, <2>3 DEF Update
    <2>4. QED
        BY <2>1, <2>2, <2>3, LightSteps DEF lightVars
<1>3. QED
    BY <1>1, <1>2, BookkeepingInvariant, PTL DEF Spec

-----------------------------------------------------------------------------
(* No lost update                                                          *)

\* What MonitorsUpToDate says of monitor c, of the events of libwebsockets
\* instead of the ones in pollfds, and with the end of what was sent told
\* apart: a rest that was not sent always has a write requested for it.
Informed(c) ==
    /\ wsi[c].proto = "monitor" /\ wsi[c].state = "established"
    /\ ~Gone(c)
    /\ POLLOUT \notin wsi[c].events
    => /\ wsi[c].backlog = <<>>
       /\ IF tx[c] # <<>> THEN tx[c][Len(tx[c])] = monitorMessage
          ELSE shown[c] # <<>> /\ shown[c][Len(shown[c])] = monitorMessage

AllInformed == \A c \in Conns : Informed(c)

\* What a step leaves alone stays informed.
LEMMA StaysInformed ==
    ASSUME NEW d \in Conns, Informed(d), UNCHANGED monitorMessage,
           UNCHANGED <<wsi[d], tx[d], shown[d]>>, Gone(d)' <=> Gone(d)
    PROVE  Informed(d)'
BY DEF Informed

\* A step of one connection.
LEMMA OneInformed ==
    ASSUME TypeOK, AllInformed, NEW c \in Conns, UNCHANGED monitorMessage,
           \A d \in Conns \ {c} : UNCHANGED <<wsi[d], tx[d], shown[d], peer[d]>>,
           Informed(c)'
    PROVE  AllInformed'
<1>1. ASSUME NEW d \in Conns, d # c PROVE Informed(d)'
    <2>1. UNCHANGED <<wsi[d], tx[d], shown[d], peer[d]>>
        BY <1>1
    <2>2. QED
        BY <2>1, StaysInformed DEF AllInformed, Gone
<1>2. QED
    BY <1>1 DEF AllInformed

\* A connection that ends, or that is not an open monitor, or that asks for a
\* write.
LEMMA WsiInformed ==
    ASSUME TypeOK, AllInformed, NEW c \in Conns, UNCHANGED monitorMessage, NEW w,
           wsi' = [wsi EXCEPT ![c] = w],
           \A d \in Conns \ {c} : UNCHANGED <<tx[d], shown[d], peer[d]>>,
           w.proto # "monitor" \/ w.state # "established" \/ POLLOUT \in w.events
    PROVE  AllInformed'
<1>1. wsi'[c] = w /\ \A d \in Conns \ {c} : UNCHANGED wsi[d]
    BY DEF TypeOK
<1>2. Informed(c)'
    BY <1>1 DEF Informed
<1>3. QED
    BY <1>1, <1>2, OneInformed

LEMMA KillInformed ==
    ASSUME TypeOK, AllInformed, NEW c \in Conns, UNCHANGED monitorMessage, Kill(c)
    PROVE  AllInformed'
<1>1. \A d \in Conns \ {c} : UNCHANGED <<tx[d], shown[d], peer[d]>>
    BY DEF TypeOK, Kill
<1>2. wsi' = [wsi EXCEPT ![c] = NoWsi]
    BY DEF Kill
<1>3. QED
    BY <1>1, <1>2, NoWsiType, WsiInformed

\* The POLLOUT half: a rest or a pong goes first and the write stays requested;
\* the message is written and the request is used up.
LEMMA WritesInform ==
    ASSUME TypeOK, AllInformed, NEW c \in Conns,
           \/ FlushBacklog(c) \/ FinishClose(c) \/ SendPong(c)
           \/ MonitorWriteable(c) \/ LightWriteable(c) \/ DummyWriteable(c)
    PROVE  AllInformed'
<1>0. UNCHANGED monitorMessage
    BY DEF FlushBacklog, FinishClose, SendPong, MonitorWriteable, LightWriteable,
           DummyWriteable, outVars
<1>1. /\ wsi \in [Conns -> Wsi] /\ wsi[c] \in Wsi
      /\ tx \in [Conns -> Seq(Message)] /\ tx[c] \in Seq(Message) /\ monitorMessage \in Message
    BY DEF TypeOK
<1>2. CASE Kill(c)
    BY <1>0, <1>2, KillInformed
<1>3. CASE FlushBacklog(c) /\ ~Kill(c)
    <2>1. /\ wsi[c].backlog # <<>> /\ wsi' = [wsi EXCEPT ![c].backlog = <<>>]
          /\ tx' = [tx EXCEPT ![c] = IF Gone(c) THEN @ ELSE @ \o wsi[c].backlog]
          /\ UNCHANGED <<peer, shown>>
        BY <1>3 DEF FlushBacklog
    <2>2. \A d \in Conns \ {c} : UNCHANGED <<wsi[d], tx[d], shown[d], peer[d]>>
        BY <1>1, <2>1
    <2>3. /\ wsi'[c].proto = wsi[c].proto /\ wsi'[c].state = wsi[c].state
          /\ wsi'[c].events = wsi[c].events
        BY <1>1, <2>1 DEF Wsi
    <2>4. Informed(c)'
        BY <2>1, <2>3 DEF AllInformed, Informed, Gone
    <2>5. QED
        BY <1>0, <2>2, <2>4, OneInformed
<1>4. CASE SendPong(c) /\ ~Kill(c)
    <2>1. wsi' = [wsi EXCEPT ![c].pong = FALSE] /\ UNCHANGED <<tx, peer, shown>>
        BY <1>4 DEF SendPong, socketVars
    <2>2. \A d \in Conns \ {c} : UNCHANGED <<wsi[d], tx[d], shown[d], peer[d]>>
        BY <1>1, <2>1
    <2>3. /\ wsi'[c].proto = wsi[c].proto /\ wsi'[c].state = wsi[c].state
          /\ wsi'[c].events = wsi[c].events /\ wsi'[c].backlog = wsi[c].backlog
        BY <1>1, <2>1 DEF Wsi
    <2>4. Informed(c)'
        BY <1>0, <2>1, <2>3 DEF AllInformed, Informed, Gone
    <2>5. QED
        BY <1>0, <2>2, <2>4, OneInformed
<1>5. CASE MonitorWriteable(c)
    <2> DEFINE sent == [wsi[c] EXCEPT !.events = @ \ {POLLOUT}]
               rest == [sent EXCEPT !.backlog = <<monitorMessage>>,
                                    !.events = @ \cup {POLLOUT}]
    <2>1. UNCHANGED <<peer, shown>> /\ wsi[c].backlog = <<>>
        BY <1>5 DEF MonitorWriteable, UserWriteable
    <2>2. sent.backlog = <<>> /\ POLLOUT \in rest.events
        BY <1>1, <2>1 DEF Wsi
    <2>3. \/ /\ wsi' = [wsi EXCEPT ![c] = sent]
             /\ tx' = [tx EXCEPT ![c] = IF Gone(c) THEN @ ELSE Append(@, monitorMessage)]
          \/ wsi' = [wsi EXCEPT ![c] = rest] /\ UNCHANGED tx
        BY <1>5 DEF MonitorWriteable, SetEvents
    <2> HIDE DEF sent, rest
    <2>4. CASE wsi' = [wsi EXCEPT ![c] = rest] /\ UNCHANGED tx
        BY <1>0, <2>1, <2>2, <2>4, WsiInformed
    <2>5. CASE /\ wsi' = [wsi EXCEPT ![c] = sent]
               /\ tx' = [tx EXCEPT ![c] = IF Gone(c) THEN @ ELSE Append(@, monitorMessage)]
        <3>1. \A d \in Conns \ {c} : UNCHANGED <<wsi[d], tx[d], shown[d], peer[d]>>
            BY <1>1, <2>1, <2>5
        <3>2. wsi'[c].backlog = <<>> /\ (~Gone(c) => tx'[c] = Append(tx[c], monitorMessage))
            BY <1>1, <2>2, <2>5
        <3>3. ~Gone(c) => /\ tx'[c] # <<>>
                          /\ tx'[c][Len(tx'[c])] = monitorMessage
            <4>1. PICK q : q = Append(tx[c], monitorMessage)
                OBVIOUS
            <4>2. q \in Seq(Message) /\ Len(q) = Len(tx[c]) + 1 /\ Len(tx[c]) \in Nat
                  /\ q[Len(tx[c]) + 1] = monitorMessage
                BY <1>1, <4>1, Appended
            <4>3. q # <<>>
                BY <4>2
            <4>4. QED
                BY <3>2, <4>1, <4>2, <4>3
        <3>4. Informed(c)'
            BY <1>0, <2>1, <3>2, <3>3 DEF Informed, Gone
        <3>5. QED
            BY <1>0, <3>1, <3>4, OneInformed
    <2>6. QED
        BY <2>3, <2>4, <2>5
<1>6. CASE LightWriteable(c)
    <2>1. UNCHANGED <<wsi, tx, shown, peer>>
        BY <1>6 DEF LightWriteable, lwsVars, socketVars
    <2>2. QED
        BY <1>0, <2>1, StaysInformed DEF AllInformed, Gone
<1>7. CASE DummyWriteable(c)
    <2>1. PICK w : w = [wsi[c] EXCEPT !.events = @ \ {POLLOUT}]
        OBVIOUS
    <2>2. /\ wsi' = [wsi EXCEPT ![c] = w] /\ UNCHANGED <<tx, shown, peer>>
          /\ wsi[c].proto = "http"
        BY <1>7, <2>1 DEF DummyWriteable, SetEvents, socketVars
    <2>3. w.proto # "monitor"
        BY <1>1, <2>1, <2>2 DEF Wsi
    <2>4. QED
        BY <1>0, <2>2, <2>3, WsiInformed
<1>8. QED
    BY <1>2, <1>3, <1>4, <1>5, <1>6, <1>7 DEF FinishClose

\* The POLLIN half and the frames: what changes an open monitor asks for a
\* write, or the monitor is not open any more.
LEMMA ReadsInform ==
    ASSUME TypeOK, AllInformed, NEW c \in Conns,
           \/ NothingToRead(c) \/ ReadFails(c) \/ Read(c)
           \/ Upgrade(c) \/ RejectUpgrade(c) \/ PlainRequest(c)
           \/ Receive(c) \/ ReceivePing(c) \/ ReceiveClose(c)
    PROVE  AllInformed'
<1>0. UNCHANGED monitorMessage
    BY DEF NothingToRead, ReadFails, Read, Upgrade, RejectUpgrade, PlainRequest, Receive,
           ReceivePing, ReceiveClose, outVars
<1>1. wsi \in [Conns -> Wsi] /\ wsi[c] \in Wsi
    BY DEF TypeOK
<1>2. CASE Kill(c)
    BY <1>0, <1>2, KillInformed
<1>3. CASE UNCHANGED <<wsi, tx, shown, peer>>
    BY <1>0, <1>3, StaysInformed DEF AllInformed, Gone
<1>4. CASE UNCHANGED <<tx, shown, peer>> /\ ~UNCHANGED wsi
    <2>1. CASE ReadFails(c) \/ ReceiveClose(c)
        <3>1. \E st \in {"flushing", "returned_close"} :
                  wsi' = [wsi EXCEPT ![c] = [wsi[c] EXCEPT !.state = st,
                                                           !.events = @ \cup {POLLOUT}]]
              \/ Kill(c)
            BY <2>1 DEF ReadFails, ReceiveClose, Close, SetEvents
        <3>2. ASSUME NEW st \in {"flushing", "returned_close"},
                     wsi' = [wsi EXCEPT ![c] = [wsi[c] EXCEPT !.state = st,
                                                              !.events = @ \cup {POLLOUT}]]
              PROVE  AllInformed'
            <4>1. PICK w : w = [wsi[c] EXCEPT !.state = st, !.events = @ \cup {POLLOUT}]
                OBVIOUS
            <4>2. w.state # "established" /\ wsi' = [wsi EXCEPT ![c] = w]
                BY <1>1, <3>2, <4>1 DEF Wsi
            <4>3. QED
                BY <1>0, <1>4, <4>2, WsiInformed
        <3>3. QED
            BY <1>2, <3>1, <3>2
    <2>2. CASE Upgrade(c)
        <3>1. PICK w : w = [wsi[c] EXCEPT !.state = "established", !.proto = Head(inbuf).proto,
                                !.events = EstablishedEvents(Head(inbuf).proto, @)]
            OBVIOUS
        <3>2. w.proto # "monitor" \/ POLLOUT \in w.events
            BY <1>1, <3>1 DEF Wsi, EstablishedEvents
        <3>3. wsi' = [wsi EXCEPT ![c] = w]
            BY <2>2, <3>1 DEF Upgrade, SetEvents
        <3>4. QED
            BY <1>0, <1>4, <3>2, <3>3, WsiInformed
    <2>3. CASE PlainRequest(c)
        <3>1. PICK w : w = [wsi[c] EXCEPT !.state = "transaction"]
            OBVIOUS
        <3>2. w.state # "established" /\ wsi' = [wsi EXCEPT ![c] = w]
            BY <1>1, <2>3, <3>1 DEF PlainRequest, Wsi
        <3>3. QED
            BY <1>0, <1>4, <3>2, WsiInformed
    <2>4. CASE ReceivePing(c)
        <3>1. PICK w : w = [wsi[c] EXCEPT !.pong = TRUE, !.events = @ \cup {POLLOUT}]
            OBVIOUS
        <3>2. POLLOUT \in w.events /\ wsi' = [wsi EXCEPT ![c] = w]
            BY <1>1, <1>4, <2>4, <3>1 DEF ReceivePing, SetEvents, Wsi
        <3>3. QED
            BY <1>0, <1>4, <3>2, WsiInformed
    <2>5. QED
        BY <1>2, <1>4, <2>1, <2>2, <2>3, <2>4
           DEF NothingToRead, Read, RejectUpgrade, Receive, lwsVars
<1>5. Kill(c) \/ UNCHANGED <<tx, shown, peer>>
    BY DEF NothingToRead, ReadFails, Close, Read, Upgrade, RejectUpgrade, PlainRequest, Receive,
           ReceivePing, ReceiveClose, socketVars
<1>6. QED
    BY <1>2, <1>3, <1>4, <1>5

\* An update asks for a write of every open monitor.
LEMMA UpdateInforms ==
    ASSUME Bookkeeping, AllInformed, Update
    PROVE  AllInformed'
<1> SUFFICES ASSUME NEW d \in Conns PROVE Informed(d)'
    BY DEF AllInformed
<1>1. TypeOK /\ MonitorsAreLive
    BY DEF Bookkeeping
<1>2. wsi[d] \in Wsi
    BY <1>1 DEF TypeOK
<1>3. CASE d \in monitorConnections
    <2>1. PICK w : w = RequestWriteable(d)
        OBVIOUS
    <2>2. wsi'[d] = w
        BY <1>3, <2>1 DEF Update
    <2>3. POLLOUT \in w.events
        BY <1>2, <2>1 DEF RequestWriteable, Wsi
    <2>4. QED
        BY <2>2, <2>3 DEF Informed
<1>4. CASE d \notin monitorConnections
    <2>1. wsi'[d] = wsi[d]
        BY <1>4 DEF Update
    <2>2. wsi[d].proto # "monitor" \/ wsi[d].state # "established"
        BY <1>1, <1>4 DEF MonitorsAreLive, Live
    <2>3. QED
        BY <2>1, <2>2 DEF Informed
<1>5. QED
    BY <1>3, <1>4

\* A client that reads has been shown what it was sent; one that leaves is no
\* longer waited for.
LEMMA ClientInformed ==
    ASSUME TypeOK, AllInformed, NEW c \in Conns, Client(c)
    PROVE  AllInformed'
<1>0. UNCHANGED <<monitorMessage, wsi>>
    BY DEF Client, Connect, SendRequest, SendData, SendPing, SendClose, Disconnect,
           ClientReads, ClientSends, Vanish, GiveUp, serverVars, outVars, lwsVars
<1>1. CASE ClientReads(c)
    <2>1. /\ tx[c] # <<>> /\ UNCHANGED peer
          /\ shown' = [shown EXCEPT ![c] = <<Head(tx[c])>>]
          /\ tx' = [tx EXCEPT ![c] = Tail(@)]
        BY <1>1 DEF ClientReads
    <2>2. /\ shown \in [Conns -> Seq(Message)] /\ tx \in [Conns -> Seq(Message)]
          /\ tx[c] \in Seq(Message)
        BY DEF TypeOK
    <2>3. \A d \in Conns \ {c} : UNCHANGED <<wsi[d], tx[d], shown[d], peer[d]>>
        BY <1>0, <2>1, <2>2
    <2>4. shown'[c] = <<Head(tx[c])>> /\ tx'[c] = Tail(tx[c])
        BY <2>1, <2>2
    <2>5. /\ tx'[c] # <<>> => tx'[c][Len(tx'[c])] = tx[c][Len(tx[c])]
          /\ tx'[c] = <<>> => Head(tx[c]) = tx[c][Len(tx[c])]
        <3>1. PICK q \in Seq(Message) : q = tx[c]
            BY <2>2
        <3>2. Len(q) \in Nat \ {0} /\ Head(q) = q[1]
            BY <2>1, <3>1, EmptySeq
        <3>3. Tail(q) \in Seq(Message) /\ Len(Tail(q)) = Len(q) - 1
            BY <3>2
        <3>4. Tail(q) # <<>> => Len(q) - 1 \in Nat \ {0}
            BY <3>2, <3>3, EmptySeq
        <3>5. Tail(q) # <<>> => Tail(q)[Len(q) - 1] = q[Len(q)]
            BY <3>2, <3>3, <3>4
        <3>6. Tail(q) = <<>> => Len(q) = 1
            <4>1. PICK t \in Seq(Message) : t = Tail(q)
                BY <3>3
            <4>2. t = <<>> => Len(t) = 0
                OBVIOUS
            <4>3. QED
                BY <3>2, <3>3, <4>1, <4>2
        <3>7. QED
            BY <2>4, <3>1, <3>2, <3>3, <3>5, <3>6
    <2>6. /\ shown'[c] # <<>>
          /\ shown'[c][Len(shown'[c])] = Head(tx[c])
        BY <2>4
    <2>7. Informed(c)'
        BY <1>0, <2>1, <2>5, <2>6 DEF AllInformed, Informed, Gone
    <2>8. QED
        BY <1>0, <2>3, <2>7, OneInformed
<1>2. CASE Disconnect(c) \/ GiveUp(c)
    <2>1. /\ tx' = [tx EXCEPT ![c] = <<>>] /\ UNCHANGED shown
          /\ \E p \in {"fin", "rst"} : peer' = [peer EXCEPT ![c] = p]
        BY <1>2 DEF Disconnect, GiveUp
    <2>2. \A d \in Conns \ {c} : UNCHANGED <<wsi[d], tx[d], shown[d], peer[d]>>
        BY <1>0, <2>1 DEF TypeOK
    <2>3. Gone(c)'
        BY <2>1 DEF TypeOK, Gone
    <2>4. Informed(c)'
        BY <2>3 DEF Informed
    <2>5. QED
        BY <1>0, <2>2, <2>4, OneInformed
<1>3. CASE ~(ClientReads(c) \/ Disconnect(c) \/ GiveUp(c))
    <2>1. /\ UNCHANGED <<tx, shown>>
          /\ \/ UNCHANGED peer
             \/ /\ peer[c] \in {"idle", "connected", "requested"}
                /\ \E p \in {"connected", "requested", "lost"} : peer' = [peer EXCEPT ![c] = p]
        BY <1>3 DEF Client, Connect, SendRequest, SendData, SendPing, SendClose, ClientSends,
                    Vanish
    <2>2. \A d \in Conns : Gone(d)' <=> Gone(d)
        BY <2>1 DEF TypeOK, Gone
    <2>3. QED
        BY <1>0, <2>1, <2>2, StaysInformed DEF AllInformed
<1>4. QED
    BY <1>1, <1>2, <1>3

\* Every step keeps the monitors informed.
LEMMA InformedNext ==
    ASSUME Bookkeeping, AllInformed, [Next]_vars
    PROVE  AllInformed'
<1>1. TypeOK
    BY DEF Bookkeeping
<1>2. CASE UNCHANGED <<monitorMessage, wsi, tx, shown, peer>>
    BY <1>2, StaysInformed DEF AllInformed, Gone
<1>3. CASE Poll \/ PollFails \/ RecvFails \/ NoUpdate \/ ScanPollfds
    <2>1. UNCHANGED <<monitorMessage, wsi, tx, shown, peer>>
        BY <1>3 DEF Poll, PollFails, RecvFails, NoUpdate, ScanPollfds, outVars, lwsVars,
                    socketVars
    <2>2. QED
        BY <1>2, <2>1
<1>4. CASE Accept
    <2>1. listenq \in Seq(Conns) /\ listenq # <<>>
        BY <1>1, <1>4 DEF TypeOK, Accept
    <2>2. PICK c \in Conns : c = Head(listenq)
        BY <2>1, HeadTail
    <2>3. PICK w : w.state = "http" /\ wsi' = [wsi EXCEPT ![c] = w]
        BY <1>4, <2>2 DEF Accept, NoWsi
    <2>4. UNCHANGED <<monitorMessage, tx, shown, peer>>
        BY <1>4 DEF Accept, outVars, socketVars
    <2>5. QED
        BY <1>1, <2>3, <2>4, WsiInformed
<1>5. ASSUME NEW c \in Conns, ServiceConn(c) PROVE AllInformed'
    BY <1>1, <1>5, WritesInform, ReadsInform DEF ServiceConn
<1>6. ASSUME NEW c \in Conns, Client(c) PROVE AllInformed'
    BY <1>1, <1>6, ClientInformed
<1>7. ASSUME NEW p \in Packets, SendUDP(p) PROVE AllInformed'
    <2>1. UNCHANGED <<monitorMessage, wsi, tx, shown, peer>>
        BY <1>7 DEF SendUDP, serverVars, outVars, lwsVars, socketVars
    <2>2. QED
        BY <1>2, <2>1
<1>8. CASE UNCHANGED vars
    <2>1. UNCHANGED <<monitorMessage, wsi, tx, shown, peer>>
        BY <1>8 DEF vars, outVars, lwsVars, socketVars
    <2>2. QED
        BY <1>2, <2>1
<1>9. QED
    BY <1>3, <1>4, <1>5, <1>6, <1>7, <1>8, UpdateInforms DEF Next, Run

\* No update is lost, however updates, pongs, unsent rests and the comings and
\* goings of clients share the one-shot request of a write: a monitor that no
\* write is requested for was last sent the message of now.
THEOREM NoUpdateIsLost == Spec => []MonitorsUpToDate
<1>1. Init => AllInformed
    BY DEF Init, AllInformed, Informed, NoWsi
<1>2. Bookkeeping /\ AllInformed => MonitorsUpToDate
    <2> SUFFICES ASSUME Bookkeeping, AllInformed, NEW c \in Conns,
                        wsi[c].proto = "monitor", wsi[c].state = "established",
                        ~Gone(c), ~Requested(c)
                 PROVE  Sent(c) # <<>> /\ Sent(c)[Len(Sent(c))] = monitorMessage
        BY DEF MonitorsUpToDate
    <2>1. POLLOUT \notin wsi[c].events
        <3>1. Live(c)
            BY DEF Live
        <3>2. PICK i \in DOMAIN pollfds : pollfds[i].fd = wsi[c].fd
                                          /\ pollfds[i].events = wsi[c].events
            BY <3>1 DEF Bookkeeping, PollfdsMirrorLws
        <3>3. QED
            BY <3>2 DEF Requested
    <2>2. /\ wsi[c].backlog = <<>>
          /\ IF tx[c] # <<>> THEN tx[c][Len(tx[c])] = monitorMessage
             ELSE shown[c] # <<>> /\ shown[c][Len(shown[c])] = monitorMessage
        BY <2>1 DEF AllInformed, Informed
    <2>3. PICK q \in Seq(Message), r \in Seq(Message) : q = tx[c] /\ r = shown[c]
        BY DEF Bookkeeping, TypeOK
    <2>4. /\ r \o q \in Seq(Message) /\ Len(r \o q) = Len(r) + Len(q)
          /\ Len(r) \in Nat /\ Len(q) \in Nat
        OBVIOUS
    <2>5. Sent(c) = r \o q
        <3>1. Sent(c) = (r \o q) \o <<>>
            BY <2>2, <2>3 DEF Sent
        <3>2. QED
            BY <2>4, <3>1, ConcatEmptySeq
    <2>6. CASE q # <<>>
        <3>1. Len(q) > 0
            BY <2>4, <2>6, EmptySeq
        <3>2. (r \o q)[Len(r) + Len(q)] = q[Len(q)]
            BY <2>4, <3>1
        <3>3. r \o q # <<>>
            BY <2>4, <3>1
        <3>4. QED
            BY <2>2, <2>3, <2>4, <2>5, <2>6, <3>2, <3>3
    <2>7. CASE q = <<>>
        <3>1. r \o q = r
            BY <2>7, ConcatEmptySeq
        <3>2. QED
            BY <2>2, <2>3, <2>5, <2>7, <3>1
    <2>8. QED
        BY <2>6, <2>7
<1>3. Bookkeeping /\ AllInformed /\ [Next]_vars => AllInformed'
    BY InformedNext
<1>4. QED
    BY <1>1, <1>2, <1>3, BookkeepingInvariant, PTL DEF Spec

-----------------------------------------------------------------------------
(* Reading back what the server writes                                     *)

\* Two hexadecimal digits are the byte they were made of.
LEMMA HexDigitsRead ==
    ASSUME NEW b \in Byte
    PROVE  16 * (b \div 16) + (b % 16) = b
BY DEF Byte

\* Six hexadecimal digits are the colour they were made of.
LEMMA HexRead ==
    ASSUME NEW c \in Color
    PROVE  ColorOf(Hex(c)) = c
<1>1. c.red \in Byte /\ c.green \in Byte /\ c.blue \in Byte
    BY DEF Color
<1>2. \A t : t = Hex(c) => /\ t[1] = c.red \div 16 /\ t[2] = c.red % 16
                          /\ t[3] = c.green \div 16 /\ t[4] = c.green % 16
                          /\ t[5] = c.blue \div 16 /\ t[6] = c.blue % 16
    BY DEF Hex, HexDigits
<1>3. ColorOf(Hex(c)) = [red   |-> 16 * (c.red \div 16) + (c.red % 16),
                         green |-> 16 * (c.green \div 16) + (c.green % 16),
                         blue  |-> 16 * (c.blue \div 16) + (c.blue % 16)]
    BY <1>2 DEF ColorOf
<1>4. ColorOf(Hex(c)) = [red |-> c.red, green |-> c.green, blue |-> c.blue]
    BY <1>1, <1>3, HexDigitsRead
<1>5. QED
    BY <1>4 DEF Color

\* A monitor message is the state it was made of.
LEMMA MessageRead ==
    ASSUME NEW s \in LightState
    PROVE  Decode(Render(s)) = s
<1>1. DOMAIN s.lights = LightIds /\ \A i \in LightIds : s.lights[i] \in Color
    BY DEF LightState
<1>2. Render(s).tag = s.tag /\ Render(s).lights = [i \in LightIds |-> Hex(s.lights[i])]
    BY <1>1 DEF Render
<1>3. Decode(Render(s)).lights = [i \in LightIds |-> ColorOf(Hex(s.lights[i]))]
    BY <1>2 DEF Decode
<1>4. Decode(Render(s)).lights = s.lights
    <2>1. Decode(Render(s)).lights = [i \in LightIds |-> s.lights[i]]
        BY <1>1, <1>3, HexRead
    <2>2. s.lights = [i \in LightIds |-> s.lights[i]]
        BY DEF LightState
    <2>3. QED
        BY <2>1, <2>2
<1>5. Decode(Render(s)) = [tag |-> s.tag, lights |-> s.lights]
    BY <1>2, <1>4 DEF Decode
<1>6. QED
    BY <1>5 DEF LightState

\* Reading commutes with the operations of a queue.
LEMMA QueueRead ==
    ASSUME NEW q \in Seq(Message)
    PROVE  /\ Decoded(q) \in Seq({Decode(m) : m \in Message})
           /\ Decoded(q) = <<>> <=> q = <<>>
           /\ \A m \in Message : Decoded(Append(q, m)) = Append(Decoded(q), Decode(m))
           /\ q # <<>> => /\ Decoded(<<Head(q)>>) = <<Head(Decoded(q))>>
                          /\ Decoded(Tail(q)) = Tail(Decoded(q))
<1> DEFINE D == {Decode(m) : m \in Message}
           r == Decoded(q)
<1>1. /\ Len(q) \in Nat /\ DOMAIN q = 1..Len(q) /\ \A k \in 1..Len(q) : q[k] \in Message
    OBVIOUS
<1>2. r = [k \in 1..Len(q) |-> Decode(q[k])]
    BY <1>1 DEF Decoded
<1>3. r \in Seq(D) /\ Len(r) = Len(q) /\ DOMAIN r = 1..Len(q)
    <2>1. r \in [1..Len(q) -> D]
        BY <1>1, <1>2
    <2> HIDE DEF D, r
    <2>2. r \in Seq(D)
        BY <1>1, <2>1, SeqDef
    <2>3. QED
        BY <1>1, <2>1, <2>2
<1>4. r = <<>> <=> q = <<>>
    BY <1>1, <1>3, EmptySeq
<1>5. ASSUME NEW m \in Message PROVE Decoded(Append(q, m)) = Append(r, Decode(m))
    <2> DEFINE t == Append(q, m)
               u == Append(r, Decode(m))
    <2>1. /\ DOMAIN t = 1..(Len(q) + 1) /\ t[Len(q) + 1] = m
          /\ \A k \in 1..Len(q) : t[k] = q[k]
        BY <1>1, Appended
    <2>2. Decode(m) \in D
        OBVIOUS
    <2>3. /\ u \in Seq(D) /\ DOMAIN u = 1..(Len(q) + 1) /\ u[Len(q) + 1] = Decode(m)
          /\ \A k \in 1..Len(q) : u[k] = r[k]
        <3> HIDE DEF D, r
        <3> QED BY <1>3, <2>2, Appended
    <2>4. Len(u) = Len(q) + 1
        BY <1>1, <2>3
    <2>5. u = [k \in 1..(Len(q) + 1) |-> u[k]]
        <3> HIDE DEF D, u
        <3> QED BY <2>3, <2>4
    <2> HIDE DEF t, u, r, D
    <2>6. \A k \in 1..(Len(q) + 1) : u[k] = Decode(t[k])
        BY <1>1, <1>2, <2>1, <2>3
    <2>7. Decoded(t) = [k \in 1..(Len(q) + 1) |-> Decode(t[k])]
        BY <2>1 DEF Decoded
    <2>8. Decoded(t) = u
        BY <2>5, <2>6, <2>7
    <2>9. QED
        BY <2>8 DEF t, u
<1>6. ASSUME q # <<>> PROVE Decoded(<<Head(q)>>) = <<Head(r)>> /\ Decoded(Tail(q)) = Tail(r)
    <2>1. Len(q) >= 1 /\ Head(q) = q[1]
        BY <1>1, <1>6, EmptySeq
    <2>2. Head(r) = r[1]
        BY <1>3, <2>1
    <2>3. r[1] = Decode(q[1])
        BY <1>1, <1>2, <2>1
    <2>4. Decoded(<<Head(q)>>) = <<Decode(q[1])>>
        BY <2>1 DEF Decoded
    <2>5. /\ DOMAIN Tail(q) = 1..(Len(q) - 1) /\ \A k \in 1..(Len(q) - 1) : Tail(q)[k] = q[k + 1]
        BY <1>1, <2>1
    <2>6. Tail(r) = [k \in 1..(Len(q) - 1) |-> r[k + 1]]
        <3> HIDE DEF r, D
        <3>1. /\ Tail(r) \in Seq(D) /\ Len(Tail(r)) = Len(q) - 1
              /\ \A k \in 1..(Len(q) - 1) : Tail(r)[k] = r[k + 1]
            BY <1>1, <1>3, <2>1
        <3>2. PICK t \in Seq(D) : t = Tail(r)
            BY <3>1
        <3>3. t \in [1..(Len(q) - 1) -> D]
            BY <3>1, <3>2, LenProperties
        <3>4. t = [k \in 1..(Len(q) - 1) |-> t[k]]
            BY <3>3
        <3>5. QED
            BY <3>1, <3>2, <3>4
    <2>7. Decoded(Tail(q)) = [k \in 1..(Len(q) - 1) |-> Decode(q[k + 1])]
        BY <2>5 DEF Decoded
    <2>8. \A k \in 1..(Len(q) - 1) : r[k + 1] = Decode(q[k + 1])
        BY <1>1, <1>2
    <2>9. Decoded(Tail(q)) = Tail(r)
        BY <2>6, <2>7, <2>8
    <2>10. QED
        BY <2>2, <2>3, <2>4, <2>9
<1>7. QED
    BY <1>3, <1>4, <1>5, <1>6

-----------------------------------------------------------------------------
(* The steps as the audience sees them                                     *)

\* Only monitors were sent anything, and nothing waits for a client that has
\* gone.
Audience ==
    \A c \in Conns :
        /\ c \notin monitorConnections =>
              tx[c] = <<>> /\ shown[c] = <<>> /\ wsi[c].backlog = <<>>
        /\ Gone(c) => tx[c] = <<>>

\* The step does nothing that client d can notice.
Kept(d) ==
    /\ tx'[d] = tx[d] /\ shown'[d] = shown[d] /\ wsi'[d].backlog = wsi[d].backlog
    /\ Gone(d)' <=> Gone(d)

\* Only c notices anything.
Others(c) == \A d \in Conns : d # c => Kept(d)

SameShow == UNCHANGED <<currentState, monitorMessage, tty>>

Joins(c) ==
    /\ SameShow /\ c \notin monitorConnections
    /\ monitorConnections' = monitorConnections \cup {c}
    /\ Kept(c) /\ Others(c)

Ends(c) ==
    /\ SameShow /\ monitorConnections' = monitorConnections \ {c}
    /\ tx'[c] = <<>> /\ shown'[c] = <<>> /\ wsi'[c].backlog = <<>> /\ ~Gone(c)'
    /\ Others(c)

Loses(c) ==
    /\ SameShow /\ UNCHANGED monitorConnections
    /\ tx'[c] = <<>> /\ shown'[c] = shown[c] /\ wsi'[c].backlog = wsi[c].backlog /\ Gone(c)'
    /\ Others(c)

Writes(c) ==
    /\ SameShow /\ UNCHANGED monitorConnections
    /\ c \in monitorConnections
    /\ ~Gone(c) /\ ~Gone(c)' /\ wsi[c].backlog = <<>> /\ shown'[c] = shown[c]
    /\ \/ tx'[c] = Append(tx[c], monitorMessage) /\ wsi'[c].backlog = <<>>
       \/ tx'[c] = tx[c] /\ wsi'[c].backlog = <<monitorMessage>>
    /\ Others(c)

Flushes(c) ==
    /\ SameShow /\ UNCHANGED monitorConnections
    /\ wsi[c].backlog # <<>> /\ wsi'[c].backlog = <<>> /\ shown'[c] = shown[c]
    /\ Gone(c)' <=> Gone(c)
    /\ tx'[c] = IF Gone(c) THEN tx[c] ELSE tx[c] \o wsi[c].backlog
    /\ Others(c)

\* Nothing, or what a client notices.
Noticed ==
    \/ SameShow /\ UNCHANGED monitorConnections /\ \A d \in Conns : Kept(d)
    \/ \E c \in Conns : Joins(c) \/ Ends(c) \/ Loses(c) \/ Writes(c) \/ Flushes(c)

\* A connection whose state libwebsockets changes, but not its backlog.
LEMMA StateChange ==
    ASSUME TypeOK, NEW c \in Conns, NEW w, w.backlog = wsi[c].backlog,
           wsi' = [wsi EXCEPT ![c] = w], UNCHANGED <<tx, shown, peer>>
    PROVE  \A d \in Conns : Kept(d)
BY DEF TypeOK, Kept, Gone

\* The end of a connection.
LEMMA KillEnds ==
    ASSUME Bookkeeping, NEW c \in Conns, Kill(c), SameShow
    PROVE  Ends(c)
<1>1. TypeOK /\ MonitorsAreLive
    BY DEF Bookkeeping
<1>2. wsi[c].proto # "monitor" => c \notin monitorConnections
    BY <1>1 DEF MonitorsAreLive
<1>3. monitorConnections' = monitorConnections \ {c}
    BY <1>2 DEF Kill, deleteMonitor
<1>4. Others(c)
    BY <1>1 DEF TypeOK, Kill, Others, Kept, Gone
<1>5. /\ tx'[c] = <<>> /\ shown'[c] = <<>> /\ wsi'[c].backlog = <<>> /\ ~Gone(c)'
    BY <1>1 DEF TypeOK, Kill, NoWsi, Gone
<1>6. QED
    BY <1>3, <1>4, <1>5 DEF Ends

\* A round of the server without packets and updates.
LEMMA LoopNoticed ==
    ASSUME Bookkeeping, Poll \/ PollFails \/ RecvFails \/ NoUpdate
    PROVE  Noticed
<1>1. /\ SameShow /\ UNCHANGED <<wsi, tx, shown, peer, monitorConnections>>
    BY DEF Poll, PollFails, RecvFails, NoUpdate, lightVars, outVars, lwsVars, socketVars, SameShow
<1>2. \A d \in Conns : Kept(d)
    BY <1>1 DEF Kept, Gone
<1>3. QED
    BY <1>1, <1>2 DEF Noticed

\* A new connection.
LEMMA AcceptNoticed ==
    ASSUME Bookkeeping, Audience, Accept
    PROVE  Noticed
<1>1. TypeOK /\ MonitorsAreLive /\ BacklogNew
    BY DEF Bookkeeping
<1>2. listenq \in Seq(Conns) /\ listenq # <<>>
    BY <1>1 DEF TypeOK, Accept
<1>3. PICK c \in Conns : c = Head(listenq) /\ c = listenq[1] /\ 1 \in DOMAIN listenq
    BY <1>2, HeadTail
<1>4. c \notin monitorConnections
    BY <1>1, <1>3 DEF BacklogNew, MonitorsAreLive
<1>5. wsi[c].backlog = <<>>
    BY <1>4 DEF Audience
<1>6. PICK w : w.backlog = <<>> /\ wsi' = [wsi EXCEPT ![c] = w]
    BY <1>3 DEF Accept, NoWsi
<1>7. SameShow /\ UNCHANGED <<tx, shown, peer, monitorConnections>>
    BY DEF Accept, lightVars, outVars, socketVars, SameShow
<1>8. \A d \in Conns : Kept(d)
    BY <1>1, <1>5, <1>6, <1>7, StateChange
<1>9. QED
    BY <1>7, <1>8 DEF Noticed

\* An unsent rest goes to the client, or the connection ends.
LEMMA FlushNoticed ==
    ASSUME Bookkeeping, NEW c \in Conns, FlushBacklog(c)
    PROVE  Noticed
<1>1. TypeOK
    BY DEF Bookkeeping
<1>2. SameShow
    BY DEF FlushBacklog, lightVars, outVars, SameShow
<1>3. CASE Kill(c)
    BY <1>2, <1>3, KillEnds DEF Noticed
<1>4. CASE ~Kill(c)
    <2>1. /\ wsi[c].backlog # <<>> /\ wsi' = [wsi EXCEPT ![c].backlog = <<>>]
          /\ tx' = [tx EXCEPT ![c] = IF Gone(c) THEN tx[c] ELSE tx[c] \o wsi[c].backlog]
          /\ UNCHANGED <<monitorConnections, peer, shown>>
        BY <1>4 DEF FlushBacklog
    <2>2. wsi[c] \in Wsi /\ wsi \in [Conns -> Wsi] /\ tx \in [Conns -> Seq(Message)]
        BY <1>1 DEF TypeOK
    <2>3. wsi'[c].backlog = <<>> /\ \A d \in Conns : d # c => wsi'[d] = wsi[d]
        BY <2>1, <2>2 DEF Wsi
    <2>4. Others(c)
        BY <2>1, <2>2, <2>3 DEF Others, Kept, Gone
    <2>5. /\ tx'[c] = IF Gone(c) THEN tx[c] ELSE tx[c] \o wsi[c].backlog
          /\ Gone(c)' <=> Gone(c)
        BY <2>1, <2>2 DEF Gone
    <2>6. Flushes(c)
        BY <1>2, <2>1, <2>3, <2>4, <2>5 DEF Flushes
    <2>7. QED
        BY <2>6 DEF Noticed
<1>5. QED
    BY <1>3, <1>4

\* A pong, or the end of a close.
LEMMA PongNoticed ==
    ASSUME Bookkeeping, NEW c \in Conns, FinishClose(c) \/ SendPong(c)
    PROVE  Noticed
<1>1. TypeOK /\ SameShow
    BY DEF Bookkeeping, FinishClose, SendPong, lightVars, outVars, SameShow
<1>2. CASE Kill(c)
    BY <1>1, <1>2, KillEnds DEF Noticed
<1>3. CASE ~Kill(c)
    <2>1. /\ wsi' = [wsi EXCEPT ![c].pong = FALSE]
          /\ UNCHANGED <<monitorConnections, tx, shown, peer>>
        BY <1>3 DEF FinishClose, SendPong, socketVars
    <2>2. wsi[c] \in Wsi /\ wsi \in [Conns -> Wsi]
        BY <1>1 DEF TypeOK
    <2>3. PICK w : w = [wsi[c] EXCEPT !.pong = FALSE]
        OBVIOUS
    <2>4. w.backlog = wsi[c].backlog /\ wsi' = [wsi EXCEPT ![c] = w]
        BY <2>1, <2>2, <2>3 DEF Wsi
    <2>5. \A d \in Conns : Kept(d)
        BY <1>1, <2>1, <2>4, StateChange
    <2>6. QED
        BY <1>1, <2>1, <2>5 DEF Noticed
<1>4. QED
    BY <1>2, <1>3

\* The message is written to a monitor, whole or in part, or to one that has
\* gone.
LEMMA MonitorNoticed ==
    ASSUME Bookkeeping, NEW c \in Conns, MonitorWriteable(c)
    PROVE  Noticed
<1>1. TypeOK /\ MonitorsAreLive
    BY DEF Bookkeeping
<1>2. /\ SameShow /\ UNCHANGED <<monitorConnections, peer, shown>>
      /\ wsi[c].backlog = <<>> /\ wsi[c].state = "established" /\ wsi[c].proto = "monitor"
    BY DEF MonitorWriteable, UserWriteable, lightVars, outVars, SameShow
<1>3. c \in monitorConnections
    BY <1>1, <1>2 DEF MonitorsAreLive, Live
<1>4. wsi[c] \in Wsi /\ wsi \in [Conns -> Wsi] /\ tx \in [Conns -> Seq(Message)]
    BY <1>1 DEF TypeOK
<1>5. /\ \A d \in Conns : d # c => wsi'[d] = wsi[d] /\ tx'[d] = tx[d]
      /\ IF Gone(c) THEN tx'[c] = tx[c] /\ wsi'[c].backlog = <<>>
         ELSE \/ tx'[c] = Append(tx[c], monitorMessage) /\ wsi'[c].backlog = <<>>
              \/ tx'[c] = tx[c] /\ wsi'[c].backlog = <<monitorMessage>>
    <2> DEFINE sent == [wsi[c] EXCEPT !.events = @ \ {POLLOUT}]
               rest == [sent EXCEPT !.backlog = <<monitorMessage>>,
                                    !.events = @ \cup {POLLOUT}]
    <2>1. sent.backlog = <<>> /\ rest.backlog = <<monitorMessage>>
        BY <1>2, <1>4 DEF Wsi
    <2>2. \/ /\ wsi' = [wsi EXCEPT ![c] = sent]
             /\ tx' = [tx EXCEPT ![c] = IF Gone(c) THEN @ ELSE Append(@, monitorMessage)]
          \/ /\ ~Gone(c) /\ wsi' = [wsi EXCEPT ![c] = rest] /\ UNCHANGED tx
        BY DEF MonitorWriteable, SetEvents
    <2> HIDE DEF sent, rest
    <2>3. QED
        BY <1>4, <2>1, <2>2
<1>6. Others(c) /\ (Gone(c)' <=> Gone(c))
    BY <1>2, <1>5 DEF Others, Kept, Gone
<1>7. CASE Gone(c)
    <2>1. Kept(c)
        BY <1>2, <1>5, <1>6, <1>7 DEF Kept
    <2>2. QED
        BY <1>2, <1>6, <2>1 DEF Others, Noticed
<1>8. CASE ~Gone(c)
    <2>1. Writes(c)
        BY <1>2, <1>3, <1>5, <1>6, <1>8 DEF Writes
    <2>2. QED
        BY <2>1 DEF Noticed
<1>9. QED
    BY <1>7, <1>8

\* The callbacks that write nothing, and reading.
LEMMA QuietNoticed ==
    ASSUME Bookkeeping, NEW c \in Conns,
           LightWriteable(c) \/ DummyWriteable(c) \/ NothingToRead(c) \/ Read(c)
    PROVE  Noticed
<1>1. TypeOK /\ SameShow /\ UNCHANGED <<monitorConnections, tx, shown, peer>>
    BY DEF Bookkeeping, LightWriteable, DummyWriteable, NothingToRead, Read, lightVars, outVars,
           lwsVars, socketVars, SameShow
<1>2. CASE UNCHANGED wsi
    <2>1. \A d \in Conns : Kept(d)
        BY <1>1, <1>2 DEF Kept, Gone
    <2>2. QED
        BY <1>1, <2>1 DEF Noticed
<1>3. CASE DummyWriteable(c)
    <2>1. wsi[c] \in Wsi
        BY <1>1 DEF TypeOK
    <2>2. PICK w : w = [wsi[c] EXCEPT !.events = @ \ {POLLOUT}]
        OBVIOUS
    <2>3. w.backlog = wsi[c].backlog /\ wsi' = [wsi EXCEPT ![c] = w]
        BY <1>3, <2>1, <2>2 DEF DummyWriteable, SetEvents, Wsi
    <2>4. \A d \in Conns : Kept(d)
        BY <1>1, <2>3, StateChange
    <2>5. QED
        BY <1>1, <2>4 DEF Noticed
<1>4. QED
    BY <1>2, <1>3 DEF LightWriteable, NothingToRead, Read, lwsVars

\* A failed read or a close frame: the connection ends, or it stays for what
\* is still to be sent.
LEMMA CloseNoticed ==
    ASSUME Bookkeeping, NEW c \in Conns,
           ReadFails(c) \/ RejectUpgrade(c) \/ ReceiveClose(c)
    PROVE  Noticed
<1>1. TypeOK /\ SameShow
    BY DEF Bookkeeping, ReadFails, RejectUpgrade, ReceiveClose, lightVars, outVars, SameShow
<1>2. CASE Kill(c)
    BY <1>1, <1>2, KillEnds DEF Noticed
<1>3. CASE ~Kill(c)
    <2>1. /\ UNCHANGED <<monitorConnections, tx, shown, peer>>
          /\ \E s \in {"flushing", "returned_close"} :
                 wsi' = [wsi EXCEPT ![c] = [wsi[c] EXCEPT !.state = s,
                                                          !.events = @ \cup {POLLOUT}]]
        BY <1>3 DEF ReadFails, RejectUpgrade, ReceiveClose, Close, SetEvents, socketVars
    <2>2. PICK s \in {"flushing", "returned_close"} :
                 wsi' = [wsi EXCEPT ![c] = [wsi[c] EXCEPT !.state = s,
                                                          !.events = @ \cup {POLLOUT}]]
        BY <2>1
    <2>3. PICK w : w = [wsi[c] EXCEPT !.state = s, !.events = @ \cup {POLLOUT}]
        OBVIOUS
    <2>4. wsi[c] \in Wsi
        BY <1>1 DEF TypeOK
    <2>5. w.backlog = wsi[c].backlog /\ wsi' = [wsi EXCEPT ![c] = w]
        BY <2>2, <2>3, <2>4 DEF Wsi
    <2>6. \A d \in Conns : Kept(d)
        BY <1>1, <2>1, <2>5, StateChange
    <2>7. QED
        BY <1>1, <2>1, <2>6 DEF Noticed
<1>4. QED
    BY <1>2, <1>3

\* A request that is accepted: a monitor joins.
LEMMA RequestNoticed ==
    ASSUME Bookkeeping, NEW c \in Conns, Upgrade(c) \/ PlainRequest(c)
    PROVE  Noticed
<1>1. /\ TypeOK /\ MonitorsAreLive /\ SameShow /\ UNCHANGED <<tx, shown, peer>>
    BY DEF Bookkeeping, Upgrade, PlainRequest, lightVars, outVars, socketVars, SameShow
<1>2. wsi[c] \in Wsi /\ wsi \in [Conns -> Wsi]
    BY <1>1 DEF TypeOK
<1>3. \A d \in Conns : Kept(d)
    <2>1. CASE Upgrade(c)
        <3>1. PICK w : w = [wsi[c] EXCEPT !.state = "established", !.proto = Head(inbuf).proto,
                                !.events = EstablishedEvents(Head(inbuf).proto, @)]
            OBVIOUS
        <3>2. w.backlog = wsi[c].backlog /\ wsi' = [wsi EXCEPT ![c] = w]
            BY <1>2, <2>1, <3>1 DEF Upgrade, SetEvents, Wsi
        <3>3. QED
            BY <1>1, <3>2, StateChange
    <2>2. CASE PlainRequest(c)
        <3>1. PICK w : w = [wsi[c] EXCEPT !.state = "transaction"]
            OBVIOUS
        <3>2. w.backlog = wsi[c].backlog /\ wsi' = [wsi EXCEPT ![c] = w]
            BY <1>2, <2>2, <3>1 DEF PlainRequest, Wsi
        <3>3. QED
            BY <1>1, <3>2, StateChange
    <2>3. QED
        BY <2>1, <2>2
<1>4. CASE UNCHANGED monitorConnections
    BY <1>1, <1>3, <1>4 DEF Noticed
<1>5. CASE ~UNCHANGED monitorConnections
    <2>1. monitorConnections' = monitorConnections \cup {c}
        BY <1>5 DEF Upgrade, PlainRequest, addMonitor
    <2>2. c \notin monitorConnections
        BY <1>5, <2>1
    <2>3. Joins(c)
        BY <1>1, <1>3, <2>1, <2>2 DEF Joins, Others
    <2>4. QED
        BY <2>3 DEF Noticed
<1>6. QED
    BY <1>4, <1>5

\* A ping.
LEMMA PingNoticed ==
    ASSUME Bookkeeping, NEW c \in Conns, ReceivePing(c)
    PROVE  Noticed
<1>1. TypeOK /\ SameShow /\ UNCHANGED <<monitorConnections, tx, shown, peer>>
    BY DEF Bookkeeping, ReceivePing, lightVars, outVars, socketVars, SameShow
<1>2. PICK w : w = [wsi[c] EXCEPT !.pong = TRUE, !.events = @ \cup {POLLOUT}]
    OBVIOUS
<1>3. wsi[c] \in Wsi
    BY <1>1 DEF TypeOK
<1>4. UNCHANGED wsi \/ (w.backlog = wsi[c].backlog /\ wsi' = [wsi EXCEPT ![c] = w])
    BY <1>2, <1>3 DEF ReceivePing, SetEvents, Wsi
<1>5. \A d \in Conns : Kept(d)
    <2>1. CASE UNCHANGED wsi
        BY <1>1, <2>1 DEF Kept, Gone
    <2>2. CASE w.backlog = wsi[c].backlog /\ wsi' = [wsi EXCEPT ![c] = w]
        BY <1>1, <2>2, StateChange
    <2>3. QED
        BY <1>4, <2>1, <2>2
<1>6. QED
    BY <1>1, <1>5 DEF Noticed

\* A client that sends something, or that leaves.
LEMMA ClientNoticed ==
    ASSUME Bookkeeping, NEW c \in Conns, Client(c), ~ClientReads(c)
    PROVE  Noticed
<1>1. TypeOK /\ UNCHANGED <<wsi, shown>> /\ SameShow /\ UNCHANGED monitorConnections
    BY DEF Bookkeeping, Client, Connect, SendRequest, SendData, SendPing, SendClose, Disconnect,
           ClientSends, Vanish, GiveUp, serverVars, lwsVars, lightVars, outVars, SameShow
<1>2. CASE Disconnect(c) \/ GiveUp(c)
    <2>1. /\ tx' = [tx EXCEPT ![c] = <<>>]
          /\ \E p \in {"fin", "rst"} : peer' = [peer EXCEPT ![c] = p]
        BY <1>2 DEF Disconnect, GiveUp
    <2>2. tx'[c] = <<>> /\ Gone(c)' /\ Others(c)
        BY <1>1, <2>1 DEF TypeOK, Gone, Others, Kept
    <2>3. Loses(c)
        BY <1>1, <2>2 DEF Loses
    <2>4. QED
        BY <2>3 DEF Noticed
<1>3. CASE ~(Disconnect(c) \/ GiveUp(c))
    <2>1. /\ UNCHANGED tx
          /\ \/ UNCHANGED peer
             \/ /\ peer[c] \in {"idle", "connected", "requested"}
                /\ \E p \in {"connected", "requested", "lost"} : peer' = [peer EXCEPT ![c] = p]
        BY <1>3 DEF Client, Connect, SendRequest, SendData, SendPing, SendClose, ClientSends,
                    Vanish
    <2>2. \A d \in Conns : Gone(d)' <=> Gone(d)
        BY <1>1, <2>1 DEF TypeOK, Gone
    <2>3. \A d \in Conns : Kept(d)
        BY <1>1, <2>1, <2>2 DEF Kept
    <2>4. QED
        BY <1>1, <2>3 DEF Noticed
<1>4. QED
    BY <1>2, <1>3

\* A packet changes the lights and nothing that a client notices.
PacketStep ==
    /\ \E p \in Packets : lightPacket(p)
    /\ UNCHANGED <<monitorMessage, tty, monitorConnections>>
    /\ \A d \in Conns : Kept(d)

UpdateStep == Update /\ \A d \in Conns : Kept(d)

\* Every step, as the audience sees it.
LEMMA ShowSteps ==
    ASSUME Bookkeeping, Audience, [Next]_vars
    PROVE  Noticed \/ PacketStep \/ UpdateStep \/ \E c \in Conns : ClientReads(c)
<1>1. CASE Poll \/ PollFails \/ RecvFails \/ NoUpdate
    BY <1>1, LoopNoticed
<1>2. CASE Accept
    BY <1>2, AcceptNoticed
<1>3. CASE ScanPollfds \/ \E c \in Conns : Receive(c)
    <2>1. /\ UNCHANGED <<monitorMessage, tty, monitorConnections, wsi, tx, shown, peer>>
        BY <1>3 DEF ScanPollfds, Receive, outVars, lwsVars, socketVars
    <2>2. \A d \in Conns : Kept(d)
        BY <2>1 DEF Kept, Gone
    <2>3. UNCHANGED lightVars \/ \E p \in Packets : lightPacket(p)
        <3>1. \/ UNCHANGED <<lightVars, outVars>>
              \/ \E p \in Packets : lightPacket(p)
              \/ Update
            BY LightSteps
        <3>2. pc' # "poll"
            <4>1. CASE ScanPollfds
                BY <4>1 DEF ScanPollfds
            <4>2. ASSUME NEW c \in Conns, Receive(c) PROVE pc' # "poll"
                BY <4>2, FrameDoneIs DEF Receive
            <4>3. QED
                BY <1>3, <4>1, <4>2
        <3>3. ~Update
            BY <3>2 DEF Update
        <3>4. QED
            BY <3>1, <3>3
    <2>4. CASE UNCHANGED lightVars
        BY <2>1, <2>2, <2>4 DEF Noticed, SameShow, lightVars
    <2>5. CASE \E p \in Packets : lightPacket(p)
        BY <2>1, <2>2, <2>5 DEF PacketStep
    <2>6. QED
        BY <2>3, <2>4, <2>5
<1>4. CASE Update
    <2>1. TypeOK /\ UNCHANGED <<tx, shown, peer>>
        BY <1>4 DEF Bookkeeping, Update, socketVars
    <2>2. \A d \in Conns : wsi[d] \in Wsi
        BY <2>1 DEF TypeOK
    <2>3. \A d \in Conns : wsi'[d].backlog = wsi[d].backlog
        BY <1>4, <2>2 DEF Update, RequestWriteable, Wsi
    <2>4. \A d \in Conns : Kept(d)
        BY <2>1, <2>3 DEF Kept, Gone
    <2>5. QED
        BY <1>4, <2>4 DEF UpdateStep
<1>5. ASSUME NEW c \in Conns, ServiceConn(c), ~Receive(c) PROVE Noticed
    BY <1>5, FlushNoticed, PongNoticed, MonitorNoticed, QuietNoticed, CloseNoticed,
       RequestNoticed, PingNoticed DEF ServiceConn
<1>6. ASSUME NEW p \in Packets, SendUDP(p) PROVE Noticed
    <2>1. SameShow /\ UNCHANGED <<monitorConnections, wsi, tx, shown, peer>>
        BY <1>6 DEF SendUDP, serverVars, lwsVars, lightVars, outVars, socketVars, SameShow
    <2>2. \A d \in Conns : Kept(d)
        BY <2>1 DEF Kept, Gone
    <2>3. QED
        BY <2>1, <2>2 DEF Noticed
<1>7. ASSUME NEW c \in Conns, Client(c), ~ClientReads(c) PROVE Noticed
    BY <1>7, ClientNoticed
<1>8. CASE UNCHANGED vars
    <2>1. SameShow /\ UNCHANGED <<monitorConnections, wsi, tx, shown, peer>>
        BY <1>8 DEF vars, lwsVars, lightVars, outVars, socketVars, SameShow
    <2>2. \A d \in Conns : Kept(d)
        BY <2>1 DEF Kept, Gone
    <2>3. QED
        BY <2>1, <2>2 DEF Noticed
<1>9. QED
    BY <1>1, <1>2, <1>3, <1>4, <1>5, <1>6, <1>7, <1>8 DEF Next, Run

-----------------------------------------------------------------------------
(* Only monitors are sent anything                                         *)

\* The messages before the first connection.
LEMMA AudienceInit == Init => Audience
BY DEF Init, Audience, Gone, NoWsi

\* Every step keeps to the audience.
LEMMA AudienceNext ==
    ASSUME Bookkeeping, Audience, [Next]_vars
    PROVE  Audience'
<1>1. TypeOK
    BY DEF Bookkeeping
<1> DEFINE A(d) == /\ d \notin monitorConnections =>
                        tx[d] = <<>> /\ shown[d] = <<>> /\ wsi[d].backlog = <<>>
                   /\ Gone(d) => tx[d] = <<>>
<1>2. \A d \in Conns : A(d)
    BY DEF Audience
<1>3. ASSUME NEW d \in Conns, Kept(d), d \notin monitorConnections' => d \notin monitorConnections
      PROVE  A(d)'
    BY <1>2, <1>3 DEF Kept
<1>4. SUFFICES ASSUME NEW d \in Conns PROVE A(d)'
    BY DEF Audience
<1> HIDE DEF Gone
<1>5. CASE Noticed
    <2>1. CASE UNCHANGED monitorConnections /\ Kept(d)
        BY <1>3, <2>1
    <2>2. ASSUME NEW c \in Conns, Joins(c) PROVE A(d)'
        BY <1>3, <2>2 DEF Joins, Others
    <2>3. ASSUME NEW c \in Conns, Ends(c) PROVE A(d)'
        <3>1. CASE d = c
            BY <2>3, <3>1 DEF Ends
        <3>2. CASE d # c
            BY <1>3, <2>3, <3>2 DEF Ends, Others
        <3>3. QED
            BY <3>1, <3>2
    <2>4. ASSUME NEW c \in Conns, Loses(c) PROVE A(d)'
        <3>1. CASE d = c
            BY <1>2, <2>4, <3>1 DEF Loses
        <3>2. CASE d # c
            BY <1>3, <2>4, <3>2 DEF Loses, Others
        <3>3. QED
            BY <3>1, <3>2
    <2>5. ASSUME NEW c \in Conns, Writes(c) PROVE A(d)'
        <3>1. CASE d = c
            BY <1>2, <2>5, <3>1 DEF Writes
        <3>2. CASE d # c
            BY <1>3, <2>5, <3>2 DEF Writes, Others
        <3>3. QED
            BY <3>1, <3>2
    <2>6. ASSUME NEW c \in Conns, Flushes(c) PROVE A(d)'
        <3>1. CASE d = c
            BY <1>2, <2>6, <3>1 DEF Flushes
        <3>2. CASE d # c
            BY <1>3, <2>6, <3>2 DEF Flushes, Others
        <3>3. QED
            BY <3>1, <3>2
    <2>7. QED
        BY <1>5, <2>1, <2>2, <2>3, <2>4, <2>5, <2>6 DEF Noticed
<1>6. CASE PacketStep \/ UpdateStep
    BY <1>3, <1>6 DEF PacketStep, UpdateStep, Update
<1>7. ASSUME NEW c \in Conns, ClientReads(c) PROVE A(d)'
    <2>1. /\ tx[c] # <<>>
          /\ tx' = [tx EXCEPT ![c] = Tail(tx[c])] /\ shown' = [shown EXCEPT ![c] = <<Head(tx[c])>>]
          /\ UNCHANGED <<wsi, peer, monitorConnections>>
        BY <1>7 DEF ClientReads, serverVars, lwsVars
    <2>2. Gone(d)' <=> Gone(d)
        BY <2>1 DEF Gone
    <2>3. c \in monitorConnections /\ ~Gone(c)
        BY <1>2, <2>1
    <2>4. d # c => tx'[d] = tx[d] /\ shown'[d] = shown[d]
        BY <1>1, <2>1 DEF TypeOK
    <2>5. CASE d = c
        BY <2>1, <2>2, <2>3, <2>5
    <2>6. CASE d # c
        BY <1>3, <2>1, <2>2, <2>4, <2>6 DEF Kept
    <2>7. QED
        BY <2>5, <2>6
<1>8. QED
    BY <1>5, <1>6, <1>7, ShowSteps

-----------------------------------------------------------------------------
(* The steps of the show                                                   *)

\* A client that notices nothing is to be shown what it was to be shown.
LEMMA KeptFeed ==
    ASSUME NEW d \in Conns, Kept(d)
    PROVE  Pending(d)' = Pending(d) /\ Decoded(shown[d])' = Decoded(shown[d])
BY DEF Kept, Pending

\* A light with colour c in the packet emits it.
LEMMA LightEmits ==
    ASSUME NEW packet, NEW i \in LightIds, NEW c \in Color,
           \/ Shows(packet, i, c)
           \/ c = Black /\ \A o \in Channels(i) : packet[o] = 0
    PROVE  Emitted(packet, i) = LS!Emission(i, c)
<1> DEFINE a == LightsConfig[i].address
<1>1. a \in Nat
    BY LightsConfigType
<1>2. LS!Emission(i, c) = IF LightsConfig[i].type = "rgb" THEN c ELSE Intensity(c)
    BY DEF LS!Emission, LS!LightsConfig, LightsConfig, LS!LightIds, LightIds, LS!Intensity, Intensity
<1>3. FirstChannel(i) = a + 4
    BY DEF FirstChannel
<1>4. CASE LightsConfig[i].type = "rgb"
    <2>1. Channels(i) = (a + 4)..(a + 8)
        BY <1>1, <1>3, <1>4 DEF Channels, NumBytes
    <2>2. a + 4 \in Channels(i) /\ a + 5 \in Channels(i) /\ a + 6 \in Channels(i)
        BY <1>1, <2>1
    <2>3. CASE Shows(packet, i, c)
        <3> DEFINE bytes == <<c.red, c.green, c.blue, 255, 0>>
        <3>1. /\ packet[a + 4] = bytes[(a + 4) - (a + 4) + 1]
              /\ packet[a + 5] = bytes[(a + 5) - (a + 4) + 1]
              /\ packet[a + 6] = bytes[(a + 6) - (a + 4) + 1]
            BY <1>3, <1>4, <2>2, <2>3 DEF Shows, ChannelByte, ChannelBytes
        <3>2. /\ (a + 4) - (a + 4) + 1 = 1 /\ (a + 5) - (a + 4) + 1 = 2
              /\ (a + 6) - (a + 4) + 1 = 3
            BY <1>1
        <3>3. packet[a + 4] = c.red /\ packet[a + 5] = c.green /\ packet[a + 6] = c.blue
            BY <3>1, <3>2
        <3>4. (a + 1) + 4 = a + 5 /\ (a + 2) + 4 = a + 6
            BY <1>1
        <3>5. QED
            BY <1>2, <1>4, <3>3, <3>4 DEF Emitted, Slot, Color
    <2>4. CASE c = Black /\ \A o \in Channels(i) : packet[o] = 0
        <3>1. packet[a + 4] = 0 /\ packet[a + 5] = 0 /\ packet[a + 6] = 0
            BY <2>2, <2>4
        <3>2. (a + 1) + 4 = a + 5 /\ (a + 2) + 4 = a + 6
            BY <1>1
        <3>3. QED
            BY <1>2, <1>4, <2>4, <3>1, <3>2 DEF Emitted, Slot, Black
    <2>5. QED
        BY <2>3, <2>4
<1>5. CASE LightsConfig[i].type # "rgb"
    <2>1. Channels(i) = (a + 4)..(a + 5)
        BY <1>1, <1>3, <1>5 DEF Channels, NumBytes
    <2>2. a + 4 \in Channels(i)
        BY <1>1, <2>1
    <2>3. CASE Shows(packet, i, c)
        <3>1. packet[a + 4] = <<Intensity(c), 0>>[(a + 4) - (a + 4) + 1]
            BY <1>3, <1>5, <2>2, <2>3 DEF Shows, ChannelByte, ChannelBytes
        <3>2. (a + 4) - (a + 4) + 1 = 1
            BY <1>1
        <3>3. packet[a + 4] = Intensity(c)
            BY <3>1, <3>2
        <3>4. QED
            BY <1>2, <1>5, <3>3 DEF Emitted, Slot
    <2>4. CASE c = Black /\ \A o \in Channels(i) : packet[o] = 0
        <3>1. Intensity(Black) = 0
            BY DEF Intensity, Black
        <3>2. QED
            BY <1>2, <1>5, <2>2, <2>4, <3>1 DEF Emitted, Slot
    <2>5. QED
        BY <2>3, <2>4
<1>6. QED
    BY <1>4, <1>5

\* The DMX packet puts the state of the lights on stage.
LEMMA StageShowsState ==
    ASSUME TypeOK, LightsMatchDMX, NoOverlap
    PROVE  OnStage(<<dmxPacket>>)
               = <<[i \in LightIds |-> LS!Emission(i, currentState.lights[i])]>>
<1>1. \A i \in LightIds : currentState.lights[i] \in Color
    BY DEF TypeOK, LightState
<1>2. \A i \in LightIds : Emitted(dmxPacket, i) = LS!Emission(i, currentState.lights[i])
    BY <1>1, LightEmits DEF LightsMatchDMX
<1>3. OnStage(<<dmxPacket>>) = <<[i \in LightIds |-> Emitted(dmxPacket, i)]>>
    BY DEF OnStage
<1>4. QED
    BY <1>2, <1>3

\* The colours that a packet asks for.
LEMMA AskedColors ==
    ASSUME NEW p \in Packets, NEW i \in LightIds
    PROVE  LS!Asked(Understood[p].lights, i)
               = LastColor(Understood[p].lights, i, currentState.lights[i])
<1> DEFINE ls == Understood[p].lights
           old == currentState.lights[i]
           For == {k \in DOMAIN ls : ls[k].index = i}
<1>1. ls \in Seq(LightColor)
    BY UnderstoodType
<1>2. LS!Asked(ls, i) = IF For = {} THEN old
                        ELSE ls[CHOOSE k \in For : \A m \in For : k >= m].color
    BY DEF LS!Asked
<1>3. CASE For = {}
    BY <1>1, <1>2, <1>3, LastColorIs
<1>4. CASE For # {}
    <2>1. PICK k \in For : /\ \A m \in For : k >= m
                           /\ LastColor(ls, i, old) = ls[k].color
        BY <1>1, <1>4, LastColorIs
    <2>2. For \subseteq Nat
        BY <1>1
    <2>3. ASSUME NEW h \in For, \A m \in For : h >= m PROVE h = k
        <3> HIDE DEF For
        <3>1. h >= k /\ k >= h /\ h \in Nat /\ k \in Nat
            BY <2>1, <2>2, <2>3
        <3>2. QED
            BY <3>1
    <2>4. (CHOOSE h \in For : \A m \in For : h >= m) = k
        <3> HIDE DEF For
        <3> QED BY <2>1, <2>3
    <2>5. QED
        BY <1>2, <1>4, <2>1, <2>4
<1>5. QED
    BY <1>3, <1>4

\* An empty queue is an empty feed.
LEMMA NothingRead == Decoded(<<>>) = <<>>
BY DEF Decoded

\* The constructor starts the show.
LEMMA ShowInit ==
    ASSUME Init
    PROVE  LS!Init
<1>1. currentState \in LightState
    BY BookkeepingInit DEF Bookkeeping, TypeOK
<1>2. Decode(monitorMessage) = currentState
    BY <1>1, MessageRead DEF Init
<1>3. OnStage(tty) = <<>>
    BY DEF Init, OnStage
<1>4. ASSUME NEW c \in Conns PROVE Pending(c) = <<>> /\ Decoded(shown[c]) = <<>>
    <2>1. tx[c] = <<>> /\ wsi[c].backlog = <<>> /\ shown[c] = <<>>
        BY DEF Init, NoWsi
    <2>2. <<>> \o <<>> = <<>>
        OBVIOUS
    <2>3. QED
        BY <2>1, <2>2, NothingRead DEF Pending
<1>5. LS!LightIds = LightIds /\ LS!Black = Black
    BY DEF LS!LightIds, LightIds, LS!Black, Black
<1>6. QED
    BY <1>2, <1>3, <1>4, <1>5 DEF Init, LS!Init

\* Nothing is noticed: the show stands still.
LEMMA ShowStill ==
    ASSUME SameShow, UNCHANGED monitorConnections, \A d \in Conns : Kept(d)
    PROVE  UNCHANGED LS!vars
<1>1. \A d \in Conns : /\ Pending(d)' = Pending(d)
                        /\ Decoded(shown[d])' = Decoded(shown[d])
    BY KeptFeed
<1>2. UNCHANGED <<currentState, Decode(monitorMessage), OnStage(tty)>>
    BY DEF SameShow
<1>3. QED
    BY <1>1, <1>2 DEF LS!vars

\* A monitor joins, ends, stops to look or is sent the message; a rest that is
\* sent changes nothing.
LEMMA ShowNoticed ==
    ASSUME Bookkeeping, Bookkeeping', Audience, Noticed
    PROVE  LS!Next \/ UNCHANGED LS!vars
<1>1. /\ TypeOK /\ TypeOK'
    BY DEF Bookkeeping
<1>2. CASE SameShow /\ UNCHANGED monitorConnections /\ \A d \in Conns : Kept(d)
    BY <1>2, ShowStill
<1> DEFINE Feed == [d \in Conns |-> Pending(d)]
           View == [d \in Conns |-> Decoded(shown[d])]
<1>3. ASSUME NEW c \in Conns, Others(c)
      PROVE  /\ Feed' = [Feed EXCEPT ![c] = Pending(c)']
             /\ View' = [View EXCEPT ![c] = Decoded(shown[c])']
    BY <1>3, KeptFeed DEF Others
<1>4. SameShow => UNCHANGED <<currentState, Decode(monitorMessage), OnStage(tty)>>
    BY DEF SameShow
<1>5. ASSUME NEW c \in Conns, Joins(c) PROVE LS!Join(c)
    <2>1. UNCHANGED <<Feed, View>>
        BY <1>5, KeptFeed DEF Joins, Others
    <2>2. QED
        BY <1>4, <1>5, <2>1 DEF Joins, LS!Join
<1>6. ASSUME NEW c \in Conns, Ends(c) PROVE LS!Leave(c) \/ UNCHANGED LS!vars
    <2>1. <<>> \o <<>> = <<>>
        OBVIOUS
    <2>2. Pending(c)' = <<>> /\ Decoded(shown[c])' = <<>>
        BY <1>6, <2>1, NothingRead DEF Ends, Pending
    <2>3. CASE c \in monitorConnections
        BY <1>3, <1>4, <1>6, <2>2, <2>3 DEF Ends, LS!Leave
    <2>4. CASE c \notin monitorConnections
        <3>1. tx[c] = <<>> /\ shown[c] = <<>> /\ wsi[c].backlog = <<>>
            BY <2>4 DEF Audience
        <3>2. Pending(c) = <<>> /\ Decoded(shown[c]) = <<>>
            BY <2>1, <3>1, NothingRead DEF Pending
        <3>3. Feed' = Feed /\ View' = View
            BY <1>3, <1>6, <2>2, <3>2 DEF Ends
        <3>4. monitorConnections' = monitorConnections
            BY <1>6, <2>4 DEF Ends
        <3>5. QED
            BY <1>4, <1>6, <3>3, <3>4 DEF Ends, LS!vars
    <2>5. QED
        BY <2>3, <2>4
<1>7. ASSUME NEW c \in Conns, Loses(c) PROVE LS!Lose(c) \/ UNCHANGED LS!vars
    <2>1. Pending(c)' = <<>> /\ Decoded(shown[c])' = Decoded(shown[c])
        BY <1>7 DEF Loses, Pending
    <2>2. View' = View
        BY <1>3, <1>7, <2>1 DEF Loses
    <2>3. CASE c \in monitorConnections
        BY <1>3, <1>4, <1>7, <2>1, <2>2, <2>3 DEF Loses, LS!Lose
    <2>4. CASE c \notin monitorConnections
        <3>1. tx[c] = <<>> /\ wsi[c].backlog = <<>> /\ <<>> \o <<>> = <<>>
            BY <2>4 DEF Audience
        <3>2. Pending(c) = <<>>
            BY <3>1, NothingRead DEF Pending
        <3>3. Feed' = Feed
            BY <1>3, <1>7, <2>1, <3>2 DEF Loses
        <3>4. QED
            BY <1>4, <1>7, <2>2, <3>3 DEF Loses, LS!vars
    <2>5. QED
        BY <2>3, <2>4
<1>8. ASSUME NEW c \in Conns, Writes(c) PROVE LS!Post(c)
    <2>1. tx[c] \in Seq(Message) /\ monitorMessage \in Message
        BY <1>1 DEF TypeOK
    <2>2. Pending(c) = Decoded(tx[c])
        <3>1. tx[c] \o <<>> = tx[c]
            BY <2>1
        <3>2. QED
            BY <1>8, <3>1 DEF Writes, Pending
    <2>3. Pending(c)' = Decoded(Append(tx[c], monitorMessage))
        <3>1. /\ Append(tx[c], monitorMessage) \o <<>> = Append(tx[c], monitorMessage)
              /\ tx[c] \o <<monitorMessage>> = Append(tx[c], monitorMessage)
            BY <2>1
        <3>2. QED
            BY <1>8, <3>1 DEF Writes, Pending
    <2>4. Pending(c)' = Append(Pending(c), Decode(monitorMessage))
        BY <2>1, <2>2, <2>3, QueueRead
    <2>5. View' = View
        BY <1>3, <1>8 DEF Writes
    <2>6. QED
        BY <1>3, <1>4, <1>8, <2>4, <2>5 DEF Writes, LS!Post
<1>9. ASSUME NEW c \in Conns, Flushes(c) PROVE UNCHANGED LS!vars
    <2>1. tx[c] \in Seq(Message) /\ wsi[c].backlog \in Seq(Message)
        <3>1. wsi[c] \in Wsi
            BY <1>1 DEF TypeOK
        <3>2. QED
            BY <1>1, <3>1 DEF TypeOK, Wsi
    <2>2. (tx[c] \o wsi[c].backlog) \o <<>> = tx[c] \o wsi[c].backlog
        BY <2>1
    <2>3. Pending(c)' = Pending(c)
        BY <1>9, <2>2 DEF Flushes, Pending
    <2>4. Feed' = Feed /\ View' = View
        BY <1>3, <1>9, <2>3 DEF Flushes
    <2>5. QED
        BY <1>4, <1>9, <2>4 DEF Flushes, LS!vars
<1>10. QED
    BY <1>2, <1>5, <1>6, <1>7, <1>8, <1>9 DEF Noticed, LS!Next

\* A packet asks for a state.
LEMMA ShowPacket ==
    ASSUME Bookkeeping, PacketStep
    PROVE  LS!Next
<1>1. PICK p \in Packets : lightPacket(p)
    BY DEF PacketStep
<1>2. \A d \in Conns : /\ Pending(d)' = Pending(d)
                        /\ Decoded(shown[d])' = Decoded(shown[d])
    BY KeptFeed DEF PacketStep
<1>3. UNCHANGED <<Decode(monitorMessage), OnStage(tty), monitorConnections>>
    BY DEF PacketStep
<1>4. DOMAIN currentState.lights = LightIds
    BY DEF Bookkeeping, TypeOK, LightState
<1>5. currentState' = [tag |-> Understood[p].tag,
                       lights |-> [i \in LightIds |-> LS!Asked(Understood[p].lights, i)]]
    <2>1. currentState' =
             [tag |-> Understood[p].tag,
              lights |-> [i \in LightIds |->
                             LastColor(Understood[p].lights, i, currentState.lights[i])]]
        BY <1>1, <1>4 DEF lightPacket
    <2>2. QED
        BY <2>1, AskedColors
<1>6. LS!LightIds = LightIds
    BY DEF LS!LightIds, LightIds
<1>7. LS!Ask(Understood[p])
    BY <1>2, <1>3, <1>5, <1>6 DEF LS!Ask
<1>8. QED
    BY <1>7 DEF LS!Next

\* The update publishes the state.
LEMMA ShowUpdate ==
    ASSUME NoOverlap, Bookkeeping, LightsMatchDMX, UpdateStep
    PROVE  LS!Publish
<1>1. /\ monitorMessage' = Render(currentState) /\ UNCHANGED <<currentState, monitorConnections>>
      /\ tty' = <<dmxPacket>> \/ ("tty" \in Faults /\ UNCHANGED tty)
    BY DEF UpdateStep, Update
<1>2. \A d \in Conns : /\ Pending(d)' = Pending(d)
                        /\ Decoded(shown[d])' = Decoded(shown[d])
    BY KeptFeed DEF UpdateStep
<1>3. TypeOK /\ currentState \in LightState
    BY DEF Bookkeeping, TypeOK
<1>4. Decode(monitorMessage') = currentState
    BY <1>1, <1>3, MessageRead
<1>5. LS!LightIds = LightIds
    BY DEF LS!LightIds, LightIds
<1>6. \/ OnStage(tty') = <<[i \in LightIds |-> LS!Emission(i, currentState.lights[i])]>>
      \/ "tty" \in Faults /\ OnStage(tty') = OnStage(tty)
    BY <1>1, <1>3, StageShowsState
<1>7. QED
    BY <1>1, <1>2, <1>4, <1>5, <1>6 DEF LS!Publish

\* The first element of two queues, one after the other.
LEMMA HeadTailConcat ==
    ASSUME NEW S, NEW s \in Seq(S), NEW t \in Seq(S), s # <<>>
    PROVE  s \o t # <<>> /\ Head(s \o t) = Head(s) /\ Tail(s \o t) = Tail(s) \o t
<1>1. PICK q : q = s \o t
    OBVIOUS
<1>2. /\ q \in Seq(S) /\ Len(q) = Len(s) + Len(t)
      /\ \A i \in 1..(Len(s) + Len(t)) : q[i] = IF i <= Len(s) THEN s[i] ELSE t[i - Len(s)]
    BY <1>1, ConcatProperties
<1>3. Len(s) \in Nat \ {0} /\ Len(t) \in Nat
    BY EmptySeq
<1>4. q # <<>> /\ Head(q) = Head(s)
    BY <1>2, <1>3, EmptySeq
<1>5. /\ Tail(q) \in Seq(S) /\ Len(Tail(q)) = Len(q) - 1
      /\ \A i \in 1..Len(Tail(q)) : Tail(q)[i] = q[i + 1]
    BY <1>2, <1>4, HeadTailProperties
<1>6. /\ Tail(s) \in Seq(S) /\ Len(Tail(s)) = Len(s) - 1
      /\ \A i \in 1..Len(Tail(s)) : Tail(s)[i] = s[i + 1]
    BY HeadTailProperties
<1>7. PICK r : r = Tail(s) \o t
    OBVIOUS
<1>8. /\ r \in Seq(S) /\ Len(r) = (Len(s) - 1) + Len(t)
      /\ \A i \in 1..((Len(s) - 1) + Len(t)) :
             r[i] = IF i <= Len(s) - 1 THEN Tail(s)[i] ELSE t[i - (Len(s) - 1)]
    BY <1>6, <1>7, ConcatProperties
<1>9. \A i \in 1..Len(Tail(q)) : Tail(q)[i] = r[i]
    <2> TAKE i \in 1..Len(Tail(q))
    <2>1. i \in 1..((Len(s) - 1) + Len(t)) /\ i + 1 \in 1..(Len(s) + Len(t))
        BY <1>2, <1>3, <1>5
    <2>2. CASE i <= Len(s) - 1
        BY <1>2, <1>3, <1>5, <1>6, <1>8, <2>1, <2>2
    <2>3. CASE ~(i <= Len(s) - 1)
        <3>1. (i + 1) - Len(s) = i - (Len(s) - 1)
            BY <1>3, <2>1
        <3>2. QED
            BY <1>2, <1>3, <1>5, <1>8, <2>1, <2>3, <3>1
    <2>4. QED
        BY <2>2, <2>3
<1>10. Tail(q) = r
    BY <1>2, <1>3, <1>5, <1>8, <1>9, SeqEqual
<1>11. QED
    BY <1>1, <1>4, <1>7, <1>10

\* A client that reads is shown what comes next.
LEMMA ShowRead ==
    ASSUME Bookkeeping, Audience, NEW c \in Conns, ClientReads(c)
    PROVE  LS!Show(c)
<1>1. /\ TypeOK /\ tx[c] # <<>>
      /\ tx' = [tx EXCEPT ![c] = Tail(tx[c])] /\ shown' = [shown EXCEPT ![c] = <<Head(tx[c])>>]
      /\ UNCHANGED <<wsi, peer, monitorConnections>> /\ SameShow
    BY DEF Bookkeeping, ClientReads, serverVars, lwsVars, lightVars, outVars, SameShow
<1>2. ~Gone(c) /\ ~Gone(c)'
    BY <1>1 DEF Audience, Gone
<1>3. tx[c] \in Seq(Message) /\ wsi[c].backlog \in Seq(Message)
    <2>1. wsi[c] \in Wsi
        BY <1>1 DEF TypeOK
    <2>2. QED
        BY <1>1, <2>1 DEF TypeOK, Wsi
<1>4. PICK q \in Seq(Message) : q = tx[c] \o wsi[c].backlog
    BY <1>3, ConcatProperties
<1>5. q # <<>> /\ Head(q) = Head(tx[c])
    BY <1>1, <1>3, <1>4, HeadTailConcat
<1>6. Tail(q) = Tail(tx[c]) \o wsi[c].backlog
    BY <1>1, <1>3, <1>4, HeadTailConcat
<1>7. /\ tx'[c] = Tail(tx[c]) /\ shown'[c] = <<Head(tx[c])>> /\ wsi'[c] = wsi[c]
      /\ \A d \in Conns : d # c => Kept(d)
    BY <1>1 DEF TypeOK, Kept, Gone
<1>8. /\ Pending(c) = Decoded(q) /\ Pending(c)' = Decoded(Tail(q))
      /\ Decoded(shown[c])' = Decoded(<<Head(q)>>)
    BY <1>2, <1>4, <1>5, <1>6, <1>7 DEF Pending
<1>9. /\ Pending(c) # <<>> /\ Pending(c)' = Tail(Pending(c))
      /\ Decoded(shown[c])' = <<Head(Pending(c))>>
    BY <1>5, <1>8, QueueRead
<1>10. \A d \in Conns : d # c => /\ Pending(d)' = Pending(d)
                                 /\ Decoded(shown[d])' = Decoded(shown[d])
    BY <1>7, KeptFeed
<1>11. UNCHANGED <<currentState, Decode(monitorMessage), OnStage(tty), monitorConnections>>
    BY <1>1 DEF SameShow
<1>12. QED
    BY <1>9, <1>10, <1>11 DEF LS!Show

-----------------------------------------------------------------------------

\* The server implements LightShow, whatever the clients do and whichever
\* lights are configured, if no two of them share a channel: Serveri::run,
\* lightPacket, updateMonitorMessage and the callbacks, through libwebsockets'
\* queues.
THEOREM ServerImplementsShow ==
    ASSUME NoOverlap
    PROVE  Spec => ImplementsShow
<1>1. Init => LS!Init
    BY ShowInit
<1>2. Bookkeeping /\ Bookkeeping' /\ LightsMatchDMX /\ Audience /\ [Next]_vars
          => [LS!Next]_(LS!vars)
    <2> SUFFICES ASSUME Bookkeeping, Bookkeeping', LightsMatchDMX, Audience, [Next]_vars
                 PROVE  LS!Next \/ UNCHANGED LS!vars
        OBVIOUS
    <2>1. CASE Noticed
        BY <2>1, ShowNoticed
    <2>2. CASE PacketStep
        BY <2>2, ShowPacket
    <2>3. CASE UpdateStep
        BY <2>3, ShowUpdate DEF LS!Next
    <2>4. ASSUME NEW c \in Conns, ClientReads(c) PROVE LS!Next
        BY <2>4, ShowRead DEF LS!Next
    <2>5. QED
        BY <2>1, <2>2, <2>3, <2>4, ShowSteps
<1>3. Bookkeeping /\ Audience /\ [Next]_vars => Audience'
    BY AudienceNext
<1>4. QED
    BY <1>1, <1>2, <1>3, AudienceInit, BookkeepingInvariant, LightsAgree, PTL
       DEF Spec, ImplementsShow, LS!Spec

=============================================================================
