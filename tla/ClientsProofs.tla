--------------------------- MODULE ClientsProofs ----------------------------
(***************************************************************************)
(* Theorems about the programs of use_examples: a light client, and the    *)
(* page monitor.html.                                                      *)
(*                                                                         *)
(* The client: what the server understands of its packets, for every nick, *)
(* every command, every length of the packet and every size of the receive *)
(* buffer.  Intended speaks of what has been parsed.  ClientInv says of    *)
(* the bytes, from Instanssi.set to recvfrom, which commands they stand    *)
(* for: Encodes places every byte of a packet.                             *)
(*                                                                         *)
(* The page: how many connections it can have lost track of, and what it   *)
(* draws, for every number of sockets, clicks, timers and messages.        *)
(* ConnectionsAccounted counts the connections that are live, and is not   *)
(* inductive: a socket that is only closing has a close event to come, and *)
(* that event clears a variable that may hold another socket.  Accounted   *)
(* counts all sockets but the one that the page holds, closing ones too.   *)
(***************************************************************************)
EXTENDS LightClient, MonitorPage, LightsProofs, SequenceTheorems

-----------------------------------------------------------------------------
(* The light client                                                        *)

\* Where the first command starts.
Start == Len(Nick) + 3

\* The tag and the bytes in front of it are the client's.
Headed(b) ==
    /\ b[1] = 1 /\ b[2] = 0 /\ b[Start] = 0
    /\ \A i \in 1..Len(Nick) : b[i + 2] = Nick[i]

\* The six bytes behind offset o are the command l.
CommandAt(b, o, l) ==
    /\ b[o + 1] = 1 /\ b[o + 2] = l.index
    /\ b[o + 4] = l.color.red /\ b[o + 5] = l.color.green /\ b[o + 6] = l.color.blue

\* The bytes b are the packet of the commands ls.
Encodes(b, ls) ==
    /\ b \in Seq(Byte) /\ ls \in Seq(Commands)
    /\ Len(b) = Start + 6 * Len(ls)
    /\ Headed(b)
    /\ \A j \in 1..Len(ls) : CommandAt(b, Start + 6 * (j - 1), ls[j])

\* The bytes u are those of s and behind them those of t.
Joins(u, s, t) ==
    /\ u \in Seq(Byte) /\ Len(u) = Len(s) + Len(t)
    /\ \A i \in 1..Len(s) : u[i] = s[i]
    /\ \A i \in 1..Len(t) : u[Len(s) + i] = t[i]

\* Two sequences of bytes, one behind the other.
LEMMA Joined ==
    ASSUME NEW s \in Seq(Byte), NEW t \in Seq(Byte)
    PROVE  Joins(s \o t, s, t)
<1> DEFINE u == s \o t
<1>1. Len(s) \in Nat /\ Len(t) \in Nat
    OBVIOUS
<1>2. /\ u \in Seq(Byte) /\ Len(u) = Len(s) + Len(t)
      /\ \A i \in 1..(Len(s) + Len(t)) : u[i] = IF i <= Len(s) THEN s[i] ELSE t[i - Len(s)]
    BY ConcatProperties
<1> HIDE DEF u
<1>3. ASSUME NEW i \in 1..Len(s) PROVE u[i] = s[i]
    BY <1>1, <1>2
<1>4. ASSUME NEW i \in 1..Len(t) PROVE u[Len(s) + i] = t[i]
    <2>1. /\ Len(s) + i \in 1..(Len(s) + Len(t)) /\ ~(Len(s) + i <= Len(s))
          /\ (Len(s) + i) - Len(s) = i
        BY <1>1
    <2>2. QED
        BY <1>2, <2>1
<1>5. Joins(u, s, t)
    BY <1>2, <1>3, <1>4 DEF Joins
<1>6. QED
    BY <1>5 DEF u

\* The constants as the proofs use them.
LEMMA ClientConstants ==
    /\ Nick \in Seq(1..255) /\ Len(Nick) \in Nat
    /\ \A i \in 1..Len(Nick) : Nick[i] \in 1..255
    /\ Start \in Nat /\ Start >= 3
    /\ BufLen \in Nat /\ BufLen >= Start
    /\ \A l \in Commands : /\ l.index \in 0..127 /\ l.color.red \in Byte
                           /\ l.color.green \in Byte /\ l.color.blue \in Byte
                           /\ l = [index |-> l.index,
                                   color |-> [red   |-> l.color.red,
                                              green |-> l.color.green,
                                              blue  |-> l.color.blue]]
<1>1. Nick \in Seq(1..255) /\ BufLen \in Nat /\ BufLen >= Len(Nick) + 3
    BY ClientAssumption
<1>2. Len(Nick) \in Nat /\ \A i \in 1..Len(Nick) : Nick[i] \in 1..255
    <2>1. PICK S : S = 1..255
        OBVIOUS
    <2>2. Nick \in Seq(S)
        BY <1>1, <2>1
    <2>3. Len(Nick) \in Nat /\ \A i \in 1..Len(Nick) : Nick[i] \in S
        BY <2>2, LenProperties, ElementOfSeq
    <2>4. QED
        BY <2>1, <2>3
<1>3. Start \in Nat /\ Start >= 3 /\ BufLen >= Start
    BY <1>1, <1>2 DEF Start
<1>4. ASSUME NEW l \in Commands
      PROVE  /\ l.index \in 0..127 /\ l.color.red \in Byte
             /\ l.color.green \in Byte /\ l.color.blue \in Byte
             /\ l = [index |-> l.index,
                     color |-> [red |-> l.color.red, green |-> l.color.green,
                                blue |-> l.color.blue]]
    <2>1. l \in [index : 0..127, color : Color]
        BY ClientAssumption
    <2>2. l.index \in 0..127 /\ l.color \in Color /\ l = [index |-> l.index, color |-> l.color]
        BY <2>1
    <2>3. ASSUME NEW c \in Color
          PROVE  /\ c.red \in Byte /\ c.green \in Byte /\ c.blue \in Byte
                 /\ c = [red |-> c.red, green |-> c.green, blue |-> c.blue]
        BY DEF Color
    <2>4. QED
        BY <2>2, <2>3
<1>5. QED
    BY <1>1, <1>2, <1>3, <1>4

\* Instanssi.reset starts a packet without commands.
LEMMA HeaderEncodes == Encodes(Header, <<>>) /\ Len(Header) = Start
<1>1. Nick \in Seq(Byte) /\ Len(Nick) \in Nat
    BY ClientConstants DEF Byte
<1>2. PICK front : front = <<1, 0>>
    OBVIOUS
<1>3. PICK back : back = <<0>>
    OBVIOUS
<1>4. front \in Seq(Byte) /\ Len(front) = 2 /\ front[1] = 1 /\ front[2] = 0
    BY <1>2 DEF Byte
<1>5. back \in Seq(Byte) /\ Len(back) = 1 /\ back[1] = 0
    BY <1>3 DEF Byte
<1>6. PICK h : h = front \o Nick
    OBVIOUS
<1>7. /\ h \in Seq(Byte) /\ Len(h) = 2 + Len(Nick)
      /\ \A i \in 1..2 : h[i] = front[i]
      /\ \A i \in 1..Len(Nick) : h[2 + i] = Nick[i]
    <2>1. Joins(h, front, Nick)
        BY <1>1, <1>4, <1>6, Joined
    <2>2. QED
        BY <1>4, <2>1 DEF Joins
<1>8. Header = h \o back
    BY <1>2, <1>3, <1>6 DEF Header
<1>9. PICK b : b = Header
    OBVIOUS
<1>10. /\ b \in Seq(Byte) /\ Len(b) = Start
       /\ \A i \in 1..(2 + Len(Nick)) : b[i] = h[i]
       /\ \A i \in 1..1 : b[2 + Len(Nick) + i] = back[i]
    <2>1. Joins(b, h, back)
        BY <1>5, <1>7, <1>8, <1>9, Joined
    <2>2. 2 + Len(Nick) + 1 = Start
        BY <1>1 DEF Start
    <2>3. QED
        BY <1>5, <1>7, <2>1, <2>2 DEF Joins
<1>11. b[1] = 1 /\ b[2] = 0 /\ b[Start] = 0
    BY <1>1, <1>4, <1>5, <1>7, <1>10 DEF Start
<1>12. ASSUME NEW i \in 1..Len(Nick) PROVE b[i + 2] = Nick[i]
    <2>1. i + 2 = 2 + i /\ i + 2 \in 1..(2 + Len(Nick))
        BY <1>1
    <2>2. QED
        BY <1>1, <1>7, <1>10, <2>1
<1>13. Headed(b)
    BY <1>11, <1>12 DEF Headed
<1>14. Len(<<>>) = 0 /\ <<>> \in Seq(Commands)
    OBVIOUS
<1>15. Start \in Nat
    BY <1>1 DEF Start
<1>16. QED
    BY <1>9, <1>10, <1>13, <1>14, <1>15 DEF Encodes

\* Instanssi.set adds a command behind those of the packet.
LEMMA SetEncodes ==
    ASSUME NEW b, NEW ls, Encodes(b, ls), NEW l \in Commands
    PROVE  Encodes(b \o CommandBytes(l), Append(ls, l))
<1>1. PICK c : c = CommandBytes(l)
    OBVIOUS
<1>2. PICK n : n = Len(ls)
    OBVIOUS
<1>3. /\ Start \in Nat /\ Start >= 3 /\ Len(Nick) \in Nat /\ Start = Len(Nick) + 3
      /\ l.index \in 0..127
      /\ l.color.red \in Byte /\ l.color.green \in Byte /\ l.color.blue \in Byte
    BY ClientConstants DEF Start
<1>4. /\ c \in Seq(Byte) /\ Len(c) = 6
      /\ c[1] = 1 /\ c[2] = l.index /\ c[4] = l.color.red
      /\ c[5] = l.color.green /\ c[6] = l.color.blue
    BY <1>1, <1>3 DEF CommandBytes, Byte
<1>5. /\ b \in Seq(Byte) /\ ls \in Seq(Commands) /\ n \in Nat
      /\ Len(b) = Start + 6 * n /\ Headed(b)
      /\ \A j \in 1..n : CommandAt(b, Start + 6 * (j - 1), ls[j])
    BY <1>2 DEF Encodes
<1>6. PICK d : d = b \o c
    OBVIOUS
<1>7. PICK ms : ms = Append(ls, l)
    OBVIOUS
<1>8. /\ d \in Seq(Byte) /\ Len(d) = Start + 6 * n + 6
      /\ \A i \in 1..(Start + 6 * n) : d[i] = b[i]
      /\ \A i \in 1..6 : d[(Start + 6 * n) + i] = c[i]
    <2>1. PICK m : m = Start + 6 * n
        OBVIOUS
    <2>2. Joins(d, b, c)
        BY <1>4, <1>5, <1>6, Joined
    <2>3. /\ d \in Seq(Byte) /\ Len(d) = m + 6
          /\ \A i \in 1..m : d[i] = b[i]
          /\ \A i \in 1..6 : d[m + i] = c[i]
        BY <1>4, <1>5, <2>1, <2>2 DEF Joins
    <2>4. QED
        BY <2>1, <2>3
<1>9. /\ ms \in Seq(Commands) /\ Len(ms) = n + 1 /\ ms[n + 1] = l
      /\ \A j \in 1..n : ms[j] = ls[j]
    BY <1>2, <1>5, <1>7
<1>10. Headed(d)
    <2>1. 1 \in 1..(Start + 6 * n) /\ 2 \in 1..(Start + 6 * n) /\ Start \in 1..(Start + 6 * n)
        BY <1>3, <1>5
    <2>2. \A i \in 1..Len(Nick) : i + 2 \in 1..(Start + 6 * n)
        BY <1>3, <1>5
    <2>3. QED
        BY <1>5, <1>8, <2>1, <2>2 DEF Headed
<1>11. ASSUME NEW j \in 1..(n + 1) PROVE CommandAt(d, Start + 6 * (j - 1), ms[j])
    <2>1. CASE j \in 1..n
        <3>1. PICK o : o = Start + 6 * (j - 1)
            OBVIOUS
        <3>2. \A k \in 1..6 : o + k \in 1..(Start + 6 * n)
            BY <1>3, <1>5, <2>1, <3>1
        <3>3. CommandAt(b, o, ls[j]) /\ ms[j] = ls[j]
            BY <1>5, <1>9, <2>1, <3>1
        <3>4. \A k \in 1..6 : d[o + k] = b[o + k]
            BY <1>8, <3>2
        <3>5. CommandAt(d, o, ms[j])
            BY <3>3, <3>4 DEF CommandAt
        <3>6. QED
            BY <3>1, <3>5
    <2>2. CASE j = n + 1
        <3>1. PICK o : o = Start + 6 * n
            OBVIOUS
        <3>2. o \in Nat /\ Start + 6 * (j - 1) = o
            BY <1>3, <1>5, <2>2, <3>1
        <3>3. \A k \in 1..6 : d[o + k] = c[k]
            BY <1>8, <3>1
        <3>4. CommandAt(d, o, l)
            BY <1>4, <3>3 DEF CommandAt
        <3>5. QED
            BY <1>9, <2>2, <3>2, <3>4
    <2>3. QED
        BY <1>5, <2>1, <2>2
<1>12. Len(d) = Start + 6 * Len(ms)
    <2>1. ASSUME NEW x \in Int, NEW y \in Int PROVE y + 6 * x + 6 = y + 6 * (x + 1)
        OBVIOUS
    <2>2. Start + 6 * n + 6 = Start + 6 * (n + 1)
        BY <1>3, <1>5, <2>1
    <2>3. QED
        BY <1>8, <1>9, <2>2
<1>13. Encodes(d, ms)
    BY <1>8, <1>9, <1>10, <1>11, <1>12 DEF Encodes
<1>14. QED
    BY <1>1, <1>6, <1>7, <1>13

-----------------------------------------------------------------------------
(* From the bytes to the parsed packet                                     *)

\* The first n bytes of b.
PrefixOf(p, b, n) == p \in Seq(Byte) /\ Len(p) = n /\ \A i \in 1..n : p[i] = b[i]

\* The lesser of two numbers.
LEMMA MinOfTwo ==
    ASSUME NEW a \in Nat, NEW b \in Nat
    PROVE  Min({a, b}) = IF a <= b THEN a ELSE b
<1>1. Min({a, b}) \in {a, b} /\ \A m \in {a, b} : Min({a, b}) <= m
    BY MinOfNats
<1>2. QED
    BY <1>1

\* How much of a packet recvfrom hands over: its tag at least.
LEMMA RecvLenIs ==
    ASSUME NEW b, NEW ls, Encodes(b, ls)
    PROVE  /\ RecvLen(b) \in Nat /\ Start <= RecvLen(b) /\ RecvLen(b) <= Len(b)
           /\ RecvLen(b) = IF Len(b) <= BufLen THEN Len(b) ELSE BufLen
           /\ Len(b) = Start + 6 * Len(ls) /\ Len(b) \in Nat /\ Len(ls) \in Nat
<1>1. /\ Len(b) \in Nat /\ Len(ls) \in Nat /\ Len(b) = Start + 6 * Len(ls)
      /\ Start \in Nat /\ BufLen \in Nat /\ Start <= BufLen
    BY ClientConstants DEF Encodes
<1>2. RecvLen(b) = IF Len(b) <= BufLen THEN Len(b) ELSE BufLen
    BY <1>1, MinOfTwo DEF RecvLen
<1>3. Start <= Len(b)
    BY <1>1
<1>4. QED
    BY <1>1, <1>2, <1>3

\* Whatever was in the buffer, the span has bytes of the datagram only.
LEMMA SpanIs ==
    ASSUME NEW b, NEW ls, Encodes(b, ls), NEW old
    PROVE  PrefixOf(Span(Recv(old, b), RecvLen(b)), b, RecvLen(b))
<1>1. PICK n : n = RecvLen(b)
    OBVIOUS
<1>2. n \in Nat /\ n <= Len(b) /\ Len(b) \in Nat /\ n <= BufLen /\ BufLen \in Nat
    BY <1>1, RecvLenIs, ClientConstants
<1>3. PICK buf : buf = Recv(old, b)
    OBVIOUS
<1>4. \A i \in 1..n : buf[i] = b[i]
    BY <1>1, <1>2, <1>3 DEF Recv
<1>5. \A i \in 1..n : b[i] \in Byte
    BY <1>2 DEF Encodes
<1>6. PICK p : p = SubSeq(buf, 1, n)
    OBVIOUS
<1>7. /\ p \in Seq(Byte) /\ Len(p) = IF 1 <= n THEN n - 1 + 1 ELSE 0
      /\ \A i \in 1..(n - 1 + 1) : p[i] = buf[1 + i - 1]
    <2>1. 1 \in Int /\ n \in Int /\ \A i \in 1..n : buf[i] \in Byte
        BY <1>2, <1>4, <1>5
    <2>2. QED
        BY <1>6, <2>1, SubSeqProperties
<1>8. Len(p) = n /\ \A i \in 1..n : p[i] = b[i]
    <2>1. n - 1 + 1 = n /\ \A i \in 1..n : 1 + i - 1 = i
        BY <1>2
    <2>2. Len(p) = n
        BY <1>2, <1>7
    <2>3. QED
        BY <1>4, <1>7, <2>1, <2>2
<1>9. QED
    BY <1>1, <1>3, <1>6, <1>7, <1>8 DEF Span, PrefixOf

\* The nick is found, with the commands behind it.
LEMMA TagRead ==
    ASSUME NEW b, NEW ls, Encodes(b, ls), NEW n \in Nat, Start <= n, NEW p, PrefixOf(p, b, n)
    PROVE  WellFormed(p) /\ ParsedTag(p) = Nick /\ BaseOffset(p) = Start
<1>1. PICK k : k = Len(Nick)
    OBVIOUS
<1>2. /\ k \in Nat /\ Nick \in Seq(1..255) /\ \A i \in 1..k : Nick[i] \in 1..255
      /\ Start = k + 3
    BY <1>1, ClientConstants DEF Start
<1>3. /\ p \in Seq(Byte) /\ Len(p) = n /\ n >= k + 3
      /\ \A i \in 1..n : p[i] = b[i]
    BY <1>2 DEF PrefixOf
<1>4. /\ b[1] = 1 /\ b[2] = 0 /\ b[k + 3] = 0
      /\ \A i \in 1..k : b[i + 2] = Nick[i]
    BY <1>1, <1>2 DEF Encodes, Headed
<1>5. p[1] = 1 /\ p[2] = 0 /\ p[k + 3] = 0
    BY <1>2, <1>3, <1>4
<1>6. \A i \in 1..k : p[i + 2] = Nick[i]
    <2>1. \A i \in 1..k : i + 2 \in 1..n
        BY <1>2, <1>3
    <2>2. QED
        BY <1>3, <1>4, <2>1
<1>7. WellFormed(p)
    BY <1>2, <1>3, <1>5 DEF WellFormed
<1>8. k + 2 \in TagEnds(p)
    <2>1. k + 2 \in 2..(n - 1) /\ (k + 2) + 1 = k + 3
        BY <1>2, <1>3
    <2>2. QED
        BY <1>3, <1>5, <2>1 DEF TagEnds
<1>9. ASSUME NEW m \in TagEnds(p) PROVE m >= k + 2
    <2> SUFFICES ASSUME m < k + 2 PROVE FALSE
        BY <1>2, <1>9 DEF TagEnds
    <2>1. m \in 2..(n - 1) /\ p[m + 1] = 0
        BY <1>3, <1>9 DEF TagEnds
    <2>2. m - 1 \in 1..k /\ (m - 1) + 2 = m + 1
        BY <1>2, <2>1
    <2>3. p[m + 1] = Nick[m - 1]
        BY <1>6, <2>2
    <2>4. Nick[m - 1] \in 1..255
        BY <1>2, <2>2
    <2>5. QED
        BY <2>1, <2>3, <2>4
<1>10. Min(TagEnds(p)) = k + 2
    <2>1. TagEnds(p) \in SUBSET Nat /\ TagEnds(p) # {}
        BY <1>8 DEF TagEnds
    <2>2. PICK m : m = Min(TagEnds(p))
        OBVIOUS
    <2>3. m \in TagEnds(p) /\ m <= k + 2
        BY <1>8, <2>1, <2>2, MinOfNats
    <2>4. m >= k + 2 /\ m \in Nat
        BY <1>9, <2>1, <2>3
    <2>5. QED
        BY <1>2, <2>2, <2>3, <2>4
<1>11. BaseOffset(p) = Start
    BY <1>2, <1>8, <1>10 DEF BaseOffset
<1>12. ParsedTag(p) = Nick
    <2>1. PICK t : t = SubSeq(p, 3, k + 2)
        OBVIOUS
    <2>2. ASSUME NEW i \in 3..(k + 2) PROVE p[i] \in 1..255
        <3>1. i - 2 \in 1..k /\ (i - 2) + 2 = i
            BY <1>2
        <3>2. QED
            BY <1>2, <1>6, <3>1
    <2>3. /\ t \in Seq(1..255) /\ Len(t) = IF 3 <= k + 2 THEN (k + 2) - 3 + 1 ELSE 0
          /\ \A i \in 1..((k + 2) - 3 + 1) : t[i] = p[3 + i - 1]
        <3>1. 3 \in Int /\ k + 2 \in Int
            BY <1>2
        <3>2. PICK S : S = 1..255
            OBVIOUS
        <3>3. \A i \in 3..(k + 2) : p[i] \in S
            BY <2>2, <3>2
        <3>4. t \in Seq(S)
            BY <2>1, <3>1, <3>3, SubSeqProperties
        <3>5. /\ Len(t) = IF 3 <= k + 2 THEN (k + 2) - 3 + 1 ELSE 0
              /\ \A i \in 1..((k + 2) - 3 + 1) : t[i] = p[3 + i - 1]
            BY <2>1, <3>1, <3>3, SubSeqProperties
        <3>6. QED
            BY <3>2, <3>4, <3>5
    <2>4. Len(t) = k
        BY <1>2, <2>3
    <2>5. ASSUME NEW i \in 1..k PROVE t[i] = Nick[i]
        <3>1. i \in 1..((k + 2) - 3 + 1) /\ 3 + i - 1 = i + 2
            BY <1>2
        <3>2. QED
            BY <1>6, <2>3, <3>1
    <2>6. t = Nick
        <3>1. PICK S : S = 1..255
            OBVIOUS
        <3>2. t \in Seq(S) /\ Nick \in Seq(S) /\ Len(t) = Len(Nick)
              /\ \A i \in 1..Len(t) : t[i] = Nick[i]
            BY <1>1, <1>2, <2>3, <2>4, <2>5, <3>1
        <3>3. QED
            BY <3>2, SeqEqual
    <2>7. QED
        BY <1>8, <1>10, <2>1, <2>6 DEF ParsedTag
<1>13. QED
    BY <1>7, <1>11, <1>12

\* Every whole command of the prefix is read as it was set.
LEMMA CommandRead ==
    ASSUME NEW b, NEW ls, Encodes(b, ls), NEW n \in Nat, Start <= n, n <= Len(b),
           NEW p, PrefixOf(p, b, n), NEW i \in 1..MaxCount(p)
    PROVE  i \in 1..Len(ls) /\ Command(p, i) = ls[i] /\ i \in LightCommands(p)
<1>1. BaseOffset(p) = Start /\ Len(p) = n
    BY TagRead DEF PrefixOf
<1>2. Start \in Nat /\ Len(ls) \in Nat /\ Len(b) = Start + 6 * Len(ls)
    BY ClientConstants DEF Encodes
<1>3. i \in Nat /\ i >= 1 /\ 6 * i <= n - Start
    BY <1>1, <1>2 DEF MaxCount
<1>4. i <= Len(ls)
    BY <1>2, <1>3
<1>5. PICK o : o = Start + 6 * (i - 1)
    OBVIOUS
<1>6. o \in Nat /\ \A k \in 1..6 : o + k \in 1..n
    BY <1>2, <1>3, <1>5
<1>7. \A k \in 1..6 : p[o + k] = b[o + k]
    BY <1>6 DEF PrefixOf
<1>8. CommandAt(b, o, ls[i])
    BY <1>3, <1>4, <1>2, <1>5 DEF Encodes
<1>9. \A k \in 0..5 : CommandByte(p, i, k) = p[o + (k + 1)]
    <2>1. \A k \in 0..5 : Start + (i - 1) * 6 + k + 1 = o + (k + 1)
        BY <1>2, <1>3, <1>5
    <2>2. QED
        BY <1>1, <2>1 DEF CommandByte
<1>10. PICK l : l = ls[i]
    OBVIOUS
<1>11. /\ CommandByte(p, i, 0) = 1 /\ CommandByte(p, i, 1) = l.index
       /\ CommandByte(p, i, 3) = l.color.red /\ CommandByte(p, i, 4) = l.color.green
       /\ CommandByte(p, i, 5) = l.color.blue
    <2>1. /\ CommandByte(p, i, 0) = p[o + 1] /\ CommandByte(p, i, 1) = p[o + 2]
          /\ CommandByte(p, i, 3) = p[o + 4] /\ CommandByte(p, i, 4) = p[o + 5]
          /\ CommandByte(p, i, 5) = p[o + 6]
        <3>1. 0 + 1 = 1 /\ 1 + 1 = 2 /\ 3 + 1 = 4 /\ 4 + 1 = 5 /\ 5 + 1 = 6
            OBVIOUS
        <3>2. QED
            BY <1>9, <3>1
    <2>2. QED
        BY <1>7, <1>8, <1>10, <2>1 DEF CommandAt
<1>12. l \in Commands
    BY <1>2, <1>3, <1>4, <1>10 DEF Encodes
<1>13. CharToUInt(l.index) = l.index
    <2>1. ASSUME NEW x \in 0..127 PROVE CharToUInt(x) = x
        BY DEF CharToUInt
    <2>2. l.index \in 0..127
        BY <1>12, ClientConstants
    <2>3. QED
        BY <2>1, <2>2
<1>14. Command(p, i) = l
    BY <1>11, <1>12, <1>13, ClientConstants DEF Command
<1>15. QED
    BY <1>2, <1>3, <1>4, <1>10, <1>11, <1>14 DEF LightCommands

\* How many commands reach the parser: those that fit.
LEMMA CountRead ==
    ASSUME NEW b, NEW ls, Encodes(b, ls)
    PROVE  (RecvLen(b) - Start) \div 6 = Min({(BufLen - Len(Header)) \div 6, Len(ls)})
<1>1. PICK n : n = RecvLen(b)
    OBVIOUS
<1>2. PICK m : m = Len(ls)
    OBVIOUS
<1>3. PICK f : f = (BufLen - Start) \div 6
    OBVIOUS
<1>4. /\ n = IF Start + 6 * m <= BufLen THEN Start + 6 * m ELSE BufLen
      /\ m \in Nat /\ Start \in Nat /\ BufLen \in Nat /\ Start <= BufLen
    BY <1>1, <1>2, RecvLenIs, ClientConstants
<1>5. f \in Nat
    BY <1>3, <1>4
<1>6. Min({f, m}) = IF f <= m THEN f ELSE m
    BY <1>4, <1>5, MinOfTwo
<1>7. (n - Start) \div 6 = IF f <= m THEN f ELSE m
    BY <1>3, <1>4
<1>8. QED
    BY <1>1, <1>2, <1>3, <1>6, <1>7, HeaderEncodes

\* What the server understands of a packet that it has received.
LEMMA Understood ==
    ASSUME NEW b, NEW ls, Encodes(b, ls), NEW old
    PROVE  parseLightPacket(Span(Recv(old, b), RecvLen(b))) =
               [tag |-> Nick,
                lights |-> SubSeq(ls, 1, Min({(BufLen - Len(Header)) \div 6, Len(ls)}))]
<1>1. PICK n : n = RecvLen(b)
    OBVIOUS
<1>2. PICK p : p = Span(Recv(old, b), RecvLen(b))
    OBVIOUS
<1>3. n \in Nat /\ Start <= n /\ n <= Len(b) /\ PrefixOf(p, b, n)
    BY <1>1, <1>2, RecvLenIs, SpanIs
<1>4. WellFormed(p) /\ ParsedTag(p) = Nick /\ BaseOffset(p) = Start
    BY <1>3, TagRead
<1>5. PICK m : m = MaxCount(p)
    OBVIOUS
<1>6. \A i \in 1..m : i \in 1..Len(ls) /\ Command(p, i) = ls[i] /\ i \in LightCommands(p)
    BY <1>3, <1>5, CommandRead
<1>7. PICK e : e = Min({(BufLen - Len(Header)) \div 6, Len(ls)})
    OBVIOUS
<1>8. m = e
    BY <1>1, <1>3, <1>4, <1>5, <1>7, CountRead DEF MaxCount, PrefixOf
<1>9. m \in Nat
    BY <1>3, <1>4, <1>5, ParserReadsInBounds DEF PrefixOf
<1>10. LightCommands(p) = 1..m
    BY <1>5, <1>6 DEF LightCommands
<1>11. PICK c : c = [i \in 1..m |-> Command(p, i)]
    OBVIOUS
<1>12. ls \in Seq(Commands)
    BY DEF Encodes
<1>13. c \in Seq(Commands) /\ Len(c) = m /\ \A i \in 1..m : c[i] = ls[i]
    <2>1. \A i \in 1..m : c[i] = ls[i] /\ ls[i] \in Commands
        BY <1>6, <1>11, <1>12
    <2>2. DOMAIN c = 1..m /\ c \in [1..m -> Commands]
        BY <1>11, <2>1
    <2>3. QED
        BY <1>9, <2>1, <2>2
<1>14. ParsedLights(p) = c
    <2>1. ParsedLights(p) = Subsequence(c, 1..m)
        BY <1>5, <1>10, <1>11 DEF ParsedLights
    <2>2. QED
        BY <1>13, <2>1, SubsequenceWhole
<1>15. c = SubSeq(ls, 1, m)
    <2>1. PICK s : s = SubSeq(ls, 1, m)
        OBVIOUS
    <2>2. 1 \in Int /\ m \in Int /\ \A i \in 1..m : ls[i] \in Commands
        BY <1>6, <1>9, <1>12
    <2>3. /\ s \in Seq(Commands) /\ Len(s) = IF 1 <= m THEN m - 1 + 1 ELSE 0
          /\ \A i \in 1..(m - 1 + 1) : s[i] = ls[1 + i - 1]
        BY <2>1, <2>2, SubSeqProperties
    <2>4. m - 1 + 1 = m /\ (\A i \in 1..m : 1 + i - 1 = i) /\ Len(s) = m
        BY <1>9, <2>3
    <2>5. Len(s) = Len(c) /\ \A i \in 1..Len(c) : c[i] = s[i]
        BY <1>13, <2>3, <2>4
    <2>6. QED
        BY <1>13, <2>1, <2>3, <2>5, SeqEqual
<1>16. parseLightPacket(p) = [tag |-> Nick, lights |-> SubSeq(ls, 1, m)]
    BY <1>4, <1>14, <1>15 DEF parseLightPacket
<1>17. QED
    BY ONLY <1>2, <1>7, <1>8, <1>16, Zenon

-----------------------------------------------------------------------------
(* The client, the wire and the server                                     *)

\* The packet that is being built, and every one on the way, is the packet of
\* its commands; the parsed one is what a packet of its commands is parsed to.
ClientInv ==
    /\ Encodes(packet, wanted)
    /\ wire \in Seq([bytes : Seq(Byte), lights : Seq(Commands)])
    /\ \A k \in DOMAIN wire : Encodes(wire[k].bytes, wire[k].lights)
    /\ Intended

\* What is left of a sequence without one of its elements.
LEMMA Removed ==
    ASSUME NEW S, NEW s \in Seq(S), NEW i \in DOMAIN s
    PROVE  /\ RemoveAt(s, i) \in Seq(S)
           /\ \A k \in DOMAIN RemoveAt(s, i) : \E j \in DOMAIN s : RemoveAt(s, i)[k] = s[j]
<1>1. PICK n : n = Len(s)
    OBVIOUS
<1>2. n \in Nat /\ DOMAIN s = 1..n /\ i \in 1..n
    BY <1>1
<1>3. PICK a : a = SubSeq(s, 1, i - 1)
    OBVIOUS
<1>4. PICK b : b = SubSeq(s, i + 1, n)
    OBVIOUS
<1>5. /\ a \in Seq(S) /\ Len(a) = i - 1
      /\ \A k \in 1..(i - 1) : a[k] = s[k]
    BY <1>1, <1>2, <1>3
<1>6. /\ b \in Seq(S) /\ Len(b) = n - i
      /\ \A k \in 1..(n - i) : b[k] = s[i + k]
    <2>1. i + 1 \in Int /\ n \in Int /\ \A k \in (i + 1)..n : s[k] \in S
        BY <1>1, <1>2
    <2>2. /\ b \in Seq(S) /\ Len(b) = IF i + 1 <= n THEN n - (i + 1) + 1 ELSE 0
          /\ \A k \in 1..(n - (i + 1) + 1) : b[k] = s[(i + 1) + k - 1]
        BY <1>4, <2>1, SubSeqProperties
    <2>3. n - (i + 1) + 1 = n - i /\ \A k \in Int : (i + 1) + k - 1 = i + k
        BY <1>2
    <2>4. Len(b) = n - i
        BY <1>2, <2>2
    <2>5. ASSUME NEW k \in 1..(n - i) PROVE b[k] = s[i + k]
        <3>1. k \in 1..(n - (i + 1) + 1) /\ (i + 1) + k - 1 = i + k
            BY <1>2, <2>3
        <3>2. QED
            BY <2>2, <3>1
    <2>6. QED
        BY <2>2, <2>4, <2>5
<1>7. PICK r : r = a \o b
    OBVIOUS
<1>8. r = RemoveAt(s, i)
    BY <1>1, <1>3, <1>4, <1>7 DEF RemoveAt
<1>9. /\ r \in Seq(S) /\ Len(r) = Len(a) + Len(b)
      /\ \A k \in 1..(Len(a) + Len(b)) : r[k] = IF k <= Len(a) THEN a[k] ELSE b[k - Len(a)]
    BY <1>5, <1>6, <1>7, ConcatProperties
<1>10. Len(a) + Len(b) = n - 1 /\ DOMAIN r = 1..(n - 1)
    BY <1>2, <1>5, <1>6, <1>9
<1>11. ASSUME NEW k \in 1..(n - 1) PROVE \E j \in 1..n : r[k] = s[j]
    <2>1. CASE k <= i - 1
        <3>1. r[k] = s[k]
            BY <1>2, <1>5, <1>9, <1>10, <2>1
        <3>2. QED
            BY <1>2, <3>1
    <2>2. CASE ~(k <= i - 1)
        <3>1. k - (i - 1) \in 1..(n - i)
            BY <1>2, <2>2
        <3>2. r[k] = s[i + (k - (i - 1))]
            BY <1>5, <1>6, <1>9, <1>10, <2>2, <3>1
        <3>3. i + (k - (i - 1)) = k + 1 /\ k + 1 \in 1..n
            BY <1>2
        <3>4. QED
            BY <3>2, <3>3
    <2>3. QED
        BY <2>1, <2>2
<1>12. QED
    BY <1>2, <1>8, <1>9, <1>10, <1>11

\* Every step keeps the bytes and the commands together.
LEMMA ClientStep == ClientInv /\ [Next]_vars => ClientInv'
<1> SUFFICES ASSUME ClientInv, [Next]_vars PROVE ClientInv'
    OBVIOUS
<1> DEFINE Datagram == [bytes : Seq(Byte), lights : Seq(Commands)]
<1>1. /\ Encodes(packet, wanted) /\ wire \in Seq(Datagram)
      /\ \A k \in DOMAIN wire : Encodes(wire[k].bytes, wire[k].lights)
      /\ Intended
    BY DEF ClientInv
<1>2. ASSUME NEW l \in Commands, Set(l) PROVE ClientInv'
    <2>1. Encodes(packet', wanted')
        BY <1>1, <1>2, SetEncodes DEF Set
    <2>2. QED
        BY <1>1, <1>2, <2>1 DEF Set, ClientInv, Intended
<1>3. CASE Send
    <2>1. Encodes(packet', wanted')
        BY <1>3, HeaderEncodes DEF Send
    <2>2. PICK d : d = [bytes |-> packet, lights |-> wanted]
        OBVIOUS
    <2>3. d \in Datagram /\ Encodes(d.bytes, d.lights)
        BY <1>1, <2>2 DEF Encodes
    <2>4. PICK w : w = Append(wire, d)
        OBVIOUS
    <2>5. /\ w \in Seq(Datagram) /\ DOMAIN w = 1..(Len(wire) + 1) /\ Len(wire) \in Nat
          /\ w[Len(wire) + 1] = d /\ \A k \in 1..Len(wire) : w[k] = wire[k]
        BY <1>1, <2>3, <2>4
    <2>6. ASSUME NEW k \in DOMAIN w PROVE Encodes(w[k].bytes, w[k].lights)
        <3>1. CASE k \in 1..Len(wire)
            <4>1. w[k] = wire[k] /\ k \in DOMAIN wire
                BY <1>1, <2>5, <3>1
            <4>2. QED
                BY <1>1, <4>1
        <3>2. CASE k = Len(wire) + 1
            BY <2>3, <2>5, <3>2
        <3>3. QED
            BY <2>5, <3>1, <3>2
    <2>7. wire' = w
        BY <1>3, <2>2, <2>4 DEF Send
    <2>8. QED
        BY <1>1, <1>3, <2>1, <2>5, <2>6, <2>7 DEF Send, ClientInv, Intended
<1>4. ASSUME NEW i \in DOMAIN wire, wire' = RemoveAt(wire, i)
      PROVE  /\ wire' \in Seq(Datagram)
             /\ \A k \in DOMAIN wire' : Encodes(wire'[k].bytes, wire'[k].lights)
    <2>1. PICK w : w = RemoveAt(wire, i)
        OBVIOUS
    <2>2. w \in Seq(Datagram) /\ \A k \in DOMAIN w : \E j \in DOMAIN wire : w[k] = wire[j]
        BY <1>1, <2>1, Removed
    <2>3. \A k \in DOMAIN w : Encodes(w[k].bytes, w[k].lights)
        BY <1>1, <2>2
    <2>4. wire' = w
        BY <1>4, <2>1
    <2>5. QED
        BY <2>2, <2>3, <2>4
<1>5. CASE Lose
    BY <1>1, <1>4, <1>5 DEF Lose, ClientInv, Intended
<1>6. CASE Deliver
    <2>1. PICK i \in DOMAIN wire :
              /\ buffer' = Recv(buffer, wire[i].bytes)
              /\ received' = <<[lights |-> wire[i].lights,
                                parsed |-> parseLightPacket(
                                               Span(buffer', RecvLen(wire[i].bytes)))]>>
              /\ wire' = RemoveAt(wire, i)
              /\ UNCHANGED <<packet, wanted>>
        BY <1>6 DEF Deliver
    <2>2. PICK b : b = wire[i].bytes
        OBVIOUS
    <2>3. PICK ls : ls = wire[i].lights
        OBVIOUS
    <2>4. Encodes(b, ls)
        BY <1>1, <2>2, <2>3
    <2>5. PICK e : e = SubSeq(ls, 1, Min({(BufLen - Len(Header)) \div 6, Len(ls)}))
        OBVIOUS
    <2>6. PICK r : r = [lights |-> ls, parsed |-> [tag |-> Nick, lights |-> e]]
        OBVIOUS
    <2>7. received' = <<r>>
        <3>1. parseLightPacket(Span(Recv(buffer, b), RecvLen(b))) = [tag |-> Nick, lights |-> e]
            BY <2>4, <2>5, Understood
        <3>2. received' = <<[lights |-> ls,
                             parsed |-> parseLightPacket(Span(Recv(buffer, b), RecvLen(b)))]>>
            BY <2>1, <2>2, <2>3
        <3>3. QED
            BY <2>6, <3>1, <3>2
    <2>8. Intended'
        <3>1. DOMAIN received' = {1} /\ received'[1] = r
            BY <2>7
        <3>2. r.lights = ls /\ r.parsed.tag = Nick /\ r.parsed.lights = e
            BY <2>6
        <3>3. QED
            BY <2>5, <3>1, <3>2 DEF Intended
    <2>9. QED
        BY <1>1, <1>4, <2>1, <2>8 DEF ClientInv
<1>7. CASE UNCHANGED vars
    BY <1>1, <1>7 DEF vars, ClientInv, Intended
<1>8. QED
    BY <1>2, <1>3, <1>5, <1>6, <1>7 DEF Next

\* The server understands a client's nick and its commands in order, as many as
\* fit in the buffer, whatever is lost or overtaken on the way.
THEOREM AlwaysUnderstood == Spec => []Intended
<1>1. Init => ClientInv
    <2> SUFFICES ASSUME Init PROVE ClientInv
        OBVIOUS
    <2>1. Encodes(packet, wanted)
        BY HeaderEncodes DEF Init
    <2>2. \A e : e = <<>> => DOMAIN e = {}
        OBVIOUS
    <2>3. DOMAIN wire = {} /\ DOMAIN received = {} /\ wire = <<>>
        BY <2>2 DEF Init
    <2>4. QED
        BY <2>1, <2>3 DEF ClientInv, Intended
<1>2. ClientInv => Intended
    BY DEF ClientInv
<1>3. QED
    BY <1>1, <1>2, ClientStep, PTL DEF Spec

-----------------------------------------------------------------------------
(* The page                                                                *)

\* The sockets that exist: live ones, and those whose close event is to come.
Active == {s \in Sockets : state[s] # "none"}

\* The part of the state that the connections are made of.
ConnTypes ==
    /\ state \in [Sockets -> {"none", "connecting", "open", "ending"}]
    /\ socket \in Sockets \cup {null}
    /\ clicks \in Nat

\* Every socket beside the one that the page holds was left behind by a click.
Accounted ==
    /\ IsFiniteSet(Active)
    /\ Cardinality(Active \ {socket}) <= clicks

ConnInv == ConnTypes /\ Accounted

-----------------------------------------------------------------------------

\* Closing a socket or none makes no socket and ends none yet: close() only
\* starts the closing.
LEMMA ClosedKeeps ==
    ASSUME ConnTypes, NEW x
    PROVE  /\ Closed(state, x) \in [Sockets -> {"none", "connecting", "open", "ending"}]
           /\ \A s \in Sockets : Closed(state, x)[s] = "none" <=> state[s] = "none"
  BY DEF ConnTypes, Closed

\* Live and closing sockets together are the ones that exist.
LEMMA ActiveSplit ==
    ASSUME ConnTypes
    PROVE  Live \cup Ending = Active /\ Live \subseteq Active
  BY DEF ConnTypes, Live, Ending, Active

\* The number of the sockets that the page does not hold does not grow when one
\* is made and held, or when one is let go of and a click counted for it.
LEMMA Held ==
    ASSUME NEW A, IsFiniteSet(A), NEW x, NEW n \in Nat, Cardinality(A \ {x}) <= n
    PROVE  /\ Cardinality(A) \in Nat
           /\ Cardinality(A) <= n + 1
           /\ x \notin A => Cardinality(A) <= n
           /\ \A B : B \subseteq A => IsFiniteSet(B) /\ Cardinality(B) <= Cardinality(A)
  <1>1. Cardinality(A) \in Nat
    BY FS_CardinalityType
  <1>2. /\ IsFiniteSet(A \ {x})
        /\ Cardinality(A \ {x}) = IF x \in A THEN Cardinality(A) - 1 ELSE Cardinality(A)
    BY FS_RemoveElement
  <1>3. \A B : B \subseteq A => IsFiniteSet(B) /\ Cardinality(B) <= Cardinality(A)
    BY FS_Subset
  <1> QED
    BY <1>1, <1>2, <1>3

\* A new WebSocket, when the page held none or a click was counted.
LEMMA ConnectAccounted ==
    ASSUME ConnInv, NEW x, Connect(Closed(state, x)), clicks' \in Nat,
           Cardinality(Active) <= clicks'
    PROVE  ConnInv'
  <1>1. PICK s \in Free : /\ state' = [Closed(state, x) EXCEPT ![s] = "connecting"]
                          /\ socket' = s
    BY DEF Connect
  <1>2. /\ Closed(state, x) \in [Sockets -> {"none", "connecting", "open", "ending"}]
        /\ \A t \in Sockets : Closed(state, x)[t] = "none" <=> state[t] = "none"
    BY ClosedKeeps DEF ConnInv
  <1>3. ConnTypes'
    BY <1>1, <1>2 DEF ConnTypes, Free
  <1>4. s \in Sockets /\ s \notin Active
    BY DEF Free, Active
  <1>5. Active' = Active \cup {s}
    BY <1>1, <1>2, <1>4 DEF Active
  <1>6. IsFiniteSet(Active')
    BY <1>5, FS_AddElement DEF ConnInv, Accounted
  <1>7. (Active \ {socket})' = Active
    BY <1>1, <1>4, <1>5
  <1> QED
    BY <1>3, <1>6, <1>7 DEF ConnInv, Accounted

-----------------------------------------------------------------------------

\* The script's own yhdista() makes the first socket.
LEMMA InitConn == PageInit => ConnInv
  <1> SUFFICES ASSUME PageInit PROVE ConnInv
    OBVIOUS
  <1>1. PICK s \in Sockets :
           /\ socket = s
           /\ state = [x \in Sockets |-> IF x = s THEN "connecting" ELSE "none"]
    BY DEF PageInit
  <1>2. ConnTypes
    BY <1>1 DEF PageInit, ConnTypes
  <1>3. Active = {s} /\ Active \ {socket} = {}
    BY <1>1 DEF Active
  <1>4. IsFiniteSet(Active)
    BY <1>3, FS_Singleton
  <1>5. Cardinality(Active \ {socket}) = 0 /\ clicks = 0
    BY <1>3, FS_EmptySet DEF PageInit
  <1> QED
    BY <1>2, <1>4, <1>5 DEF ConnInv, Accounted

\* A click counts unless there is no socket at all.
LEMMA ClickCounts ==
    ASSUME ConnInv, Click
    PROVE  clicks' \in Nat /\ Cardinality(Active) <= clicks'
  <1>1. Cardinality(Active) <= clicks + 1 /\ Cardinality(Active) \in Nat
    BY Held DEF ConnInv, ConnTypes, Accounted
  <1>2. CASE Active = {}
    BY <1>2, FS_EmptySet, ActiveSplit DEF ConnInv, ConnTypes, Click
  <1>3. CASE Active # {}
    BY <1>1, <1>3, ActiveSplit DEF ConnInv, ConnTypes, Click
  <1> QED
    BY <1>2, <1>3

\* Every step of the page keeps its sockets accounted for.
LEMMA ConnNext == ConnInv /\ [PageNext]_pageVars => ConnInv'
  <1> SUFFICES ASSUME ConnInv, [PageNext]_pageVars PROVE ConnInv'
    OBVIOUS
  <1> USE DEF ConnInv
  <1>1. CASE ClickYhdista
    <2>1. Connect(Closed(state, socket)) /\ Click
      BY <1>1 DEF ClickYhdista, yhdista
    <2> QED
      BY <2>1, ClickCounts, ConnectAccounted
  <1>2. CASE Timer
    <2>1. CASE socket # null
      <3>1. UNCHANGED <<socket, state, clicks>>
        BY <1>2, <2>1 DEF Timer, yhdista
      <3> QED
        BY <3>1 DEF ConnTypes, Accounted, Active
    <2>2. CASE socket = null
      <3>1. Connect(Closed(state, socket)) /\ clicks' = clicks
        BY <1>2, <2>2 DEF Timer, yhdista
      <3>2. socket \notin Active
        BY <2>2, PageAssumption DEF Active
      <3>3. Cardinality(Active) <= clicks' /\ clicks' \in Nat
        BY <3>1, <3>2, Held DEF ConnTypes, Accounted
      <3> QED
        BY <3>1, <3>3, ConnectAccounted
    <2> QED
      BY <2>1, <2>2
  <1>3. CASE katkaise
    <2>1. state' = Closed(state, socket) /\ socket' = null /\ Click
      BY <1>3 DEF katkaise
    <2>2. clicks' \in Nat /\ Cardinality(Active) <= clicks'
      BY <2>1, ClickCounts
    <2>3. ConnTypes' /\ Active' = Active
      BY <2>1, <2>2, ClosedKeeps DEF ConnTypes, Active
    <2>4. (Active \ {socket})' = Active
      BY <2>1, <2>3, PageAssumption DEF Active
    <2> QED
      BY <2>2, <2>3, <2>4 DEF Accounted
  <1>4. ASSUME NEW s \in Sockets, OnOpen(s) \/ Drop(s)
        PROVE  ConnInv'
    <2>1. ConnTypes' /\ Active' = Active /\ UNCHANGED <<socket, clicks>>
      BY <1>4 DEF OnOpen, Drop, ConnTypes, Active
    <2> QED
      BY <2>1 DEF Accounted
  <1>5. ASSUME NEW s \in Sockets, OnClose(s)
        PROVE  ConnInv'
    <2>1. ConnTypes' /\ Active' = Active \ {s} /\ socket' = null /\ clicks' = clicks
      BY <1>5 DEF OnClose, socketAfterClose, ConnTypes, Active
    <2>2. (Active \ {socket})' = Active \ {s}
      BY <2>1, PageAssumption DEF Active
    <2>3. IsFiniteSet(Active) /\ Cardinality(Active \ {socket}) <= clicks /\ clicks \in Nat
      BY DEF Accounted, ConnTypes
    <2>4. s \in Active
      BY <1>5 DEF OnClose, Active
    <2>5. Cardinality(Active) \in Nat /\ Cardinality(Active) <= clicks + 1
      BY <2>3, Held
    <2>6. IsFiniteSet(Active') /\ Cardinality(Active \ {s}) <= clicks
      <3>1. /\ IsFiniteSet(Active \ {s})
            /\ Cardinality(Active \ {s}) =
                  IF s \in Active THEN Cardinality(Active) - 1 ELSE Cardinality(Active)
        BY <2>3, FS_RemoveElement
      <3>2. Cardinality(Active \ {s}) = Cardinality(Active) - 1
        BY <2>4, <3>1, Zenon
      <3>3. Cardinality(Active \ {s}) <= clicks
        BY <2>3, <2>5, <3>2
      <3> QED
        BY <2>1, <3>1, <3>3, Zenon
    <2> QED
      BY <2>1, <2>2, <2>6 DEF Accounted
  <1>6. ASSUME NEW s \in Sockets, NEW data \in Messages, OnMessage(s, data)
        PROVE  ConnInv'
    BY <1>6 DEF OnMessage, connVars, ConnTypes, Accounted, Active
  <1>7. CASE UNCHANGED pageVars
    BY <1>7 DEF pageVars, connVars, ConnTypes, Accounted, Active
  <1> QED
    BY <1>1, <1>2, <1>3, <1>4, <1>5, <1>6, <1>7 DEF PageNext

\* The page has one connection, and one more at most for every click that found
\* one, for any number of sockets, clicks and timers: losses, refusals and
\* timers alone never leave a connection that the page does not hold.
THEOREM ConnectionsStayAccounted == PageSpec => []ConnectionsAccounted
  <1>1. ConnInv => ConnectionsAccounted
    <2> SUFFICES ASSUME ConnInv PROVE ConnectionsAccounted
      OBVIOUS
    <2>1. IsFiniteSet(Active) /\ Cardinality(Active \ {socket}) <= clicks /\ clicks \in Nat
      BY DEF ConnInv, ConnTypes, Accounted
    <2>2. Live \subseteq Active
      BY ActiveSplit DEF ConnInv
    <2>3. Cardinality(Live) <= 1 + clicks
      <3>1. /\ Cardinality(Active) \in Nat /\ Cardinality(Active) <= clicks + 1
            /\ IsFiniteSet(Live) /\ Cardinality(Live) <= Cardinality(Active)
        BY <2>1, <2>2, Held
      <3> QED
        BY <2>1, <3>1, FS_CardinalityType
    <2>4. ASSUME clicks = 0, NEW s \in Live
          PROVE  socket = s
      <3>1. IsFiniteSet(Active \ {socket})
        BY <2>1, FS_Subset
      <3>2. Active \ {socket} = {}
        BY <2>1, <2>4, <3>1, FS_CardinalityType, FS_EmptySet
      <3> QED
        BY <2>2, <2>4, <3>2
    <2> QED
      BY <2>3, <2>4 DEF ConnectionsAccounted
  <1> QED
    BY <1>1, InitConn, ConnNext, PTL DEF PageSpec

-----------------------------------------------------------------------------

\* The misspelt variable is never set, so every message redraws every box.
DrawInv == lastNumLights = NoNumber /\ DrawnAsTold

\* The boxes are the lights of the last message, for messages about any number
\* of lights in any order.
THEOREM AlwaysDrawnAsTold == PageSpec => []DrawnAsTold
  <1>1. PageInit => DrawInv
    BY DEF PageInit, DrawInv, DrawnAsTold
  <1>2. DrawInv /\ [PageNext]_pageVars => DrawInv'
    <2> SUFFICES ASSUME DrawInv, [PageNext]_pageVars PROVE DrawInv'
      OBVIOUS
    <2>1. ASSUME NEW s \in Sockets, NEW data \in Messages, OnMessage(s, data)
          PROVE  DrawInv'
      <3>1. Len(data) \in Nat
        BY PageAssumption
      <3>2. lastNumLights # Len(data)
        BY <3>1 DEF DrawInv, NoNumber
      <3> QED
        BY <2>1, <3>2 DEF OnMessage, updateViz, Drawn, DrawInv, DrawnAsTold
    <2>2. ASSUME UNCHANGED vizVars
          PROVE  DrawInv'
      BY <2>2 DEF vizVars, DrawInv, DrawnAsTold
    <2>3. CASE ClickYhdista \/ Timer
      BY <2>2, <2>3 DEF ClickYhdista, Timer, yhdista, vizVars
    <2>4. CASE katkaise
      BY <2>2, <2>4 DEF katkaise, vizVars
    <2>5. ASSUME NEW s \in Sockets, OnOpen(s) \/ Drop(s) \/ OnClose(s)
          PROVE  DrawInv'
      BY <2>2, <2>5 DEF OnOpen, Drop, OnClose, vizVars
    <2>6. CASE UNCHANGED pageVars
      BY <2>2, <2>6 DEF pageVars, vizVars
    <2> QED
      BY <2>1, <2>3, <2>4, <2>5, <2>6 DEF PageNext
  <1>3. DrawInv => DrawnAsTold
    BY DEF DrawInv
  <1> QED
    BY <1>1, <1>2, <1>3, PTL DEF PageSpec

=============================================================================
