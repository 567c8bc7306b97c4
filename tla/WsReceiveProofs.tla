-------------------------- MODULE WsReceiveProofs ---------------------------
(***************************************************************************)
(* The RECEIVE callbacks get exactly the payload of the frames, however    *)
(* reads cut the byte stream, and the server closes a connection for a     *)
(* frame that this build refuses, or a close frame, and for no other       *)
(* reason.  From the first refused frame on nothing is received.           *)
(*                                                                         *)
(* Streams are sequences of pieces put together by FlattenSeq.  What that  *)
(* recursive function computes is shown with least counterexamples; the    *)
(* rest of the module uses FlatAppend and FlatPieces only.                 *)
(***************************************************************************)
EXTENDS WsReceive, SubsequencesProofs, SequenceTheorems

-----------------------------------------------------------------------------
(* FlattenSeq                                                              *)

\* g puts together the first n pieces of s.
Joins(g, s, n) ==
    g = [i \in 1..n |-> IF i = 1 THEN s[i] ELSE g[i - 1] \o s[i]]

LEMMA JoinsAt ==
    ASSUME NEW s, NEW n, NEW g, Joins(g, s, n), NEW i \in 1..n
    PROVE  g[i] = IF i = 1 THEN s[i] ELSE g[i - 1] \o s[i]
BY Zenon DEF Joins

LEMMA FlattenIsJoin ==
    ASSUME NEW s, Len(s) # 0
    PROVE  FlattenSeq(s) = (CHOOSE g : Joins(g, s, Len(s)))[Len(s)]
BY DEF FlattenSeq, Joins

LEMMA JoinOneMore ==
    ASSUME NEW s, NEW n \in Nat, NEW g, Joins(g, s, n)
    PROVE  \E h : Joins(h, s, n + 1)
<1> DEFINE h == [i \in 1..(n + 1) |->
                    IF i <= n THEN g[i] ELSE IF i = 1 THEN s[i] ELSE g[i - 1] \o s[i]]
<1>1. \A i \in 1..n : g[i] = IF i = 1 THEN s[i] ELSE g[i - 1] \o s[i]
    BY JoinsAt
<1>2. \A i \in 1..(n + 1) : h[i] = IF i = 1 THEN s[i] ELSE h[i - 1] \o s[i]
    <2> SUFFICES ASSUME NEW i \in 1..(n + 1)
                 PROVE  h[i] = IF i = 1 THEN s[i] ELSE h[i - 1] \o s[i]
        OBVIOUS
    <2>1. CASE i = 1
        BY <1>1, <2>1
    <2>2. CASE i # 1
        <3>1. i - 1 \in 1..n /\ i - 1 \in 1..(n + 1)
            BY <2>2
        <3>2. h[i - 1] = g[i - 1]
            BY <3>1
        <3>3. h[i] = g[i - 1] \o s[i]
            <4>1. CASE i <= n
                <5>1. h[i] = g[i] /\ i \in 1..n
                    BY <4>1
                <5>2. QED
                    BY <1>1, <2>2, <5>1, Zenon
            <4>2. CASE ~(i <= n)
                BY <2>2, <4>2, Zenon
            <4>3. QED
                BY <4>1, <4>2
        <3>4. QED
            BY <2>2, <3>2, <3>3
    <2>3. QED
        BY <2>1, <2>2
<1> HIDE DEF h
<1>3. h = [i \in 1..(n + 1) |-> h[i]]
    BY DEF h
<1>4. Joins(h, s, n + 1)
    BY <1>2, <1>3 DEF Joins
<1>5. QED
    BY <1>4

LEMMA JoinExists ==
    ASSUME NEW s
    PROVE  \A n \in Nat : \E g : Joins(g, s, n)
<1> DEFINE Bad == {n \in Nat : ~\E g : Joins(g, s, n)}
<1>1. SUFFICES ASSUME Bad # {}
               PROVE  FALSE
    OBVIOUS
<1>2. PICK n \in Bad : \A m \in Bad : n <= m
    <2>1. Bad \in SUBSET Nat
        OBVIOUS
    <2>2. QED
        BY <1>1, <2>1, LeastNat
<1>3. CASE n = 0
    <2> DEFINE g == [i \in 1..0 |-> s[i]]
    <2>1. 1..0 = {}
        OBVIOUS
    <2>2. Joins(g, s, 0)
        BY <2>1 DEF Joins
    <2>3. QED
        BY <1>2, <1>3, <2>2
<1>4. CASE n # 0
    <2>1. n - 1 \in Nat /\ n - 1 \notin Bad
        BY <1>2, <1>4
    <2>2. PICK g : Joins(g, s, n - 1)
        BY <2>1
    <2>3. \E h : Joins(h, s, (n - 1) + 1)
        BY <2>1, <2>2, JoinOneMore
    <2>4. QED
        BY <1>2, <2>3
<1>5. QED
    BY <1>3, <1>4

\* Joins of the same pieces agree, and are sequences.
LEMMA JoinsAgree ==
    ASSUME NEW T, NEW s, NEW t, NEW n \in Nat, NEW m \in Nat, n <= m,
           \A i \in 1..n : s[i] = t[i] /\ s[i] \in Seq(T),
           NEW g, NEW h, Joins(g, s, n), Joins(h, t, m)
    PROVE  \A i \in 1..n : g[i] = h[i] /\ g[i] \in Seq(T)
<1> DEFINE Bad == {i \in 1..n : ~(g[i] = h[i] /\ g[i] \in Seq(T))}
<1>1. SUFFICES ASSUME Bad # {}
               PROVE  FALSE
    OBVIOUS
<1>2. PICK i \in Bad : \A j \in Bad : i <= j
    <2>1. Bad \in SUBSET Nat
        OBVIOUS
    <2>2. QED
        BY <1>1, <2>1, LeastNat
<1>3. i \in 1..n /\ i \in 1..m
    BY <1>2
<1>4. /\ g[i] = IF i = 1 THEN s[i] ELSE g[i - 1] \o s[i]
      /\ h[i] = IF i = 1 THEN t[i] ELSE h[i - 1] \o t[i]
    <2>1. g[i] = IF i = 1 THEN s[i] ELSE g[i - 1] \o s[i]
        BY <1>3, JoinsAt
    <2>2. h[i] = IF i = 1 THEN t[i] ELSE h[i - 1] \o t[i]
        BY <1>3, JoinsAt
    <2>3. QED
        BY <2>1, <2>2
<1>5. CASE i = 1
    BY <1>2, <1>3, <1>4, <1>5
<1>6. CASE i # 1
    <2>1. i - 1 \in 1..n /\ i - 1 \notin Bad
        BY <1>2, <1>6
    <2>2. g[i - 1] = h[i - 1] /\ g[i - 1] \in Seq(T)
        BY <2>1
    <2>3. s[i] = t[i] /\ s[i] \in Seq(T)
        BY <1>3
    <2>4. g[i - 1] \o s[i] \in Seq(T)
        BY <2>2, <2>3, ConcatProperties
    <2>5. QED
        BY <1>2, <1>4, <1>6, <2>2, <2>3, <2>4
<1>7. QED
    BY <1>5, <1>6

LEMMA FlatEmpty == FlattenSeq(<<>>) = <<>>
BY DEF FlattenSeq

\* A piece more is put behind the others.
LEMMA FlatAppend ==
    ASSUME NEW T, NEW s \in Seq(Seq(T)), NEW x \in Seq(T)
    PROVE  /\ FlattenSeq(s) \in Seq(T)
           /\ FlattenSeq(Append(s, x)) = FlattenSeq(s) \o x
<1> DEFINE t == Append(s, x)
           n == Len(s)
<1>1. /\ n \in Nat
      /\ t \in Seq(Seq(T)) /\ Len(t) = n + 1 /\ t[n + 1] = x
      /\ \A i \in 1..n : s[i] = t[i] /\ s[i] \in Seq(T)
    BY AppendProperties
<1> HIDE DEF t, n
<1>2. PICK h : h = (CHOOSE g : Joins(g, t, n + 1))
    OBVIOUS
<1>3. Joins(h, t, n + 1)
    <2>1. n + 1 \in Nat
        BY <1>1
    <2>2. \E g : Joins(g, t, n + 1)
        BY <2>1, JoinExists
    <2>3. QED
        BY <1>2, <2>2
<1>4. FlattenSeq(t) = h[n + 1]
    <2>1. Len(t) # 0
        BY <1>1
    <2>2. FlattenSeq(t) = (CHOOSE g : Joins(g, t, Len(t)))[Len(t)]
        BY <2>1, FlattenIsJoin
    <2>3. QED
        BY <1>1, <1>2, <2>2
<1>5. h[n + 1] = IF n = 0 THEN x ELSE h[n] \o x
    <2>1. h[n + 1] = IF n + 1 = 1 THEN t[n + 1] ELSE h[(n + 1) - 1] \o t[n + 1]
        <3>1. n + 1 \in 1..(n + 1)
            BY <1>1
        <3>2. QED
            BY <1>3, <3>1, JoinsAt
    <2>2. QED
        BY <1>1, <2>1
<1>6. CASE n = 0
    <2>1. s = <<>>
        BY <1>6, EmptySeq DEF n
    <2>2. FlattenSeq(s) = <<>>
        BY <2>1, FlatEmpty
    <2>3. <<>> \o x = x /\ <<>> \in Seq(T)
        BY ConcatEmptySeq, EmptySeq
    <2>4. QED
        BY <1>4, <1>5, <1>6, <2>2, <2>3 DEF t
<1>7. CASE n # 0
    <2>1. PICK g : g = (CHOOSE f : Joins(f, s, n))
        OBVIOUS
    <2>2. Joins(g, s, n)
        BY <1>1, <2>1, JoinExists
    <2>3. FlattenSeq(s) = g[n]
        BY <1>7, <2>1, FlattenIsJoin DEF n
    <2>4. \A i \in 1..n : g[i] = h[i] /\ g[i] \in Seq(T)
        <3>1. n + 1 \in Nat /\ n <= n + 1
            BY <1>1
        <3>2. QED
            BY <1>1, <1>3, <2>2, <3>1, JoinsAgree
    <2>5. n \in 1..n
        BY <1>1, <1>7
    <2>6. g[n] = h[n] /\ g[n] \in Seq(T)
        BY <2>4, <2>5
    <2>7. QED
        BY <1>4, <1>5, <1>7, <2>3, <2>6 DEF t
<1>8. QED
    BY <1>6, <1>7

\* Where the j-th piece of s ends.
Ends(s, j) == Len(FlattenSeq(SubSeq(s, 1, j)))

LEMMA FirstPieces ==
    ASSUME NEW S, NEW s \in Seq(S), NEW j \in 1..Len(s)
    PROVE  /\ SubSeq(s, 1, j - 1) \in Seq(S)
           /\ s[j] \in S
           /\ SubSeq(s, 1, j) = Append(SubSeq(s, 1, j - 1), s[j])
<1>1. SubSeq(s, 1, j - 1) \in Seq(S)
    BY SubSeqProperties
<1>2. SubSeq(s, 1, j) = SubSeq(s, 1, j - 1) \o <<s[j]>>
    <2>1. 1 \in 1..Len(s) /\ j \in 1..Len(s)
        OBVIOUS
    <2>2. QED
        BY <2>1, SubSeqRecursiveSecond
<1>3. QED
    BY <1>1, <1>2, AppendIsConcat

LEMMA ConcatAt ==
    ASSUME NEW T, NEW a \in Seq(T), NEW b \in Seq(T), NEW c, c = a \o b
    PROVE  /\ c \in Seq(T)
           /\ Len(a) \in Nat /\ Len(b) \in Nat
           /\ Len(c) = Len(a) + Len(b)
           /\ \A i \in 1..Len(a) : c[i] = a[i]
           /\ \A i \in 1..Len(b) : c[Len(a) + i] = b[i]
<1>1. /\ c \in Seq(T)
      /\ Len(c) = Len(a) + Len(b)
      /\ \A i \in 1..(Len(a) + Len(b)) :
            c[i] = IF i <= Len(a) THEN a[i] ELSE b[i - Len(a)]
    BY ConcatProperties
<1>2. Len(a) \in Nat /\ Len(b) \in Nat
    BY LenProperties
<1>3. QED
    BY <1>1, <1>2

\* One piece more.
LEMMA FlatStep ==
    ASSUME NEW T, NEW s \in Seq(Seq(T)), NEW j \in 1..Len(s)
    PROVE  /\ FlattenSeq(SubSeq(s, 1, j - 1)) \in Seq(T)
           /\ FlattenSeq(SubSeq(s, 1, j)) = FlattenSeq(SubSeq(s, 1, j - 1)) \o s[j]
           /\ FlattenSeq(SubSeq(s, 1, j)) \in Seq(T)
           /\ s[j] \in Seq(T) /\ Len(s[j]) \in Nat
           /\ Ends(s, j - 1) \in Nat /\ Ends(s, j) \in Nat
           /\ Ends(s, j) = Ends(s, j - 1) + Len(s[j])
           /\ \A i \in 1..Ends(s, j - 1) :
                 FlattenSeq(SubSeq(s, 1, j))[i] = FlattenSeq(SubSeq(s, 1, j - 1))[i]
           /\ \A i \in 1..Len(s[j]) :
                 FlattenSeq(SubSeq(s, 1, j))[Ends(s, j - 1) + i] = s[j][i]
<1>1. /\ SubSeq(s, 1, j - 1) \in Seq(Seq(T))
      /\ s[j] \in Seq(T)
      /\ SubSeq(s, 1, j) = Append(SubSeq(s, 1, j - 1), s[j])
    BY FirstPieces
<1>2. /\ FlattenSeq(SubSeq(s, 1, j - 1)) \in Seq(T)
      /\ FlattenSeq(SubSeq(s, 1, j)) = FlattenSeq(SubSeq(s, 1, j - 1)) \o s[j]
    BY <1>1, FlatAppend
<1>3. PICK c : c = FlattenSeq(SubSeq(s, 1, j))
    OBVIOUS
<1>4. PICK a \in Seq(T) : a = FlattenSeq(SubSeq(s, 1, j - 1))
    BY <1>2
<1>5. PICK b \in Seq(T) : b = s[j]
    BY <1>1
<1>6. c = a \o b
    BY <1>2, <1>3, <1>4, <1>5
<1>7. Ends(s, j - 1) = Len(a) /\ Ends(s, j) = Len(c)
    BY <1>3, <1>4 DEF Ends
<1>8. /\ c \in Seq(T)
      /\ Len(a) \in Nat /\ Len(b) \in Nat
      /\ Len(c) = Len(a) + Len(b)
      /\ \A i \in 1..Len(a) : c[i] = a[i]
      /\ \A i \in 1..Len(b) : c[Len(a) + i] = b[i]
    BY <1>6, ConcatAt
<1>9. Len(c) \in Nat
    BY <1>8
<1>10. QED
    BY <1>2, <1>3, <1>4, <1>5, <1>7, <1>8, <1>9, Zenon

\* What the first pieces make is the beginning of what more of them make.
LEMMA FlatBeginning ==
    ASSUME NEW T, NEW s \in Seq(Seq(T)), NEW j \in 0..Len(s)
    PROVE  \A l \in j..Len(s) :
               /\ Ends(s, j) <= Ends(s, l)
               /\ \A i \in 1..Ends(s, j) :
                     FlattenSeq(SubSeq(s, 1, l))[i] = FlattenSeq(SubSeq(s, 1, j))[i]
<1> DEFINE F(l) == FlattenSeq(SubSeq(s, 1, l))
           Good(l) == /\ Ends(s, j) <= Ends(s, l)
                      /\ \A i \in 1..Ends(s, j) : F(l)[i] = F(j)[i]
           Bad == {l \in j..Len(s) : ~Good(l)}
<1>1. SUFFICES ASSUME Bad # {}
               PROVE  FALSE
    OBVIOUS
<1>2. Ends(s, j) \in Nat
    <2>1. CASE j = 0
        <3>1. SubSeq(s, 1, 0) = <<>>
            BY SubSeqEmpty
        <3>2. QED
            BY <2>1, <3>1, FlatEmpty, EmptySeq DEF Ends
    <2>2. CASE j # 0
        <3>1. j \in 1..Len(s)
            BY <2>2
        <3>2. QED
            BY <3>1, FlatStep, LenProperties DEF Ends
    <2>3. QED
        BY <2>1, <2>2
<1>3. PICK l \in Bad : \A m \in Bad : l <= m
    <2>1. Bad \in SUBSET Nat
        OBVIOUS
    <2>2. QED
        BY <1>1, <2>1, LeastNat
<1>4. l \in j..Len(s) /\ ~Good(l)
    BY <1>3
<1>5. l # j
    BY <1>2, <1>4
<1>6. l - 1 \in j..Len(s) /\ l - 1 \notin Bad /\ l \in 1..Len(s)
    BY <1>3, <1>4, <1>5
<1>7. Good(l - 1)
    BY <1>6
<1>8. /\ Ends(s, l - 1) \in Nat
      /\ Ends(s, l - 1) <= Ends(s, l)
      /\ \A i \in 1..Ends(s, l - 1) : F(l)[i] = F(l - 1)[i]
    <2>1. /\ Len(s[l]) \in Nat
          /\ Ends(s, l - 1) \in Nat /\ Ends(s, l) \in Nat
          /\ Ends(s, l) = Ends(s, l - 1) + Len(s[l])
          /\ \A i \in 1..Ends(s, l - 1) : F(l)[i] = F(l - 1)[i]
        <3>1. l \in 1..Len(s)
            BY <1>6
        <3>2. QED
            BY <3>1, FlatStep, Zenon
    <2>2. QED
        BY <2>1
<1>9. Ends(s, j) <= Ends(s, l)
    <2>1. Ends(s, j) <= Ends(s, l - 1) /\ Ends(s, l - 1) <= Ends(s, l)
        BY <1>7, <1>8
    <2>2. Ends(s, l) \in Nat
        BY <1>6, FlatStep
    <2>3. QED
        BY <1>2, <1>8, <2>1, <2>2
<1>10. \A i \in 1..Ends(s, j) : F(l)[i] = F(j)[i]
    <2> SUFFICES ASSUME NEW i \in 1..Ends(s, j)
                 PROVE  F(l)[i] = F(j)[i]
        OBVIOUS
    <2>1. i \in 1..Ends(s, l - 1)
        BY <1>2, <1>7, <1>8
    <2>2. F(l)[i] = F(l - 1)[i]
        BY <1>8, <2>1
    <2>3. F(l - 1)[i] = F(j)[i]
        BY <1>7
    <2>4. QED
        BY <2>2, <2>3
<1>11. QED
    BY <1>4, <1>9, <1>10

\* Every piece is found in the whole, behind the pieces before it.
LEMMA FlatPieces ==
    ASSUME NEW T, NEW s \in Seq(Seq(T))
    PROVE  /\ FlattenSeq(s) \in Seq(T)
           /\ Ends(s, 0) = 0
           /\ Ends(s, Len(s)) = Len(FlattenSeq(s))
           /\ \A j \in 0..Len(s) : Ends(s, j) \in Nat
           /\ \A j \in 1..Len(s) : /\ Len(s[j]) \in Nat
                                   /\ Ends(s, j) = Ends(s, j - 1) + Len(s[j])
           /\ \A j \in 0..Len(s) : \A l \in j..Len(s) : Ends(s, j) <= Ends(s, l)
           /\ \A j \in 0..Len(s) : \A i \in 1..Ends(s, j) :
                 FlattenSeq(s)[i] = FlattenSeq(SubSeq(s, 1, j))[i]
           /\ \A j \in 1..Len(s) : \A i \in 1..Len(s[j]) :
                 FlattenSeq(s)[Ends(s, j - 1) + i] = s[j][i]
<1>1. SubSeq(s, 1, Len(s)) = s /\ Len(s) \in Nat
    BY SubSeqFull, LenProperties
<1>2. Ends(s, 0) = 0 /\ SubSeq(s, 1, 0) = <<>>
    <2>1. SubSeq(s, 1, 0) = <<>>
        BY SubSeqEmpty
    <2>2. QED
        BY <2>1, FlatEmpty, EmptySeq DEF Ends
<1>3. FlattenSeq(s) \in Seq(T)
    <2>1. CASE Len(s) = 0
        BY <1>1, <1>2, <2>1, FlatEmpty, EmptySeq
    <2>2. CASE Len(s) # 0
        <3>1. Len(s) \in 1..Len(s)
            BY <1>1, <2>2
        <3>2. QED
            BY <1>1, <3>1, FlatStep
    <2>3. QED
        BY <2>1, <2>2
<1>4. Ends(s, Len(s)) = Len(FlattenSeq(s))
    BY <1>1 DEF Ends
<1>5. \A j \in 1..Len(s) : /\ Len(s[j]) \in Nat
                           /\ Ends(s, j - 1) \in Nat /\ Ends(s, j) \in Nat
                           /\ Ends(s, j) = Ends(s, j - 1) + Len(s[j])
    BY FlatStep
<1>6. \A j \in 0..Len(s) : Ends(s, j) \in Nat
    <2> SUFFICES ASSUME NEW j \in 0..Len(s)
                 PROVE  Ends(s, j) \in Nat
        OBVIOUS
    <2>1. CASE j = 0
        BY <1>2, <2>1
    <2>2. CASE j # 0
        <3>1. j \in 1..Len(s)
            BY <1>1, <2>2
        <3>2. QED
            BY <1>5, <3>1
    <2>3. QED
        BY <2>1, <2>2
<1>7. \A j \in 0..Len(s) : \A l \in j..Len(s) :
         /\ Ends(s, j) <= Ends(s, l)
         /\ \A i \in 1..Ends(s, j) :
               FlattenSeq(SubSeq(s, 1, l))[i] = FlattenSeq(SubSeq(s, 1, j))[i]
    BY FlatBeginning
<1>8. \A j \in 0..Len(s) : \A i \in 1..Ends(s, j) :
         FlattenSeq(s)[i] = FlattenSeq(SubSeq(s, 1, j))[i]
    <2> SUFFICES ASSUME NEW j \in 0..Len(s), NEW i \in 1..Ends(s, j)
                 PROVE  FlattenSeq(s)[i] = FlattenSeq(SubSeq(s, 1, j))[i]
        OBVIOUS
    <2>1. Len(s) \in j..Len(s)
        BY <1>1
    <2>2. QED
        BY <1>1, <1>7, <2>1
<1>9. \A j \in 1..Len(s) : \A i \in 1..Len(s[j]) :
         FlattenSeq(s)[Ends(s, j - 1) + i] = s[j][i]
    <2> SUFFICES ASSUME NEW j \in 1..Len(s), NEW i \in 1..Len(s[j])
                 PROVE  FlattenSeq(s)[Ends(s, j - 1) + i] = s[j][i]
        OBVIOUS
    <2> DEFINE F(l) == FlattenSeq(SubSeq(s, 1, l))
    <2>1. F(j)[Ends(s, j - 1) + i] = s[j][i]
        BY FlatStep
    <2>2. j \in 0..Len(s)
        BY <1>1
    <2>3. Ends(s, j - 1) + i \in 1..Ends(s, j)
        BY <1>5
    <2>4. FlattenSeq(s)[Ends(s, j - 1) + i] = F(j)[Ends(s, j - 1) + i]
        BY <1>8, <2>2, <2>3
    <2>5. QED
        BY <2>1, <2>4
<1>10. QED
    BY <1>2, <1>3, <1>4, <1>5, <1>6, <1>7, <1>8, <1>9

-----------------------------------------------------------------------------
(* The inductive invariant                                                 *)

\* The stream, piece by piece: the frames as bytes, and their data.
Encodings(frames)  == [i \in DOMAIN frames |-> Encode(frames[i])]
DataPieces(frames) ==
    [i \in DOMAIN frames |-> IF IsData(frames[i]) THEN frames[i].payload ELSE <<>>]

Stream(frames) == FlattenSeq(Encodings(frames))

HeaderLen(f) == 2 + f.ext + (IF f.masked THEN 4 ELSE 0)

WsFields ==
    [state : {"NEW", "LEN", "LENEXT", "KEY", "PAYLOAD"}, opcode : 0..15,
     final : BOOLEAN, continuation_possible : BOOLEAN, owed_a_fin : BOOLEAN,
     masked : BOOLEAN, need : Nat, rx_packet_length : Nat,
     mask : [0..3 -> Byte], mask_idx : 0..3, rx_ubuf : Seq(Byte)]

WsTypes ==
    /\ wire \in Seq(Byte) /\ buf \in Seq(Byte)
    /\ ws \in WsFields
    /\ pong \in Seq(Seq(Byte)) /\ pongs \in Seq(Seq(Byte))
    /\ open \in {"established", "returned_close"}
    /\ received \in Seq(Seq(Byte))
    /\ sent \in Seq(Frames)

\* b and then c are the stream S from position p on.
BytesFrom(p, b, c, S) ==
    /\ p + Len(b) + Len(c) = Len(S)
    /\ \A i \in 1..Len(b) : b[i] = S[p + i]
    /\ \A i \in 1..Len(c) : c[i] = S[p + Len(b) + i]

\* What was got is the first n bytes of the data.
FirstBytes(got, n, data) == Len(got) = n /\ \A i \in 1..n : got[i] = data[i]

\* The flags know whether a message is unfinished after n frames.
FlagsAfter(w, frames, n) ==
    /\ w.continuation_possible = InMessage(frames, n)
    /\ w.owed_a_fin = InMessage(frames, n)

\* The first byte of the k-th frame is no reason to refuse it.
StartsLegal(frames, k) ==
    LET f == frames[k]
    IN  /\ f.rsv \in {0, 4}
        /\ f.opcode \in {CONTINUATION, TEXT, BINARY, CLOSE, PING, PONG}
        /\ IF IsControl(f.opcode) THEN f.final
           ELSE (f.opcode = CONTINUATION) <=> InMessage(frames, k - 1)

\* The header of f has been read up to the key.
LengthKnown(w, f) ==
    /\ ~f.bit63
    /\ IsData(f) \/ f.ext = 0
    /\ w.rx_packet_length <= Len(f.payload)

\* The parser's fields when the first o bytes of f have been read.
AfterFirst(w, f, o) ==
    w.state = "LEN" /\ o = 1 /\ w.mask = ZeroKey /\ w.rx_ubuf = <<>>

InLength(w, f, o) ==
    /\ w.state = "LENEXT" /\ w.need \in 1..f.ext /\ o = 2 + f.ext - w.need
    /\ IsData(f)
    /\ w.masked = f.masked
    /\ w.rx_packet_length = IF w.need = 1 THEN Len(f.payload) \div 256 ELSE 0
    /\ w.need < 8 => ~f.bit63
    /\ w.mask = ZeroKey /\ w.rx_ubuf = <<>>

InKey(w, f, o) ==
    /\ w.state = "KEY" /\ w.need \in 1..4 /\ o = 6 + f.ext - w.need
    /\ LengthKnown(w, f)
    /\ w.rx_packet_length = Len(f.payload)
    /\ f.masked
    /\ \A j \in 0..3 : j < 4 - w.need => w.mask[j] = f.key[j]
    /\ w.rx_ubuf = <<>>

InPayload(w, f, o) ==
    /\ w.state = "PAYLOAD"
    /\ o = HeaderLen(f) + Len(f.payload) - w.rx_packet_length
    /\ LengthKnown(w, f)
    /\ IF f.masked THEN /\ w.mask = f.key
                        /\ w.mask_idx = (Len(f.payload) - w.rx_packet_length) % 4
       ELSE w.mask = ZeroKey
    /\ IF IsData(f) THEN w.rx_ubuf = <<>>
       ELSE /\ w.rx_packet_length > 0
            /\ w.rx_ubuf = SubSeq(f.payload, 1, Len(f.payload) - w.rx_packet_length)

InFrame(w, f, o) ==
    /\ w.opcode = f.opcode
    /\ AfterFirst(w, f, o) \/ InLength(w, f, o) \/ InKey(w, f, o) \/ InPayload(w, f, o)

\* How much of f has been given to the callback.
Delivered(w, f) ==
    IF w.state = "PAYLOAD" /\ IsData(f) THEN Len(f.payload) - w.rx_packet_length ELSE 0

\* k frames have been parsed, all legal ones, and o bytes of the next.
BetweenFrames(k, o) ==
    /\ ws.state = "NEW" /\ o = 0
    /\ ws.rx_ubuf = <<>>
    /\ FlagsAfter(ws, sent, k)
    /\ FirstBytes(FlattenSeq(received), Ends(DataPieces(sent), k), DataOf(sent))

WithinFrame(k, o) ==
    /\ k < Len(sent)
    /\ StartsLegal(sent, k + 1)
    /\ InFrame(ws, sent[k + 1], o)
    /\ FlagsAfter(ws, sent, k + 1)
    /\ FirstBytes(FlattenSeq(received),
                  Ends(DataPieces(sent), k) + Delivered(ws, sent[k + 1]), DataOf(sent))

Parsing(k, o) ==
    /\ \A i \in 1..k : LegalFrame(sent, i)
    /\ BytesFrom(Ends(Encodings(sent), k) + o, buf, wire, Stream(sent))
    /\ BetweenFrames(k, o) \/ WithinFrame(k, o)

\* The answers are the payloads of pings among the first k frames, in order.
Echo(answers, frames, k) ==
    \E ping \in [DOMAIN answers -> 1..k] :
        /\ \A i \in DOMAIN answers : /\ frames[ping[i]].opcode = PING
                                     /\ answers[i] = frames[ping[i]].payload
        /\ \A i, j \in DOMAIN answers : i < j => ping[i] < ping[j]

ParsedTo(k, o) ==
    /\ Parsing(k, o)
    /\ open = "established" => Echo(pongs \o pong, sent, k)

\* While the client is served, the parser has a place in the stream.
InStep ==
    /\ WsTypes
    /\ \E k \in 0..Len(sent), o \in Nat : ParsedTo(k, o)
    /\ open = "returned_close" => \E i \in DOMAIN sent : sent[i].opcode = CLOSE
    /\ SplitsExplained
    /\ PongsEcho

\* The first n bytes of data were got, and they are of l legal frames.
Got(l, n) ==
    /\ \A i \in 1..l : LegalFrame(sent, i)
    /\ n <= Ends(DataPieces(sent), l)
    /\ FirstBytes(FlattenSeq(received), n, DataOf(sent))

Cause ==
    \/ \E i \in DOMAIN sent : ~LegalFrame(sent, i)
    \/ open = "closed" /\ \E i \in DOMAIN sent : sent[i].opcode = CLOSE

\* After that there was a reason to close; where the parser is, is not known.
OutOfStep ==
    /\ Refusing \/ open = "closed"
    /\ sent \in Seq(Frames) /\ received \in Seq(Seq(Byte))
    /\ \E l \in 0..Len(sent), n \in Nat : Got(l, n)
    /\ Cause
    /\ SplitsExplained
    /\ PongsEcho

WsInv == InStep \/ OutOfStep

-----------------------------------------------------------------------------
(* Frames as bytes                                                         *)

LEMMA FnIsSeq ==
    ASSUME NEW T, NEW n \in Nat, NEW g \in [1..n -> T]
    PROVE  /\ g \in Seq(T) /\ Len(g) = n /\ DOMAIN g = 1..n
           /\ \A i \in 1..n : g[i] \in T
OBVIOUS

LEMMA FrameNumbers ==
    ASSUME NEW f \in Frames
    PROVE  /\ f.opcode \in 0..15 /\ f.rsv \in 0..7 /\ f.ext \in {0, 2, 8}
           /\ Len(f.payload) \in Nat /\ Len(f.payload) < 65536
           /\ f.ext = 0 => Len(f.payload) < 126
<1>1. f \in Frame /\ Len(f.payload) < IF f.ext = 0 THEN 126 ELSE 65536
    BY WsReceiveAssumption
<1>2. f.opcode \in 0..15 /\ f.rsv \in 0..7 /\ f.ext \in {0, 2, 8} /\ f.payload \in Seq(Byte)
    BY <1>1 DEF Frame
<1>3. Len(f.payload) \in Nat
    BY <1>2, LenProperties
<1>4. QED
    BY <1>1, <1>2, <1>3

LEMMA FrameFlags ==
    ASSUME NEW f \in Frames
    PROVE  /\ f.final \in BOOLEAN /\ f.bit63 \in BOOLEAN /\ f.masked \in BOOLEAN
           /\ f.bit63 => f.ext = 8
<1>1. f \in Frame /\ (f.bit63 => f.ext = 8)
    BY WsReceiveAssumption
<1>2. f.final \in BOOLEAN /\ f.bit63 \in BOOLEAN /\ f.masked \in BOOLEAN
    BY <1>1 DEF Frame
<1>3. QED
    BY <1>1, <1>2

LEMMA NoBit63 ==
    ASSUME NEW f \in Frames, f.ext # 8
    PROVE  ~f.bit63
BY FrameFlags, Zenon

LEMMA FramePayload ==
    ASSUME NEW f \in Frames
    PROVE  /\ f.payload \in Seq(Byte)
           /\ DOMAIN f.payload = 1..Len(f.payload)
           /\ \A i \in 1..Len(f.payload) : f.payload[i] \in Byte
           /\ f.key \in [0..3 -> Byte]
<1>1. f \in Frame
    BY WsReceiveAssumption
<1>2. f.payload \in Seq(Byte) /\ f.key \in [0..3 -> Byte]
    BY <1>1 DEF Frame
<1>3. DOMAIN f.payload = 1..Len(f.payload)
    BY <1>2, LenProperties
<1>4. \A i \in 1..Len(f.payload) : f.payload[i] \in Byte
    BY <1>2, ElementOfSeq
<1>5. QED
    BY <1>2, <1>3, <1>4, Zenon

\* The bytes of a header, by what they say.
FirstByteIs(final, rsv, opcode) == (IF final THEN 128 ELSE 0) + 16 * rsv + opcode

LengthByteIs(masked, ext, n) ==
    (IF masked THEN 128 ELSE 0) + (IF ext = 0 THEN n ELSE IF ext = 2 THEN 126 ELSE 127)

ExtendedByteIs(ext, bit63, n, i) ==
    IF i < ext - 1 THEN IF i = 1 /\ bit63 THEN 128 ELSE 0
    ELSE IF i < ext THEN n \div 256 ELSE n % 256

LEMMA FirstByteRead ==
    ASSUME NEW final, NEW rsv \in 0..7, NEW opcode \in 0..15,
           NEW b, b = FirstByteIs(final, rsv, opcode)
    PROVE  /\ b \in Byte
           /\ b % 16 = opcode
           /\ (b \div 16) % 8 = rsv
           /\ (b >= 128) <=> final
BY DEF FirstByteIs, Byte

LEMMA LengthByteRead ==
    ASSUME NEW masked, NEW ext \in {0, 2, 8}, NEW n \in Nat, ext = 0 => n < 126,
           NEW b, b = LengthByteIs(masked, ext, n)
    PROVE  /\ b \in Byte
           /\ b % 128 = IF ext = 0 THEN n ELSE IF ext = 2 THEN 126 ELSE 127
           /\ (b >= 128) <=> masked
BY DEF LengthByteIs, Byte

LEMMA ExtendedByteRead ==
    ASSUME NEW ext \in {0, 2, 8}, NEW bit63, NEW n \in Nat, n < 65536, NEW i \in 1..ext,
           NEW b, b = ExtendedByteIs(ext, bit63, n, i)
    PROVE  /\ b \in Byte
           /\ i = ext => b = n % 256
           /\ i = ext - 1 => b = n \div 256
           /\ i < ext - 1 /\ ~(i = 1 /\ bit63) => b = 0
           /\ i < ext - 1 /\ i = 1 /\ bit63 => b = 128
BY DEF ExtendedByteIs, Byte

FirstByteOf(f)       == FirstByteIs(f.final, f.rsv, f.opcode)
LengthByteOf(f)      == LengthByteIs(f.masked, f.ext, Len(f.payload))
ExtendedByteOf(f, i) == ExtendedByteIs(f.ext, f.bit63, Len(f.payload), i)
MaskedByteOf(f, i) ==
    IF f.masked THEN Xor(f.payload[i], f.key[(i - 1) % 4]) ELSE f.payload[i]

LEMMA LengthBytesAt ==
    ASSUME NEW f \in Frames
    PROVE  /\ LengthBytes(f) \in Seq(Byte)
           /\ Len(LengthBytes(f)) = 1 + f.ext
           /\ LengthBytes(f)[1] = LengthByteOf(f)
           /\ \A i \in 1..f.ext : LengthBytes(f)[1 + i] = ExtendedByteOf(f, i)
<1> DEFINE first == <<LengthByteOf(f)>>
           more  == [i \in 1..f.ext |-> ExtendedByteOf(f, i)]
<1>1. LengthByteOf(f) \in Byte /\ f.ext \in Nat
    <2>1. /\ f.ext \in {0, 2, 8} /\ Len(f.payload) \in Nat
          /\ f.ext = 0 => Len(f.payload) < 126
        BY FrameNumbers
    <2>2. LengthByteOf(f) \in Byte
        <3>1. PICK n \in Nat : n = Len(f.payload) /\ (f.ext = 0 => n < 126)
            BY <2>1
        <3>2. PICK e \in {0, 2, 8} : e = f.ext
            BY <2>1
        <3>3. PICK b : b = LengthByteIs(f.masked, e, n)
            OBVIOUS
        <3>4. e = 0 => n < 126
            BY <3>1, <3>2
        <3>5. b \in Byte
            BY <3>3, <3>4, LengthByteRead
        <3>6. QED
            BY <3>1, <3>2, <3>3, <3>5 DEF LengthByteOf
    <2>3. QED
        BY <2>1, <2>2
<1>2. first \in Seq(Byte) /\ Len(first) = 1 /\ first[1] = LengthByteOf(f)
    BY <1>1
<1>3. CASE f.ext = 0
    <2>1. LengthBytes(f) = first
        BY <1>3 DEF LengthBytes, LengthByteOf, LengthByteIs
    <2>2. QED
        BY <1>2, <1>3, <2>1
<1>4. CASE f.ext # 0
    <2>1. \A i \in 1..f.ext : ExtendedByteOf(f, i) \in Byte
        <3>1. f.ext \in {0, 2, 8} /\ Len(f.payload) \in Nat /\ Len(f.payload) < 65536
            BY FrameNumbers
        <3>2. QED
            BY <3>1, ExtendedByteRead DEF ExtendedByteOf
    <2>2. more \in [1..f.ext -> Byte]
        BY <2>1
    <2>3. /\ more \in Seq(Byte) /\ Len(more) = f.ext
          /\ \A i \in 1..f.ext : more[i] = ExtendedByteOf(f, i)
        BY <1>1, <2>2, FnIsSeq
    <2>4. LengthBytes(f) = first \o more
        BY <1>4, Zenon DEF LengthBytes, LengthByteOf, LengthByteIs,
                              ExtendedByteOf, ExtendedByteIs
    <2> HIDE DEF first, more
    <2>5. PICK c : c = LengthBytes(f)
        OBVIOUS
    <2>6. /\ c \in Seq(Byte)
          /\ Len(c) = Len(first) + Len(more)
          /\ \A i \in 1..Len(first) : c[i] = first[i]
          /\ \A i \in 1..Len(more) : c[Len(first) + i] = more[i]
        <3>1. first \in Seq(Byte) /\ more \in Seq(Byte) /\ c = first \o more
            BY <1>2, <2>3, <2>4, <2>5
        <3>2. QED
            BY <3>1, ConcatAt
    <2>7. /\ c \in Seq(Byte) /\ Len(c) = 1 + f.ext /\ c[1] = LengthByteOf(f)
          /\ \A i \in 1..f.ext : c[1 + i] = ExtendedByteOf(f, i)
        <3>1. Len(first) = 1 /\ Len(more) = f.ext /\ f.ext \in Nat /\ 1 \in 1..1
            BY <1>1, <1>2, <2>3
        <3>2. Len(c) = 1 + f.ext /\ c[1] = first[1]
            BY <2>6, <3>1, Zenon
        <3>3. \A i \in 1..f.ext : c[1 + i] = more[i]
            BY <2>6, <3>1, Zenon
        <3>4. QED
            BY <1>2, <2>3, <2>6, <3>2, <3>3, Zenon
    <2>8. QED
        BY <2>5, <2>7
<1>5. QED
    BY <1>3, <1>4

\* Where the bytes of a frame are.
LEMMA EncodeAt ==
    ASSUME NEW f \in Frames
    PROVE  /\ Encode(f) \in Seq(Byte)
           /\ Len(Encode(f)) = HeaderLen(f) + Len(f.payload)
           /\ HeaderLen(f) \in Nat /\ HeaderLen(f) >= 2 + f.ext
           /\ Encode(f)[1] = FirstByteOf(f)
           /\ Encode(f)[2] = LengthByteOf(f)
           /\ \A i \in 1..f.ext : Encode(f)[2 + i] = ExtendedByteOf(f, i)
           /\ f.masked => \A i \in 1..4 : Encode(f)[2 + f.ext + i] = f.key[i - 1]
           /\ \A i \in 1..Len(f.payload) : Encode(f)[HeaderLen(f) + i] = MaskedByteOf(f, i)
<1> DEFINE m == IF f.masked THEN 4 ELSE 0
<1>1. PICK A : A = <<FirstByteOf(f)>>
    OBVIOUS
<1>2. PICK B : B = LengthBytes(f)
    OBVIOUS
<1>3. PICK C : C = IF f.masked THEN [i \in 1..4 |-> f.key[i - 1]] ELSE <<>>
    OBVIOUS
<1>4. PICK D : D = [i \in 1..Len(f.payload) |-> MaskedByteOf(f, i)]
    OBVIOUS
<1>5. Encode(f) = ((A \o B) \o C) \o D
    <2>1. DOMAIN f.payload = 1..Len(f.payload)
        BY FramePayload
    <2>2. QED
        BY <1>1, <1>2, <1>3, <1>4, <2>1, Zenon DEF Encode, FirstByteOf, FirstByteIs, MaskedByteOf
<1>6. A \in Seq(Byte) /\ Len(A) = 1 /\ A[1] = FirstByteOf(f)
    <2>1. FirstByteOf(f) \in Byte
        <3>1. f.rsv \in 0..7 /\ f.opcode \in 0..15
            BY FrameNumbers
        <3>2. QED
            BY <3>1, FirstByteRead DEF FirstByteOf
    <2>2. QED
        BY <1>1, <2>1
<1>7. /\ B \in Seq(Byte) /\ Len(B) = 1 + f.ext
      /\ B[1] = LengthByteOf(f)
      /\ \A i \in 1..f.ext : B[1 + i] = ExtendedByteOf(f, i)
    BY <1>2, LengthBytesAt
<1>8. /\ C \in Seq(Byte) /\ Len(C) = m
      /\ f.masked => \A i \in 1..4 : C[i] = f.key[i - 1]
    <2>1. CASE f.masked
        <3>1. C = [i \in 1..4 |-> f.key[i - 1]]
            BY <1>3, <2>1
        <3>2. \A i \in 1..4 : i - 1 \in 0..3
            OBVIOUS
        <3>3. C \in [1..4 -> Byte]
            BY <3>1, <3>2, FramePayload
        <3>4. C \in Seq(Byte) /\ Len(C) = 4
            BY <3>3, FnIsSeq
        <3>5. QED
            BY <2>1, <3>1, <3>4
    <2>2. CASE ~f.masked
        BY <1>3, <2>2, EmptySeq
    <2>3. QED
        BY <2>1, <2>2
<1>9. /\ D \in Seq(Byte) /\ Len(D) = Len(f.payload) /\ Len(f.payload) \in Nat
      /\ \A i \in 1..Len(f.payload) : D[i] = MaskedByteOf(f, i)
    <2>1. \A i \in 1..Len(f.payload) : MaskedByteOf(f, i) \in Byte
        <3> SUFFICES ASSUME NEW i \in 1..Len(f.payload)
                     PROVE  MaskedByteOf(f, i) \in Byte
            OBVIOUS
        <3>1. (i - 1) % 4 \in 0..3
            BY FrameNumbers
        <3>2. f.payload[i] \in Byte /\ f.key[(i - 1) % 4] \in Byte
            BY <3>1, FramePayload
        <3>3. QED
            BY <3>2, XorAssumption DEF MaskedByteOf
    <2>2. D \in [1..Len(f.payload) -> Byte]
        BY <1>4, <2>1
    <2>3. QED
        BY <1>4, <2>2, FrameNumbers, FnIsSeq
<1>10. PICK AB \in Seq(Byte) : AB = A \o B
    BY <1>6, <1>7, ConcatAt
<1>11. PICK ABC \in Seq(Byte) : ABC = AB \o C
    BY <1>8, <1>10, ConcatAt
<1>12. PICK E \in Seq(Byte) : E = ABC \o D
    BY <1>9, <1>11, ConcatAt
<1>13. /\ Len(AB) = 2 + f.ext
       /\ AB[1] = FirstByteOf(f)
       /\ AB[2] = LengthByteOf(f)
       /\ \A i \in 1..f.ext : AB[2 + i] = ExtendedByteOf(f, i)
    <2>1. /\ Len(AB) = Len(A) + Len(B)
          /\ \A i \in 1..Len(A) : AB[i] = A[i]
          /\ \A i \in 1..Len(B) : AB[Len(A) + i] = B[i]
        <3>1. A \in Seq(Byte) /\ B \in Seq(Byte)
            BY <1>6, <1>7
        <3>2. QED
            BY <1>10, <3>1, ConcatAt
    <2>2. f.ext \in Nat
        BY FrameNumbers
    <2>3. \A i \in 1..f.ext : AB[2 + i] = ExtendedByteOf(f, i)
        <3> SUFFICES ASSUME NEW i \in 1..f.ext
                     PROVE  AB[2 + i] = ExtendedByteOf(f, i)
            OBVIOUS
        <3>1. 1 + i \in 1..Len(B) /\ Len(A) + (1 + i) = 2 + i
            BY <1>6, <1>7, <2>2
        <3>2. AB[2 + i] = B[1 + i]
            BY <2>1, <3>1
        <3>3. QED
            BY <1>7, <3>2
    <2>4. Len(AB) = 2 + f.ext
        BY <1>6, <1>7, <2>1, <2>2
    <2>5. AB[1] = FirstByteOf(f) /\ AB[2] = LengthByteOf(f)
        <3>1. 1 \in 1..Len(A) /\ 1 \in 1..Len(B) /\ Len(A) + 1 = 2
            BY <1>6, <1>7, <2>2
        <3>2. AB[1] = A[1] /\ AB[2] = B[1]
            BY <2>1, <3>1
        <3>3. QED
            BY <1>6, <1>7, <3>2
    <2>6. QED
        BY <2>3, <2>4, <2>5
<1>14. /\ Len(ABC) = 2 + f.ext + m
       /\ \A i \in 1..Len(AB) : ABC[i] = AB[i]
       /\ \A i \in 1..m : ABC[2 + f.ext + i] = C[i]
    <2>1. /\ Len(ABC) = Len(AB) + Len(C)
          /\ \A i \in 1..Len(AB) : ABC[i] = AB[i]
          /\ \A i \in 1..Len(C) : ABC[Len(AB) + i] = C[i]
        <3>1. C \in Seq(Byte)
            BY <1>8
        <3>2. QED
            BY <1>11, <3>1, ConcatAt
    <2>2. Len(AB) = 2 + f.ext /\ Len(C) = m
        BY <1>8, <1>13
    <2>3. QED
        BY <2>1, <2>2, Zenon
<1>15. /\ Len(E) = Len(ABC) + Len(f.payload)
       /\ \A i \in 1..Len(ABC) : E[i] = ABC[i]
       /\ \A i \in 1..Len(f.payload) : E[Len(ABC) + i] = D[i]
    <2>1. D \in Seq(Byte) /\ Len(D) = Len(f.payload)
        BY <1>9
    <2>2. /\ Len(E) = Len(ABC) + Len(D)
          /\ \A i \in 1..Len(ABC) : E[i] = ABC[i]
          /\ \A i \in 1..Len(D) : E[Len(ABC) + i] = D[i]
        <3>1. D \in Seq(Byte)
            BY <2>1
        <3>2. QED
            BY <1>12, <3>1, ConcatAt
    <2>3. QED
        BY <2>1, <2>2, Zenon
<1>16. Len(ABC) = HeaderLen(f) /\ f.ext \in Nat /\ m \in {0, 4} /\ Len(ABC) \in Nat
    BY <1>14, FrameNumbers DEF HeaderLen
<1>17. E = Encode(f)
    BY <1>5, <1>10, <1>11, <1>12
<1>18. \A i \in 1..(2 + f.ext) : E[i] = AB[i]
    BY <1>13, <1>14, <1>15, <1>16
<1>19. f.masked => \A i \in 1..4 : E[2 + f.ext + i] = f.key[i - 1]
    <2> SUFFICES ASSUME f.masked, NEW i \in 1..4
                 PROVE  E[2 + f.ext + i] = f.key[i - 1]
        OBVIOUS
    <2>1. 2 + f.ext + i \in 1..Len(ABC)
        BY <1>14, <1>16
    <2>2. QED
        BY <1>8, <1>14, <1>15, <2>1
<1>20. /\ E[1] = FirstByteOf(f)
       /\ E[2] = LengthByteOf(f)
       /\ \A i \in 1..f.ext : E[2 + i] = ExtendedByteOf(f, i)
    <2>1. 1 \in 1..(2 + f.ext) /\ 2 \in 1..(2 + f.ext)
        BY <1>16
    <2>2. \A i \in 1..f.ext : 2 + i \in 1..(2 + f.ext)
        BY <1>16
    <2>3. QED
        BY <1>13, <1>18, <2>1, <2>2, Zenon
<1>21. \A i \in 1..Len(f.payload) : E[HeaderLen(f) + i] = MaskedByteOf(f, i)
    BY <1>9, <1>15, <1>16
<1>22. HeaderLen(f) >= 2 + f.ext
    BY <1>14, <1>16
<1>23. QED
    BY <1>15, <1>16, <1>17, <1>19, <1>20, <1>21, <1>22

-----------------------------------------------------------------------------
(* Sequences of frames                                                     *)

LEMMA MinIs ==
    ASSUME NEW T \in SUBSET Nat, T # {}
    PROVE  Min(T) \in T /\ \A m \in T : Min(T) <= m
<1>1. \E n \in T : \A m \in T : n =< m
    BY LeastNat
<1>2. QED
    BY <1>1 DEF Min

LEMMA MaxOf ==
    ASSUME NEW n \in Nat, NEW T \in SUBSET (1..n), T # {}
    PROVE  Max(T) \in T
<1> DEFINE U == {d \in Nat : \E m \in T : d = n - m}
<1>1. U \in SUBSET Nat /\ U # {}
    <2>1. PICK m \in T : TRUE
        OBVIOUS
    <2>2. n - m \in U
        OBVIOUS
    <2>3. QED
        BY <2>2
<1>2. PICK d \in U : \A e \in U : d <= e
    BY <1>1, LeastNat
<1>3. PICK x \in T : d = n - x
    OBVIOUS
<1>4. ASSUME NEW y \in T PROVE x >= y
    <2>1. n - y \in U
        OBVIOUS
    <2>2. QED
        BY <1>2, <1>3, <2>1
<1>5. \E z \in T : \A y \in T : z >= y
    BY <1>4
<1>6. QED
    BY <1>5 DEF Max

\* The greatest of some positions, if it is known.
LEMMA MaxIs ==
    ASSUME NEW T \in SUBSET Int, NEW n \in T, \A m \in T : n >= m
    PROVE  Max(T) = n
<1>1. Max(T) \in T /\ \A m \in T : Max(T) >= m
    BY DEF Max
<1>2. PICK x : x = Max(T)
    OBVIOUS
<1>3. x \in Int /\ n \in Int /\ x >= n /\ n >= x
    BY <1>1, <1>2
<1>4. QED
    BY <1>2, <1>3

LEMMA PiecesType ==
    ASSUME NEW s \in Seq(Frames)
    PROVE  /\ Len(s) \in Nat /\ DOMAIN s = 1..Len(s)
           /\ \A i \in 1..Len(s) : s[i] \in Frames
           /\ Encodings(s) \in Seq(Seq(Byte)) /\ Len(Encodings(s)) = Len(s)
           /\ \A i \in 1..Len(s) : Encodings(s)[i] = Encode(s[i])
           /\ DataPieces(s) \in Seq(Seq(Byte)) /\ Len(DataPieces(s)) = Len(s)
           /\ \A i \in 1..Len(s) : DataPieces(s)[i] = IF IsData(s[i]) THEN s[i].payload ELSE <<>>
<1>1. Len(s) \in Nat /\ DOMAIN s = 1..Len(s)
    BY LenProperties
<1>2. \A i \in 1..Len(s) : s[i] \in Frames
    BY ElementOfSeq
<1>3. \A i \in 1..Len(s) : Encode(s[i]) \in Seq(Byte)
    BY <1>2, EncodeAt
<1>4. \A i \in 1..Len(s) : s[i].payload \in Seq(Byte)
    BY <1>2, FramePayload
<1>5. <<>> \in Seq(Byte)
    BY EmptySeq
<1>6. PICK n \in Nat : n = Len(s)
    BY <1>1
<1>7. Encodings(s) = [i \in 1..n |-> Encode(s[i])]
    BY <1>1, <1>6 DEF Encodings
<1>8. Encodings(s) \in [1..n -> Seq(Byte)]
    BY <1>3, <1>6, <1>7
<1>9. DataPieces(s) = [i \in 1..n |-> IF IsData(s[i]) THEN s[i].payload ELSE <<>>]
    BY <1>1, <1>6 DEF DataPieces
<1>10. DataPieces(s) \in [1..n -> Seq(Byte)]
    <2>1. \A i \in 1..n : (IF IsData(s[i]) THEN s[i].payload ELSE <<>>) \in Seq(Byte)
        BY <1>4, <1>5, <1>6
    <2>2. QED
        BY <1>9, <2>1, Zenon
<1>11. Encodings(s) \in Seq(Seq(Byte)) /\ Len(Encodings(s)) = n
    BY <1>8, FnIsSeq
<1>12. DataPieces(s) \in Seq(Seq(Byte)) /\ Len(DataPieces(s)) = n
    BY <1>10, FnIsSeq
<1>13. \A i \in 1..n : /\ Encodings(s)[i] = Encode(s[i])
                       /\ DataPieces(s)[i] = IF IsData(s[i]) THEN s[i].payload ELSE <<>>
    BY <1>7, <1>9
<1>14. QED
    BY <1>1, <1>2, <1>6, <1>11, <1>12, <1>13, Zenon

\* What a frame more changes.
LEMMA PiecesAppend ==
    ASSUME NEW s \in Seq(Frames), NEW f \in Frames
    PROVE  /\ Encodings(Append(s, f)) = Append(Encodings(s), Encode(f))
           /\ DataPieces(Append(s, f)) =
                 Append(DataPieces(s), IF IsData(f) THEN f.payload ELSE <<>>)
<1>1. PICK t : t = Append(s, f)
    OBVIOUS
<1>2. PICK d : d = IF IsData(f) THEN f.payload ELSE <<>>
    OBVIOUS
<1>3. /\ t \in Seq(Frames) /\ Len(t) = Len(s) + 1
      /\ \A i \in 1..Len(s) : t[i] = s[i]
      /\ t[Len(s) + 1] = f
    BY <1>1, AppendProperties
<1>4. PICK n \in Nat : n = Len(s)
    BY PiecesType
<1>5. d \in Seq(Byte) /\ Encode(f) \in Seq(Byte)
    BY <1>2, FramePayload, EncodeAt, EmptySeq
<1>6. /\ Encodings(s) \in Seq(Seq(Byte)) /\ Len(Encodings(s)) = n
      /\ \A i \in 1..n : Encodings(s)[i] = Encode(s[i])
    BY <1>4, PiecesType
<1>7. /\ DataPieces(s) \in Seq(Seq(Byte)) /\ Len(DataPieces(s)) = n
      /\ \A i \in 1..n : DataPieces(s)[i] = IF IsData(s[i]) THEN s[i].payload ELSE <<>>
    BY <1>4, PiecesType
<1>8. Len(t) = n + 1 /\ (\A i \in 1..n : t[i] = s[i]) /\ t[n + 1] = f
    BY <1>3, <1>4
<1>9. /\ Encodings(t) \in Seq(Seq(Byte)) /\ Len(Encodings(t)) = n + 1
      /\ \A i \in 1..(n + 1) : Encodings(t)[i] = Encode(t[i])
    BY <1>3, <1>8, PiecesType
<1>10. /\ DataPieces(t) \in Seq(Seq(Byte)) /\ Len(DataPieces(t)) = n + 1
       /\ \A i \in 1..(n + 1) : DataPieces(t)[i] = IF IsData(t[i]) THEN t[i].payload ELSE <<>>
    BY <1>3, <1>8, PiecesType
<1>11. Encodings(t) = Append(Encodings(s), Encode(f))
    <2>1. PICK u : u = Append(Encodings(s), Encode(f))
        OBVIOUS
    <2>2. /\ u \in Seq(Seq(Byte)) /\ Len(u) = n + 1
          /\ \A i \in 1..n : u[i] = Encodings(s)[i]
          /\ u[n + 1] = Encode(f)
        BY <1>5, <1>6, <2>1, AppendProperties
    <2>3. \A i \in 1..(n + 1) : u[i] = Encodings(t)[i]
        <3> SUFFICES ASSUME NEW i \in 1..(n + 1)
                     PROVE  u[i] = Encodings(t)[i]
            OBVIOUS
        <3>1. CASE i = n + 1
            BY <1>8, <1>9, <2>2, <3>1, Zenon
        <3>2. CASE i # n + 1
            <4>1. i \in 1..n
                BY <3>2
            <4>2. QED
                BY <1>6, <1>8, <1>9, <2>2, <4>1, Zenon
        <3>3. QED
            BY <3>1, <3>2
    <2>4. QED
        BY <1>9, <2>1, <2>2, <2>3, SeqEqual
<1>12. DataPieces(t) = Append(DataPieces(s), d)
    <2>1. PICK u : u = Append(DataPieces(s), d)
        OBVIOUS
    <2>2. /\ u \in Seq(Seq(Byte)) /\ Len(u) = n + 1
          /\ \A i \in 1..n : u[i] = DataPieces(s)[i]
          /\ u[n + 1] = d
        BY <1>5, <1>7, <2>1, AppendProperties
    <2>3. \A i \in 1..(n + 1) : u[i] = DataPieces(t)[i]
        <3> SUFFICES ASSUME NEW i \in 1..(n + 1)
                     PROVE  u[i] = DataPieces(t)[i]
            OBVIOUS
        <3>1. CASE i = n + 1
            BY <1>2, <1>8, <1>10, <2>2, <3>1, Zenon
        <3>2. CASE i # n + 1
            <4>1. i \in 1..n
                BY <3>2
            <4>2. QED
                BY <1>7, <1>8, <1>10, <2>2, <4>1, Zenon
        <3>3. QED
            BY <3>1, <3>2
    <2>4. QED
        BY <1>10, <2>1, <2>2, <2>3, SeqEqual
<1>13. QED
    BY <1>1, <1>2, <1>11, <1>12

\* The data of the first frames.
LEMMA DataOfFirst ==
    ASSUME NEW s \in Seq(Frames), NEW j \in 0..Len(s)
    PROVE  /\ DataPieces(SubSeq(s, 1, j)) = SubSeq(DataPieces(s), 1, j)
           /\ DataOf(SubSeq(s, 1, j)) = FlattenSeq(SubSeq(DataPieces(s), 1, j))
           /\ Len(DataOf(SubSeq(s, 1, j))) = Ends(DataPieces(s), j)
<1>1. PICK t : t = SubSeq(s, 1, j)
    OBVIOUS
<1>2. Len(s) \in Nat /\ \A i \in 1..Len(s) : s[i] \in Frames
    BY PiecesType
<1>3. t \in Seq(Frames) /\ Len(t) = j /\ \A i \in 1..j : t[i] = s[i]
    BY <1>1, <1>2, SubSeqProperties
<1>4. PICK u : u = SubSeq(DataPieces(s), 1, j)
    OBVIOUS
<1>5. /\ DataPieces(s) \in Seq(Seq(Byte)) /\ Len(DataPieces(s)) = Len(s)
      /\ \A i \in 1..Len(s) : DataPieces(s)[i] = IF IsData(s[i]) THEN s[i].payload ELSE <<>>
    BY PiecesType
<1>6. \A i \in 1..j : DataPieces(s)[i] \in Seq(Byte)
    BY <1>2, <1>5, ElementOfSeq
<1>7. u \in Seq(Seq(Byte)) /\ Len(u) = j /\ \A i \in 1..j : u[i] = DataPieces(s)[i]
    BY <1>4, <1>6, SubSeqProperties
<1>8. /\ DataPieces(t) \in Seq(Seq(Byte)) /\ Len(DataPieces(t)) = j
      /\ \A i \in 1..j : DataPieces(t)[i] = IF IsData(t[i]) THEN t[i].payload ELSE <<>>
    BY <1>3, PiecesType
<1>9. \A i \in 1..j : i \in 1..Len(s)
    BY <1>2
<1>10. \A i \in 1..j : DataPieces(t)[i] = u[i]
    BY <1>3, <1>5, <1>7, <1>8, <1>9, Zenon
<1>11. DataPieces(t) = u
    BY <1>7, <1>8, <1>10, SeqEqual
<1>12. DataOf(t) = FlattenSeq(DataPieces(t))
    BY DEF DataOf, DataPieces
<1>13. QED
    BY <1>1, <1>4, <1>11, <1>12 DEF Ends

\* A piece more does not move the others.
LEMMA EndsAppend ==
    ASSUME NEW T, NEW s \in Seq(T), NEW x \in T, NEW j \in 0..Len(s)
    PROVE  /\ SubSeq(Append(s, x), 1, j) = SubSeq(s, 1, j)
           /\ Ends(Append(s, x), j) = Ends(s, j)
<1>1. PICK t : t = Append(s, x)
    OBVIOUS
<1>2. /\ Len(s) \in Nat /\ Len(t) = Len(s) + 1
      /\ \A i \in 1..Len(s) : t[i] = s[i] /\ s[i] \in T
    BY <1>1, AppendProperties, LenProperties, ElementOfSeq
<1>3. \A i \in 1..j : t[i] = s[i] /\ s[i] \in T /\ t[i] \in T
    BY <1>2
<1>4. PICK a : a = SubSeq(s, 1, j)
    OBVIOUS
<1>5. PICK b : b = SubSeq(t, 1, j)
    OBVIOUS
<1>6. a \in Seq(T) /\ Len(a) = j /\ \A i \in 1..j : a[i] = s[i]
    BY <1>3, <1>4, SubSeqProperties
<1>7. b \in Seq(T) /\ Len(b) = j /\ \A i \in 1..j : b[i] = t[i]
    BY <1>3, <1>5, SubSeqProperties
<1>8. \A i \in 1..j : a[i] = b[i]
    BY <1>3, <1>6, <1>7, Zenon
<1>9. a = b
    BY <1>6, <1>7, <1>8, SeqEqual
<1>10. QED
    BY <1>1, <1>4, <1>5, <1>9 DEF Ends

\* Whether a message is unfinished depends on the frames so far.
LEMMA InMessageLocal ==
    ASSUME NEW s, NEW t, NEW k \in Int, \A i \in 1..k : s[i] = t[i]
    PROVE  InMessage(s, k) = InMessage(t, k)
<1>1. PICK A : A = {i \in 1..k : IsData(s[i])}
    OBVIOUS
<1>2. PICK B : B = {i \in 1..k : IsData(t[i])}
    OBVIOUS
<1>3. A = B
    BY <1>1, <1>2
<1>4. CASE A = {}
    BY <1>1, <1>2, <1>3, <1>4, Zenon DEF InMessage
<1>5. CASE A # {}
    <2>1. A \in SUBSET (1..k)
        BY <1>1
    <2>2. Max(A) \in A
        <3>1. PICK j \in A : TRUE
            BY <1>5
        <3>2. k \in Nat
            BY <2>1, <3>1
        <3>3. QED
            BY <1>5, <2>1, <3>2, MaxOf
    <2>3. s[Max(A)] = t[Max(A)]
        BY <2>1, <2>2
    <2>4. QED
        BY <1>1, <1>2, <1>3, <1>5, <2>3, Zenon DEF InMessage
<1>6. QED
    BY <1>4, <1>5

LEMMA InMessageStep ==
    ASSUME NEW s, NEW k \in Nat, k >= 1
    PROVE  /\ IsData(s[k]) => (InMessage(s, k) <=> ~s[k].final)
           /\ ~IsData(s[k]) => (InMessage(s, k) <=> InMessage(s, k - 1))
           /\ InMessage(s, 0) = FALSE
<1>1. PICK A : A = {i \in 1..k : IsData(s[i])}
    OBVIOUS
<1>2. PICK B : B = {i \in 1..(k - 1) : IsData(s[i])}
    OBVIOUS
<1>3. ASSUME IsData(s[k])
      PROVE  InMessage(s, k) <=> ~s[k].final
    <2>1. k \in A /\ A \in SUBSET Int /\ \A m \in A : k >= m
        BY <1>1, <1>3
    <2>2. Max(A) = k
        BY <2>1, MaxIs
    <2>3. A # {}
        BY <2>1
    <2>4. QED
        BY <1>1, <2>2, <2>3, Zenon DEF InMessage
<1>4. ASSUME ~IsData(s[k])
      PROVE  InMessage(s, k) <=> InMessage(s, k - 1)
    <2>1. \A i \in 1..k : IsData(s[i]) => i \in 1..(k - 1)
        BY <1>4
    <2>2. A = B
        BY <1>1, <1>2, <2>1
    <2>3. QED
        BY <1>1, <1>2, <2>2, Zenon DEF InMessage
<1>5. InMessage(s, 0) = FALSE
    <2>1. {i \in 1..0 : IsData(s[i])} = {}
        OBVIOUS
    <2>2. QED
        BY <2>1, Zenon DEF InMessage
<1>6. QED
    BY <1>3, <1>4, <1>5

LEMMA LegalLocal ==
    ASSUME NEW s, NEW t, NEW k \in Int, \A i \in 1..k : s[i] = t[i], k >= 1
    PROVE  LegalFrame(s, k) <=> LegalFrame(t, k)
<1>1. s[k] = t[k]
    OBVIOUS
<1>2. InMessage(s, k - 1) = InMessage(t, k - 1)
    <2>1. k - 1 \in Int /\ \A i \in 1..(k - 1) : s[i] = t[i]
        OBVIOUS
    <2>2. QED
        BY <2>1, InMessageLocal
<1>3. QED
    BY <1>1, <1>2, Zenon DEF LegalFrame

\* The frames before the first illegal one.
LEMMA LegalSentIs ==
    ASSUME sent \in Seq(Frames)
    PROVE  \E m \in 0..Len(sent) :
              /\ LegalSent = SubSeq(sent, 1, m)
              /\ \A i \in 1..m : LegalFrame(sent, i)
              /\ m < Len(sent) => ~LegalFrame(sent, m + 1)
              /\ m = Len(sent) => LegalSent = sent
              /\ m < Len(sent) => LegalSent # sent
<1>1. PICK Bad : Bad = {k \in DOMAIN sent : ~LegalFrame(sent, k)}
    OBVIOUS
<1>2. /\ Len(sent) \in Nat /\ DOMAIN sent = 1..Len(sent)
      /\ \A i \in 1..Len(sent) : sent[i] \in Frames
    BY PiecesType
<1>3. CASE Bad = {}
    <2>1. LegalSent = sent
        BY <1>1, <1>3, Zenon DEF LegalSent
    <2>2. SubSeq(sent, 1, Len(sent)) = sent
        BY SubSeqFull
    <2>3. \A i \in 1..Len(sent) : LegalFrame(sent, i)
        BY <1>1, <1>2, <1>3
    <2>4. Len(sent) \in 0..Len(sent) /\ ~(Len(sent) < Len(sent))
        BY <1>2
    <2>5. QED
        BY <2>1, <2>2, <2>3, <2>4, Zenon
<1>4. CASE Bad # {}
    <2>1. PICK b : b = Min(Bad)
        OBVIOUS
    <2>2. Bad \in SUBSET Nat
        BY <1>1, <1>2
    <2>3. b \in Bad /\ \A c \in Bad : b <= c
        BY <1>4, <2>1, <2>2, MinIs
    <2>4. b \in 1..Len(sent) /\ ~LegalFrame(sent, b)
        BY <1>1, <1>2, <2>3
    <2>5. PICK m : m = b - 1
        OBVIOUS
    <2>6. m \in 0..Len(sent) /\ m < Len(sent) /\ m + 1 = b /\ m # Len(sent)
        BY <1>2, <2>4, <2>5
    <2>7. LegalSent = SubSeq(sent, 1, m)
        BY <1>1, <1>4, <2>1, <2>5, Zenon DEF LegalSent
    <2>8. \A i \in 1..m : LegalFrame(sent, i)
        <3> SUFFICES ASSUME NEW i \in 1..m, ~LegalFrame(sent, i)
                     PROVE  FALSE
            OBVIOUS
        <3>1. i \in 1..Len(sent) /\ ~(b <= i)
            BY <1>2, <2>4, <2>5
        <3>2. i \in Bad
            BY <1>1, <1>2, <3>1
        <3>3. QED
            BY <2>3, <3>1, <3>2
    <2>9. Len(SubSeq(sent, 1, m)) = m
        <3>1. \A i \in 1..m : i \in 1..Len(sent)
            <4>1. PICK l \in Nat : l = Len(sent)
                BY <1>2
            <4>2. m \in 0..l
                BY <2>6, <4>1
            <4>3. \A i \in 1..m : i \in 1..l
                BY <4>2
            <4>4. QED
                BY <4>1, <4>3, Zenon
        <3>2. \A i \in 1..m : sent[i] \in Frames
            BY <1>2, <3>1
        <3>3. PICK u : u = SubSeq(sent, 1, m)
            OBVIOUS
        <3>4. Len(u) = IF 1 <= m THEN m - 1 + 1 ELSE 0
            BY <2>6, <3>2, <3>3, SubSeqProperties
        <3>5. QED
            BY <2>6, <3>3, <3>4
    <2>10. LegalSent # sent
        BY <2>6, <2>7, <2>9
    <2>11. QED
        BY <2>4, <2>6, <2>7, <2>8, <2>10, Zenon
<1>5. QED
    BY <1>3, <1>4

\* What the callbacks got is of legal frames.
LEMMA GotIsLegal ==
    ASSUME sent \in Seq(Frames), received \in Seq(Seq(Byte)),
           NEW k \in 0..Len(sent), \A i \in 1..k : LegalFrame(sent, i),
           NEW n \in Nat, n <= Ends(DataPieces(sent), k),
           FirstBytes(FlattenSeq(received), n, DataOf(sent))
    PROVE  IsPrefix(FlattenSeq(received), DataOf(LegalSent))
<1>1. PICK m \in 0..Len(sent) :
         /\ LegalSent = SubSeq(sent, 1, m)
         /\ m < Len(sent) => ~LegalFrame(sent, m + 1)
    BY LegalSentIs
<1>2. k <= m
    <2> SUFFICES ASSUME ~(k <= m)
                 PROVE  FALSE
        OBVIOUS
    <2>1. Len(sent) \in Nat
        BY PiecesType
    <2>2. m < Len(sent) /\ m + 1 \in 1..k
        BY <2>1
    <2>3. QED
        BY <1>1, <2>2
<1>3. PICK P \in Seq(Seq(Byte)) : P = DataPieces(sent) /\ Len(P) = Len(sent)
    BY PiecesType
<1>4. PICK L : L = DataOf(LegalSent)
    OBVIOUS
<1>5. L = FlattenSeq(SubSeq(P, 1, m)) /\ Len(L) = Ends(P, m)
    BY <1>1, <1>3, <1>4, DataOfFirst
<1>6. DataOf(sent) = FlattenSeq(P)
    BY <1>3 DEF DataOf, DataPieces
<1>7. /\ Ends(P, k) \in Nat /\ Ends(P, m) \in Nat
      /\ Ends(P, k) <= Ends(P, m)
      /\ \A i \in 1..Ends(P, m) : FlattenSeq(P)[i] = FlattenSeq(SubSeq(P, 1, m))[i]
    <2>1. m \in 0..Len(P) /\ k \in 0..Len(P) /\ m \in k..Len(P)
        <3>1. Len(sent) \in Nat
            BY PiecesType
        <3>2. QED
            BY <1>2, <1>3, <3>1
    <2>2. QED
        BY <2>1, FlatPieces, Zenon
<1>8. PICK G \in Seq(Byte) : G = FlattenSeq(received)
    BY FlatPieces
<1>9. Len(G) = n /\ \A i \in 1..n : G[i] = DataOf(sent)[i]
    BY <1>8 DEF FirstBytes
<1>10. n <= Len(L)
    BY <1>3, <1>5, <1>7
<1>11. \A i \in 1..n : G[i] = L[i] /\ L[i] \in Byte
    <2> SUFFICES ASSUME NEW i \in 1..n
                 PROVE  G[i] = L[i] /\ L[i] \in Byte
        OBVIOUS
    <2>1. i \in 1..Ends(P, m)
        BY <1>3, <1>7
    <2>2. G[i] = L[i]
        BY <1>5, <1>6, <1>7, <1>9, <2>1
    <2>3. G[i] \in Byte
        BY <1>9, ElementOfSeq
    <2>4. QED
        BY <2>2, <2>3
<1>12. SubSeq(G, 1, Len(G)) = G
    BY SubSeqFull
<1>13. PICK u : u = SubSeq(L, 1, n)
    OBVIOUS
<1>14. u \in Seq(Byte) /\ Len(u) = n /\ \A i \in 1..n : u[i] = L[i]
    <2>1. \A i \in 1..n : L[i] \in Byte
        BY <1>11
    <2>2. QED
        BY <1>13, <2>1, SubSeqProperties
<1>15. \A i \in 1..n : G[i] = u[i]
    BY <1>11, <1>14
<1>16. u = G
    BY <1>9, <1>14, <1>15, SeqEqual
<1>17. QED
    BY <1>4, <1>8, <1>9, <1>10, <1>12, <1>13, <1>16 DEF IsPrefix

-----------------------------------------------------------------------------
(* Reading                                                                 *)

LEMMA TakeByte ==
    ASSUME NEW p \in Nat, NEW b \in Seq(Byte), NEW c \in Seq(Byte), NEW S,
           b # <<>>, BytesFrom(p, b, c, S)
    PROVE  Head(b) = S[p + 1] /\ BytesFrom(p + 1, Tail(b), c, S) /\ Tail(b) \in Seq(Byte)
<1>1. Len(b) \in Nat \ {0} /\ Len(c) \in Nat
    BY EmptySeq, LenProperties
<1>2. PICK t : t = Tail(b)
    OBVIOUS
<1>3. t \in Seq(Byte) /\ Len(t) = Len(b) - 1 /\ \A i \in 1..Len(t) : t[i] = b[i + 1]
    BY <1>2, HeadTailProperties
<1>4. Head(b) = b[1]
    OBVIOUS
<1>5. /\ p + Len(b) + Len(c) = Len(S)
      /\ \A i \in 1..Len(b) : b[i] = S[p + i]
      /\ \A i \in 1..Len(c) : c[i] = S[p + Len(b) + i]
    BY DEF BytesFrom
<1>6. (p + 1) + Len(t) + Len(c) = Len(S)
    <2>1. Len(b) \in Nat /\ Len(c) \in Nat /\ Len(t) = Len(b) - 1
        BY <1>1, <1>3
    <2>2. p + Len(b) + Len(c) = Len(S)
        BY <1>5
    <2>3. (p + 1) + Len(t) + Len(c) = p + Len(b) + Len(c)
        BY <2>1
    <2>4. QED
        BY <2>2, <2>3, Zenon
<1>7. \A i \in 1..Len(t) : t[i] = S[(p + 1) + i]
    <2> SUFFICES ASSUME NEW i \in 1..Len(t)
                 PROVE  t[i] = S[(p + 1) + i]
        OBVIOUS
    <2>1. i + 1 \in 1..Len(b) /\ p + (i + 1) = (p + 1) + i
        BY <1>1, <1>3
    <2>2. b[i + 1] = S[p + (i + 1)]
        BY <1>5, <2>1
    <2>3. QED
        BY <1>3, <2>1, <2>2
<1>8. \A i \in 1..Len(c) : c[i] = S[(p + 1) + Len(t) + i]
    <2> SUFFICES ASSUME NEW i \in 1..Len(c)
                 PROVE  c[i] = S[(p + 1) + Len(t) + i]
        OBVIOUS
    <2>1. (p + 1) + Len(t) + i = p + Len(b) + i
        BY <1>1, <1>3
    <2>2. QED
        BY <1>5, <2>1
<1>9. BytesFrom(p + 1, t, c, S)
    BY <1>6, <1>7, <1>8, Zenon DEF BytesFrom
<1>10. Head(b) = S[p + 1]
    BY <1>1, <1>4, <1>5
<1>11. QED
    BY <1>2, <1>3, <1>9, <1>10

LEMMA TakeBytes ==
    ASSUME NEW p \in Nat, NEW b \in Seq(Byte), NEW c \in Seq(Byte), NEW S,
           BytesFrom(p, b, c, S), NEW n \in 0..Len(b)
    PROVE  /\ \A i \in 1..n : b[i] = S[p + i]
           /\ BytesFrom(p + n, SubSeq(b, n + 1, Len(b)), c, S)
           /\ SubSeq(b, n + 1, Len(b)) \in Seq(Byte)
           /\ Len(SubSeq(b, n + 1, Len(b))) = Len(b) - n
<1>1. Len(b) \in Nat /\ Len(c) \in Nat /\ n + 1 \in Int
    BY LenProperties
<1>2. PICK t : t = SubSeq(b, n + 1, Len(b))
    OBVIOUS
<1>3. /\ t \in Seq(Byte) /\ Len(t) = Len(b) - n
      /\ \A i \in 1..(Len(b) - n) : t[i] = b[n + i]
    <2>1. \A i \in (n + 1)..Len(b) : b[i] \in Byte
        BY <1>1, ElementOfSeq
    <2>2. /\ t \in Seq(Byte) /\ Len(t) = (IF n + 1 <= Len(b) THEN Len(b) - (n + 1) + 1 ELSE 0)
          /\ \A i \in 1..(Len(b) - (n + 1) + 1) : t[i] = b[(n + 1) + i - 1]
        BY <1>1, <1>2, <2>1, SubSeqProperties
    <2>3. Len(t) = Len(b) - n
        BY <1>1, <2>2
    <2>4. ASSUME NEW i \in 1..(Len(b) - n)
          PROVE  t[i] = b[n + i]
        <3>1. i \in 1..(Len(b) - (n + 1) + 1) /\ (n + 1) + i - 1 = n + i
            BY <1>1
        <3>2. QED
            BY <2>2, <3>1
    <2>5. QED
        BY <2>2, <2>3, <2>4
<1>4. /\ p + Len(b) + Len(c) = Len(S)
      /\ \A i \in 1..Len(b) : b[i] = S[p + i]
      /\ \A i \in 1..Len(c) : c[i] = S[p + Len(b) + i]
    BY DEF BytesFrom
<1>5. (p + n) + Len(t) + Len(c) = Len(S)
    <2>1. Len(b) \in Nat /\ Len(c) \in Nat /\ Len(t) = Len(b) - n
        BY <1>1, <1>3
    <2>2. p + Len(b) + Len(c) = Len(S)
        BY <1>4
    <2>3. (p + n) + Len(t) + Len(c) = p + Len(b) + Len(c)
        BY <2>1
    <2>4. QED
        BY <2>2, <2>3, Zenon
<1>6. \A i \in 1..Len(t) : t[i] = S[(p + n) + i]
    <2> SUFFICES ASSUME NEW i \in 1..Len(t)
                 PROVE  t[i] = S[(p + n) + i]
        OBVIOUS
    <2>1. n + i \in 1..Len(b) /\ p + (n + i) = (p + n) + i /\ i \in 1..(Len(b) - n)
        BY <1>1, <1>3
    <2>2. b[n + i] = S[p + (n + i)]
        BY <1>4, <2>1
    <2>3. QED
        BY <1>3, <2>1, <2>2
<1>7. \A i \in 1..Len(c) : c[i] = S[(p + n) + Len(t) + i]
    <2> SUFFICES ASSUME NEW i \in 1..Len(c)
                 PROVE  c[i] = S[(p + n) + Len(t) + i]
        OBVIOUS
    <2>1. (p + n) + Len(t) + i = p + Len(b) + i
        BY <1>1, <1>3
    <2>2. QED
        BY <1>4, <2>1
<1>8. BytesFrom(p + n, t, c, S)
    BY <1>5, <1>6, <1>7, Zenon DEF BytesFrom
<1>9. \A i \in 1..n : b[i] = S[p + i]
    BY <1>1, <1>4
<1>10. QED
    BY <1>2, <1>3, <1>8, <1>9

\* A read moves the cut between what was read and what was not.
LEMMA TakeRead ==
    ASSUME NEW p \in Nat, NEW c \in Seq(Byte), NEW S, BytesFrom(p, <<>>, c, S),
           NEW n \in 0..Len(c)
    PROVE  /\ BytesFrom(p, SubSeq(c, 1, n), SubSeq(c, n + 1, Len(c)), S)
           /\ SubSeq(c, 1, n) \in Seq(Byte) /\ SubSeq(c, n + 1, Len(c)) \in Seq(Byte)
<1>1. Len(c) \in Nat /\ Len(<<>>) = 0 /\ <<>> \in Seq(Byte)
    BY LenProperties, EmptySeq
<1>2. PICK u : u = SubSeq(c, 1, n)
    OBVIOUS
<1>3. PICK t : t = SubSeq(c, n + 1, Len(c))
    OBVIOUS
<1>4. u \in Seq(Byte) /\ Len(u) = n /\ \A i \in 1..n : u[i] = c[i]
    <2>1. \A i \in 1..n : c[i] \in Byte
        BY <1>1, ElementOfSeq
    <2>2. QED
        BY <1>2, <2>1, SubSeqProperties
<1>5. \A i \in 1..Len(c) : c[i] = S[p + i]
    <2> SUFFICES ASSUME NEW i \in 1..Len(c)
                 PROVE  c[i] = S[p + i]
        OBVIOUS
    <2>1. c[i] = S[p + Len(<<>>) + i]
        BY DEF BytesFrom
    <2>2. p + Len(<<>>) + i = p + i
        BY <1>1
    <2>3. QED
        BY <2>1, <2>2
<1>6. BytesFrom(p, c, <<>>, S)
    <2>1. p + Len(c) + Len(<<>>) = Len(S)
        <3>1. p + Len(<<>>) + Len(c) = Len(S)
            BY DEF BytesFrom
        <3>2. QED
            BY <1>1, <3>1
    <2>2. \A i \in 1..Len(<<>>) : <<>>[i] = S[p + Len(c) + i]
        BY <1>1
    <2>3. QED
        BY <1>5, <2>1, <2>2 DEF BytesFrom
<1>7. /\ \A i \in 1..n : c[i] = S[p + i]
      /\ BytesFrom(p + n, t, <<>>, S)
      /\ t \in Seq(Byte) /\ Len(t) = Len(c) - n
    <2>1. \A i \in 1..n : c[i] = S[p + i]
        BY <1>1, <1>5
    <2>2. PICK e \in Seq(Byte) : e = <<>>
        BY <1>1
    <2>3. BytesFrom(p, c, e, S)
        BY <1>6, <2>2, Zenon
    <2>4. /\ BytesFrom(p + n, SubSeq(c, n + 1, Len(c)), e, S)
          /\ SubSeq(c, n + 1, Len(c)) \in Seq(Byte)
          /\ Len(SubSeq(c, n + 1, Len(c))) = Len(c) - n
        BY <2>3, TakeBytes, Zenon
    <2>5. QED
        BY <1>3, <2>1, <2>2, <2>4, Zenon
<1>8. p + Len(u) + Len(t) = Len(S)
    <2>1. (p + n) + Len(t) + Len(<<>>) = Len(S)
        BY <1>7 DEF BytesFrom
    <2>2. QED
        BY <1>1, <1>4, <1>7, <2>1
<1>9. \A i \in 1..Len(u) : u[i] = S[p + i]
    BY <1>4, <1>7
<1>10. \A i \in 1..Len(t) : t[i] = S[p + Len(u) + i]
    <2>1. \A i \in 1..Len(t) : t[i] = S[(p + n) + i]
        BY <1>7 DEF BytesFrom
    <2>2. QED
        BY <1>4, <2>1
<1>11. BytesFrom(p, u, t, S)
    BY <1>8, <1>9, <1>10, Zenon DEF BytesFrom
<1>12. QED
    BY <1>2, <1>3, <1>4, <1>7, <1>11

-----------------------------------------------------------------------------
(* Where the parser is in the stream                                       *)

\* The k+1-st frame within the bytes of the stream.
LEMMA StreamAt ==
    ASSUME NEW s \in Seq(Frames), NEW k \in Nat, k < Len(s), NEW f, f = s[k + 1]
    PROVE  /\ f \in Frames
           /\ Ends(Encodings(s), k) \in Nat
           /\ Len(Encode(f)) \in Nat
           /\ Len(Stream(s)) \in Nat
           /\ Ends(Encodings(s), k + 1) = Ends(Encodings(s), k) + Len(Encode(f))
           /\ Ends(Encodings(s), k + 1) <= Len(Stream(s))
           /\ \A i \in 1..Len(Encode(f)) :
                 Stream(s)[Ends(Encodings(s), k) + i] = Encode(f)[i]
<1>1. Len(s) \in Nat
    BY PiecesType
<1>2. k + 1 \in 1..Len(s) /\ k \in 0..Len(s) /\ k + 1 \in 0..Len(s)
      /\ Len(s) \in (k + 1)..Len(s) /\ Len(s) \in 0..Len(s) /\ (k + 1) - 1 = k
    BY <1>1
<1>3. PICK P \in Seq(Seq(Byte)) : P = Encodings(s) /\ Len(P) = Len(s)
    BY PiecesType
<1>4. P[k + 1] = Encode(f) /\ f \in Frames
    BY <1>2, <1>3, PiecesType
<1>5. Stream(s) = FlattenSeq(P)
    BY <1>3 DEF Stream
<1>6. /\ FlattenSeq(P) \in Seq(Byte)
      /\ Ends(P, Len(P)) = Len(FlattenSeq(P))
      /\ \A j \in 0..Len(P) : Ends(P, j) \in Nat
      /\ \A j \in 1..Len(P) : /\ Len(P[j]) \in Nat
                              /\ Ends(P, j) = Ends(P, j - 1) + Len(P[j])
      /\ \A j \in 0..Len(P) : \A l \in j..Len(P) : Ends(P, j) <= Ends(P, l)
      /\ \A j \in 1..Len(P) : \A i \in 1..Len(P[j]) :
            FlattenSeq(P)[Ends(P, j - 1) + i] = P[j][i]
    BY FlatPieces, Zenon
<1>7. Ends(P, k) \in Nat /\ Ends(P, Len(P)) \in Nat
    BY <1>2, <1>3, <1>6, Zenon
<1>8. Len(P[k + 1]) \in Nat /\ Ends(P, k + 1) = Ends(P, k) + Len(P[k + 1])
    BY <1>2, <1>3, <1>6, Zenon
<1>9. Ends(P, k + 1) <= Ends(P, Len(P))
    BY <1>2, <1>3, <1>6, Zenon
<1>10. \A i \in 1..Len(P[k + 1]) : FlattenSeq(P)[Ends(P, k) + i] = P[k + 1][i]
    <2>1. \A j \in 1..Len(P) : \A i \in 1..Len(P[j]) :
             FlattenSeq(P)[Ends(P, j - 1) + i] = P[j][i]
        BY <1>6, Zenon
    <2>2. PICK q \in 1..Len(P) : q = k + 1 /\ q - 1 = k
        BY <1>2, <1>3, Zenon
    <2>3. \A i \in 1..Len(P[q]) : FlattenSeq(P)[Ends(P, q - 1) + i] = P[q][i]
        BY <2>1, Zenon
    <2>4. QED
        BY <2>2, <2>3, Zenon
<1>11. QED
    BY <1>3, <1>4, <1>5, <1>6, <1>7, <1>8, <1>9, <1>10, Zenon

DataPiece(f) == IF IsData(f) THEN f.payload ELSE <<>>

\* The k+1-st frame within the bytes of the data.
LEMMA DataAt ==
    ASSUME NEW s \in Seq(Frames), NEW k \in Nat, k < Len(s), NEW f, f = s[k + 1]
    PROVE  /\ Ends(DataPieces(s), k) \in Nat
           /\ Ends(DataPieces(s), k + 1) \in Nat
           /\ Len(DataPiece(f)) \in Nat
           /\ Len(DataOf(s)) \in Nat
           /\ Ends(DataPieces(s), k + 1) = Ends(DataPieces(s), k) + Len(DataPiece(f))
           /\ Ends(DataPieces(s), k + 1) <= Len(DataOf(s))
           /\ \A i \in 1..Len(DataPiece(f)) :
                 DataOf(s)[Ends(DataPieces(s), k) + i] = DataPiece(f)[i]
<1>1. Len(s) \in Nat
    BY PiecesType
<1>2. k + 1 \in 1..Len(s) /\ k \in 0..Len(s) /\ k + 1 \in 0..Len(s)
      /\ Len(s) \in (k + 1)..Len(s) /\ Len(s) \in 0..Len(s) /\ (k + 1) - 1 = k
    BY <1>1
<1>3. PICK P \in Seq(Seq(Byte)) : P = DataPieces(s) /\ Len(P) = Len(s)
    BY PiecesType
<1>4. P[k + 1] = DataPiece(f)
    BY <1>2, <1>3, PiecesType DEF DataPiece
<1>5. DataOf(s) = FlattenSeq(P)
    BY <1>3 DEF DataOf, DataPieces
<1>6. /\ FlattenSeq(P) \in Seq(Byte)
      /\ Ends(P, Len(P)) = Len(FlattenSeq(P))
      /\ \A j \in 0..Len(P) : Ends(P, j) \in Nat
      /\ \A j \in 1..Len(P) : /\ Len(P[j]) \in Nat
                              /\ Ends(P, j) = Ends(P, j - 1) + Len(P[j])
      /\ \A j \in 0..Len(P) : \A l \in j..Len(P) : Ends(P, j) <= Ends(P, l)
      /\ \A j \in 1..Len(P) : \A i \in 1..Len(P[j]) :
            FlattenSeq(P)[Ends(P, j - 1) + i] = P[j][i]
    BY FlatPieces, Zenon
<1>7. Ends(P, k) \in Nat /\ Ends(P, k + 1) \in Nat /\ Ends(P, Len(P)) \in Nat
    BY <1>2, <1>3, <1>6, Zenon
<1>8. Len(P[k + 1]) \in Nat /\ Ends(P, k + 1) = Ends(P, k) + Len(P[k + 1])
    BY <1>2, <1>3, <1>6, Zenon
<1>9. Ends(P, k + 1) <= Ends(P, Len(P))
    BY <1>2, <1>3, <1>6, Zenon
<1>10. \A i \in 1..Len(P[k + 1]) : FlattenSeq(P)[Ends(P, k) + i] = P[k + 1][i]
    <2>1. \A j \in 1..Len(P) : \A i \in 1..Len(P[j]) :
             FlattenSeq(P)[Ends(P, j - 1) + i] = P[j][i]
        BY <1>6, Zenon
    <2>2. PICK q \in 1..Len(P) : q = k + 1 /\ q - 1 = k
        BY <1>2, <1>3, Zenon
    <2>3. \A i \in 1..Len(P[q]) : FlattenSeq(P)[Ends(P, q - 1) + i] = P[q][i]
        BY <2>1, Zenon
    <2>4. QED
        BY <2>2, <2>3, Zenon
<1>11. QED
    BY <1>3, <1>4, <1>5, <1>6, <1>7, <1>8, <1>9, <1>10, Zenon

\* Unless a frame is complete, one byte more of it is to be read.
LEMMA WithinBytes ==
    ASSUME NEW f \in Frames, NEW w \in WsFields, NEW o \in Nat, InFrame(w, f, o)
    PROVE  /\ o <= Len(Encode(f))
           /\ (w.state = "PAYLOAD" => w.rx_packet_length > 0) => o < Len(Encode(f))
<1>1. PICK n \in Nat : n = Len(f.payload)
    BY FrameNumbers
<1>2. PICK h \in Nat : h = HeaderLen(f)
    BY EncodeAt
<1>3. PICK e \in {0, 2, 8} : e = f.ext
    BY FrameNumbers
<1>4. PICK rx \in Nat : rx = w.rx_packet_length
    BY DEF WsFields
<1>5. PICK d \in Nat : d = w.need
    BY DEF WsFields
<1>6. Len(Encode(f)) = h + n /\ h >= 2 + e /\ (f.masked => h = 6 + e)
    <2>1. f.masked => h = 6 + e
        BY <1>2, <1>3 DEF HeaderLen
    <2>2. QED
        BY <1>1, <1>2, <1>3, <2>1, EncodeAt
<1>7. CASE AfterFirst(w, f, o)
    <2>1. o = 1
        BY <1>7 DEF AfterFirst
    <2>2. o < h + n
        BY <1>6, <2>1
    <2>3. QED
        BY <1>6, <2>2
<1>8. CASE InLength(w, f, o)
    <2>1. d \in 1..e /\ o = 2 + e - d
        BY <1>3, <1>5, <1>8 DEF InLength
    <2>2. o < h + n
        BY <1>6, <2>1
    <2>3. QED
        BY <1>6, <2>2
<1>9. CASE InKey(w, f, o)
    <2>1. d \in 1..4 /\ o = 6 + e - d /\ f.masked
        BY <1>3, <1>5, <1>9 DEF InKey
    <2>2. o < h + n
        BY <1>6, <2>1
    <2>3. QED
        BY <1>6, <2>2
<1>10. CASE InPayload(w, f, o)
    <2>1. o = h + n - rx /\ rx <= n /\ w.state = "PAYLOAD"
        BY <1>1, <1>2, <1>4, <1>10 DEF InPayload, LengthKnown
    <2>2. o <= h + n /\ (rx > 0 => o < h + n)
        BY <2>1
    <2>3. QED
        BY <1>4, <1>6, <2>1, <2>2
<1>11. QED
    BY <1>7, <1>8, <1>9, <1>10 DEF InFrame

\* The parser is given the next byte of the frame that it is in.
LEMMA NextByte ==
    ASSUME WsTypes, NEW k \in 0..Len(sent), NEW o \in Nat, Parsing(k, o), buf # <<>>,
           ws.state = "PAYLOAD" => ws.rx_packet_length > 0
    PROVE  /\ k < Len(sent) /\ sent[k + 1] \in Frames
           /\ o < Len(Encode(sent[k + 1]))
           /\ Head(buf) = Encode(sent[k + 1])[o + 1]
           /\ BytesFrom(Ends(Encodings(sent), k) + (o + 1), Tail(buf), wire, Stream(sent))
           /\ Tail(buf) \in Seq(Byte)
<1>1. /\ sent \in Seq(Frames) /\ buf \in Seq(Byte) /\ wire \in Seq(Byte)
      /\ ws \in WsFields /\ Len(sent) \in Nat
    BY PiecesType DEF WsTypes
<1>2. Len(buf) \in Nat \ {0} /\ Len(wire) \in Nat
    BY <1>1, EmptySeq, LenProperties
<1>3. PICK p \in Nat : p = Ends(Encodings(sent), k)
    <2>1. Encodings(sent) \in Seq(Seq(Byte)) /\ Len(Encodings(sent)) = Len(sent)
        BY <1>1, PiecesType
    <2>2. Ends(Encodings(sent), k) \in Nat
        BY <2>1, FlatPieces
    <2>3. QED
        BY <2>2
<1>4. BytesFrom(p + o, buf, wire, Stream(sent))
    BY <1>3, Zenon DEF Parsing
<1>5. k < Len(sent)
    <2>1. CASE WithinFrame(k, o)
        BY <2>1 DEF WithinFrame
    <2>2. CASE BetweenFrames(k, o)
        <3>1. SUFFICES ASSUME k = Len(sent)
                       PROVE  FALSE
            BY <1>1
        <3>2. p = Len(Stream(sent))
            <4>1. PICK P \in Seq(Seq(Byte)) : P = Encodings(sent) /\ Len(P) = Len(sent)
                BY <1>1, PiecesType
            <4>2. Ends(P, Len(P)) = Len(FlattenSeq(P))
                BY FlatPieces, Zenon
            <4>3. QED
                BY <1>3, <3>1, <4>1, <4>2, Zenon DEF Stream
        <3>3. p + o + Len(buf) + Len(wire) = Len(Stream(sent))
            BY <1>4, Zenon DEF BytesFrom
        <3>4. p + o + Len(buf) + Len(wire) = p
            BY <3>2, <3>3, Zenon
        <3>5. QED
            BY <1>2, <3>4
    <2>3. QED
        BY <2>1, <2>2 DEF Parsing
<1>6. PICK f \in Frames : f = sent[k + 1]
    BY <1>1, <1>5, StreamAt
<1>7. o < Len(Encode(f))
    <2>1. CASE WithinFrame(k, o)
        <3>1. InFrame(ws, f, o)
            BY <1>6, <2>1, Zenon DEF WithinFrame
        <3>2. QED
            BY <1>1, <3>1, WithinBytes
    <2>2. CASE BetweenFrames(k, o)
        <3>1. o = 0
            BY <2>2 DEF BetweenFrames
        <3>2. Len(Encode(f)) = HeaderLen(f) + Len(f.payload) /\ HeaderLen(f) \in Nat
              /\ HeaderLen(f) >= 2 + f.ext
            BY EncodeAt, Zenon
        <3>3. Len(f.payload) \in Nat /\ f.ext \in {0, 2, 8}
            BY FrameNumbers
        <3>4. QED
            BY <3>1, <3>2, <3>3
    <2>3. QED
        BY <2>1, <2>2 DEF Parsing
<1>8. p + o \in Nat /\ (p + o) + 1 = p + (o + 1) /\ k \in Nat
    OBVIOUS
<1>9. /\ Head(buf) = Stream(sent)[(p + o) + 1]
      /\ BytesFrom((p + o) + 1, Tail(buf), wire, Stream(sent))
      /\ Tail(buf) \in Seq(Byte)
    BY <1>1, <1>4, <1>8, TakeByte, Zenon
<1>10. o + 1 \in 1..Len(Encode(f))
    <2>1. Len(Encode(f)) \in Nat
        BY <1>1, <1>5, <1>6, <1>8, StreamAt, Zenon
    <2>2. QED
        BY <1>7, <2>1
<1>11. Stream(sent)[p + (o + 1)] = Encode(f)[o + 1]
    <2>1. \A i \in 1..Len(Encode(f)) :
             Stream(sent)[Ends(Encodings(sent), k) + i] = Encode(f)[i]
        BY <1>1, <1>5, <1>6, <1>8, StreamAt
    <2>2. QED
        BY <1>3, <1>10, <2>1, Zenon
<1>12. QED
    BY <1>3, <1>5, <1>6, <1>7, <1>8, <1>9, <1>11, Zenon

\* A frame of which the payload is read is a legal one.
LEMMA PayloadLegal ==
    ASSUME NEW s, NEW k, NEW w, StartsLegal(s, k), LengthKnown(w, s[k])
    PROVE  LegalFrame(s, k)
BY DEF StartsLegal, LengthKnown, LegalFrame, IsData

\* What was given to the callbacks, in terms of whole frames.
LEMMA GotBounds ==
    ASSUME WsTypes, NEW k \in 0..Len(sent), NEW o \in Nat, Parsing(k, o)
    PROVE  \E l \in 0..Len(sent), n \in Nat :
              /\ \A i \in 1..l : LegalFrame(sent, i)
              /\ n <= Ends(DataPieces(sent), l)
              /\ FirstBytes(FlattenSeq(received), n, DataOf(sent))
<1>1. /\ sent \in Seq(Frames) /\ ws \in WsFields /\ Len(sent) \in Nat
    BY PiecesType DEF WsTypes
<1>2. PICK n \in Nat : n = Ends(DataPieces(sent), k)
    <2>1. DataPieces(sent) \in Seq(Seq(Byte)) /\ Len(DataPieces(sent)) = Len(sent)
        BY <1>1, PiecesType
    <2>2. Ends(DataPieces(sent), k) \in Nat
        BY <2>1, FlatPieces
    <2>3. QED
        BY <2>2
<1>3. \A i \in 1..k : LegalFrame(sent, i)
    BY DEF Parsing
<1>4. n <= Ends(DataPieces(sent), k)
    BY <1>2
<1>5. CASE FirstBytes(FlattenSeq(received), n, DataOf(sent))
    BY <1>3, <1>4, <1>5, Zenon
<1>6. CASE ~FirstBytes(FlattenSeq(received), n, DataOf(sent))
    <2>1. WithinFrame(k, o)
        BY <1>2, <1>6, Zenon DEF Parsing, BetweenFrames
    <2>2. k < Len(sent) /\ k \in Nat /\ k + 1 \in 0..Len(sent)
        BY <1>1, <2>1 DEF WithinFrame
    <2>3. PICK f \in Frames : f = sent[k + 1]
        BY <1>1, <2>2, StreamAt
    <2>4. /\ StartsLegal(sent, k + 1) /\ InFrame(ws, f, o)
          /\ FirstBytes(FlattenSeq(received), n + Delivered(ws, f), DataOf(sent))
        BY <1>2, <2>1, <2>3, Zenon DEF WithinFrame
    <2>5. ws.state = "PAYLOAD" /\ IsData(f)
        <3> SUFFICES ASSUME ~(ws.state = "PAYLOAD" /\ IsData(f))
                     PROVE  FALSE
            OBVIOUS
        <3>1. Delivered(ws, f) = 0
            BY Zenon DEF Delivered
        <3>2. n + 0 = n
            OBVIOUS
        <3>3. QED
            BY <1>6, <2>4, <3>1, <3>2, Zenon
    <2>6. LengthKnown(ws, f)
        BY <2>4, <2>5 DEF InFrame, AfterFirst, InLength, InKey, InPayload
    <2>7. LegalFrame(sent, k + 1)
        BY <2>3, <2>4, <2>6, PayloadLegal, Zenon
    <2>8. \A i \in 1..(k + 1) : LegalFrame(sent, i)
        <3> SUFFICES ASSUME NEW i \in 1..(k + 1)
                     PROVE  LegalFrame(sent, i)
            OBVIOUS
        <3>1. i \in 1..k \/ i = k + 1
            BY <2>2
        <3>2. QED
            BY <1>3, <2>7, <3>1, Zenon
    <2>9. PICK L \in Nat : L = Len(f.payload)
        BY FrameNumbers
    <2>10. PICK rx \in Nat : rx = ws.rx_packet_length
        BY <1>1 DEF WsFields
    <2>11. rx <= L
        BY <2>6, <2>9, <2>10 DEF LengthKnown
    <2>12. Delivered(ws, f) = L - rx
        BY <2>5, <2>9, <2>10, Zenon DEF Delivered
    <2>13. Ends(DataPieces(sent), k + 1) = n + L
        <3>1. DataPiece(f) = f.payload
            BY <2>5, Zenon DEF DataPiece
        <3>2. QED
            <4>1. Ends(DataPieces(sent), k + 1)
                     = Ends(DataPieces(sent), k) + Len(DataPiece(f))
                BY <1>1, <2>2, <2>3, DataAt
            <4>2. QED
                BY <1>2, <2>9, <3>1, <4>1, Zenon
    <2>14. PICK g \in Nat : g = n + (L - rx)
        BY <2>11
    <2>15. g <= n + L
        BY <2>11, <2>14
    <2>16. FirstBytes(FlattenSeq(received), g, DataOf(sent))
        BY <2>4, <2>12, <2>14, Zenon
    <2>17. QED
        BY <2>2, <2>8, <2>13, <2>15, <2>16, Zenon
<1>7. QED
    BY <1>5, <1>6

LEMMA GotPrefix ==
    ASSUME WsTypes, NEW k \in 0..Len(sent), NEW o \in Nat, Parsing(k, o)
    PROVE  IsPrefix(FlattenSeq(received), DataOf(LegalSent))
<1>1. PICK l \in 0..Len(sent), n \in Nat :
         /\ \A i \in 1..l : LegalFrame(sent, i)
         /\ n <= Ends(DataPieces(sent), l)
         /\ FirstBytes(FlattenSeq(received), n, DataOf(sent))
    BY GotBounds
<1>2. sent \in Seq(Frames) /\ received \in Seq(Seq(Byte))
    BY DEF WsTypes
<1>3. QED
    BY <1>1, <1>2, GotIsLegal, Zenon

-----------------------------------------------------------------------------
(* The ways a byte can end                                                 *)

\* What a step that leaves the histories alone leaves of the invariant.
LEMMA HistoriesKept ==
    ASSUME SplitsExplained, PongsEcho, UNCHANGED <<received, sent, pongs, cuts>>
    PROVE  SplitsExplained' /\ PongsEcho'
<1>1. SplitsExplained'
    BY DEF SplitsExplained, FrameEnds
<1>2. PongsEcho'
    BY DEF PongsEcho
<1>3. QED
    BY <1>1, <1>2

\* The parser goes on within the frame.
LEMMA ContinueKeeps ==
    ASSUME InStep, open # "closed", NEW k \in 0..Len(sent), NEW o \in Nat, ParsedTo(k, o),
           NEW w \in WsFields, Continue(w), k < Len(sent), Tail(buf) \in Seq(Byte),
           BytesFrom(Ends(Encodings(sent), k) + (o + 1), Tail(buf), wire, Stream(sent)),
           StartsLegal(sent, k + 1),
           InFrame(w, sent[k + 1], o + 1), Delivered(w, sent[k + 1]) = 0,
           FlagsAfter(w, sent, k + 1),
           FirstBytes(FlattenSeq(received), Ends(DataPieces(sent), k), DataOf(sent))
    PROVE  WsInv'
<1>1. /\ ws' = w /\ buf' = Tail(buf) /\ wire' = wire /\ pong' = pong /\ open' = open
      /\ received' = received /\ sent' = sent /\ pongs' = pongs /\ cuts' = cuts
    BY DEF Continue, Parsed
<1>2. WsTypes'
    BY <1>1 DEF InStep, WsInv, WsTypes
<1>3. \A i \in 1..k : LegalFrame(sent', i)
    BY <1>1, Zenon DEF ParsedTo, Parsing
<1>4. BytesFrom(Ends(Encodings(sent'), k) + (o + 1), buf', wire', Stream(sent'))
    BY <1>1, Zenon
<1>5. WithinFrame(k, o + 1)'
    <2>1. Ends(DataPieces(sent), k) + 0 = Ends(DataPieces(sent), k)
        <3>1. sent \in Seq(Frames) /\ k \in Nat
            BY DEF InStep, WsInv, WsTypes
        <3>2. Ends(DataPieces(sent), k) \in Nat
            BY <3>1, DataAt, Zenon
        <3>3. QED
            BY <3>2
    <2>2. FirstBytes(FlattenSeq(received),
                     Ends(DataPieces(sent), k) + Delivered(w, sent[k + 1]), DataOf(sent))
        BY <2>1, Zenon
    <2>3. QED
        BY <1>1, <2>2, Zenon DEF WithinFrame
<1>6. Parsing(k, o + 1)'
    BY <1>3, <1>4, <1>5, Zenon DEF Parsing
<1>7. ParsedTo(k, o + 1)'
    BY <1>1, <1>6, Zenon DEF ParsedTo
<1>8. k \in 0..Len(sent') /\ o + 1 \in Nat
    BY <1>1
<1>9. SplitsExplained' /\ PongsEcho'
    BY <1>1, HistoriesKept DEF InStep, WsInv
<1>10. open' = "returned_close" => \E i \in DOMAIN sent' : sent'[i].opcode = CLOSE
    BY <1>1, Zenon DEF InStep, WsInv
<1>11. QED
    BY <1>1, <1>2, <1>7, <1>8, <1>9, <1>10, Zenon DEF InStep, WsInv

\* The client is no longer served, and there is a reason.
LEMMA StopKeeps ==
    ASSUME InStep, NEW k \in 0..Len(sent), NEW o \in Nat, Parsing(k, o),
           UNCHANGED <<received, sent, pongs, cuts>>,
           open' \in {"waiting_to_send_close", "closed"}, Cause'
    PROVE  WsInv'
<1>1. received' = received /\ sent' = sent
    OBVIOUS
<1>2. WsTypes /\ sent \in Seq(Frames) /\ received \in Seq(Seq(Byte))
    BY DEF InStep, WsTypes
<1>3. PICK l \in 0..Len(sent), n \in Nat : Got(l, n)
    BY <1>2, GotBounds, Zenon DEF Got
<1>4. Got(l, n)'
    BY <1>1, <1>3, Zenon DEF Got
<1>5. l \in 0..Len(sent')
    BY <1>1
<1>6. SplitsExplained' /\ PongsEcho'
    BY HistoriesKept DEF InStep
<1>7. (Refusing \/ open = "closed")'
    BY DEF Refusing
<1>8. sent' \in Seq(Frames) /\ received' \in Seq(Seq(Byte))
    BY <1>1, <1>2
<1>9. QED
    BY <1>4, <1>5, <1>6, <1>7, <1>8, Zenon DEF WsInv, OutOfStep

\* The connection is closed for a frame that is not a legal one.
LEMMA BailKeeps ==
    ASSUME InStep, NEW k \in 0..Len(sent), NEW o \in Nat, Parsing(k, o),
           k < Len(sent), ~LegalFrame(sent, k + 1), Bail \/ \E w : Refuse(w)
    PROVE  WsInv'
<1>1. /\ open' \in {"waiting_to_send_close", "closed"}
      /\ received' = received /\ sent' = sent /\ pongs' = pongs /\ cuts' = cuts
    BY DEF Bail, Refuse
<1>2. sent \in Seq(Frames)
    BY DEF InStep, WsTypes
<1>3. Len(sent) \in Nat /\ DOMAIN sent = 1..Len(sent)
    BY <1>2, PiecesType
<1>4. k + 1 \in DOMAIN sent
    BY <1>3
<1>5. Cause'
    BY <1>1, <1>4, Zenon DEF Cause
<1>6. QED
    BY <1>1, <1>5, StopKeeps

-----------------------------------------------------------------------------
(* Splits and answers                                                      *)

LEMMA FrameEndsAre ==
    ASSUME sent \in Seq(Frames)
    PROVE  /\ \A j \in 0..Len(sent) : Ends(DataPieces(sent), j) \in FrameEnds
           /\ \A e \in FrameEnds : \E j \in 0..Len(sent) : e = Ends(DataPieces(sent), j)
<1>1. \A j \in 0..Len(sent) : Len(DataOf(SubSeq(sent, 1, j))) = Ends(DataPieces(sent), j)
    BY DataOfFirst, Zenon
<1>2. QED
    BY <1>1, Zenon DEF FrameEnds

\* No frame ends within another one.
LEMMA NoEndBetween ==
    ASSUME sent \in Seq(Frames), NEW k \in Nat, k < Len(sent), NEW a \in Nat, NEW b \in Nat,
           Ends(DataPieces(sent), k) <= a, b <= Ends(DataPieces(sent), k + 1)
    PROVE  ~\E e \in FrameEnds : a < e /\ e < b
<1> SUFFICES ASSUME NEW e \in FrameEnds, a < e, e < b
             PROVE  FALSE
    OBVIOUS
<1>1. PICK j \in 0..Len(sent) : e = Ends(DataPieces(sent), j)
    BY FrameEndsAre
<1>2. PICK P \in Seq(Seq(Byte)) : P = DataPieces(sent) /\ Len(P) = Len(sent)
    BY PiecesType
<1>3. Len(sent) \in Nat
    BY PiecesType
<1>4. /\ \A i \in 0..Len(P) : Ends(P, i) \in Nat
      /\ \A i \in 0..Len(P) : \A l \in i..Len(P) : Ends(P, i) <= Ends(P, l)
    BY FlatPieces, Zenon
<1>5. k \in 0..Len(P) /\ k + 1 \in 0..Len(P) /\ j \in 0..Len(P)
    BY <1>2, <1>3
<1>6. Ends(P, k) \in Nat /\ Ends(P, k + 1) \in Nat /\ Ends(P, j) \in Nat
    BY <1>4, <1>5
<1>7. CASE j <= k
    <2>1. k \in j..Len(P)
        BY <1>5, <1>7
    <2>2. Ends(P, j) <= Ends(P, k)
        BY <1>4, <1>5, <2>1
    <2>3. e = Ends(P, j) /\ Ends(P, k) <= a
        BY <1>1, <1>2, Zenon
    <2>4. QED
        BY <1>6, <2>2, <2>3
<1>8. CASE j >= k + 1
    <2>1. j \in (k + 1)..Len(P)
        BY <1>5, <1>8
    <2>2. Ends(P, k + 1) <= Ends(P, j)
        BY <1>4, <1>5, <2>1
    <2>3. e = Ends(P, j) /\ b <= Ends(P, k + 1)
        BY <1>1, <1>2, Zenon
    <2>4. QED
        BY <1>6, <2>2, <2>3
<1>9. QED
    BY <1>5, <1>7, <1>8

\* One RECEIVE more.
LEMMA SplitsAppend ==
    ASSUME SplitsExplained, received \in Seq(Seq(Byte)), sent' = sent, cuts \subseteq cuts',
           NEW piece \in Seq(Byte), received' = Append(received, piece),
           NEW start, start = Len(FlattenSeq(received)), NEW end, end = start + Len(piece),
           end \in FrameEnds \cup cuts' \/ Len(piece) = RxBufferSize,
           ~\E e \in FrameEnds : start < e /\ e < end
    PROVE  SplitsExplained'
<1>1. PICK r : r = Append(received, piece)
    OBVIOUS
<1>2. PICK n \in Nat : n = Len(received)
    BY LenProperties
<1>3. /\ r \in Seq(Seq(Byte)) /\ Len(r) = n + 1 /\ DOMAIN r = 1..(n + 1)
      /\ \A i \in 1..n : r[i] = received[i]
      /\ r[n + 1] = piece
    <2>1. /\ r \in Seq(Seq(Byte)) /\ Len(r) = n + 1
          /\ \A i \in 1..n : r[i] = received[i]
          /\ r[n + 1] = piece
        BY <1>1, <1>2, AppendProperties
    <2>2. DOMAIN r = 1..Len(r)
        BY <2>1, LenProperties
    <2>3. QED
        BY <2>1, <2>2, Zenon
<1>4. FrameEnds' = FrameEnds
    BY DEF FrameEnds
<1>5. start \in Nat /\ Len(piece) \in Nat
      /\ Len(FlattenSeq(r)) = end /\ end - Len(piece) = start
    <2>1. PICK a \in Seq(Byte) : a = FlattenSeq(received)
        BY FlatPieces
    <2>2. FlattenSeq(r) = a \o piece
        BY <1>1, <2>1, FlatAppend, Zenon
    <2>3. Len(a) \in Nat /\ Len(piece) \in Nat /\ Len(FlattenSeq(r)) = Len(a) + Len(piece)
        BY <2>2, ConcatAt
    <2>4. start = Len(a)
        BY <2>1
    <2>5. QED
        BY <2>3, <2>4
<1>6. ASSUME NEW k \in 1..(n + 1)
      PROVE  LET l == Len(FlattenSeq(SubSeq(r, 1, k)))
                 s == l - Len(r[k])
             IN  /\ \/ l \in FrameEnds \cup cuts'
                    \/ Len(r[k]) = RxBufferSize
                 /\ ~\E e \in FrameEnds : s < e /\ e < l
    <2>1. CASE k = n + 1
        <3>1. SubSeq(r, 1, k) = r
            BY <1>3, <2>1, SubSeqFull, Zenon
        <3>2. r[k] = piece
            BY <1>3, <2>1, Zenon
        <3>3. QED
            BY <1>5, <3>1, <3>2, Zenon
    <2>2. CASE k # n + 1
        <3>1. k \in 1..n /\ k \in 0..n
            BY <2>2
        <3>2. SubSeq(r, 1, k) = SubSeq(received, 1, k)
            BY <1>1, <1>2, <3>1, EndsAppend, Zenon
        <3>3. r[k] = received[k]
            BY <1>3, <3>1, Zenon
        <3>4. k \in DOMAIN received
            BY <1>2, <3>1, LenProperties
        <3>5. LET l == Len(FlattenSeq(SubSeq(received, 1, k)))
                  s == l - Len(received[k])
              IN  /\ \/ l \in FrameEnds \cup cuts
                     \/ Len(received[k]) = RxBufferSize
                  /\ ~\E e \in FrameEnds : s < e /\ e < l
            BY <3>4, Zenon DEF SplitsExplained
        <3>6. QED
            BY <3>2, <3>3, <3>5, Zenon
    <2>3. QED
        BY <2>1, <2>2
<1>7. received' = r
    BY <1>1
<1>8. QED
    BY <1>3, <1>4, <1>6, <1>7, Zenon DEF SplitsExplained

\* More frames are parsed, and none of them is answered.
LEMMA EchoMore ==
    ASSUME NEW a, NEW s, NEW k \in Nat, NEW l \in Nat, k <= l, Echo(a, s, k)
    PROVE  Echo(a, s, l)
<1>1. PICK ping \in [DOMAIN a -> 1..k] :
         /\ \A i \in DOMAIN a : s[ping[i]].opcode = PING /\ a[i] = s[ping[i]].payload
         /\ \A i, j \in DOMAIN a : i < j => ping[i] < ping[j]
    BY DEF Echo
<1>2. ping \in [DOMAIN a -> 1..l]
    OBVIOUS
<1>3. QED
    BY <1>1, <1>2, Zenon DEF Echo

\* The frames that are parsed determine the answers.
LEMMA EchoLocal ==
    ASSUME NEW a, NEW s, NEW t, NEW k \in Nat, \A i \in 1..k : s[i] = t[i], Echo(a, s, k)
    PROVE  Echo(a, t, k)
<1>1. PICK ping \in [DOMAIN a -> 1..k] :
         /\ \A i \in DOMAIN a : s[ping[i]].opcode = PING /\ a[i] = s[ping[i]].payload
         /\ \A i, j \in DOMAIN a : i < j => ping[i] < ping[j]
    BY DEF Echo
<1>2. \A i \in DOMAIN a : s[ping[i]] = t[ping[i]]
    <2>1. \A i \in DOMAIN a : ping[i] \in 1..k
        BY <1>1
    <2>2. QED
        BY <2>1, Zenon
<1>3. \A i \in DOMAIN a : t[ping[i]].opcode = PING /\ a[i] = t[ping[i]].payload
    BY <1>1, <1>2
<1>4. QED
    BY <1>1, <1>3, Zenon DEF Echo

\* The next frame is a ping, and its answer is the last one.
LEMMA EchoAppend ==
    ASSUME NEW a \in Seq(Seq(Byte)), NEW s, NEW k \in Nat, Echo(a, s, k),
           s[k + 1].opcode = PING, s[k + 1].payload \in Seq(Byte)
    PROVE  Echo(Append(a, s[k + 1].payload), s, k + 1)
<1>1. PICK ping \in [DOMAIN a -> 1..k] :
         /\ \A i \in DOMAIN a : s[ping[i]].opcode = PING /\ a[i] = s[ping[i]].payload
         /\ \A i, j \in DOMAIN a : i < j => ping[i] < ping[j]
    BY DEF Echo
<1>2. PICK n \in Nat : n = Len(a) /\ DOMAIN a = 1..n
    BY LenProperties
<1>3. PICK b : b = Append(a, s[k + 1].payload)
    OBVIOUS
<1>4. /\ DOMAIN b = 1..(n + 1)
      /\ \A i \in 1..n : b[i] = a[i]
      /\ b[n + 1] = s[k + 1].payload
    <2>1. PICK x \in Seq(Byte) : x = s[k + 1].payload
        OBVIOUS
    <2>2. b = Append(a, x)
        BY <1>3, <2>1
    <2>3. /\ b \in Seq(Seq(Byte)) /\ Len(b) = n + 1
          /\ \A i \in 1..n : b[i] = a[i]
          /\ b[n + 1] = x
        BY <1>2, <2>2, AppendProperties
    <2>4. DOMAIN b = 1..(n + 1)
        BY <2>3, LenProperties
    <2>5. QED
        BY <2>1, <2>3, <2>4, Zenon
<1>5. PICK more : more = [i \in 1..(n + 1) |-> IF i = n + 1 THEN k + 1 ELSE ping[i]]
    OBVIOUS
<1>6. \A i \in 1..n : ping[i] \in 1..k
    BY <1>2
<1>7. more \in [1..(n + 1) -> 1..(k + 1)]
    <2>1. ASSUME NEW i \in 1..(n + 1)
          PROVE  (IF i = n + 1 THEN k + 1 ELSE ping[i]) \in 1..(k + 1)
        <3>1. CASE i = n + 1
            BY <3>1
        <3>2. CASE i # n + 1
            <4>1. ping[i] \in 1..k
                BY <1>6, <3>2
            <4>2. QED
                BY <3>2, <4>1
        <3>3. QED
            BY <3>1, <3>2
    <2>2. QED
        BY <1>5, <2>1
<1>8. more[n + 1] = k + 1 /\ \A i \in 1..n : more[i] = ping[i]
    BY <1>5
<1>9. \A i \in 1..(n + 1) : i = n + 1 \/ i \in 1..n
    OBVIOUS
<1>10. \A i \in 1..(n + 1) : s[more[i]].opcode = PING /\ b[i] = s[more[i]].payload
    BY <1>1, <1>2, <1>4, <1>8, <1>9, Zenon
<1>11. ASSUME NEW i \in 1..(n + 1), NEW j \in 1..(n + 1), i < j
       PROVE  more[i] < more[j]
    <2>1. i \in 1..n
        BY <1>11
    <2>2. CASE j = n + 1
        <3>1. ping[i] \in 1..k
            BY <1>6, <2>1
        <3>2. ping[i] < k + 1
            BY <3>1
        <3>3. QED
            BY <1>8, <2>1, <2>2, <3>2, Zenon
    <2>3. CASE j # n + 1
        <3>1. j \in 1..n
            BY <2>3
        <3>2. QED
            BY <1>1, <1>2, <1>8, <1>11, <2>1, <3>1, Zenon
    <2>4. QED
        BY <2>2, <2>3
<1>12. Echo(b, s, k + 1)
    BY <1>4, <1>7, <1>10, <1>11, Zenon DEF Echo
<1>13. QED
    BY <1>3, <1>12, Zenon

-----------------------------------------------------------------------------
(* The end of a frame                                                      *)

\* All bytes of a legal frame are parsed.
LEMMA FrameDone ==
    ASSUME sent \in Seq(Frames), sent' = sent, wire' = wire,
           NEW k \in 0..Len(sent), k < Len(sent),
           \A i \in 1..k : LegalFrame(sent, i), LegalFrame(sent, k + 1),
           ws'.state = "NEW", ws'.rx_ubuf = <<>>, FlagsAfter(ws', sent, k + 1),
           NEW o, o = Len(Encode(sent[k + 1])),
           BytesFrom(Ends(Encodings(sent), k) + o, buf', wire, Stream(sent)),
           FirstBytes(FlattenSeq(received'), Ends(DataPieces(sent), k + 1), DataOf(sent))
    PROVE  Parsing(k + 1, 0)' /\ k + 1 \in 0..Len(sent')
<1>1. k \in Nat /\ Len(sent) \in Nat /\ k + 1 \in 0..Len(sent)
    BY PiecesType
<1>2. \A i \in 1..(k + 1) : LegalFrame(sent, i)
    <2> SUFFICES ASSUME NEW i \in 1..(k + 1)
                 PROVE  LegalFrame(sent, i)
        OBVIOUS
    <2>1. i \in 1..k \/ i = k + 1
        BY <1>1
    <2>2. QED
        BY <2>1, Zenon
<1>3. Ends(Encodings(sent), k + 1) + 0 = Ends(Encodings(sent), k) + o
    <2>1. /\ Ends(Encodings(sent), k) \in Nat /\ Len(Encode(sent[k + 1])) \in Nat
          /\ Ends(Encodings(sent), k + 1)
                = Ends(Encodings(sent), k) + Len(Encode(sent[k + 1]))
        BY <1>1, StreamAt
    <2>2. QED
        BY <2>1
<1>4. BytesFrom(Ends(Encodings(sent), k + 1) + 0, buf', wire, Stream(sent))
    BY <1>3, Zenon
<1>5. BetweenFrames(k + 1, 0)'
    BY Zenon DEF BetweenFrames
<1>6. Parsing(k + 1, 0)'
    BY <1>2, <1>4, <1>5, Zenon DEF Parsing
<1>7. QED
    BY <1>1, <1>6, Zenon

\* RECEIVE was not called, or with nothing.
LEMMA EmptyReceive ==
    ASSUME received \in Seq(Seq(Byte)),
           received' = received \/ received' = Append(received, <<>>)
    PROVE  FlattenSeq(received') = FlattenSeq(received) /\ received' \in Seq(Seq(Byte))
<1>1. CASE received' = received
    BY <1>1
<1>2. CASE received' = Append(received, <<>>)
    <2>1. PICK e \in Seq(Byte) : e = <<>>
        BY EmptySeq
    <2>2. received' = Append(received, e)
        BY <1>2, <2>1, Zenon
    <2>3. received' \in Seq(Seq(Byte))
        BY <2>2, AppendProperties
    <2>4. PICK a \in Seq(Byte) : a = FlattenSeq(received)
        BY FlatPieces
    <2>5. FlattenSeq(Append(received, e)) = a \o e
        BY <2>4, FlatAppend, Zenon
    <2>6. a \o <<>> = a
        BY ConcatEmptySeq
    <2>7. QED
        BY <2>1, <2>2, <2>3, <2>4, <2>5, <2>6, Zenon
<1>3. QED
    BY <1>1, <1>2

\* spill: the frame was parsed byte by byte.
LEMMA SpillKeeps ==
    ASSUME InStep, open # "closed", NEW k \in 0..Len(sent), NEW o \in Nat, ParsedTo(k, o),
           NEW w \in WsFields, Spill(w), k < Len(sent), Tail(buf) \in Seq(Byte),
           BytesFrom(Ends(Encodings(sent), k) + (o + 1), Tail(buf), wire, Stream(sent)),
           NEW f, f = sent[k + 1], LegalFrame(sent, k + 1),
           o + 1 = Len(Encode(f)), w.opcode = f.opcode,
           IF IsData(f) THEN f.payload = <<>> ELSE w.rx_ubuf = f.payload,
           FlagsAfter(w, sent, k + 1),
           FirstBytes(FlattenSeq(received), Ends(DataPieces(sent), k), DataOf(sent))
    PROVE  WsInv'
<1>1. /\ ws' = [w EXCEPT !.state = "NEW", !.rx_ubuf = <<>>]
      /\ buf' = Tail(buf) /\ wire' = wire /\ sent' = sent /\ pongs' = pongs /\ cuts' = cuts
    BY DEF Spill, Parsed
<1>2. /\ sent \in Seq(Frames) /\ received \in Seq(Seq(Byte))
      /\ pong \in Seq(Seq(Byte)) /\ pongs \in Seq(Seq(Byte))
      /\ open \in {"established", "returned_close"}
      /\ wire \in Seq(Byte)
    BY DEF InStep, WsInv, WsTypes
<1>3. f \in Frames /\ k \in Nat /\ Len(sent) \in Nat
    BY <1>2, StreamAt, PiecesType
<1>4. f.payload \in Seq(Byte)
    BY <1>3, FramePayload
<1>5. ws' \in WsFields /\ ws'.state = "NEW" /\ ws'.rx_ubuf = <<>>
      /\ ws'.continuation_possible = w.continuation_possible
      /\ ws'.owed_a_fin = w.owed_a_fin
    BY <1>1, EmptySeq DEF WsFields
<1>6. FlagsAfter(ws', sent, k + 1)
    BY <1>5, Zenon DEF FlagsAfter
<1>7. received' = received \/ (IsData(f) /\ received' = Append(received, <<>>))
    BY DEF Spill, SpillControl, IsData
<1>8. FlattenSeq(received') = FlattenSeq(received) /\ received' \in Seq(Seq(Byte))
    BY <1>2, <1>7, EmptyReceive
<1>9. Ends(DataPieces(sent), k + 1) = Ends(DataPieces(sent), k)
      /\ Ends(DataPieces(sent), k) \in Nat
    <2>1. DataPiece(f) = <<>>
        BY DEF DataPiece
    <2>2. Len(DataPiece(f)) = 0
        BY <2>1, EmptySeq
    <2>3. /\ Ends(DataPieces(sent), k) \in Nat
          /\ Ends(DataPieces(sent), k + 1) = Ends(DataPieces(sent), k) + Len(DataPiece(f))
        BY <1>2, <1>3, DataAt
    <2>4. QED
        BY <2>2, <2>3
<1>10. FirstBytes(FlattenSeq(received'), Ends(DataPieces(sent), k + 1), DataOf(sent))
    BY <1>8, <1>9, Zenon
<1>11. Parsing(k + 1, 0)' /\ k + 1 \in 0..Len(sent')
    <2>1. \A i \in 1..k : LegalFrame(sent, i)
        BY Zenon DEF ParsedTo, Parsing
    <2>2. PICK oo : oo = o + 1
        OBVIOUS
    <2>3. /\ oo = Len(Encode(sent[k + 1]))
          /\ BytesFrom(Ends(Encodings(sent), k) + oo, buf', wire, Stream(sent))
        BY <1>1, <2>2, Zenon
    <2>4. QED
        BY <1>1, <1>2, <1>5, <1>6, <1>10, <2>1, <2>3, FrameDone, Zenon
<1>12. SplitsExplained'
    <2>1. CASE received' = received
        BY <1>1, <2>1 DEF InStep, WsInv, SplitsExplained, FrameEnds
    <2>2. CASE received' = Append(received, <<>>)
        <3>1. PICK e \in Seq(Byte) : e = <<>>
            BY EmptySeq
        <3>2. PICK n \in Nat : n = Ends(DataPieces(sent), k)
            BY <1>9
        <3>3. n = Len(FlattenSeq(received))
            BY <3>2, Zenon DEF FirstBytes
        <3>4. n \in FrameEnds
            BY <1>2, <3>2, FrameEndsAre, Zenon
        <3>5. ~\E x \in FrameEnds : n < x /\ x < n
            <4>1. ASSUME NEW x \in FrameEnds, n < x, x < n
                  PROVE  FALSE
                <5>1. n <= Ends(DataPieces(sent), k + 1) /\ Ends(DataPieces(sent), k) <= n
                    BY <1>9, <3>2
                <5>2. QED
                    BY <1>2, <1>3, <4>1, <5>1, NoEndBetween, Zenon
            <4>2. QED
                BY <4>1, Zenon
        <3>6. n = n + Len(e)
            BY <3>1, EmptySeq
        <3>7. SplitsExplained /\ cuts \subseteq cuts' /\ received' = Append(received, e)
            BY <1>1, <2>2, <3>1 DEF InStep, WsInv
        <3>8. QED
            BY <1>1, <1>2, <3>3, <3>4, <3>5, <3>6, <3>7, SplitsAppend
    <2>3. QED
        BY <1>7, <2>1, <2>2
<1>13. PongsEcho'
    BY <1>1 DEF InStep, WsInv, PongsEcho
<1>14. CASE w.opcode = CLOSE
    <2>1. IsControl(w.opcode)
        BY <1>14 DEF IsControl, CLOSE
    <2>2. open' = "returned_close" /\ (pong' = pong \/ pong' = <<w.rx_ubuf>>)
        <3>1. PeerClose(open) = "returned_close"
            BY <1>2 DEF PeerClose
        <3>2. QED
            BY <1>14, <2>1, <3>1 DEF Spill, SpillControl
    <2>3. pong' \in Seq(Seq(Byte))
        <3>1. w.rx_ubuf \in Seq(Byte)
            BY DEF WsFields
        <3>2. <<w.rx_ubuf>> \in Seq(Seq(Byte))
            BY <3>1
        <3>3. QED
            BY <1>2, <2>2, <3>2
    <2>4. k + 1 \in DOMAIN sent /\ sent[k + 1].opcode = CLOSE
        BY <1>2, <1>3, <1>14, PiecesType
    <2>5. WsTypes'
        BY <1>1, <1>2, <1>5, <1>8, <2>2, <2>3 DEF WsTypes
    <2>6. ParsedTo(k + 1, 0)'
        BY <1>11, <2>2 DEF ParsedTo
    <2>7. QED
        BY <1>1, <1>11, <1>12, <1>13, <2>2, <2>4, <2>5, <2>6 DEF InStep, WsInv
<1>15. CASE w.opcode # CLOSE
    <2>1. open' = open
        BY <1>15 DEF Spill, SpillControl
    <2>2. pong' = pong \/ (w.opcode = PING /\ pong = <<>> /\ pong' = <<w.rx_ubuf>>)
        BY <1>15 DEF Spill, SpillControl
    <2>3. pong' \in Seq(Seq(Byte))
        <3>1. PICK x \in Seq(Byte) : x = w.rx_ubuf
            BY DEF WsFields
        <3>2. <<x>> \in Seq(Seq(Byte))
            OBVIOUS
        <3>3. QED
            BY <1>2, <2>2, <3>1, <3>2, Zenon
    <2>4. WsTypes'
        BY <1>1, <1>2, <1>5, <1>8, <2>1, <2>3 DEF WsTypes
    <2>5. ASSUME open = "established"
          PROVE  Echo(pongs \o pong', sent, k + 1)
        <3>1. Echo(pongs \o pong, sent, k)
            BY <2>5 DEF ParsedTo
        <3>2. CASE pong' = pong
            <4>1. k <= k + 1 /\ k + 1 \in Nat
                BY <1>3
            <4>2. QED
                BY <1>3, <3>1, <3>2, <4>1, EchoMore
        <3>3. CASE w.opcode = PING /\ pong = <<>> /\ pong' = <<w.rx_ubuf>>
            <4>1. ~IsData(f)
                BY <3>3 DEF IsData, IsControl, PING
            <4>2. w.rx_ubuf = f.payload /\ f.opcode = PING
                BY <3>3, <4>1
            <4>3. pongs \o <<>> = pongs
                BY <1>2, ConcatEmptySeq
            <4>4. Echo(pongs, sent, k)
                BY <3>1, <3>3, <4>3, Zenon
            <4>5. pongs \o <<f.payload>> = Append(pongs, f.payload)
                BY <1>2, <1>4, AppendIsConcat
            <4>6. Echo(Append(pongs, f.payload), sent, k + 1)
                BY <1>2, <1>3, <1>4, <4>2, <4>4, EchoAppend, Zenon
            <4>7. QED
                BY <3>3, <4>2, <4>5, <4>6, Zenon
        <3>4. QED
            BY <2>2, <3>2, <3>3
    <2>6. ParsedTo(k + 1, 0)'
        BY <1>1, <1>11, <2>1, <2>5, Zenon DEF ParsedTo
    <2>7. QED
        <3>1. open' = "returned_close" => \E i \in DOMAIN sent' : sent'[i].opcode = CLOSE
            BY <1>1, <2>1, Zenon DEF InStep, WsInv
        <3>2. open' # "closed" /\ 0 \in Nat
            BY <2>1
        <3>3. QED
            BY <1>11, <1>12, <1>13, <2>4, <2>6, <3>1, <3>2, Zenon DEF InStep, WsInv
<1>16. QED
    BY <1>14, <1>15

-----------------------------------------------------------------------------
(* The first byte                                                          *)

LEMMA InMessageBool ==
    ASSUME NEW s, NEW k
    PROVE  InMessage(s, k) \in BOOLEAN
BY DEF InMessage

\* What lws_ws_rx_sm refuses, when both flags are m, is what is not legal.
LEMMA RefusedIffIllegal ==
    ASSUME NEW op \in 0..15, NEW final \in BOOLEAN, NEW rsv \in 0..7, NEW m \in BOOLEAN,
           ws.continuation_possible = m, ws.owed_a_fin = m
    PROVE  FirstRefused(op, final, rsv) <=>
              ~(/\ rsv \in {0, 4}
                /\ op \in {CONTINUATION, TEXT, BINARY, CLOSE, PING, PONG}
                /\ IF IsControl(op) THEN final ELSE (op = CONTINUATION) <=> m)
<1>1. CASE m
    BY <1>1 DEF FirstRefused, OutOfPlace, IsControl, CONTINUATION, TEXT, BINARY, CLOSE, PING, PONG
<1>2. CASE ~m
    BY <1>2 DEF FirstRefused, OutOfPlace, IsControl, CONTINUATION, TEXT, BINARY, CLOSE, PING, PONG
<1>3. QED
    BY <1>1, <1>2

\* The flags after a first byte that is accepted.
LEMMA FlagsStep ==
    ASSUME NEW op \in 0..15, NEW final \in BOOLEAN, NEW m \in BOOLEAN, NEW mm \in BOOLEAN,
           op \in {CONTINUATION, TEXT, BINARY, CLOSE, PING, PONG},
           IF IsControl(op) THEN final ELSE (op = CONTINUATION) <=> m,
           IF IsControl(op) THEN mm <=> m ELSE mm <=> ~final
    PROVE  /\ (IF op \in {TEXT, BINARY} THEN ~final
               ELSE IF op = CONTINUATION /\ final THEN FALSE ELSE m) = mm
           /\ (IF ~final THEN TRUE ELSE IF IsControl(op) THEN m ELSE FALSE) = mm
<1>1. \/ IsControl(op) /\ op \notin {TEXT, BINARY} /\ op # CONTINUATION
      \/ ~IsControl(op) /\ op \in {TEXT, BINARY} /\ op # CONTINUATION
      \/ ~IsControl(op) /\ op \notin {TEXT, BINARY} /\ op = CONTINUATION
    BY DEF IsControl, CONTINUATION, TEXT, BINARY, CLOSE, PING, PONG
<1>2. CASE IsControl(op) /\ op \notin {TEXT, BINARY} /\ op # CONTINUATION
    BY <1>2, Zenon
<1>3. CASE ~IsControl(op) /\ op \in {TEXT, BINARY} /\ op # CONTINUATION
    BY <1>3, Zenon
<1>4. CASE ~IsControl(op) /\ op \notin {TEXT, BINARY} /\ op = CONTINUATION
    BY <1>4, Zenon
<1>5. QED
    BY <1>1, <1>2, <1>3, <1>4, Zenon

LEMMA FirstByteKeeps ==
    ASSUME InStep, FirstByte
    PROVE  WsInv'
<1>1. open # "closed" /\ buf # <<>> /\ ws.state = "NEW"
    BY DEF FirstByte, AtByte
<1>2. /\ WsTypes /\ sent \in Seq(Frames) /\ ws \in WsFields
    BY DEF InStep, WsInv, WsTypes
<1>3. PICK k \in 0..Len(sent), o \in Nat : ParsedTo(k, o)
    BY <1>1 DEF InStep, WsInv
<1>4. Parsing(k, o)
    BY <1>3 DEF ParsedTo
<1>5. BetweenFrames(k, o)
    BY <1>1, <1>4 DEF Parsing, WithinFrame, InFrame, AfterFirst, InLength, InKey, InPayload
<1>6. /\ o = 0 /\ ws.rx_ubuf = <<>> /\ FlagsAfter(ws, sent, k)
      /\ FirstBytes(FlattenSeq(received), Ends(DataPieces(sent), k), DataOf(sent))
    BY <1>5, Zenon DEF BetweenFrames
<1>7. /\ k < Len(sent) /\ sent[k + 1] \in Frames
      /\ Head(buf) = Encode(sent[k + 1])[o + 1]
      /\ BytesFrom(Ends(Encodings(sent), k) + (o + 1), Tail(buf), wire, Stream(sent))
      /\ Tail(buf) \in Seq(Byte)
    BY <1>1, <1>2, <1>4, NextByte
<1>8. PICK f \in Frames : f = sent[k + 1]
    BY <1>7
<1>9. PICK b : b = Head(buf)
    OBVIOUS
<1>10. b = FirstByteOf(f)
    <2>1. Encode(f)[1] = FirstByteOf(f)
        BY EncodeAt
    <2>2. o + 1 = 1
        BY <1>6
    <2>3. QED
        BY <1>7, <1>8, <1>9, <2>1, <2>2, Zenon
<1>11. PICK op \in 0..15 : op = f.opcode
    BY FrameNumbers
<1>12. PICK rsv \in 0..7 : rsv = f.rsv
    BY FrameNumbers
<1>13. PICK final \in BOOLEAN : final = f.final
    BY FrameFlags
<1>14. b % 16 = op /\ (b \div 16) % 8 = rsv /\ ((b >= 128) <=> final)
    <2>1. b = FirstByteIs(final, rsv, op)
        BY <1>10, <1>11, <1>12, <1>13, Zenon DEF FirstByteOf
    <2>2. CASE final
        BY <2>1, <2>2 DEF FirstByteIs
    <2>3. CASE ~final
        BY <2>1, <2>3 DEF FirstByteIs
    <2>4. QED
        BY <2>2, <2>3, Zenon
<1>15. PICK m \in BOOLEAN : m = InMessage(sent, k)
    BY InMessageBool
<1>16. PICK mm \in BOOLEAN : mm = InMessage(sent, k + 1)
    BY InMessageBool
<1>17. ws.continuation_possible = m /\ ws.owed_a_fin = m
    BY <1>6, <1>15, Zenon DEF FlagsAfter
<1>18. (b >= 128) = final
    BY <1>14
<1>19. StartsLegal(sent, k + 1) <=>
          /\ rsv \in {0, 4}
          /\ op \in {CONTINUATION, TEXT, BINARY, CLOSE, PING, PONG}
          /\ IF IsControl(op) THEN final ELSE (op = CONTINUATION) <=> m
    <2>1. (k + 1) - 1 = k
        OBVIOUS
    <2>2. QED
        BY <1>8, <1>11, <1>12, <1>13, <1>15, <2>1, Zenon DEF StartsLegal
<1>20. FirstRefused(op, final, rsv) <=> ~StartsLegal(sent, k + 1)
    BY <1>17, <1>19, RefusedIffIllegal
<1> DEFINE w == [ws EXCEPT
                    !.state = "LEN", !.opcode = op, !.final = final,
                    !.continuation_possible =
                        IF op \in {TEXT, BINARY} THEN ~final
                        ELSE IF op = CONTINUATION /\ final THEN FALSE ELSE @,
                    !.owed_a_fin = IF ~final THEN TRUE
                                   ELSE IF IsControl(op) THEN @ ELSE FALSE,
                    !.mask = ZeroKey]
<1>21. IF FirstRefused(op, final, rsv) THEN \E v : Refuse(v) ELSE Continue(w)
    BY <1>9, <1>14, <1>18, Zenon DEF FirstByte
<1>22. CASE FirstRefused(op, final, rsv)
    <2>1. ~LegalFrame(sent, k + 1)
        BY <1>20, <1>22 DEF StartsLegal, LegalFrame
    <2>2. QED
        BY <1>4, <1>7, <1>21, <1>22, <2>1, BailKeeps, Zenon
<1>23. CASE ~FirstRefused(op, final, rsv)
    <2>1. /\ op \in {CONTINUATION, TEXT, BINARY, CLOSE, PING, PONG}
          /\ IF IsControl(op) THEN final ELSE (op = CONTINUATION) <=> m
        BY <1>19, <1>20, <1>23, Zenon
    <2>2. IF IsControl(op) THEN mm <=> m ELSE mm <=> ~final
        <3>1. k + 1 \in Nat /\ k + 1 >= 1 /\ (k + 1) - 1 = k
            OBVIOUS
        <3>2. /\ IsData(f) => (InMessage(sent, k + 1) <=> ~f.final)
              /\ ~IsData(f) => (InMessage(sent, k + 1) <=> InMessage(sent, k))
            <4>1. PICK l \in Nat : l = k + 1
                BY <3>1
            <4>2. l >= 1 /\ l - 1 = k
                BY <4>1
            <4>3. /\ IsData(sent[l]) => (InMessage(sent, l) <=> ~sent[l].final)
                  /\ ~IsData(sent[l]) => (InMessage(sent, l) <=> InMessage(sent, l - 1))
                BY <4>2, InMessageStep
            <4>4. QED
                BY <1>8, <4>1, <4>2, <4>3, Zenon
        <3>3. QED
            BY <1>11, <1>13, <1>15, <1>16, <3>2, Zenon DEF IsData
    <2>3. /\ (IF op \in {TEXT, BINARY} THEN ~final
              ELSE IF op = CONTINUATION /\ final THEN FALSE ELSE m) = mm
          /\ (IF ~final THEN TRUE ELSE IF IsControl(op) THEN m ELSE FALSE) = mm
        BY <2>1, <2>2, FlagsStep, Zenon
    <2>4. PICK v : v = w
        OBVIOUS
    <2>5. v = [ws EXCEPT !.state = "LEN", !.opcode = op, !.final = final,
                         !.continuation_possible = mm, !.owed_a_fin = mm,
                         !.mask = ZeroKey]
        BY <1>17, <2>3, <2>4, Zenon
    <2>6. ZeroKey \in [0..3 -> Byte]
        BY DEF ZeroKey, Byte
    <2>7. v \in WsFields
        BY <1>2, <2>5, <2>6 DEF WsFields
    <2>8. /\ v.state = "LEN" /\ v.opcode = op /\ v.mask = ZeroKey /\ v.rx_ubuf = <<>>
          /\ v.continuation_possible = mm /\ v.owed_a_fin = mm
        BY <1>2, <1>6, <2>5 DEF WsFields
    <2>9. InFrame(v, f, o + 1)
        <3>1. o + 1 = 1
            BY <1>6
        <3>2. QED
            BY <1>11, <2>8, <3>1, Zenon DEF InFrame, AfterFirst
    <2>10. Delivered(v, f) = 0
        BY <2>8 DEF Delivered
    <2>11. FlagsAfter(v, sent, k + 1)
        BY <1>16, <2>8, Zenon DEF FlagsAfter
    <2>12. Continue(v)
        BY <1>21, <1>23, <2>4, Zenon
    <2>13. StartsLegal(sent, k + 1)
        BY <1>20, <1>23, Zenon
    <2>14. QED
        BY <1>1, <1>3, <1>6, <1>7, <1>8, <2>7, <2>9, <2>10, <2>11, <2>12, <2>13,
           ContinueKeeps, Zenon
<1>24. QED
    BY <1>22, <1>23

-----------------------------------------------------------------------------
(* The rest of the header                                                  *)

\* A byte that is not the first one of its frame.
LEMMA InByte ==
    ASSUME InStep, open # "closed", buf # <<>>, ws.state # "NEW",
           ws.state = "PAYLOAD" => ws.rx_packet_length > 0
    PROVE  \E k \in 0..Len(sent), o \in Nat, f \in Frames :
              /\ ParsedTo(k, o) /\ k < Len(sent) /\ f = sent[k + 1]
              /\ StartsLegal(sent, k + 1) /\ InFrame(ws, f, o) /\ FlagsAfter(ws, sent, k + 1)
              /\ Delivered(ws, f) = 0 =>
                    FirstBytes(FlattenSeq(received), Ends(DataPieces(sent), k), DataOf(sent))
              /\ Head(buf) = Encode(f)[o + 1]
              /\ BytesFrom(Ends(Encodings(sent), k) + (o + 1), Tail(buf), wire, Stream(sent))
              /\ Tail(buf) \in Seq(Byte)
<1>1. WsTypes /\ sent \in Seq(Frames)
    BY DEF InStep, WsInv, WsTypes
<1>2. PICK k \in 0..Len(sent), o \in Nat : ParsedTo(k, o)
    BY DEF InStep, WsInv
<1>3. Parsing(k, o)
    BY <1>2 DEF ParsedTo
<1>4. WithinFrame(k, o)
    BY <1>3 DEF Parsing, BetweenFrames
<1>5. /\ k < Len(sent) /\ sent[k + 1] \in Frames
      /\ Head(buf) = Encode(sent[k + 1])[o + 1]
      /\ BytesFrom(Ends(Encodings(sent), k) + (o + 1), Tail(buf), wire, Stream(sent))
      /\ Tail(buf) \in Seq(Byte)
    BY <1>1, <1>3, NextByte
<1>6. PICK f \in Frames : f = sent[k + 1]
    BY <1>5
<1>7. /\ StartsLegal(sent, k + 1) /\ InFrame(ws, f, o) /\ FlagsAfter(ws, sent, k + 1)
      /\ FirstBytes(FlattenSeq(received), Ends(DataPieces(sent), k) + Delivered(ws, f),
                    DataOf(sent))
    BY <1>4, <1>6, Zenon DEF WithinFrame
<1>8. ASSUME Delivered(ws, f) = 0
      PROVE  FirstBytes(FlattenSeq(received), Ends(DataPieces(sent), k), DataOf(sent))
    <2>1. Ends(DataPieces(sent), k) \in Nat
        <3>1. k \in Nat
            OBVIOUS
        <3>2. QED
            BY <1>1, <1>5, <3>1, DataAt, Zenon
    <2>2. Ends(DataPieces(sent), k) + 0 = Ends(DataPieces(sent), k)
        BY <2>1
    <2>3. QED
        BY <1>7, <1>8, <2>2, Zenon
<1>9. QED
    BY <1>2, <1>5, <1>6, <1>7, <1>8, Zenon

\* The header is complete, and the payload is next.
LEMMA StartPayload ==
    ASSUME NEW f \in Frames, NEW v, v.state = "PAYLOAD", v.opcode = f.opcode,
           v.rx_packet_length = Len(f.payload), LengthKnown(v, f), v.rx_ubuf = <<>>,
           IF f.masked THEN v.mask = f.key /\ v.mask_idx = 0 ELSE v.mask = ZeroKey,
           IsData(f) \/ v.rx_packet_length > 0, NEW o, o = HeaderLen(f)
    PROVE  InFrame(v, f, o) /\ Delivered(v, f) = 0
<1>1. PICK n \in Nat : n = Len(f.payload)
    BY FrameNumbers
<1>2. PICK h \in Nat : h = HeaderLen(f)
    BY EncodeAt
<1>3. n - n = 0 /\ h + n - n = h /\ 0 % 4 = 0
    OBVIOUS
<1>4. Len(f.payload) - v.rx_packet_length = 0
    BY <1>1, <1>3, Zenon
<1>5. o = HeaderLen(f) + Len(f.payload) - v.rx_packet_length
    BY <1>1, <1>2, <1>3, Zenon
<1>6. v.rx_ubuf = SubSeq(f.payload, 1, Len(f.payload) - v.rx_packet_length)
    <2>1. SubSeq(f.payload, 1, 0) = <<>>
        BY SubSeqEmpty
    <2>2. QED
        BY <1>4, <2>1, Zenon
<1>7. f.masked => v.mask_idx = (Len(f.payload) - v.rx_packet_length) % 4
    BY <1>3, <1>4, Zenon
<1>8. InPayload(v, f, o)
    BY <1>5, <1>6, <1>7, Zenon DEF InPayload
<1>9. Delivered(v, f) = 0
    BY <1>4, Zenon DEF Delivered
<1>10. QED
    BY <1>8, <1>9, Zenon DEF InFrame

\* A frame without a payload ends with its header.
LEMMA EmptyPayload ==
    ASSUME NEW f \in Frames, Len(f.payload) = 0
    PROVE  f.payload = <<>> /\ Len(Encode(f)) = HeaderLen(f)
<1>1. f.payload = <<>>
    BY FramePayload, EmptySeq
<1>2. Len(Encode(f)) = HeaderLen(f) + 0 /\ HeaderLen(f) \in Nat
    BY EncodeAt
<1>3. QED
    BY <1>1, <1>2

LEMMA LengthByteKeeps ==
    ASSUME InStep, LengthByte
    PROVE  WsInv'
<1>1. open # "closed" /\ buf # <<>> /\ ws.state = "LEN"
    BY DEF LengthByte, AtByte
<1>2. ws \in WsFields
    BY DEF InStep, WsInv, WsTypes
<1>3. PICK k \in 0..Len(sent), o \in Nat, f \in Frames :
         /\ ParsedTo(k, o) /\ k < Len(sent) /\ f = sent[k + 1]
         /\ StartsLegal(sent, k + 1) /\ InFrame(ws, f, o) /\ FlagsAfter(ws, sent, k + 1)
         /\ Delivered(ws, f) = 0 =>
               FirstBytes(FlattenSeq(received), Ends(DataPieces(sent), k), DataOf(sent))
         /\ Head(buf) = Encode(f)[o + 1]
         /\ BytesFrom(Ends(Encodings(sent), k) + (o + 1), Tail(buf), wire, Stream(sent))
         /\ Tail(buf) \in Seq(Byte)
    BY <1>1, InByte
<1>4. o = 1 /\ ws.mask = ZeroKey /\ ws.rx_ubuf = <<>> /\ ws.opcode = f.opcode
    BY <1>1, <1>3 DEF InFrame, AfterFirst, InLength, InKey, InPayload
<1>5. FirstBytes(FlattenSeq(received), Ends(DataPieces(sent), k), DataOf(sent))
    <2>1. Delivered(ws, f) = 0
        BY <1>1 DEF Delivered
    <2>2. QED
        BY <1>3, <2>1, Zenon
<1>6. PICK b : b = Head(buf)
    OBVIOUS
<1>7. PICK e \in {0, 2, 8} : e = f.ext
    BY FrameNumbers
<1>8. PICK n \in Nat : n = Len(f.payload) /\ (e = 0 => n < 126)
    BY <1>7, FrameNumbers
<1>9. PICK masked \in BOOLEAN : masked = f.masked
    BY FrameFlags
<1>10. PICK length \in Nat : length = IF e = 0 THEN n ELSE IF e = 2 THEN 126 ELSE 127
    OBVIOUS
<1>11. b % 128 = length /\ ((b >= 128) <=> masked) /\ length \in 0..127
    <2>1. b = LengthByteIs(masked, e, n)
        <3>1. Encode(f)[2] = LengthByteOf(f)
            BY EncodeAt
        <3>2. o + 1 = 2
            BY <1>4
        <3>3. QED
            BY <1>3, <1>6, <1>7, <1>8, <1>9, <3>1, <3>2, Zenon DEF LengthByteOf
    <2>2. b = (IF masked THEN 128 ELSE 0) + length
        BY <1>10, <2>1, Zenon DEF LengthByteIs
    <2>3. length \in 0..127
        <3>1. e = 0 => n < 126
            BY <1>8
        <3>2. QED
            BY <1>10, <3>1
    <2>4. CASE masked
        <3>1. b = 128 + length
            BY <2>2, <2>4, Zenon
        <3>2. b % 128 = length /\ b >= 128
            BY <2>3, <3>1
        <3>3. QED
            BY <2>3, <2>4, <3>2, Zenon
    <2>5. CASE ~masked
        <3>1. b = 0 + length
            BY <2>2, <2>5, Zenon
        <3>2. b % 128 = length /\ ~(b >= 128)
            BY <2>3, <3>1
        <3>3. QED
            BY <2>3, <2>5, <3>2, Zenon
    <2>6. QED
        BY <2>4, <2>5, Zenon
<1>12. (b >= 128) = masked
    BY <1>11
<1>13. o + 1 = 2
    BY <1>4
<1>14. HeaderLen(f) = 2 + e + (IF masked THEN 4 ELSE 0)
    BY <1>7, <1>9, Zenon DEF HeaderLen
<1> DEFINE w == [ws EXCEPT !.masked = masked, !.rx_packet_length = length]
<1>15. /\ length >= 126 /\ IsControl(ws.opcode) => Bail
       /\ length >= 126 /\ ~IsControl(ws.opcode) =>
             Continue([w EXCEPT !.state = "LENEXT", !.rx_packet_length = 0,
                                !.need = IF length = 126 THEN 2 ELSE 8])
       /\ length < 126 /\ masked => Continue([w EXCEPT !.state = "KEY", !.need = 4])
       /\ length \in 1..125 /\ ~masked => Continue([w EXCEPT !.state = "PAYLOAD"])
       /\ length = 0 /\ ~masked => Spill(w)
    <2>1. (CASE length >= 126 /\ IsControl(ws.opcode) -> Bail
             [] length >= 126 /\ ~IsControl(ws.opcode) ->
                    Continue([w EXCEPT !.state = "LENEXT", !.rx_packet_length = 0,
                                       !.need = IF length = 126 THEN 2 ELSE 8])
             [] length < 126 /\ masked ->
                    Continue([w EXCEPT !.state = "KEY", !.need = 4])
             [] length \in 1..125 /\ ~masked -> Continue([w EXCEPT !.state = "PAYLOAD"])
             [] OTHER -> Spill(w))
        BY <1>6, <1>11, <1>12, Zenon DEF LengthByte
    <2>2. /\ ~(length >= 126 /\ length < 126)
          /\ length \in 1..125 => length < 126 /\ ~(length >= 126) /\ length # 0
          /\ length = 0 => length < 126 /\ ~(length >= 126) /\ ~(length \in 1..125)
        BY <1>11
    <2>3. QED
        BY <2>1, <2>2, Zenon
<1>16. CASE length >= 126 /\ IsControl(ws.opcode)
    <2>1. f.ext # 0 /\ IsControl(f.opcode)
        BY <1>4, <1>7, <1>8, <1>10, <1>16
    <2>2. ~LegalFrame(sent, k + 1)
        BY <1>3, <2>1, Zenon DEF LegalFrame
    <2>3. Parsing(k, o)
        BY <1>3 DEF ParsedTo
    <2>4. QED
        BY <1>3, <1>15, <1>16, <2>2, <2>3, BailKeeps, Zenon
<1>17. CASE length >= 126 /\ ~IsControl(ws.opcode)
    <2>1. PICK v : v = [w EXCEPT !.state = "LENEXT", !.rx_packet_length = 0,
                                 !.need = IF length = 126 THEN 2 ELSE 8]
        OBVIOUS
    <2>2. e \in {2, 8} /\ e = IF length = 126 THEN 2 ELSE 8
        BY <1>8, <1>10, <1>17
    <2>3. v = [ws EXCEPT !.masked = masked, !.state = "LENEXT", !.rx_packet_length = 0,
                         !.need = e]
        BY <1>2, <2>1, <2>2 DEF WsFields
    <2>4. v \in WsFields
        BY <1>2, <2>2, <2>3 DEF WsFields
    <2>5. /\ v.state = "LENEXT" /\ v.need = e /\ v.masked = f.masked /\ v.opcode = f.opcode
          /\ v.rx_packet_length = 0 /\ v.mask = ZeroKey /\ v.rx_ubuf = <<>>
          /\ v.continuation_possible = ws.continuation_possible
          /\ v.owed_a_fin = ws.owed_a_fin
        BY <1>2, <1>4, <1>9, <2>3 DEF WsFields
    <2>6. IsData(f)
        BY <1>4, <1>17 DEF IsData
    <2>7. e \in 1..e /\ 2 = 2 + e - e /\ e # 1 /\ (e < 8 => ~f.bit63)
        <3>1. e \in 1..e /\ 2 = 2 + e - e /\ e # 1 /\ (e < 8 => e # 8)
            BY <2>2
        <3>2. QED
            BY <1>7, <3>1, NoBit63, Zenon
    <2>8. InLength(v, f, 2)
        BY <1>7, <2>5, <2>6, <2>7, Zenon DEF InLength
    <2>9. InFrame(v, f, o + 1)
        BY <1>13, <2>5, <2>8, Zenon DEF InFrame
    <2>10. Delivered(v, f) = 0
        BY <2>5 DEF Delivered
    <2>11. FlagsAfter(v, sent, k + 1)
        BY <1>3, <2>5, Zenon DEF FlagsAfter
    <2>12. Continue(v)
        BY <1>15, <1>17, <2>1, Zenon
    <2>13. QED
        BY <1>1, <1>3, <1>5, <2>4, <2>9, <2>10, <2>11, <2>12, ContinueKeeps, Zenon
<1>18. CASE length < 126 /\ masked
    <2>1. PICK v : v = [w EXCEPT !.state = "KEY", !.need = 4]
        OBVIOUS
    <2>2. e = 0 /\ length = n
        BY <1>8, <1>10, <1>18
    <2>3. v \in WsFields
        BY <1>2, <2>1 DEF WsFields
    <2>4. /\ v.state = "KEY" /\ v.need = 4 /\ v.opcode = f.opcode
          /\ v.rx_packet_length = n /\ v.rx_ubuf = <<>>
          /\ v.continuation_possible = ws.continuation_possible
          /\ v.owed_a_fin = ws.owed_a_fin
        BY <1>2, <1>4, <2>1, <2>2 DEF WsFields
    <2>5. LengthKnown(v, f)
        <3>1. f.ext = 0 /\ f.ext # 8
            BY <1>7, <2>2
        <3>2. n <= n
            OBVIOUS
        <3>3. QED
            BY <1>8, <2>4, <3>1, <3>2, NoBit63, Zenon DEF LengthKnown
    <2>6. 4 \in 1..4 /\ 2 = 6 + 0 - 4 /\ \A j \in 0..3 : ~(j < 4 - 4)
        OBVIOUS
    <2>7. InKey(v, f, 2)
        BY <1>7, <1>8, <1>9, <1>18, <2>2, <2>4, <2>5, <2>6, Zenon DEF InKey
    <2>8. InFrame(v, f, o + 1)
        BY <1>13, <2>4, <2>7, Zenon DEF InFrame
    <2>9. Delivered(v, f) = 0
        BY <2>4 DEF Delivered
    <2>10. FlagsAfter(v, sent, k + 1)
        BY <1>3, <2>4, Zenon DEF FlagsAfter
    <2>11. Continue(v)
        BY <1>15, <1>18, <2>1, Zenon
    <2>12. QED
        BY <1>1, <1>3, <1>5, <2>3, <2>8, <2>9, <2>10, <2>11, ContinueKeeps, Zenon
<1>19. CASE length \in 1..125 /\ ~masked
    <2>1. PICK v : v = [w EXCEPT !.state = "PAYLOAD"]
        OBVIOUS
    <2>2. e = 0 /\ length = n /\ n > 0
        <3>1. length \in 1..125
            BY <1>19
        <3>2. QED
            BY <1>10, <3>1
    <2>3. v \in WsFields
        BY <1>2, <2>1 DEF WsFields
    <2>4. /\ v.state = "PAYLOAD" /\ v.opcode = f.opcode /\ v.mask = ZeroKey
          /\ v.rx_packet_length = n /\ v.rx_ubuf = <<>>
          /\ v.continuation_possible = ws.continuation_possible
          /\ v.owed_a_fin = ws.owed_a_fin
        BY <1>2, <1>4, <2>1, <2>2 DEF WsFields
    <2>5. LengthKnown(v, f)
        <3>1. f.ext = 0 /\ f.ext # 8
            BY <1>7, <2>2
        <3>2. n <= n
            OBVIOUS
        <3>3. QED
            BY <1>8, <2>4, <3>1, <3>2, NoBit63, Zenon DEF LengthKnown
    <2>6. o + 1 = HeaderLen(f) /\ ~f.masked
        BY <1>9, <1>13, <1>14, <1>19, <2>2
    <2>7. InFrame(v, f, o + 1) /\ Delivered(v, f) = 0
        BY <1>8, <2>2, <2>4, <2>5, <2>6, StartPayload, Zenon
    <2>8. FlagsAfter(v, sent, k + 1)
        BY <1>3, <2>4, Zenon DEF FlagsAfter
    <2>9. Continue(v)
        BY <1>15, <1>19, <2>1, Zenon
    <2>10. QED
        BY <1>1, <1>3, <1>5, <2>3, <2>7, <2>8, <2>9, ContinueKeeps, Zenon
<1>20. CASE length = 0 /\ ~masked
    <2>1. PICK v : v = w
        OBVIOUS
    <2>2. e = 0 /\ n = 0
        BY <1>8, <1>10, <1>20
    <2>3. v \in WsFields
        BY <1>2, <2>1 DEF WsFields
    <2>4. /\ v.opcode = f.opcode /\ v.rx_ubuf = <<>>
          /\ v.continuation_possible = ws.continuation_possible
          /\ v.owed_a_fin = ws.owed_a_fin
        BY <1>2, <1>4, <2>1 DEF WsFields
    <2>5. o + 1 = HeaderLen(f)
        BY <1>13, <1>14, <1>20, <2>2
    <2>6. f.payload = <<>> /\ o + 1 = Len(Encode(f))
        BY <1>8, <2>2, <2>5, EmptyPayload, Zenon
    <2>7. LegalFrame(sent, k + 1)
        <3>1. f.ext = 0 /\ f.ext # 8
            BY <1>7, <2>2
        <3>2. QED
            BY <1>3, <3>1, NoBit63 DEF StartsLegal, LegalFrame
    <2>8. FlagsAfter(v, sent, k + 1)
        BY <1>3, <2>4, Zenon DEF FlagsAfter
    <2>9. Spill(v)
        BY <1>15, <1>20, <2>1, Zenon
    <2>10. IF IsData(f) THEN f.payload = <<>> ELSE v.rx_ubuf = f.payload
        BY <2>4, <2>6, Zenon
    <2>11. QED
        BY <1>1, <1>3, <1>5, <2>3, <2>4, <2>6, <2>7, <2>8, <2>9, <2>10, SpillKeeps, Zenon
<1>21. length >= 126 \/ (length < 126 /\ (length \in 1..125 \/ length = 0))
    BY <1>11
<1>22. QED
    BY <1>16, <1>17, <1>18, <1>19, <1>20, <1>21, Zenon

LEMMA ExtendedLengthByteKeeps ==
    ASSUME InStep, ExtendedLengthByte
    PROVE  WsInv'
<1>1. open # "closed" /\ buf # <<>> /\ ws.state = "LENEXT"
    BY DEF ExtendedLengthByte, AtByte
<1>2. ws \in WsFields
    BY DEF InStep, WsInv, WsTypes
<1>3. PICK k \in 0..Len(sent), o \in Nat, f \in Frames :
         /\ ParsedTo(k, o) /\ k < Len(sent) /\ f = sent[k + 1]
         /\ StartsLegal(sent, k + 1) /\ InFrame(ws, f, o) /\ FlagsAfter(ws, sent, k + 1)
         /\ Delivered(ws, f) = 0 =>
               FirstBytes(FlattenSeq(received), Ends(DataPieces(sent), k), DataOf(sent))
         /\ Head(buf) = Encode(f)[o + 1]
         /\ BytesFrom(Ends(Encodings(sent), k) + (o + 1), Tail(buf), wire, Stream(sent))
         /\ Tail(buf) \in Seq(Byte)
    BY <1>1, InByte
<1>4. InLength(ws, f, o) /\ ws.opcode = f.opcode
    BY <1>1, <1>3 DEF InFrame, AfterFirst, InKey, InPayload
<1>5. FirstBytes(FlattenSeq(received), Ends(DataPieces(sent), k), DataOf(sent))
    <2>1. Delivered(ws, f) = 0
        BY <1>1 DEF Delivered
    <2>2. QED
        BY <1>3, <2>1, Zenon
<1>6. PICK b : b = Head(buf)
    OBVIOUS
<1>7. PICK e \in {0, 2, 8} : e = f.ext
    BY FrameNumbers
<1>8. PICK n \in Nat : n = Len(f.payload)
    BY FrameNumbers
<1>9. PICK bit63 \in BOOLEAN : bit63 = f.bit63 /\ (bit63 => e = 8)
    BY <1>7, FrameFlags, Zenon
<1>10. PICK d \in 1..e : d = ws.need
    BY <1>4, <1>7 DEF InLength
<1>11. PICK rx \in Nat : rx = ws.rx_packet_length
    BY <1>2 DEF WsFields
<1>12. /\ o = 2 + e - d /\ IsData(f) /\ ws.masked = f.masked
       /\ rx = (IF d = 1 THEN n \div 256 ELSE 0) /\ (d < 8 => ~bit63)
       /\ ws.mask = ZeroKey /\ ws.rx_ubuf = <<>>
    BY <1>4, <1>7, <1>8, <1>9, <1>10, <1>11, Zenon DEF InLength
<1>i. PICK i \in 1..e : i = e - d + 1
    OBVIOUS
<1>13. b = ExtendedByteIs(e, bit63, n, i)
    <2>2. o + 1 = 2 + i
        BY <1>12, <1>i
    <2>3. \A j \in 1..f.ext : Encode(f)[2 + j] = ExtendedByteOf(f, j)
        BY EncodeAt, Zenon
    <2>4. b = ExtendedByteOf(f, i)
        BY <1>3, <1>6, <1>7, <2>2, <2>3, Zenon
    <2>5. QED
        BY <1>7, <1>8, <1>9, <2>4, Zenon DEF ExtendedByteOf
<1>14. /\ b \in Byte
       /\ d = 8 /\ b >= 128 => bit63
       /\ d = 8 /\ bit63 => b >= 128
       /\ d = 1 => 256 * rx + b = n
       /\ d = 2 => 256 * rx + b = n \div 256
       /\ d > 2 /\ ~(d = 8 /\ b >= 128) => 256 * rx + b = 0
    <2>1. /\ (bit63 => e = 8) /\ (d < 8 => ~bit63)
          /\ d = 1 => rx = n \div 256
          /\ d # 1 => rx = 0
        BY <1>9, <1>12, Zenon
    <2>2. /\ b \in Byte
          /\ i = e => b = n % 256
          /\ i = e - 1 => b = n \div 256
          /\ i < e - 1 /\ ~(i = 1 /\ bit63) => b = 0
          /\ i < e - 1 /\ i = 1 /\ bit63 => b = 128
        <3>1. n < 65536
            BY <1>8, FrameNumbers
        <3>2. QED
            BY <1>13, <3>1, ExtendedByteRead
    <2>3. QED
        <3>1. /\ d = 8 /\ b >= 128 => bit63
              /\ d = 8 /\ bit63 => b >= 128
              /\ d = 1 => 256 * rx + b = n
              /\ d = 2 => 256 * rx + b = n \div 256
              /\ d > 2 /\ ~(d = 8 /\ b >= 128) => 256 * rx + b = 0
            <4>1. b \in 0..255
                BY <2>2 DEF Byte
            <4>2. CASE d = 1
                <5>1. i = e /\ d # 8 /\ d # 2 /\ ~(d > 2)
                    BY <1>i, <4>2
                <5>2. b = n % 256 /\ rx = n \div 256
                    BY <2>1, <2>2, <4>2, <5>1, Zenon
                <5>3. 256 * rx + b = n
                    <6>1. PICK q \in Nat : q = n \div 256
                        OBVIOUS
                    <6>2. PICK r \in 0..255 : r = n % 256
                        OBVIOUS
                    <6>3. n = 256 * q + r
                        BY <6>1, <6>2
                    <6>4. QED
                        BY <5>2, <6>1, <6>2, <6>3, Zenon
                <5>4. QED
                    BY <5>1, <5>3, Zenon
            <4>3. CASE d = 2
                <5>1. i = e - 1 /\ d # 8 /\ d # 1 /\ ~(d > 2)
                    BY <1>i, <4>3
                <5>2. b = n \div 256 /\ rx = 0
                    BY <2>1, <2>2, <5>1, Zenon
                <5>3. 256 * rx + b = b
                    BY <4>1, <5>2
                <5>4. QED
                    BY <5>1, <5>2, <5>3, Zenon
            <4>4. CASE d > 2
                <5>1. e = 8 /\ i < e - 1 /\ (i = 1 <=> d = 8) /\ d # 1 /\ d # 2
                    BY <1>i, <4>4
                <5>2. CASE d = 8 /\ bit63
                    <6>1. b = 128
                        BY <2>2, <5>1, <5>2, Zenon
                    <6>2. b >= 128
                        BY <6>1
                    <6>3. QED
                        BY <5>1, <5>2, <6>2, Zenon
                <5>3. CASE ~(d = 8 /\ bit63)
                    <6>1. b = 0 /\ rx = 0
                        BY <2>1, <2>2, <5>1, <5>3, Zenon
                    <6>2. ~(b >= 128) /\ 256 * rx + b = 0
                        BY <6>1
                    <6>3. QED
                        BY <5>1, <5>3, <6>2, Zenon
                <5>4. QED
                    BY <5>2, <5>3, Zenon
            <4>5. d = 1 \/ d = 2 \/ d > 2
                OBVIOUS
            <4>6. QED
                BY <4>2, <4>3, <4>4, <4>5, Zenon
        <3>2. QED
            BY <2>2, <3>1, Zenon
<1>15. PICK r \in Nat : r = 256 * rx + b
    BY <1>14 DEF Byte
<1> DEFINE w == [ws EXCEPT !.rx_packet_length = 256 * @ + b, !.need = @ - 1]
<1>16. PICK v : v = [ws EXCEPT !.rx_packet_length = r, !.need = d - 1]
    OBVIOUS
<1>17. v = w
    BY <1>10, <1>11, <1>15, <1>16, Zenon
<1>18. v \in WsFields
    <2>1. d - 1 \in Nat
        OBVIOUS
    <2>2. QED
        BY <1>2, <1>16, <2>1 DEF WsFields
<1>19. /\ v.state = "LENEXT" /\ v.need = d - 1 /\ v.masked = f.masked
       /\ v.opcode = f.opcode /\ v.rx_packet_length = r /\ v.mask = ZeroKey
       /\ v.rx_ubuf = <<>>
       /\ v.continuation_possible = ws.continuation_possible
       /\ v.owed_a_fin = ws.owed_a_fin
    BY <1>1, <1>2, <1>4, <1>12, <1>16 DEF WsFields
<1>20. /\ d = 8 /\ b >= 128 => Bail
       /\ ~(d = 8 /\ b >= 128) =>
             Continue(IF d > 1 THEN v
                      ELSE IF ws.masked THEN [v EXCEPT !.state = "KEY", !.need = 4]
                      ELSE [v EXCEPT !.state = "PAYLOAD"])
    BY <1>6, <1>10, <1>17, Zenon DEF ExtendedLengthByte
<1>21. CASE d = 8 /\ b >= 128
    <2>1. f.bit63
        BY <1>9, <1>14, <1>21, Zenon
    <2>2. ~LegalFrame(sent, k + 1)
        BY <1>3, <2>1, Zenon DEF LegalFrame
    <2>3. Parsing(k, o)
        BY <1>3 DEF ParsedTo
    <2>4. QED
        BY <1>3, <1>20, <1>21, <2>2, <2>3, BailKeeps, Zenon
<1>22. ~(d = 8 /\ b >= 128) => ~f.bit63
    <2>1. d = 8 \/ d < 8
        BY <1>10
    <2>2. QED
        BY <1>9, <1>12, <1>14, <2>1, Zenon
<1>23. CASE ~(d = 8 /\ b >= 128) /\ d > 1
    <2>1. /\ d - 1 \in 1..e /\ o + 1 = 2 + e - (d - 1)
        BY <1>12, <1>23
    <2>2. r = IF d - 1 = 1 THEN n \div 256 ELSE 0
        <3>1. d = 2 \/ (d > 2 /\ d - 1 # 1)
            BY <1>23
        <3>2. d = 2 => d - 1 = 1
            OBVIOUS
        <3>3. QED
            BY <1>14, <1>15, <1>23, <3>1, <3>2, Zenon
    <2>3. InLength(v, f, o + 1)
        BY <1>7, <1>8, <1>12, <1>19, <1>22, <1>23, <2>1, <2>2, Zenon DEF InLength
    <2>4. InFrame(v, f, o + 1)
        BY <1>19, <2>3, Zenon DEF InFrame
    <2>5. Delivered(v, f) = 0
        BY <1>19 DEF Delivered
    <2>6. FlagsAfter(v, sent, k + 1)
        BY <1>3, <1>19, Zenon DEF FlagsAfter
    <2>7. Continue(v)
        BY <1>20, <1>23, Zenon
    <2>8. QED
        BY <1>1, <1>3, <1>5, <1>18, <2>4, <2>5, <2>6, <2>7, ContinueKeeps, Zenon
<1>24. CASE ~(d = 8 /\ b >= 128) /\ ~(d > 1)
    <2>1. d = 1 /\ o + 1 = 2 + e
        BY <1>12, <1>24
    <2>2. r = n
        BY <1>14, <1>15, <2>1, Zenon
    <2>3. n <= n
        OBVIOUS
    <2>4. ASSUME NEW u, u.rx_packet_length = n
          PROVE  LengthKnown(u, f)
        BY <1>8, <1>12, <1>22, <1>24, <2>3, <2>4, Zenon DEF LengthKnown
    <2>5. CASE f.masked
        <3>1. PICK u : u = [v EXCEPT !.state = "KEY", !.need = 4]
            OBVIOUS
        <3>2. u \in WsFields
            BY <1>18, <3>1 DEF WsFields
        <3>3. /\ u.state = "KEY" /\ u.need = 4 /\ u.opcode = f.opcode
              /\ u.rx_packet_length = n /\ u.rx_ubuf = <<>>
              /\ u.continuation_possible = ws.continuation_possible
              /\ u.owed_a_fin = ws.owed_a_fin
            BY <1>18, <1>19, <2>2, <3>1 DEF WsFields
        <3>4. 4 \in 1..4 /\ o + 1 = 6 + e - 4 /\ \A j \in 0..3 : ~(j < 4 - 4)
            BY <2>1
        <3>5. InKey(u, f, o + 1)
            BY <1>7, <1>8, <2>4, <2>5, <3>3, <3>4, Zenon DEF InKey
        <3>6. InFrame(u, f, o + 1)
            BY <3>3, <3>5, Zenon DEF InFrame
        <3>7. Delivered(u, f) = 0
            BY <3>3 DEF Delivered
        <3>8. FlagsAfter(u, sent, k + 1)
            BY <1>3, <3>3, Zenon DEF FlagsAfter
        <3>9. Continue(u)
            BY <1>12, <1>20, <1>24, <2>5, <3>1, Zenon
        <3>10. QED
            BY <1>1, <1>3, <1>5, <3>2, <3>6, <3>7, <3>8, <3>9, ContinueKeeps, Zenon
    <2>6. CASE ~f.masked
        <3>1. PICK u : u = [v EXCEPT !.state = "PAYLOAD"]
            OBVIOUS
        <3>2. u \in WsFields
            BY <1>18, <3>1 DEF WsFields
        <3>3. /\ u.state = "PAYLOAD" /\ u.opcode = f.opcode
              /\ u.rx_packet_length = n /\ u.rx_ubuf = <<>> /\ u.mask = ZeroKey
              /\ u.continuation_possible = ws.continuation_possible
              /\ u.owed_a_fin = ws.owed_a_fin
            BY <1>18, <1>19, <2>2, <3>1 DEF WsFields
        <3>4. o + 1 = HeaderLen(f)
            <4>1. HeaderLen(f) = 2 + e + 0
                BY <1>7, <2>6, Zenon DEF HeaderLen
            <4>2. QED
                BY <2>1, <4>1
        <3>5. InFrame(u, f, o + 1) /\ Delivered(u, f) = 0
            BY <1>8, <1>12, <2>4, <2>6, <3>3, <3>4, StartPayload, Zenon
        <3>6. FlagsAfter(u, sent, k + 1)
            BY <1>3, <3>3, Zenon DEF FlagsAfter
        <3>7. Continue(u)
            BY <1>12, <1>20, <1>24, <2>6, <3>1, Zenon
        <3>8. QED
            BY <1>1, <1>3, <1>5, <3>2, <3>5, <3>6, <3>7, ContinueKeeps, Zenon
    <2>7. QED
        BY <2>5, <2>6
<1>25. QED
    BY <1>21, <1>23, <1>24, Zenon

LEMMA KeyByteKeeps ==
    ASSUME InStep, KeyByte
    PROVE  WsInv'
<1>1. open # "closed" /\ buf # <<>> /\ ws.state = "KEY"
    BY DEF KeyByte, AtByte
<1>2. ws \in WsFields
    BY DEF InStep, WsInv, WsTypes
<1>3. PICK k \in 0..Len(sent), o \in Nat, f \in Frames :
         /\ ParsedTo(k, o) /\ k < Len(sent) /\ f = sent[k + 1]
         /\ StartsLegal(sent, k + 1) /\ InFrame(ws, f, o) /\ FlagsAfter(ws, sent, k + 1)
         /\ Delivered(ws, f) = 0 =>
               FirstBytes(FlattenSeq(received), Ends(DataPieces(sent), k), DataOf(sent))
         /\ Head(buf) = Encode(f)[o + 1]
         /\ BytesFrom(Ends(Encodings(sent), k) + (o + 1), Tail(buf), wire, Stream(sent))
         /\ Tail(buf) \in Seq(Byte)
    BY <1>1, InByte
<1>4. InKey(ws, f, o) /\ ws.opcode = f.opcode
    BY <1>1, <1>3 DEF InFrame, AfterFirst, InLength, InPayload
<1>5. FirstBytes(FlattenSeq(received), Ends(DataPieces(sent), k), DataOf(sent))
    <2>1. Delivered(ws, f) = 0
        BY <1>1 DEF Delivered
    <2>2. QED
        BY <1>3, <2>1, Zenon
<1>6. PICK b : b = Head(buf)
    OBVIOUS
<1>7. PICK e \in {0, 2, 8} : e = f.ext
    BY FrameNumbers
<1>8. PICK n \in Nat : n = Len(f.payload)
    BY FrameNumbers
<1>9. PICK d \in 1..4 : d = ws.need
    BY <1>4 DEF InKey
<1>10. /\ o = 6 + e - d /\ LengthKnown(ws, f) /\ ws.rx_packet_length = n
       /\ f.masked /\ ws.rx_ubuf = <<>>
       /\ \A j \in 0..3 : j < 4 - d => ws.mask[j] = f.key[j]
    BY <1>4, <1>7, <1>8, <1>9, Zenon DEF InKey
<1>11. PICK key \in [0..3 -> Byte] : key = f.key
    BY FramePayload
<1>12. b = key[4 - d] /\ 4 - d \in 0..3 /\ b \in Byte
    <2>1. \A j \in 1..4 : Encode(f)[2 + f.ext + j] = f.key[j - 1]
        BY <1>10, EncodeAt, Zenon
    <2>2. 5 - d \in 1..4 /\ o + 1 = 2 + e + (5 - d) /\ (5 - d) - 1 = 4 - d /\ 4 - d \in 0..3
        BY <1>10
    <2>3. Encode(f)[2 + f.ext + (5 - d)] = f.key[(5 - d) - 1]
        BY <2>1, <2>2, Zenon
    <2>4. b = key[4 - d]
        BY <1>3, <1>6, <1>7, <1>11, <2>2, <2>3, Zenon
    <2>5. QED
        BY <2>2, <2>4
<1>13. PICK mask \in [0..3 -> Byte] : mask = [ws.mask EXCEPT ![4 - d] = b]
    BY <1>2, <1>12 DEF WsFields
<1>14. \A j \in 0..3 : j < 5 - d => mask[j] = key[j]
    <2> SUFFICES ASSUME NEW j \in 0..3, j < 5 - d
                 PROVE  mask[j] = key[j]
        OBVIOUS
    <2>1. PICK old \in [0..3 -> Byte] : old = ws.mask
        BY <1>2 DEF WsFields
    <2>2. mask = [old EXCEPT ![4 - d] = b]
        BY <1>13, <2>1
    <2>3. CASE j = 4 - d
        BY <1>12, <2>2, <2>3
    <2>4. CASE j # 4 - d
        <3>1. j < 4 - d
            BY <2>4
        <3>2. mask[j] = old[j]
            BY <2>2, <2>4
        <3>3. QED
            BY <1>10, <1>11, <2>1, <3>1, <3>2, Zenon
    <2>5. QED
        BY <2>3, <2>4
<1> DEFINE w == [ws EXCEPT !.mask[4 - ws.need] = Head(buf), !.need = @ - 1]
<1>15. PICK v : v = [ws EXCEPT !.mask = mask, !.need = d - 1]
    OBVIOUS
<1>16. v = w
    BY <1>2, <1>6, <1>9, <1>13, <1>15, Zenon DEF WsFields
<1>17. v \in WsFields
    <2>1. d - 1 \in Nat
        OBVIOUS
    <2>2. QED
        BY <1>2, <1>15, <2>1 DEF WsFields
<1>18. /\ v.state = "KEY" /\ v.need = d - 1 /\ v.opcode = f.opcode
       /\ v.rx_packet_length = n /\ v.mask = mask /\ v.rx_ubuf = <<>>
       /\ v.continuation_possible = ws.continuation_possible
       /\ v.owed_a_fin = ws.owed_a_fin
    BY <1>1, <1>2, <1>4, <1>10, <1>15 DEF WsFields
<1>19. ASSUME NEW u, u.rx_packet_length = n
       PROVE  LengthKnown(u, f)
    BY <1>10, <1>19, Zenon DEF LengthKnown
<1>20. /\ d > 1 => Continue(v)
       /\ d = 1 /\ n > 0 => Continue([v EXCEPT !.state = "PAYLOAD", !.mask_idx = 0])
       /\ d = 1 /\ n = 0 => Spill([v EXCEPT !.mask_idx = 0])
    <2>1. (CASE d > 1 -> Continue(v)
             [] d = 1 /\ n > 0 -> Continue([v EXCEPT !.state = "PAYLOAD", !.mask_idx = 0])
             [] OTHER -> Spill([v EXCEPT !.mask_idx = 0]))
        BY <1>9, <1>10, <1>16, Zenon DEF KeyByte
    <2>2. ~(d > 1 /\ d = 1) /\ ~(n > 0 /\ n = 0)
        OBVIOUS
    <2>3. QED
        BY <2>1, <2>2, Zenon
<1>21. CASE d > 1
    <2>1. d - 1 \in 1..4 /\ o + 1 = 6 + e - (d - 1) /\ 4 - (d - 1) = 5 - d
        BY <1>10, <1>21
    <2>2. InKey(v, f, o + 1)
        BY <1>7, <1>8, <1>10, <1>11, <1>14, <1>18, <1>19, <2>1, Zenon DEF InKey
    <2>3. InFrame(v, f, o + 1)
        BY <1>18, <2>2, Zenon DEF InFrame
    <2>4. Delivered(v, f) = 0
        BY <1>18 DEF Delivered
    <2>5. FlagsAfter(v, sent, k + 1)
        BY <1>3, <1>18, Zenon DEF FlagsAfter
    <2>6. QED
        BY <1>1, <1>3, <1>5, <1>17, <1>20, <1>21, <2>3, <2>4, <2>5, ContinueKeeps, Zenon
<1>22. ASSUME d = 1
       PROVE  mask = f.key /\ o + 1 = HeaderLen(f)
    <2>1. \A j \in 0..3 : mask[j] = key[j]
        BY <1>14, <1>22
    <2>2. mask = key
        BY <2>1
    <2>3. HeaderLen(f) = 2 + e + 4
        BY <1>7, <1>10, Zenon DEF HeaderLen
    <2>4. o + 1 = HeaderLen(f)
        BY <1>10, <1>22, <2>3
    <2>5. QED
        BY <1>11, <2>2, <2>4, Zenon
<1>23. CASE d = 1 /\ n > 0
    <2>1. PICK u : u = [v EXCEPT !.state = "PAYLOAD", !.mask_idx = 0]
        OBVIOUS
    <2>2. u \in WsFields
        <3>1. 0 \in 0..3 /\ d - 1 \in Nat
            OBVIOUS
        <3>2. QED
            BY <1>2, <1>15, <2>1, <3>1 DEF WsFields
    <2>3. /\ u.state = "PAYLOAD" /\ u.mask_idx = 0 /\ u.opcode = f.opcode
          /\ u.rx_packet_length = n /\ u.mask = mask /\ u.rx_ubuf = <<>>
          /\ u.continuation_possible = ws.continuation_possible
          /\ u.owed_a_fin = ws.owed_a_fin
        BY <1>17, <1>18, <2>1 DEF WsFields
    <2>4. mask = f.key /\ o + 1 = HeaderLen(f)
        BY <1>22, <1>23
    <2>5. LengthKnown(u, f)
        BY <1>19, <2>3, Zenon
    <2>6. InFrame(u, f, o + 1) /\ Delivered(u, f) = 0
        BY <1>8, <1>10, <1>23, <2>3, <2>4, <2>5, StartPayload, Zenon
    <2>7. FlagsAfter(u, sent, k + 1)
        BY <1>3, <2>3, Zenon DEF FlagsAfter
    <2>8. Continue(u)
        BY <1>20, <1>23, <2>1, Zenon
    <2>9. QED
        BY <1>1, <1>3, <1>5, <2>2, <2>6, <2>7, <2>8, ContinueKeeps, Zenon
<1>24. CASE d = 1 /\ n = 0
    <2>1. PICK u : u = [v EXCEPT !.mask_idx = 0]
        OBVIOUS
    <2>2. u \in WsFields
        <3>1. 0 \in 0..3 /\ d - 1 \in Nat
            OBVIOUS
        <3>2. QED
            BY <1>2, <1>15, <2>1, <3>1 DEF WsFields
    <2>3. /\ u.opcode = f.opcode /\ u.rx_ubuf = <<>>
          /\ u.continuation_possible = ws.continuation_possible
          /\ u.owed_a_fin = ws.owed_a_fin
        BY <1>17, <1>18, <2>1 DEF WsFields
    <2>4. o + 1 = HeaderLen(f)
        BY <1>22, <1>24
    <2>5. f.payload = <<>> /\ o + 1 = Len(Encode(f))
        BY <1>8, <1>24, <2>4, EmptyPayload, Zenon
    <2>6. LegalFrame(sent, k + 1)
        BY <1>3, <1>10, PayloadLegal, Zenon
    <2>7. FlagsAfter(u, sent, k + 1)
        BY <1>3, <2>3, Zenon DEF FlagsAfter
    <2>8. Spill(u)
        BY <1>20, <1>24, <2>1, Zenon
    <2>9. IF IsData(f) THEN f.payload = <<>> ELSE u.rx_ubuf = f.payload
        BY <2>3, <2>5, Zenon
    <2>10. QED
        BY <1>1, <1>3, <1>5, <2>2, <2>3, <2>5, <2>6, <2>7, <2>8, <2>9, SpillKeeps, Zenon
<1>25. d > 1 \/ (d = 1 /\ (n > 0 \/ n = 0))
    OBVIOUS
<1>26. QED
    BY <1>21, <1>23, <1>24, <1>25, Zenon

-----------------------------------------------------------------------------
(* The payload                                                             *)

LEMMA ModSum ==
    ASSUME NEW q \in Nat, NEW t \in Nat
    PROVE  ((q % 4) + t) % 4 = (q + t) % 4 /\ ((q % 4) + t) % 4 \in 0..3
OBVIOUS

\* Masking a byte of the payload again, with the key at its place, is the byte.
LEMMA UnmaskedByte ==
    ASSUME NEW f \in Frames, NEW w \in WsFields, NEW o, InPayload(w, f, o),
           NEW t \in Nat, NEW j \in 1..Len(f.payload),
           j = (Len(f.payload) - w.rx_packet_length) + t + 1
    PROVE  /\ (w.mask_idx + t) % 4 \in 0..3
           /\ Xor(MaskedByteOf(f, j), w.mask[(w.mask_idx + t) % 4]) = f.payload[j]
<1>1. PICK n \in Nat : n = Len(f.payload)
    BY FrameNumbers
<1>2. PICK rx \in Nat : rx = w.rx_packet_length /\ rx <= n
    BY <1>1 DEF WsFields, InPayload, LengthKnown
<1>3. PICK q \in Nat : q = n - rx
    BY <1>2
<1>4. PICK idx \in 0..3 : idx = w.mask_idx
    BY DEF WsFields
<1>5. j - 1 = q + t
    BY <1>1, <1>2, <1>3
<1>6. PICK p \in Byte : p = f.payload[j]
    BY FramePayload
<1>7. (idx + t) % 4 \in 0..3
    OBVIOUS
<1>8. CASE f.masked
    <2>1. w.mask = f.key /\ idx = q % 4
        BY <1>1, <1>2, <1>3, <1>4, <1>8, Zenon DEF InPayload
    <2>2. (idx + t) % 4 = (j - 1) % 4 /\ (j - 1) % 4 \in 0..3
        BY <1>5, <2>1, ModSum
    <2>3. PICK c \in Byte : c = f.key[(j - 1) % 4]
        BY <2>2, FramePayload
    <2>4. MaskedByteOf(f, j) = Xor(p, c)
        BY <1>6, <1>8, <2>3, Zenon DEF MaskedByteOf
    <2>5. Xor(Xor(p, c), c) = p
        BY XorAssumption
    <2>6. QED
        BY <1>4, <1>6, <1>7, <2>1, <2>2, <2>3, <2>4, <2>5, Zenon
<1>9. CASE ~f.masked
    <2>1. w.mask = ZeroKey
        BY <1>9, Zenon DEF InPayload
    <2>2. w.mask[(idx + t) % 4] = 0
        BY <1>7, <2>1 DEF ZeroKey
    <2>3. MaskedByteOf(f, j) = p
        BY <1>6, <1>9, Zenon DEF MaskedByteOf
    <2>4. Xor(p, 0) = p
        BY XorAssumption DEF Byte
    <2>5. QED
        BY <1>4, <1>6, <1>7, <2>2, <2>3, <2>4, Zenon
<1>10. QED
    BY <1>8, <1>9

LEMMA ControlByteKeeps ==
    ASSUME InStep, ControlByte
    PROVE  WsInv'
<1>1. open # "closed" /\ buf # <<>> /\ ws.state = "PAYLOAD" /\ IsControl(ws.opcode)
    BY DEF ControlByte, AtByte
<1>2. ws \in WsFields
    BY DEF InStep, WsInv, WsTypes
<1>3. ws.rx_packet_length > 0
    <2>1. PICK k \in 0..Len(sent), o \in Nat : ParsedTo(k, o)
        BY <1>1 DEF InStep, WsInv
    <2>2. InFrame(ws, sent[k + 1], o)
        BY <1>1, <2>1 DEF ParsedTo, Parsing, BetweenFrames, WithinFrame
    <2>3. InPayload(ws, sent[k + 1], o) /\ ws.opcode = sent[k + 1].opcode
        BY <1>1, <2>2 DEF InFrame, AfterFirst, InLength, InKey
    <2>4. QED
        BY <1>1, <2>3 DEF InPayload, IsData
<1>4. PICK k \in 0..Len(sent), o \in Nat, f \in Frames :
         /\ ParsedTo(k, o) /\ k < Len(sent) /\ f = sent[k + 1]
         /\ StartsLegal(sent, k + 1) /\ InFrame(ws, f, o) /\ FlagsAfter(ws, sent, k + 1)
         /\ Delivered(ws, f) = 0 =>
               FirstBytes(FlattenSeq(received), Ends(DataPieces(sent), k), DataOf(sent))
         /\ Head(buf) = Encode(f)[o + 1]
         /\ BytesFrom(Ends(Encodings(sent), k) + (o + 1), Tail(buf), wire, Stream(sent))
         /\ Tail(buf) \in Seq(Byte)
    BY <1>1, <1>3, InByte
<1>5. InPayload(ws, f, o) /\ ws.opcode = f.opcode
    BY <1>1, <1>4 DEF InFrame, AfterFirst, InLength, InKey
<1>6. ~IsData(f)
    BY <1>1, <1>5 DEF IsData
<1>7. FirstBytes(FlattenSeq(received), Ends(DataPieces(sent), k), DataOf(sent))
    <2>1. Delivered(ws, f) = 0
        BY <1>6 DEF Delivered
    <2>2. QED
        BY <1>4, <2>1, Zenon
<1>8. PICK n \in Nat : n = Len(f.payload)
    BY FrameNumbers
<1>9. PICK rx \in Nat : rx = ws.rx_packet_length
    BY <1>2 DEF WsFields
<1>10. PICK h \in Nat : h = HeaderLen(f)
    BY EncodeAt
<1>11. /\ o = h + n - rx /\ LengthKnown(ws, f) /\ rx <= n /\ rx > 0
       /\ ws.rx_ubuf = SubSeq(f.payload, 1, n - rx)
       /\ f.masked => ws.mask = f.key /\ ws.mask_idx = (n - rx) % 4
       /\ ~f.masked => ws.mask = ZeroKey
    BY <1>3, <1>5, <1>6, <1>8, <1>9, <1>10, Zenon DEF InPayload, LengthKnown
<1>12. PICK q \in Nat : q = n - rx
    BY <1>11
<1>13. q + 1 \in 1..n /\ o + 1 = h + (q + 1) /\ q \in 0..n
    BY <1>11, <1>12
<1>14. PICK p \in Seq(Byte) : p = f.payload /\ Len(p) = n
    BY <1>8, FramePayload
<1>15. PICK idx \in 0..3 : idx = ws.mask_idx
    BY <1>2 DEF WsFields
<1>16. Xor(Head(buf), ws.mask[ws.mask_idx]) = p[q + 1]
    <2>1. Head(buf) = MaskedByteOf(f, q + 1)
        <3>1. \A i \in 1..Len(f.payload) : Encode(f)[HeaderLen(f) + i] = MaskedByteOf(f, i)
            BY EncodeAt, Zenon
        <3>2. Encode(f)[h + (q + 1)] = MaskedByteOf(f, q + 1)
            BY <1>8, <1>10, <1>13, <3>1, Zenon
        <3>3. QED
            BY <1>4, <1>13, <3>2, Zenon
    <2>2. (idx + 0) % 4 = idx
        OBVIOUS
    <2>3. 0 \in Nat /\ q + 1 = (n - rx) + 0 + 1
        BY <1>11, <1>12
    <2>4. Xor(MaskedByteOf(f, q + 1), ws.mask[(ws.mask_idx + 0) % 4]) = f.payload[q + 1]
        BY <1>2, <1>5, <1>8, <1>9, <1>13, <2>3, UnmaskedByte, Zenon
    <2>5. QED
        BY <1>14, <1>15, <2>1, <2>2, <2>4, Zenon
<1>17. PICK u \in Seq(Byte) : u = SubSeq(p, 1, q + 1)
    <2>1. \A i \in 1..(q + 1) : p[i] \in Byte
        BY <1>13, <1>14, ElementOfSeq
    <2>2. PICK s : s = SubSeq(p, 1, q + 1)
        OBVIOUS
    <2>3. s \in Seq(Byte)
        BY <2>1, <2>2, SubSeqProperties
    <2>4. QED
        BY <2>2, <2>3
<1>18. Append(SubSeq(p, 1, q), p[q + 1]) = u
    <2>1. q + 1 \in 1..Len(p) /\ (q + 1) - 1 = q
        BY <1>13, <1>14
    <2>2. SubSeq(p, 1, q + 1) = Append(SubSeq(p, 1, (q + 1) - 1), p[q + 1])
        BY <2>1, FirstPieces, Zenon
    <2>3. QED
        BY <1>17, <2>1, <2>2, Zenon
<1> DEFINE w == [ws EXCEPT !.rx_ubuf = Append(@, Xor(Head(buf), ws.mask[ws.mask_idx])),
                           !.mask_idx = (@ + 1) % 4, !.rx_packet_length = @ - 1]
<1>19. PICK v : v = [ws EXCEPT !.rx_ubuf = u, !.mask_idx = (idx + 1) % 4,
                               !.rx_packet_length = rx - 1]
    OBVIOUS
<1>20. v = w
    <2>1. ws.rx_ubuf = SubSeq(p, 1, q)
        BY <1>11, <1>12, <1>14, Zenon
    <2>2. u = Append(ws.rx_ubuf, Xor(Head(buf), ws.mask[ws.mask_idx]))
        BY <1>16, <1>18, <2>1, Zenon
    <2>3. QED
        BY <1>9, <1>15, <1>19, <2>2, Zenon
<1>21. v \in WsFields
    <2>1. (idx + 1) % 4 \in 0..3 /\ rx - 1 \in Nat
        BY <1>11
    <2>2. QED
        BY <1>2, <1>19, <2>1 DEF WsFields
<1>22. /\ v.state = "PAYLOAD" /\ v.opcode = f.opcode /\ v.rx_ubuf = u
       /\ v.mask_idx = (idx + 1) % 4 /\ v.rx_packet_length = rx - 1 /\ v.mask = ws.mask
       /\ v.continuation_possible = ws.continuation_possible
       /\ v.owed_a_fin = ws.owed_a_fin
    BY <1>1, <1>2, <1>5, <1>19 DEF WsFields
<1>23. FlagsAfter(v, sent, k + 1)
    BY <1>4, <1>22, Zenon DEF FlagsAfter
<1>24. IF rx - 1 > 0 THEN Continue(v) ELSE Spill(v)
    BY <1>20, <1>22, Zenon DEF ControlByte
<1>25. CASE rx - 1 > 0
    <2>1. /\ o + 1 = h + n - (rx - 1) /\ rx - 1 <= n /\ n - (rx - 1) = q + 1
        BY <1>11, <1>12, <1>25
    <2>2. LengthKnown(v, f)
        BY <1>8, <1>11, <1>22, <2>1, Zenon DEF LengthKnown
    <2>3. f.masked => v.mask_idx = (q + 1) % 4
        <3>1. f.masked => idx = q % 4
            BY <1>11, <1>12, <1>15, Zenon
        <3>2. idx = q % 4 => (idx + 1) % 4 = (q + 1) % 4
            BY ModSum
        <3>3. QED
            BY <1>22, <3>1, <3>2, Zenon
    <2>4. InPayload(v, f, o + 1)
        BY <1>6, <1>8, <1>10, <1>11, <1>14, <1>17, <1>22, <1>25, <2>1, <2>2, <2>3, Zenon
           DEF InPayload
    <2>5. InFrame(v, f, o + 1)
        BY <1>22, <2>4, Zenon DEF InFrame
    <2>6. Delivered(v, f) = 0
        BY <1>6 DEF Delivered
    <2>7. QED
        BY <1>1, <1>4, <1>7, <1>21, <1>23, <1>24, <1>25, <2>5, <2>6, ContinueKeeps, Zenon
<1>26. CASE ~(rx - 1 > 0)
    <2>1. rx = 1 /\ q + 1 = n /\ o + 1 = h + n
        BY <1>11, <1>12, <1>26
    <2>2. u = f.payload
        <3>1. SubSeq(p, 1, Len(p)) = p
            BY SubSeqFull
        <3>2. QED
            BY <1>14, <1>17, <2>1, <3>1, Zenon
    <2>3. o + 1 = Len(Encode(f))
        BY <1>8, <1>10, <2>1, EncodeAt, Zenon
    <2>4. LegalFrame(sent, k + 1)
        BY <1>4, <1>11, PayloadLegal, Zenon
    <2>5. QED
        BY <1>1, <1>4, <1>6, <1>7, <1>21, <1>22, <1>23, <1>24, <1>26, <2>2, <2>3, <2>4,
           SpillKeeps, Zenon
<1>27. QED
    BY <1>25, <1>26

-----------------------------------------------------------------------------
(* Data frames in bulk                                                     *)

\* The payload of a data frame is being read.
LEMMA InData ==
    ASSUME InStep, open # "closed", ws.state = "PAYLOAD", ~IsControl(ws.opcode)
    PROVE  \E k \in 0..Len(sent), o \in Nat, f \in Frames :
              /\ ParsedTo(k, o) /\ k < Len(sent) /\ f = sent[k + 1]
              /\ IsData(f) /\ ws.opcode = f.opcode /\ InPayload(ws, f, o)
              /\ StartsLegal(sent, k + 1) /\ LegalFrame(sent, k + 1)
              /\ FlagsAfter(ws, sent, k + 1)
              /\ FirstBytes(FlattenSeq(received),
                            Ends(DataPieces(sent), k) + (Len(f.payload) - ws.rx_packet_length),
                            DataOf(sent))
<1>1. PICK k \in 0..Len(sent), o \in Nat : ParsedTo(k, o)
    BY DEF InStep, WsInv
<1>2. WithinFrame(k, o)
    BY <1>1 DEF ParsedTo, Parsing, BetweenFrames
<1>3. k < Len(sent) /\ sent \in Seq(Frames) /\ k \in Nat
    BY <1>2 DEF WithinFrame, InStep, WsTypes
<1>4. PICK f \in Frames : f = sent[k + 1]
    BY <1>3, StreamAt
<1>5. /\ StartsLegal(sent, k + 1) /\ InFrame(ws, f, o) /\ FlagsAfter(ws, sent, k + 1)
      /\ FirstBytes(FlattenSeq(received), Ends(DataPieces(sent), k) + Delivered(ws, f),
                    DataOf(sent))
    BY <1>2, <1>4, Zenon DEF WithinFrame
<1>6. InPayload(ws, f, o) /\ ws.opcode = f.opcode
    BY <1>5 DEF InFrame, AfterFirst, InLength, InKey
<1>7. IsData(f)
    BY <1>6 DEF IsData
<1>8. LegalFrame(sent, k + 1)
    <2>1. LengthKnown(ws, sent[k + 1])
        BY <1>4, <1>6, Zenon DEF InPayload
    <2>2. QED
        BY <1>5, <2>1, PayloadLegal, Zenon
<1>9. Delivered(ws, f) = Len(f.payload) - ws.rx_packet_length
    BY <1>7, Zenon DEF Delivered
<1>10. QED
    BY <1>1, <1>3, <1>4, <1>5, <1>6, <1>7, <1>8, <1>9, Zenon

LEMMA AvailIs ==
    ASSUME ws \in WsFields, buf \in Seq(Byte)
    PROVE  /\ Avail \in Nat
           /\ Avail <= RxBufferSize /\ Avail <= ws.rx_packet_length /\ Avail <= Len(buf)
           /\ Avail = RxBufferSize \/ Avail = ws.rx_packet_length \/ Avail = Len(buf)
<1>1. PICK T : T = {RxBufferSize, ws.rx_packet_length, Len(buf)}
    OBVIOUS
<1>2. RxBufferSize \in Nat /\ ws.rx_packet_length \in Nat /\ Len(buf) \in Nat
    <2>1. RxBufferSize \in Nat
        BY WsReceiveAssumption
    <2>2. ws.rx_packet_length \in Nat
        BY DEF WsFields
    <2>3. QED
        BY <2>1, <2>2, LenProperties
<1>3. T \in SUBSET Nat /\ T # {}
    BY <1>1, <1>2
<1>4. Min(T) \in T /\ \A m \in T : Min(T) <= m
    BY <1>3, MinIs
<1>5. Avail = Min(T)
    BY <1>1, Zenon DEF Avail
<1>6. QED
    BY <1>1, <1>3, <1>4, <1>5

LEMMA MoreBytes ==
    ASSUME NEW G \in Seq(Byte), NEW piece \in Seq(Byte), NEW m \in Nat, NEW D,
           FirstBytes(G, m, D), \A t \in 1..Len(piece) : piece[t] = D[m + t],
           NEW c, c = G \o piece
    PROVE  FirstBytes(c, m + Len(piece), D)
<1>1. /\ Len(G) \in Nat /\ Len(piece) \in Nat
      /\ Len(c) = Len(G) + Len(piece)
      /\ \A i \in 1..Len(G) : c[i] = G[i]
      /\ \A i \in 1..Len(piece) : c[Len(G) + i] = piece[i]
    BY ConcatAt
<1>2. Len(G) = m /\ \A i \in 1..m : G[i] = D[i]
    BY DEF FirstBytes
<1>3. PICK l \in Nat : l = Len(piece)
    BY <1>1
<1>4. ASSUME NEW i \in 1..(m + l)
      PROVE  c[i] = D[i]
    <2>1. CASE i <= m
        <3>1. i \in 1..m
            BY <2>1
        <3>2. QED
            BY <1>1, <1>2, <3>1, Zenon
    <2>2. CASE ~(i <= m)
        <3>1. PICK t \in 1..l : m + t = i
            <4>1. i - m \in 1..l /\ m + (i - m) = i
                BY <2>2
            <4>2. QED
                BY <4>1
        <3>2. c[m + t] = piece[t] /\ piece[t] = D[m + t]
            BY <1>1, <1>2, <1>3, Zenon
        <3>3. QED
            BY <3>1, <3>2, Zenon
    <2>3. QED
        BY <2>1, <2>2
<1>5. QED
    BY <1>1, <1>2, <1>3, <1>4, Zenon DEF FirstBytes

\* The next bytes of the read, unmasked, are the next bytes of the payload.
LEMMA BulkPiece ==
    ASSUME WsTypes, NEW k \in Nat, NEW o \in Nat, NEW f \in Frames,
           k < Len(sent), f = sent[k + 1], InPayload(ws, f, o),
           BytesFrom(Ends(Encodings(sent), k) + o, buf, wire, Stream(sent)),
           NEW a \in Nat, a <= ws.rx_packet_length, a <= Len(buf),
           NEW q \in Nat, q = Len(f.payload) - ws.rx_packet_length,
           NEW piece, piece = Unmask(SubSeq(buf, 1, a))
    PROVE  /\ piece \in Seq(Byte) /\ Len(piece) = a
           /\ \A i \in 1..a : piece[i] = f.payload[q + i]
           /\ BytesFrom(Ends(Encodings(sent), k) + (o + a),
                        SubSeq(buf, a + 1, Len(buf)), wire, Stream(sent))
           /\ SubSeq(buf, a + 1, Len(buf)) \in Seq(Byte)
           /\ Len(SubSeq(buf, a + 1, Len(buf))) = Len(buf) - a
<1>1. sent \in Seq(Frames) /\ buf \in Seq(Byte) /\ wire \in Seq(Byte) /\ ws \in WsFields
    BY DEF WsTypes
<1>2. PICK p \in Nat : p = Ends(Encodings(sent), k)
    <2>1. Ends(Encodings(sent), k) \in Nat
        BY <1>1, StreamAt, Zenon
    <2>2. QED
        BY <2>1
<1>3. PICK n \in Nat : n = Len(f.payload)
    BY FrameNumbers
<1>4. PICK rx \in Nat : rx = ws.rx_packet_length
    BY <1>1 DEF WsFields
<1>5. PICK h \in Nat : h = HeaderLen(f)
    BY EncodeAt
<1>6. o = h + n - rx /\ rx <= n /\ q = n - rx /\ a <= rx
    BY <1>3, <1>4, <1>5, Zenon DEF InPayload, LengthKnown
<1>7. Len(buf) \in Nat /\ a \in 0..Len(buf) /\ p + o \in Nat /\ (p + o) + a = p + (o + a)
    BY <1>1, LenProperties
<1>8. /\ \A i \in 1..a : buf[i] = Stream(sent)[(p + o) + i]
      /\ BytesFrom((p + o) + a, SubSeq(buf, a + 1, Len(buf)), wire, Stream(sent))
      /\ SubSeq(buf, a + 1, Len(buf)) \in Seq(Byte)
      /\ Len(SubSeq(buf, a + 1, Len(buf))) = Len(buf) - a
    <2>1. PICK r \in Nat : r = p + o
        BY <1>7
    <2>2. BytesFrom(r, buf, wire, Stream(sent))
        BY <1>2, <2>1, Zenon
    <2>3. /\ \A i \in 1..a : buf[i] = Stream(sent)[r + i]
          /\ BytesFrom(r + a, SubSeq(buf, a + 1, Len(buf)), wire, Stream(sent))
          /\ SubSeq(buf, a + 1, Len(buf)) \in Seq(Byte)
          /\ Len(SubSeq(buf, a + 1, Len(buf))) = Len(buf) - a
        BY <1>1, <1>7, <2>2, TakeBytes
    <2>4. QED
        BY <2>1, <2>3, Zenon
<1>9. PICK u : u = SubSeq(buf, 1, a)
    OBVIOUS
<1>10. u \in Seq(Byte) /\ Len(u) = a /\ DOMAIN u = 1..a /\ \A i \in 1..a : u[i] = buf[i]
    <2>1. \A i \in 1..a : buf[i] \in Byte
        BY <1>1, <1>7, ElementOfSeq
    <2>2. /\ u \in Seq(Byte) /\ Len(u) = (IF 1 <= a THEN a - 1 + 1 ELSE 0)
          /\ \A i \in 1..(a - 1 + 1) : u[i] = buf[1 + i - 1]
        BY <1>7, <1>9, <2>1, SubSeqProperties
    <2>3. Len(u) = a
        BY <2>2
    <2>4. \A i \in 1..a : i \in 1..(a - 1 + 1) /\ 1 + i - 1 = i
        OBVIOUS
    <2>5. \A i \in 1..a : u[i] = buf[i]
        BY <2>2, <2>4
    <2>6. DOMAIN u = 1..Len(u)
        BY <2>2, LenProperties
    <2>7. QED
        BY <2>2, <2>3, <2>5, <2>6, Zenon
<1>11. piece = [i \in 1..a |-> Xor(u[i], ws.mask[(ws.mask_idx + i - 1) % 4])]
    BY <1>9, <1>10, Zenon DEF Unmask
<1>12. ASSUME NEW i \in 1..a
       PROVE  Xor(u[i], ws.mask[(ws.mask_idx + i - 1) % 4]) = f.payload[q + i]
              /\ f.payload[q + i] \in Byte
    <2>1. PICK t \in Nat : t = i - 1
        OBVIOUS
    <2>2. PICK j : j = q + i
        OBVIOUS
    <2>3. j \in 1..n /\ j = (n - rx) + t + 1 /\ o + i = h + j /\ o + i \in 1..(h + n)
          /\ (p + o) + i = p + (o + i)
        BY <1>6, <2>1, <2>2
    <2>4. Stream(sent)[p + (o + i)] = Encode(f)[o + i]
        <3>1. Len(Encode(f)) = h + n
            BY <1>3, <1>5, EncodeAt, Zenon
        <3>2. \A l \in 1..Len(Encode(f)) :
                 Stream(sent)[Ends(Encodings(sent), k) + l] = Encode(f)[l]
            BY <1>1, StreamAt
        <3>3. QED
            BY <1>2, <2>3, <3>1, <3>2, Zenon
    <2>5. Encode(f)[h + j] = MaskedByteOf(f, j)
        <3>1. \A l \in 1..Len(f.payload) : Encode(f)[HeaderLen(f) + l] = MaskedByteOf(f, l)
            BY EncodeAt, Zenon
        <3>2. QED
            BY <1>3, <1>5, <2>3, <3>1, Zenon
    <2>6. u[i] = MaskedByteOf(f, j)
        BY <1>8, <1>10, <2>3, <2>4, <2>5, Zenon
    <2>7. Xor(MaskedByteOf(f, j), ws.mask[(ws.mask_idx + t) % 4]) = f.payload[j]
        BY <1>1, <1>3, <1>4, <2>3, UnmaskedByte, Zenon
    <2>8. PICK idx \in 0..3 : idx = ws.mask_idx
        BY <1>1 DEF WsFields
    <2>9. idx + i - 1 = idx + t
        BY <2>1
    <2>10. f.payload[j] \in Byte
        BY <1>3, <2>3, FramePayload, Zenon
    <2>11. QED
        BY <2>2, <2>6, <2>7, <2>8, <2>9, <2>10, Zenon
<1>13. piece \in [1..a -> Byte] /\ \A i \in 1..a : piece[i] = f.payload[q + i]
    BY <1>11, <1>12
<1>14. piece \in Seq(Byte) /\ Len(piece) = a
    BY <1>13, FnIsSeq
<1>15. QED
    BY <1>2, <1>7, <1>8, <1>13, <1>14, Zenon

\* RECEIVE with a piece of the payload.
LEMMA BulkKeeps ==
    ASSUME InStep, Bulk
    PROVE  WsInv'
<1>1. open # "closed" /\ buf # <<>> /\ ws.state = "PAYLOAD" /\ ~IsControl(ws.opcode)
    BY DEF Bulk, AtByte
<1>2. /\ WsTypes /\ sent \in Seq(Frames) /\ received \in Seq(Seq(Byte))
      /\ buf \in Seq(Byte) /\ ws \in WsFields
    BY DEF InStep, WsInv, WsTypes
<1>3. PICK k \in 0..Len(sent), o \in Nat, f \in Frames :
         /\ ParsedTo(k, o) /\ k < Len(sent) /\ f = sent[k + 1]
         /\ IsData(f) /\ ws.opcode = f.opcode /\ InPayload(ws, f, o)
         /\ StartsLegal(sent, k + 1) /\ LegalFrame(sent, k + 1)
         /\ FlagsAfter(ws, sent, k + 1)
         /\ FirstBytes(FlattenSeq(received),
                       Ends(DataPieces(sent), k) + (Len(f.payload) - ws.rx_packet_length),
                       DataOf(sent))
    BY <1>1, InData
<1>4. PICK n \in Nat : n = Len(f.payload)
    BY FrameNumbers
<1>5. PICK rx \in Nat : rx = ws.rx_packet_length
    BY <1>2 DEF WsFields
<1>6. PICK h \in Nat : h = HeaderLen(f)
    BY EncodeAt
<1>7. PICK idx \in 0..3 : idx = ws.mask_idx
    BY <1>2 DEF WsFields
<1>8. /\ o = h + n - rx /\ LengthKnown(ws, f) /\ rx <= n /\ ws.rx_ubuf = <<>>
      /\ f.masked => ws.mask = f.key /\ idx = (n - rx) % 4
      /\ ~f.masked => ws.mask = ZeroKey
    BY <1>3, <1>4, <1>5, <1>6, <1>7, Zenon DEF InPayload, LengthKnown
<1>9. PICK q \in Nat : q = n - rx
    BY <1>8
<1>10. PICK a \in Nat : a = Avail
    BY <1>2, AvailIs
<1>11. /\ a <= rx /\ a <= Len(buf) /\ a > 0
       /\ a = RxBufferSize \/ a = rx \/ a = Len(buf)
    <2>1. Avail <= ws.rx_packet_length /\ Avail <= Len(buf)
          /\ (Avail = RxBufferSize \/ Avail = ws.rx_packet_length \/ Avail = Len(buf))
        BY <1>2, AvailIs, Zenon
    <2>2. Avail > 0
        BY DEF Bulk
    <2>3. QED
        BY <1>5, <1>10, <2>1, <2>2, Zenon
<1>12. PICK piece : piece = Unmask(SubSeq(buf, 1, a))
    OBVIOUS
<1>s. Serving
    BY <1>2 DEF WsTypes, Serving
<1>13. /\ received' = Append(received, piece)
       /\ buf' = SubSeq(buf, a + 1, Len(buf))
       /\ ws' = [ws EXCEPT !.rx_packet_length = rx - a, !.mask_idx = (idx + a) % 4,
                           !.state = IF rx = a THEN "NEW" ELSE "PAYLOAD"]
       /\ cuts' = IF buf' = <<>> THEN cuts \cup {Len(FlattenSeq(received'))} ELSE cuts
       /\ wire' = wire /\ pong' = pong /\ open' = open /\ sent' = sent /\ pongs' = pongs
    BY <1>1, <1>s, <1>5, <1>7, <1>10, <1>12, Zenon DEF Bulk, Deliver
<1>14. BytesFrom(Ends(Encodings(sent), k) + o, buf, wire, Stream(sent))
       /\ \A i \in 1..k : LegalFrame(sent, i)
    BY <1>3, Zenon DEF ParsedTo, Parsing
<1>15. k \in Nat /\ Len(sent) \in Nat /\ Len(buf) \in Nat
    BY <1>2, PiecesType, LenProperties
<1>16. /\ piece \in Seq(Byte) /\ Len(piece) = a
       /\ \A i \in 1..a : piece[i] = f.payload[q + i]
       /\ BytesFrom(Ends(Encodings(sent), k) + (o + a), buf', wire, Stream(sent))
       /\ buf' \in Seq(Byte)
       /\ Len(buf') = Len(buf) - a
    <2>1. a <= ws.rx_packet_length /\ a <= Len(buf)
          /\ q = Len(f.payload) - ws.rx_packet_length
        BY <1>4, <1>5, <1>9, <1>11, Zenon
    <2>2. /\ piece \in Seq(Byte) /\ Len(piece) = a
          /\ \A i \in 1..a : piece[i] = f.payload[q + i]
          /\ BytesFrom(Ends(Encodings(sent), k) + (o + a),
                       SubSeq(buf, a + 1, Len(buf)), wire, Stream(sent))
          /\ SubSeq(buf, a + 1, Len(buf)) \in Seq(Byte)
          /\ Len(SubSeq(buf, a + 1, Len(buf))) = Len(buf) - a
        <3>1. /\ WsTypes /\ k \in Nat /\ k < Len(sent) /\ f = sent[k + 1] /\ InPayload(ws, f, o)
              /\ BytesFrom(Ends(Encodings(sent), k) + o, buf, wire, Stream(sent))
            BY <1>2, <1>3, <1>14, <1>15, Zenon
        <3>2. QED
            BY <3>1, <1>12, <2>1, BulkPiece, SMTT(60)
    <2>3. QED
        BY <1>13, <2>2, Zenon
<1>17. PICK E \in Nat : E = Ends(DataPieces(sent), k)
    <2>1. Ends(DataPieces(sent), k) \in Nat
        BY <1>2, <1>3, <1>15, DataAt, Zenon
    <2>2. QED
        BY <2>1
<1>18. /\ Ends(DataPieces(sent), k + 1) = E + n
       /\ \A i \in 1..n : DataOf(sent)[E + i] = f.payload[i]
    <2>1. DataPiece(f) = f.payload
        BY <1>3, Zenon DEF DataPiece
    <2>2. /\ Ends(DataPieces(sent), k + 1) = Ends(DataPieces(sent), k) + Len(DataPiece(f))
          /\ \A i \in 1..Len(DataPiece(f)) :
                DataOf(sent)[Ends(DataPieces(sent), k) + i] = DataPiece(f)[i]
        <3>1. sent \in Seq(Frames) /\ k \in Nat /\ k < Len(sent) /\ f = sent[k + 1]
            BY <1>2, <1>3, <1>15, Zenon
        <3>2. QED
            BY <3>1, DataAt
    <2>3. QED
        BY <1>4, <1>17, <2>1, <2>2, Zenon
<1>19. PICK G \in Seq(Byte) : G = FlattenSeq(received)
    BY <1>2, FlatPieces
<1>20. FirstBytes(G, E + q, DataOf(sent)) /\ Len(G) = E + q
    <2>1. FirstBytes(G, E + q, DataOf(sent))
        BY <1>3, <1>4, <1>5, <1>9, <1>17, <1>19, Zenon
    <2>2. QED
        BY <2>1, Zenon DEF FirstBytes
<1>21. FirstBytes(FlattenSeq(received'), (E + q) + a, DataOf(sent))
       /\ Len(FlattenSeq(received')) = (E + q) + a
    <2>1. FlattenSeq(received') = G \o piece
        BY <1>2, <1>13, <1>16, <1>19, FlatAppend, Zenon
    <2>2. ASSUME NEW t \in 1..a
          PROVE  piece[t] = DataOf(sent)[(E + q) + t]
        <3>0. rx <= n /\ a <= rx
            BY <1>8, <1>11, Zenon
        <3>1. q + t \in 1..n /\ E + (q + t) = (E + q) + t
            BY <3>0, <1>9
        <3>2. QED
            BY <1>16, <1>18, <3>1, Zenon
    <2>3. E + q \in Nat
        OBVIOUS
    <2>4. PICK m \in Nat : m = E + q
        BY <2>3
    <2>5. FirstBytes(G, m, DataOf(sent))
          /\ \A t \in 1..Len(piece) : piece[t] = DataOf(sent)[m + t]
        BY <1>16, <1>20, <2>2, <2>4, Zenon
    <2>6. FirstBytes(FlattenSeq(received'), m + Len(piece), DataOf(sent))
        BY <1>16, <2>1, <2>5, MoreBytes
    <2>7. FirstBytes(FlattenSeq(received'), (E + q) + a, DataOf(sent))
        BY <1>16, <2>4, <2>6, Zenon
    <2>8. QED
        BY <2>7, Zenon DEF FirstBytes
<1>22. received' \in Seq(Seq(Byte))
    BY <1>2, <1>13, <1>16, AppendProperties
<1>23. /\ ws' \in WsFields /\ ws'.state = (IF rx = a THEN "NEW" ELSE "PAYLOAD")
       /\ ws'.rx_packet_length = rx - a /\ ws'.mask_idx = (idx + a) % 4
       /\ ws'.mask = ws.mask /\ ws'.rx_ubuf = <<>> /\ ws'.opcode = ws.opcode
       /\ ws'.continuation_possible = ws.continuation_possible
       /\ ws'.owed_a_fin = ws.owed_a_fin
    <2>1. (idx + a) % 4 \in 0..3 /\ rx - a \in Nat
        BY <1>11
    <2>2. PICK st \in {"NEW", "PAYLOAD"} : st = IF rx = a THEN "NEW" ELSE "PAYLOAD"
        OBVIOUS
    <2>3. PICK v : v = ws'
        OBVIOUS
    <2>4. v = [ws EXCEPT !.rx_packet_length = rx - a, !.mask_idx = (idx + a) % 4, !.state = st]
        BY <1>13, <2>2, <2>3, Zenon
    <2>5. v \in WsFields
        BY <1>2, <2>1, <2>2, <2>4 DEF WsFields
    <2>6. /\ v.state = st /\ v.rx_packet_length = rx - a /\ v.mask_idx = (idx + a) % 4
          /\ v.mask = ws.mask /\ v.rx_ubuf = <<>> /\ v.opcode = ws.opcode
          /\ v.continuation_possible = ws.continuation_possible
          /\ v.owed_a_fin = ws.owed_a_fin
        BY <1>2, <1>8, <2>4 DEF WsFields
    <2>7. QED
        BY <2>2, <2>3, <2>5, <2>6, Zenon
<1>24. FlagsAfter(ws', sent, k + 1)
    BY <1>3, <1>23, Zenon DEF FlagsAfter
<1>25. WsTypes'
    BY <1>2, <1>13, <1>16, <1>22, <1>23, Zenon DEF WsTypes
<1>26. SplitsExplained'
    <2>1. PICK start \in Nat : start = E + q
        OBVIOUS
    <2>2. PICK end \in Nat : end = start + a
        OBVIOUS
    <2>3. end \in FrameEnds \cup cuts' \/ Len(piece) = RxBufferSize
        <3>1. CASE a = RxBufferSize
            BY <1>16, <3>1, Zenon
        <3>2. CASE a = rx
            <4>1. end = E + n
                BY <1>8, <1>9, <2>1, <2>2, <3>2
            <4>2. k + 1 \in 0..Len(sent)
                BY <1>3, <1>15
            <4>3. Ends(DataPieces(sent), k + 1) \in FrameEnds
                BY <1>2, <4>2, FrameEndsAre, Zenon
            <4>4. QED
                BY <1>18, <4>1, <4>3, Zenon
        <3>3. CASE a = Len(buf)
            <4>1. Len(buf') = 0
                BY <1>15, <1>16, <3>3
            <4>2. buf' = <<>>
                BY <1>16, <4>1, EmptySeq
            <4>3. Len(FlattenSeq(received')) \in cuts'
                BY <1>13, <4>2
            <4>4. QED
                BY <1>21, <2>1, <2>2, <4>3, Zenon
        <3>4. QED
            BY <1>11, <3>1, <3>2, <3>3
    <2>4. ~\E x \in FrameEnds : start < x /\ x < end
        <3>1. E <= start /\ end <= E + n
            BY <1>8, <1>9, <1>11, <2>1, <2>2
        <3>2. Ends(DataPieces(sent), k) <= start /\ end <= Ends(DataPieces(sent), k + 1)
            BY <1>17, <1>18, <3>1, Zenon
        <3>3. QED
            BY <1>2, <1>3, <1>15, <3>2, NoEndBetween, Zenon
    <2>5. SplitsExplained /\ cuts \subseteq cuts'
        BY <1>13 DEF InStep, WsInv
    <2>6. start = Len(FlattenSeq(received)) /\ end = start + Len(piece)
        BY <1>16, <1>19, <1>20, <2>1, <2>2, Zenon
    <2>7. QED
        BY <1>2, <1>13, <1>16, <2>3, <2>4, <2>5, <2>6, SplitsAppend
<1>27. PongsEcho'
    BY <1>13 DEF InStep, WsInv, PongsEcho
<1>28. open' = "returned_close" => \E i \in DOMAIN sent' : sent'[i].opcode = CLOSE
    BY <1>13, Zenon DEF InStep, WsInv
<1>29. open' # "closed"
    BY <1>1, <1>13
<1>30. CASE rx = a
    <2>1. PICK oo : oo = o + a
        OBVIOUS
    <2>2. oo = Len(Encode(sent[k + 1]))
        <3>1. Len(Encode(f)) = h + n
            BY <1>4, <1>6, EncodeAt, Zenon
        <3>2. oo = h + n
            BY <1>8, <1>30, <2>1
        <3>3. QED
            BY <1>3, <3>1, <3>2, Zenon
    <2>3. BytesFrom(Ends(Encodings(sent), k) + oo, buf', wire, Stream(sent))
        BY <1>16, <2>1, Zenon
    <2>4. FirstBytes(FlattenSeq(received'), Ends(DataPieces(sent), k + 1), DataOf(sent))
        <3>1. (E + q) + a = E + n
            BY <1>8, <1>9, <1>30
        <3>2. QED
            BY <1>18, <1>21, <3>1, Zenon
    <2>5. ws'.state = "NEW" /\ ws'.rx_ubuf = <<>>
        BY <1>23, <1>30
    <2>6. Parsing(k + 1, 0)' /\ k + 1 \in 0..Len(sent')
        BY <1>2, <1>3, <1>13, <1>14, <1>24, <2>2, <2>3, <2>4, <2>5, FrameDone, Zenon
    <2>7. open' = "established" => Echo((pongs \o pong)', sent', k + 1)
        <3>1. ASSUME open = "established"
              PROVE  Echo(pongs \o pong, sent, k + 1)
            <4>1. Echo(pongs \o pong, sent, k)
                BY <1>3, <3>1 DEF ParsedTo
            <4>2. k + 1 \in Nat /\ k <= k + 1
                BY <1>15
            <4>3. QED
                BY <1>15, <4>1, <4>2, EchoMore
        <3>2. QED
            BY <1>13, <3>1, Zenon
    <2>8. ParsedTo(k + 1, 0)'
        BY <2>6, <2>7, Zenon DEF ParsedTo
    <2>9. 0 \in Nat
        OBVIOUS
    <2>10. QED
        BY <1>25, <1>26, <1>27, <1>28, <1>29, <2>6, <2>8, <2>9, Zenon DEF InStep, WsInv
<1>31. CASE rx # a
    <2>1. ws'.state = "PAYLOAD"
        BY <1>23, <1>31
    <2>2. /\ o + a = h + n - (rx - a) /\ rx - a <= n /\ n - (rx - a) = q + a
          /\ o + a \in Nat
        BY <1>8, <1>9, <1>11
    <2>3. LengthKnown(ws', f)
        BY <1>4, <1>8, <1>23, <2>2, Zenon DEF LengthKnown
    <2>4. f.masked => ws'.mask_idx = (q + a) % 4
        <3>1. f.masked => idx = q % 4
            BY <1>8, <1>9, Zenon
        <3>2. idx = q % 4 => (idx + a) % 4 = (q + a) % 4
            BY ModSum
        <3>3. QED
            BY <1>23, <3>1, <3>2, Zenon
    <2>5. InPayload(ws', f, o + a)
        BY <1>3, <1>4, <1>6, <1>8, <1>23, <2>1, <2>2, <2>3, <2>4, Zenon DEF InPayload
    <2>6. InFrame(ws', f, o + a)
        BY <1>3, <1>23, <2>5, Zenon DEF InFrame
    <2>7. Ends(DataPieces(sent), k) + Delivered(ws', f) = (E + q) + a
        <3>1. Delivered(ws', f) = q + a
            BY <1>3, <1>4, <1>23, <2>1, <2>2, Zenon DEF Delivered
        <3>2. E + (q + a) = (E + q) + a
            OBVIOUS
        <3>3. QED
            BY <1>17, <3>1, <3>2, Zenon
    <2>8. WithinFrame(k, o + a)'
        BY <1>3, <1>13, <1>21, <1>24, <2>6, <2>7, Zenon DEF WithinFrame
    <2>9. Parsing(k, o + a)'
        BY <1>13, <1>14, <1>16, <2>8, Zenon DEF Parsing
    <2>10. ParsedTo(k, o + a)'
        BY <1>3, <1>13, <2>9, Zenon DEF ParsedTo
    <2>11. k \in 0..Len(sent')
        BY <1>13
    <2>12. QED
        BY <1>25, <1>26, <1>27, <1>28, <1>29, <2>2, <2>10, <2>11, Zenon DEF InStep, WsInv
<1>32. QED
    BY <1>30, <1>31

\* A data frame without a payload that lws_ws_frame_rest_is_payload ends.
LEMMA BulkEmptyKeeps ==
    ASSUME InStep, BulkEmpty
    PROVE  WsInv'
<1>1. open # "closed" /\ buf # <<>> /\ ws.state = "PAYLOAD" /\ ~IsControl(ws.opcode)
    BY DEF BulkEmpty, AtByte
<1>2. /\ WsTypes /\ sent \in Seq(Frames) /\ received \in Seq(Seq(Byte))
      /\ buf \in Seq(Byte) /\ ws \in WsFields
    BY DEF InStep, WsInv, WsTypes
<1>3. PICK k \in 0..Len(sent), o \in Nat, f \in Frames :
         /\ ParsedTo(k, o) /\ k < Len(sent) /\ f = sent[k + 1]
         /\ IsData(f) /\ ws.opcode = f.opcode /\ InPayload(ws, f, o)
         /\ StartsLegal(sent, k + 1) /\ LegalFrame(sent, k + 1)
         /\ FlagsAfter(ws, sent, k + 1)
         /\ FirstBytes(FlattenSeq(received),
                       Ends(DataPieces(sent), k) + (Len(f.payload) - ws.rx_packet_length),
                       DataOf(sent))
    BY <1>1, InData
<1>4. ws.rx_packet_length = 0
    <2>1. Len(buf) # 0
        BY <1>1, <1>2, EmptySeq
    <2>2. RxBufferSize # 0
        BY WsReceiveAssumption
    <2>3. Avail = RxBufferSize \/ Avail = ws.rx_packet_length \/ Avail = Len(buf)
        BY <1>2, AvailIs, Zenon
    <2>4. Avail = 0
        BY DEF BulkEmpty
    <2>5. QED
        BY <2>1, <2>2, <2>3, <2>4, Zenon
<1>5. PICK n \in Nat : n = Len(f.payload)
    BY FrameNumbers
<1>6. PICK h \in Nat : h = HeaderLen(f)
    BY EncodeAt
<1>7. o = h + n /\ n - 0 = n /\ ws.rx_ubuf = <<>>
    <2>1. o = h + n - 0 /\ ws.rx_ubuf = <<>>
        BY <1>3, <1>4, <1>5, <1>6, Zenon DEF InPayload
    <2>2. QED
        BY <2>1
<1>8. /\ ws' = [ws EXCEPT !.state = "NEW"]
      /\ wire' = wire /\ buf' = buf /\ pong' = pong /\ open' = open
      /\ received' = received /\ sent' = sent /\ pongs' = pongs /\ cuts' = cuts
    BY DEF BulkEmpty
<1>9. /\ ws' \in WsFields /\ ws'.state = "NEW" /\ ws'.rx_ubuf = <<>>
      /\ ws'.continuation_possible = ws.continuation_possible
      /\ ws'.owed_a_fin = ws.owed_a_fin
    BY <1>2, <1>7, <1>8 DEF WsFields
<1>10. k \in Nat /\ Len(sent) \in Nat
    BY <1>2, PiecesType
<1>11. FirstBytes(FlattenSeq(received'), Ends(DataPieces(sent), k + 1), DataOf(sent))
    <2>1. DataPiece(f) = f.payload
        BY <1>3, Zenon DEF DataPiece
    <2>2. Ends(DataPieces(sent), k + 1) = Ends(DataPieces(sent), k) + Len(DataPiece(f))
        BY <1>2, <1>3, <1>10, DataAt
    <2>3. QED
        BY <1>3, <1>4, <1>5, <1>7, <1>8, <2>1, <2>2, Zenon
<1>12. FlagsAfter(ws', sent, k + 1)
    BY <1>3, <1>9, Zenon DEF FlagsAfter
<1>13. Parsing(k + 1, 0)' /\ k + 1 \in 0..Len(sent')
    <2>1. o = Len(Encode(sent[k + 1]))
        BY <1>3, <1>5, <1>6, <1>7, EncodeAt, Zenon
    <2>2. BytesFrom(Ends(Encodings(sent), k) + o, buf', wire, Stream(sent))
          /\ \A i \in 1..k : LegalFrame(sent, i)
        BY <1>3, <1>8, Zenon DEF ParsedTo, Parsing
    <2>3. QED
        BY <1>2, <1>3, <1>8, <1>9, <1>11, <1>12, <2>1, <2>2, FrameDone, Zenon
<1>14. ParsedTo(k + 1, 0)'
    <2>1. ASSUME open = "established"
          PROVE  Echo(pongs \o pong, sent, k + 1)
        <3>1. Echo(pongs \o pong, sent, k)
            BY <1>3, <2>1 DEF ParsedTo
        <3>2. k + 1 \in Nat /\ k <= k + 1
            BY <1>10
        <3>3. QED
            BY <1>10, <3>1, <3>2, EchoMore
    <2>2. QED
        BY <1>8, <1>13, <2>1, Zenon DEF ParsedTo
<1>15. WsTypes'
    BY <1>2, <1>8, <1>9, Zenon DEF WsTypes
<1>16. SplitsExplained' /\ PongsEcho'
    BY <1>8, HistoriesKept DEF InStep, WsInv
<1>17. open' = "returned_close" => \E i \in DOMAIN sent' : sent'[i].opcode = CLOSE
    BY <1>8, Zenon DEF InStep, WsInv
<1>18. open' # "closed" /\ 0 \in Nat
    BY <1>1, <1>8
<1>19. QED
    BY <1>13, <1>14, <1>15, <1>16, <1>17, <1>18, Zenon DEF InStep, WsInv

\* The answer is written between two reads; a close is answered and ends it all.
LEMMA SendPongKeeps ==
    ASSUME InStep, SendPong
    PROVE  WsInv'
<1>1. /\ open # "closed" /\ pong' = <<>> /\ wire' = wire /\ buf' = buf /\ ws' = ws
      /\ received' = received /\ sent' = sent /\ cuts' = cuts
    BY DEF SendPong
<1>2. /\ WsTypes /\ sent \in Seq(Frames) /\ pongs \in Seq(Seq(Byte)) /\ pong \in Seq(Seq(Byte))
    BY DEF InStep, WsInv, WsTypes
<1>3. PICK k \in 0..Len(sent), o \in Nat : ParsedTo(k, o)
    BY <1>1 DEF InStep, WsInv
<1>4. SplitsExplained'
    BY <1>1 DEF InStep, WsInv, SplitsExplained, FrameEnds
<1>5. <<>> \in Seq(Seq(Byte))
    OBVIOUS
<1>6. CASE open = "returned_close"
    <2>1. open' = "closed" /\ pongs' = pongs
        BY <1>6 DEF SendPong
    <2>2. Cause'
        BY <1>1, <1>6, <2>1 DEF InStep, Cause
    <2>3. Parsing(k, o)
        BY <1>3, Zenon DEF ParsedTo
    <2>4. open' \in {"waiting_to_send_close", "closed"}
        BY <2>1
    <2>5. QED
        BY <1>1, <2>1, <2>2, <2>3, <2>4, StopKeeps, Zenon
<1>7. CASE open # "returned_close"
    <2>1. open = "established"
        BY <1>1, <1>2, <1>7 DEF WsTypes
    <2>2. open' = open /\ pongs' = pongs \o pong
        BY <2>1 DEF SendPong
    <2>3. pongs \o pong \in Seq(Seq(Byte))
        BY <1>2, ConcatProperties
    <2>4. WsTypes'
        BY <1>1, <1>2, <1>5, <2>2, <2>3, Zenon DEF WsTypes
    <2>5. Echo(pongs \o pong, sent, k)
        BY <1>3, <2>1, Zenon DEF ParsedTo
    <2>6. pongs' \o pong' = pongs \o pong
        BY <1>1, <2>2, <2>3, ConcatEmptySeq
    <2>7. Parsing(k, o)'
        BY <1>1, <1>3, Zenon DEF ParsedTo, Parsing, BetweenFrames, WithinFrame
    <2>8. ParsedTo(k, o)' /\ k \in 0..Len(sent')
        BY <1>1, <1>3, <2>5, <2>6, <2>7, Zenon DEF ParsedTo
    <2>9. PongsEcho'
        <3>1. PICK ping \in [DOMAIN pongs' -> 1..k] :
                 /\ \A i \in DOMAIN pongs' : /\ sent[ping[i]].opcode = PING
                                             /\ pongs'[i] = sent[ping[i]].payload
                 /\ \A i, j \in DOMAIN pongs' : i < j => ping[i] < ping[j]
            BY <2>2, <2>5, Zenon DEF Echo
        <3>2. DOMAIN sent = 1..Len(sent) /\ Len(sent) \in Nat
            BY <1>2, PiecesType
        <3>3. ping \in [DOMAIN pongs' -> DOMAIN sent]
            BY <3>2
        <3>4. QED
            BY <1>1, <3>1, <3>3, Zenon DEF PongsEcho
    <2>10. open' # "closed" /\ open' # "returned_close"
        BY <2>1, <2>2
    <2>11. QED
        BY <1>4, <2>4, <2>8, <2>9, <2>10, Zenon DEF InStep, WsInv
<1>8. QED
    BY <1>6, <1>7

\* A read moves bytes from the socket to the parser's buffer.
LEMMA ReadKeeps ==
    ASSUME InStep, NEW n \in 1..ReadMax, Read(n)
    PROVE  WsInv'
<1>1. /\ open # "closed" /\ buf = <<>> /\ n <= Len(wire)
      /\ buf' = SubSeq(wire, 1, n) /\ wire' = SubSeq(wire, n + 1, Len(wire))
      /\ ws' = ws /\ pong' = pong /\ open' = open /\ received' = received /\ sent' = sent
      /\ pongs' = pongs /\ cuts' = cuts
    BY DEF Read
<1>2. WsTypes /\ sent \in Seq(Frames) /\ wire \in Seq(Byte)
    BY DEF InStep, WsInv, WsTypes
<1>3. PICK k \in 0..Len(sent), o \in Nat : ParsedTo(k, o)
    BY <1>1 DEF InStep, WsInv
<1>4. ReadMax \in Nat
    BY WsReceiveAssumption
<1>5. n \in 0..Len(wire)
    BY <1>1, <1>2, <1>4
<1>6. PICK p \in Nat : p = Ends(Encodings(sent), k) + o
    <2>1. Ends(Encodings(sent), k) \in Nat
        <3>1. Encodings(sent) \in Seq(Seq(Byte)) /\ k \in 0..Len(Encodings(sent))
            BY <1>2, PiecesType
        <3>2. QED
            BY <3>1, FlatPieces
    <2>2. QED
        BY <2>1
<1>7. BytesFrom(p, <<>>, wire, Stream(sent))
    BY <1>1, <1>3, <1>6, Zenon DEF ParsedTo, Parsing
<1>8. /\ BytesFrom(p, SubSeq(wire, 1, n), SubSeq(wire, n + 1, Len(wire)), Stream(sent))
      /\ SubSeq(wire, 1, n) \in Seq(Byte) /\ SubSeq(wire, n + 1, Len(wire)) \in Seq(Byte)
    BY <1>2, <1>5, <1>7, TakeRead
<1>9. WsTypes'
    BY <1>1, <1>2, <1>8, Zenon DEF WsTypes
<1>10. Parsing(k, o)'
    BY <1>1, <1>3, <1>6, <1>8, Zenon DEF ParsedTo, Parsing, BetweenFrames, WithinFrame
<1>11. ParsedTo(k, o)' /\ k \in 0..Len(sent')
    BY <1>1, <1>3, <1>10, Zenon DEF ParsedTo
<1>12. SplitsExplained' /\ PongsEcho'
    BY <1>1, HistoriesKept DEF InStep, WsInv
<1>13. open' # "closed" /\ (open' = "returned_close" => \E i \in DOMAIN sent' : sent'[i].opcode = CLOSE)
    BY <1>1, Zenon DEF InStep, WsInv
<1>14. QED
    BY <1>9, <1>11, <1>12, <1>13, Zenon DEF InStep, WsInv

\* Before anything is sent.
LEMMA InitHolds ==
    ASSUME Init
    PROVE  WsInv
<1>1. /\ wire = <<>> /\ buf = <<>> /\ pong = <<>> /\ open = "established" /\ received = <<>>
      /\ sent = <<>> /\ pongs = <<>> /\ cuts = {}
      /\ ws = [state |-> "NEW", opcode |-> 0, final |-> FALSE,
               continuation_possible |-> FALSE, owed_a_fin |-> FALSE,
               masked |-> FALSE, need |-> 0, rx_packet_length |-> 0,
               mask |-> ZeroKey, mask_idx |-> 0, rx_ubuf |-> <<>>]
    BY DEF Init
<1>2. WsTypes
    <2>1. ZeroKey \in [0..3 -> Byte]
        BY DEF ZeroKey, Byte
    <2>2. ws \in WsFields
        BY <1>1, <2>1 DEF WsFields
    <2>3. QED
        BY <1>1, <2>2 DEF WsTypes
<1>3. /\ ws.state = "NEW" /\ ws.rx_ubuf = <<>>
      /\ ws.continuation_possible = FALSE /\ ws.owed_a_fin = FALSE
    BY <1>1
<1>4. Encodings(sent) = <<>> /\ DataPieces(sent) = <<>>
    BY <1>1 DEF Encodings, DataPieces
<1>5. FlattenSeq(received) = <<>> /\ Stream(sent) = <<>> /\ DataOf(sent) = <<>>
    <2>1. DataOf(sent) = FlattenSeq(DataPieces(sent))
        BY DEF DataOf, DataPieces
    <2>2. QED
        BY <1>1, <1>4, <2>1, FlatEmpty, Zenon DEF Stream
<1>6. Ends(Encodings(sent), 0) = 0 /\ Ends(DataPieces(sent), 0) = 0
    <2>1. <<>> \in Seq(Seq(Byte))
        OBVIOUS
    <2>2. Ends(<<>>, 0) = 0
        BY <2>1, FlatPieces
    <2>3. QED
        BY <1>4, <2>2, Zenon
<1>7. FlagsAfter(ws, sent, 0)
    <2>1. InMessage(sent, 0) = FALSE
        <3>1. 1 \in Nat /\ 1 >= 1
            OBVIOUS
        <3>2. QED
            BY <3>1, InMessageStep
    <2>2. QED
        BY <1>3, <2>1, Zenon DEF FlagsAfter
<1>8. FirstBytes(FlattenSeq(received), Ends(DataPieces(sent), 0), DataOf(sent))
    <2>1. Len(<<>>) = 0 /\ \A i \in 1..0 : FALSE
        OBVIOUS
    <2>2. QED
        BY <1>5, <1>6, <2>1, Zenon DEF FirstBytes
<1>9. Parsing(0, 0)
    <2>1. BetweenFrames(0, 0)
        BY <1>3, <1>7, <1>8, Zenon DEF BetweenFrames
    <2>2. BytesFrom(0 + 0, <<>>, <<>>, <<>>)
        BY DEF BytesFrom
    <2>3. \A i \in 1..0 : LegalFrame(sent, i)
        OBVIOUS
    <2>4. QED
        BY <1>1, <1>5, <1>6, <2>1, <2>2, <2>3, Zenon DEF Parsing
<1>10. Echo(pongs \o pong, sent, 0)
    <2>1. <<>> \o <<>> = <<>> /\ DOMAIN <<>> = {}
        OBVIOUS
    <2>2. pongs \o pong = <<>>
        BY <1>1, <2>1, Zenon
    <2>3. PICK ping : ping = [i \in {} |-> 0]
        OBVIOUS
    <2>4. ping \in [{} -> 1..0]
        BY <2>3
    <2>5. QED
        BY <2>1, <2>2, <2>4 DEF Echo
<1>11. PongsEcho
    <2>1. DOMAIN pongs = {}
        BY <1>1
    <2>2. PICK ping : ping = [i \in {} |-> 0]
        OBVIOUS
    <2>3. ping \in [{} -> DOMAIN sent]
        BY <2>2
    <2>4. QED
        BY <2>1, <2>3 DEF PongsEcho
<1>12. SplitsExplained
    BY <1>1 DEF SplitsExplained
<1>13. 0 \in 0..Len(sent) /\ 0 \in Nat
    BY <1>1
<1>14. ParsedTo(0, 0)
    BY <1>9, <1>10, Zenon DEF ParsedTo
<1>15. open # "closed" /\ open # "returned_close"
    BY <1>1
<1>16. QED
    BY <1>2, <1>11, <1>12, <1>13, <1>14, <1>15, Zenon DEF InStep, WsInv

-----------------------------------------------------------------------------
(* The client sends one more frame                                         *)

LEMMA FrameMore ==
    ASSUME NEW s \in Seq(Frames), NEW f \in Frames, NEW t, t = Append(s, f)
    PROVE  /\ t \in Seq(Frames) /\ Len(s) \in Nat /\ Len(t) = Len(s) + 1
           /\ \A i \in 1..Len(s) : t[i] = s[i]
           /\ \A j \in 0..Len(s) : /\ SubSeq(t, 1, j) = SubSeq(s, 1, j)
                                   /\ Ends(Encodings(t), j) = Ends(Encodings(s), j)
                                   /\ Ends(DataPieces(t), j) = Ends(DataPieces(s), j)
           /\ Stream(t) = Stream(s) \o Encode(f)
           /\ Stream(s) \in Seq(Byte) /\ Encode(f) \in Seq(Byte)
           /\ DataOf(t) = DataOf(s) \o DataPiece(f)
           /\ DataOf(s) \in Seq(Byte) /\ DataPiece(f) \in Seq(Byte)
<1>1. /\ t \in Seq(Frames) /\ Len(s) \in Nat /\ Len(t) = Len(s) + 1
      /\ \A i \in 1..Len(s) : t[i] = s[i]
    BY AppendProperties, LenProperties
<1>2. /\ Encodings(s) \in Seq(Seq(Byte)) /\ Len(Encodings(s)) = Len(s)
      /\ DataPieces(s) \in Seq(Seq(Byte)) /\ Len(DataPieces(s)) = Len(s)
    BY PiecesType
<1>3. Encode(f) \in Seq(Byte)
    BY EncodeAt
<1>4. DataPiece(f) \in Seq(Byte)
    <2>1. f.payload \in Seq(Byte) /\ <<>> \in Seq(Byte)
        BY FramePayload
    <2>2. QED
        BY <2>1 DEF DataPiece
<1>5. /\ Encodings(t) = Append(Encodings(s), Encode(f))
      /\ DataPieces(t) = Append(DataPieces(s), DataPiece(f))
    BY PiecesAppend, Zenon DEF DataPiece
<1>6. ASSUME NEW j \in 0..Len(s)
      PROVE  /\ SubSeq(t, 1, j) = SubSeq(s, 1, j)
             /\ Ends(Encodings(t), j) = Ends(Encodings(s), j)
             /\ Ends(DataPieces(t), j) = Ends(DataPieces(s), j)
    <2>1. SubSeq(t, 1, j) = SubSeq(s, 1, j)
        BY EndsAppend, Zenon
    <2>2. j \in 0..Len(Encodings(s)) /\ j \in 0..Len(DataPieces(s))
        BY <1>2
    <2>3. Ends(Append(Encodings(s), Encode(f)), j) = Ends(Encodings(s), j)
        BY <1>2, <1>3, <2>2, EndsAppend, Zenon
    <2>4. Ends(Append(DataPieces(s), DataPiece(f)), j) = Ends(DataPieces(s), j)
        BY <1>2, <1>4, <2>2, EndsAppend, Zenon
    <2>5. QED
        BY <1>5, <2>1, <2>3, <2>4, Zenon
<1>7. Stream(t) = Stream(s) \o Encode(f) /\ Stream(s) \in Seq(Byte)
    <2>1. FlattenSeq(Append(Encodings(s), Encode(f))) = FlattenSeq(Encodings(s)) \o Encode(f)
          /\ FlattenSeq(Encodings(s)) \in Seq(Byte)
        BY <1>2, <1>3, FlatAppend, Zenon
    <2>2. QED
        BY <1>5, <2>1, Zenon DEF Stream
<1>8. DataOf(t) = DataOf(s) \o DataPiece(f) /\ DataOf(s) \in Seq(Byte)
    <2>1. /\ FlattenSeq(Append(DataPieces(s), DataPiece(f))) = FlattenSeq(DataPieces(s)) \o DataPiece(f)
          /\ FlattenSeq(DataPieces(s)) \in Seq(Byte)
        BY <1>2, <1>4, FlatAppend, Zenon
    <2>2. DataOf(s) = FlattenSeq(DataPieces(s)) /\ DataOf(t) = FlattenSeq(DataPieces(t))
        BY Zenon DEF DataOf, DataPieces
    <2>3. QED
        BY <1>5, <2>1, <2>2, Zenon
<1>9. QED
    BY <1>1, <1>3, <1>4, <1>6, <1>7, <1>8, Zenon

\* What was got stays the first bytes of a longer stream of data.
LEMMA FirstBytesMore ==
    ASSUME NEW got, NEW n \in Nat, NEW d \in Seq(Byte), NEW x \in Seq(Byte),
           FirstBytes(got, n, d), n <= Len(d)
    PROVE  FirstBytes(got, n, d \o x)
<1>1. \A i \in 1..n : i \in 1..Len(d)
    BY LenProperties
<1>2. \A i \in 1..Len(d) : (d \o x)[i] = d[i]
    BY ConcatAt
<1>3. QED
    BY <1>1, <1>2, Zenon DEF FirstBytes

\* The new frame follows what is on the wire.
LEMMA BytesFromMore ==
    ASSUME NEW p \in Nat, NEW b \in Seq(Byte), NEW c \in Seq(Byte), NEW S \in Seq(Byte),
           NEW x \in Seq(Byte), BytesFrom(p, b, c, S)
    PROVE  BytesFrom(p, b, c \o x, S \o x) /\ c \o x \in Seq(Byte)
<1>1. PICK lb \in Nat, lc \in Nat, lS \in Nat, lx \in Nat :
         lb = Len(b) /\ lc = Len(c) /\ lS = Len(S) /\ lx = Len(x)
    BY LenProperties
<1>2. /\ p + lb + lc = lS
      /\ \A i \in 1..lb : b[i] = S[p + i]
      /\ \A i \in 1..lc : c[i] = S[p + lb + i]
    BY <1>1, Zenon DEF BytesFrom
<1>3. PICK cx : cx = c \o x
    OBVIOUS
<1>4. PICK Sx : Sx = S \o x
    OBVIOUS
<1>5. /\ cx \in Seq(Byte) /\ Len(cx) = lc + lx
      /\ \A i \in 1..lc : cx[i] = c[i]
      /\ \A i \in 1..lx : cx[lc + i] = x[i]
    BY <1>1, <1>3, ConcatAt
<1>6. /\ Sx \in Seq(Byte) /\ Len(Sx) = lS + lx
      /\ \A i \in 1..lS : Sx[i] = S[i]
      /\ \A i \in 1..lx : Sx[lS + i] = x[i]
    BY <1>1, <1>4, ConcatAt
<1>7. p + lb + (lc + lx) = lS + lx
    BY <1>2
<1>8. ASSUME NEW i \in 1..lb
      PROVE  b[i] = Sx[p + i]
    <2>1. p + i \in 1..lS
        BY <1>2
    <2>2. QED
        BY <1>2, <1>6, <2>1, Zenon
<1>9. ASSUME NEW i \in 1..(lc + lx)
      PROVE  cx[i] = Sx[p + lb + i]
    <2>1. CASE i <= lc
        <3>1. i \in 1..lc /\ p + lb + i \in 1..lS
            BY <1>2, <2>1
        <3>2. QED
            BY <1>2, <1>5, <1>6, <3>1, Zenon
    <2>2. CASE i > lc
        <3>1. PICK j \in 1..lx : j = i - lc
            BY <2>2
        <3>2. i = lc + j /\ p + lb + i = lS + j
            BY <1>2, <3>1
        <3>3. QED
            BY <1>5, <1>6, <3>1, <3>2, Zenon
    <2>3. QED
        BY <2>1, <2>2
<1>10. QED
    BY <1>1, <1>3, <1>4, <1>5, <1>6, <1>7, <1>8, <1>9, Zenon DEF BytesFrom

\* A frame that is sent after a piece was received ends after that piece.
LEMMA SplitsSend ==
    ASSUME SplitsExplained, sent \in Seq(Frames), received \in Seq(Seq(Byte)),
           NEW f \in Frames, sent' = Append(sent, f), UNCHANGED <<received, cuts>>,
           Len(FlattenSeq(received)) <= Len(DataOf(sent))
    PROVE  SplitsExplained'
<1>1. /\ sent' \in Seq(Frames) /\ Len(sent) \in Nat /\ Len(sent') = Len(sent) + 1
      /\ \A j \in 0..Len(sent) : SubSeq(sent', 1, j) = SubSeq(sent, 1, j)
      /\ DataOf(sent') = DataOf(sent) \o DataPiece(f)
      /\ DataOf(sent) \in Seq(Byte) /\ DataPiece(f) \in Seq(Byte)
    BY FrameMore, Zenon
<1>2. Len(DataOf(sent)) <= Len(DataOf(sent')) /\ Len(DataOf(sent')) \in Nat
      /\ Len(DataOf(sent)) \in Nat
    <2>1. /\ Len(DataOf(sent)) \in Nat /\ Len(DataPiece(f)) \in Nat
          /\ Len(DataOf(sent')) = Len(DataOf(sent)) + Len(DataPiece(f))
        BY <1>1, ConcatAt
    <2>2. QED
        BY <2>1
<1>3. FrameEnds \subseteq FrameEnds'
    <2>1. \A i \in 0..Len(sent) : i \in 0..Len(sent')
        BY <1>1
    <2>2. QED
        BY <1>1, <2>1, Zenon DEF FrameEnds
<1>4. ASSUME NEW e \in FrameEnds'
      PROVE  e \in FrameEnds \/ e = Len(DataOf(sent'))
    <2>1. PICK i \in 0..Len(sent') : e = Len(DataOf(SubSeq(sent', 1, i)))
        BY <1>4, Zenon DEF FrameEnds
    <2>2. CASE i \in 0..Len(sent)
        BY <1>1, <2>1, <2>2, Zenon DEF FrameEnds
    <2>3. CASE i \notin 0..Len(sent)
        <3>1. i = Len(sent')
            BY <1>1, <2>3
        <3>2. SubSeq(sent', 1, Len(sent')) = sent'
            BY <1>1
        <3>3. QED
            BY <2>1, <3>1, <3>2, Zenon
    <2>4. QED
        BY <2>2, <2>3
<1>5. ASSUME NEW k \in DOMAIN received
      PROVE  LET end   == Len(FlattenSeq(SubSeq(received, 1, k)))
                 start == end - Len(received[k])
             IN  /\ \/ end \in FrameEnds' \cup cuts
                    \/ Len(received[k]) = RxBufferSize
                 /\ ~\E e \in FrameEnds' : start < e /\ e < end
    <2>1. PICK end : end = Len(FlattenSeq(SubSeq(received, 1, k)))
        OBVIOUS
    <2>2. PICK start : start = end - Len(received[k])
        OBVIOUS
    <2>3. /\ end \in FrameEnds \cup cuts \/ Len(received[k]) = RxBufferSize
          /\ ~\E e \in FrameEnds : start < e /\ e < end
        BY <2>1, <2>2, Zenon DEF SplitsExplained
    <2>4. end \in Nat /\ end <= Len(FlattenSeq(received)) /\ Len(FlattenSeq(received)) \in Nat
        <3>1. k \in 0..Len(received) /\ Len(received) \in k..Len(received)
              /\ Len(received) \in 0..Len(received)
            OBVIOUS
        <3>2. /\ Ends(received, k) \in Nat /\ Ends(received, Len(received)) \in Nat
              /\ Ends(received, k) <= Ends(received, Len(received))
              /\ Ends(received, Len(received)) = Len(FlattenSeq(received))
            BY <3>1, FlatPieces, Zenon
        <3>3. QED
            BY <2>1, <3>2, Zenon DEF Ends
    <2>5. ~(Len(DataOf(sent')) < end)
        BY <1>2, <2>4
    <2>6. ~\E e \in FrameEnds' : start < e /\ e < end
        BY <1>4, <2>3, <2>5, Zenon
    <2>7. end \in FrameEnds' \cup cuts \/ Len(received[k]) = RxBufferSize
        BY <1>3, <2>3, Zenon
    <2>8. QED
        BY <2>1, <2>2, <2>6, <2>7, Zenon
<1>6. received' = received /\ cuts' = cuts
    OBVIOUS
<1>7. QED
    BY <1>5, <1>6, Zenon DEF SplitsExplained

LEMMA SendKeeps ==
    ASSUME InStep, NEW f \in Frames, Send(f)
    PROVE  WsInv'
<1>1. /\ open # "closed" /\ sent' = Append(sent, f) /\ wire' = wire \o Encode(f)
      /\ buf' = buf /\ ws' = ws /\ pong' = pong /\ open' = open /\ received' = received
      /\ pongs' = pongs /\ cuts' = cuts
    BY DEF Send
<1>2. /\ WsTypes /\ sent \in Seq(Frames) /\ wire \in Seq(Byte) /\ buf \in Seq(Byte)
      /\ received \in Seq(Seq(Byte)) /\ ws \in WsFields
    BY DEF InStep, WsInv, WsTypes
<1>3. PICK k \in 0..Len(sent), o \in Nat : ParsedTo(k, o)
    BY <1>1 DEF InStep, WsInv
<1>4. PICK t : t = sent'
    OBVIOUS
<1>5. /\ t \in Seq(Frames) /\ Len(sent) \in Nat /\ Len(t) = Len(sent) + 1
      /\ \A i \in 1..Len(sent) : t[i] = sent[i]
      /\ \A j \in 0..Len(sent) : /\ Ends(Encodings(t), j) = Ends(Encodings(sent), j)
                                 /\ Ends(DataPieces(t), j) = Ends(DataPieces(sent), j)
      /\ Stream(t) = Stream(sent) \o Encode(f)
      /\ Stream(sent) \in Seq(Byte) /\ Encode(f) \in Seq(Byte)
      /\ DataOf(t) = DataOf(sent) \o DataPiece(f)
      /\ DataOf(sent) \in Seq(Byte) /\ DataPiece(f) \in Seq(Byte)
    <2>1. t = Append(sent, f)
        BY <1>1, <1>4
    <2>2. QED
        BY <1>2, <2>1, FrameMore, Zenon
<1>6. k \in Nat /\ k \in 0..Len(t) /\ (\A i \in 1..k : i \in 1..Len(sent))
    BY <1>5
<1>7. \A i \in 1..k : sent[i] = t[i]
    BY <1>5, <1>6, Zenon
<1>8. PICK G : G = FlattenSeq(received)
    OBVIOUS
<1>9. PICK D : D = DataOf(sent)
    OBVIOUS
<1>10. Len(G) <= Len(D)
    <2>1. PICK l \in 0..Len(sent), n \in Nat :
             n <= Ends(DataPieces(sent), l) /\ FirstBytes(FlattenSeq(received), n, DataOf(sent))
        BY <1>2, <1>3, GotBounds DEF ParsedTo
    <2>2. Ends(DataPieces(sent), l) \in Nat /\ Ends(DataPieces(sent), l) <= Len(DataOf(sent))
        <3>1. DataPieces(sent) \in Seq(Seq(Byte)) /\ Len(DataPieces(sent)) = Len(sent)
            BY <1>2, PiecesType
        <3>2. DataOf(sent) = FlattenSeq(DataPieces(sent))
            BY Zenon DEF DataOf, DataPieces
        <3>3. /\ l \in 0..Len(DataPieces(sent)) /\ Len(DataPieces(sent)) \in l..Len(DataPieces(sent))
            BY <1>5, <3>1
        <3>4. /\ Ends(DataPieces(sent), l) \in Nat
              /\ Ends(DataPieces(sent), l) <= Ends(DataPieces(sent), Len(DataPieces(sent)))
              /\ Ends(DataPieces(sent), Len(DataPieces(sent))) = Len(FlattenSeq(DataPieces(sent)))
            BY <3>1, <3>3, FlatPieces, Zenon
        <3>5. QED
            BY <3>2, <3>4, Zenon
    <2>3. Len(G) = n
        BY <1>8, <2>1, Zenon DEF FirstBytes
    <2>4. Len(D) \in Nat
        BY <1>5, <1>9
    <2>5. n <= Ends(DataPieces(sent), l) /\ Ends(DataPieces(sent), l) <= Len(D)
        BY <1>9, <2>1, <2>2, Zenon
    <2>6. QED
        BY <2>2, <2>3, <2>4, <2>5
<1>11. ASSUME NEW m, FirstBytes(G, m, DataOf(sent))
       PROVE  FirstBytes(G, m, DataOf(t))
    <2>1. G \in Seq(Byte)
        BY <1>2, <1>8, FlatPieces
    <2>2. m = Len(G) /\ Len(G) \in Nat
        BY <1>11, <2>1 DEF FirstBytes
    <2>3. m \in Nat /\ m <= Len(DataOf(sent))
        BY <1>9, <1>10, <2>2, Zenon
    <2>4. QED
        BY <1>5, <1>11, <2>3, FirstBytesMore, Zenon
<1>12. WsTypes'
    <2>1. wire \o Encode(f) \in Seq(Byte)
        BY <1>2, <1>5, ConcatProperties
    <2>2. QED
        BY <1>1, <1>2, <1>4, <1>5, <2>1, Zenon DEF WsTypes
<1>13. SplitsExplained'
    <2>1. SplitsExplained /\ UNCHANGED <<received, cuts>>
        BY <1>1 DEF InStep, WsInv
    <2>2. Len(FlattenSeq(received)) <= Len(DataOf(sent))
        BY <1>8, <1>9, <1>10, Zenon
    <2>3. QED
        BY <1>1, <1>2, <2>1, <2>2, SplitsSend, Zenon
<1>14. DOMAIN sent = 1..Len(sent) /\ DOMAIN t = 1..Len(t) /\ DOMAIN sent \subseteq DOMAIN t
    <2>1. DOMAIN sent = 1..Len(sent) /\ DOMAIN t = 1..Len(t)
        BY <1>2, <1>5, PiecesType
    <2>2. QED
        BY <1>5, <2>1
<1>15. PongsEcho'
    <2>1. PICK ping \in [DOMAIN pongs -> DOMAIN sent] :
             /\ \A i \in DOMAIN pongs : /\ sent[ping[i]].opcode = PING
                                        /\ pongs[i] = sent[ping[i]].payload
             /\ \A i, j \in DOMAIN pongs : i < j => ping[i] < ping[j]
        BY DEF InStep, WsInv, PongsEcho
    <2>2. ping \in [DOMAIN pongs -> DOMAIN t]
        BY <1>14
    <2>3. \A i \in DOMAIN pongs : ping[i] \in DOMAIN sent
        OBVIOUS
    <2>4. \A i \in DOMAIN pongs : t[ping[i]] = sent[ping[i]]
        BY <1>5, <1>14, <2>3, Zenon
    <2>5. \A i \in DOMAIN pongs : t[ping[i]].opcode = PING /\ pongs[i] = t[ping[i]].payload
        BY <2>1, <2>4, Zenon
    <2>6. QED
        BY <1>1, <1>4, <2>1, <2>2, <2>5, Zenon DEF PongsEcho
<1>16. open' = "returned_close" => \E i \in DOMAIN sent' : sent'[i].opcode = CLOSE
    <2>1. open = "returned_close" => \E i \in DOMAIN sent : sent[i].opcode = CLOSE
        BY DEF InStep, WsInv
    <2>2. (\E i \in DOMAIN sent : sent[i].opcode = CLOSE) => \E i \in DOMAIN t : t[i].opcode = CLOSE
        BY <1>5, <1>14, Zenon
    <2>3. QED
        BY <1>1, <1>4, <2>1, <2>2, Zenon
<1>17. \A i \in 1..k : LegalFrame(t, i)
    <2>1. \A i \in 1..k : LegalFrame(sent, i)
        BY <1>3, Zenon DEF ParsedTo, Parsing
    <2>2. ASSUME NEW i \in 1..k
          PROVE  LegalFrame(t, i)
        <3>1. i \in Int /\ i >= 1 /\ (\A j \in 1..i : j \in 1..k)
            BY <1>6
        <3>2. \A j \in 1..i : sent[j] = t[j]
            BY <1>7, <3>1, Zenon
        <3>3. LegalFrame(sent, i) <=> LegalFrame(t, i)
            BY <3>1, <3>2, LegalLocal
        <3>4. QED
            BY <2>1, <3>3
    <2>3. QED
        BY <2>2
<1>18. BytesFrom(Ends(Encodings(t), k) + o, buf, wire \o Encode(f), Stream(t))
    <2>1. PICK p \in Nat : p = Ends(Encodings(sent), k) + o
        <3>1. Encodings(sent) \in Seq(Seq(Byte)) /\ k \in 0..Len(Encodings(sent))
            BY <1>2, PiecesType
        <3>2. Ends(Encodings(sent), k) \in Nat
            BY <3>1, FlatPieces
        <3>3. QED
            BY <3>2
    <2>2. BytesFrom(p, buf, wire, Stream(sent))
        BY <1>3, <2>1, Zenon DEF ParsedTo, Parsing
    <2>3. BytesFrom(p, buf, wire \o Encode(f), Stream(sent) \o Encode(f))
        BY <1>2, <1>5, <2>2, BytesFromMore, Zenon
    <2>4. QED
        BY <1>5, <2>1, <2>3, Zenon
<1>19. \A n \in 0..Len(sent) : InMessage(t, n) = InMessage(sent, n)
    <2>1. ASSUME NEW n \in 0..Len(sent)
          PROVE  InMessage(t, n) = InMessage(sent, n)
        <3>1. n \in Int /\ \A i \in 1..n : i \in 1..Len(sent)
            BY <1>5
        <3>2. \A i \in 1..n : t[i] = sent[i]
            BY <1>5, <3>1, Zenon
        <3>3. QED
            BY <3>1, <3>2, InMessageLocal, Zenon
    <2>2. QED
        BY <2>1
<1>20. Parsing(k, o)'
    <2>1. CASE BetweenFrames(k, o)
        <3>1. FlagsAfter(ws, t, k)
            BY <1>19, <2>1, Zenon DEF BetweenFrames, FlagsAfter
        <3>2. FirstBytes(G, Ends(DataPieces(t), k), DataOf(t))
            BY <1>5, <1>8, <1>11, <2>1, Zenon DEF BetweenFrames
        <3>3. BetweenFrames(k, o)'
            BY <1>1, <1>4, <1>8, <2>1, <3>1, <3>2, Zenon DEF BetweenFrames
        <3>4. QED
            BY <1>1, <1>4, <1>17, <1>18, <3>3, Zenon DEF Parsing
    <2>2. CASE WithinFrame(k, o)
        <3>1. k < Len(sent)
            BY <2>2, Zenon DEF WithinFrame
        <3>2. k + 1 \in 1..Len(sent) /\ k + 1 \in 0..Len(sent) /\ (k + 1) - 1 = k /\ k < Len(t)
            BY <1>5, <1>6, <3>1
        <3>3. t[k + 1] = sent[k + 1]
            BY <1>5, <3>2, Zenon
        <3>4. FlagsAfter(ws, t, k + 1)
            BY <1>19, <2>2, <3>2, Zenon DEF WithinFrame, FlagsAfter
        <3>5. StartsLegal(t, k + 1)
            BY <1>19, <2>2, <3>2, <3>3, Zenon DEF WithinFrame, StartsLegal
        <3>6. FirstBytes(G, Ends(DataPieces(t), k) + Delivered(ws, t[k + 1]), DataOf(t))
            BY <1>5, <1>8, <1>11, <2>2, <3>3, Zenon DEF WithinFrame
        <3>7. InFrame(ws, t[k + 1], o)
            BY <2>2, <3>3, Zenon DEF WithinFrame
        <3>8. WithinFrame(k, o)'
            BY <1>1, <1>4, <1>8, <3>2, <3>4, <3>5, <3>6, <3>7, Zenon DEF WithinFrame
        <3>9. QED
            BY <1>1, <1>4, <1>17, <1>18, <3>8, Zenon DEF Parsing
    <2>3. QED
        BY <1>3, <2>1, <2>2, Zenon DEF ParsedTo, Parsing
<1>21. open = "established" => Echo(pongs \o pong, t, k)
    <2>1. ASSUME open = "established"
          PROVE  Echo(pongs \o pong, t, k)
        <3>1. Echo(pongs \o pong, sent, k)
            BY <1>3, <2>1, Zenon DEF ParsedTo
        <3>2. QED
            BY <1>6, <1>7, <3>1, EchoLocal, Zenon
    <2>2. QED
        BY <2>1
<1>22. ParsedTo(k, o)' /\ k \in 0..Len(sent')
    BY <1>1, <1>4, <1>6, <1>20, <1>21, Zenon DEF ParsedTo
<1>23. open' # "closed"
    BY <1>1
<1>24. QED
    BY <1>12, <1>13, <1>15, <1>16, <1>22, <1>23, Zenon DEF InStep, WsInv

-----------------------------------------------------------------------------
(* When the stream has been read to its end                                *)

LEMMA StreamEnds ==
    ASSUME NEW s \in Seq(Frames), NEW k \in 0..Len(s), Ends(Encodings(s), k) = Len(Stream(s))
    PROVE  k = Len(s)
<1> SUFFICES ASSUME k # Len(s)
             PROVE  FALSE
    OBVIOUS
<1>1. k \in Nat /\ k < Len(s)
    BY PiecesType
<1>2. PICK f : f = s[k + 1]
    OBVIOUS
<1>3. /\ f \in Frames /\ Ends(Encodings(s), k) \in Nat
      /\ Ends(Encodings(s), k + 1) = Ends(Encodings(s), k) + Len(Encode(f))
      /\ Ends(Encodings(s), k + 1) <= Len(Stream(s))
    BY <1>1, <1>2, StreamAt
<1>4. PICK n \in Nat : n = Len(Encode(f)) /\ n >= 2
    <2>1. /\ f.ext \in {0, 2, 8} /\ Len(f.payload) \in Nat
          /\ HeaderLen(f) \in Nat /\ HeaderLen(f) >= 2 + f.ext
          /\ Len(Encode(f)) = HeaderLen(f) + Len(f.payload)
        BY <1>3, FrameNumbers, EncodeAt
    <2>2. QED
        BY <2>1
<1>5. PICK p \in Nat : p = Ends(Encodings(s), k)
    BY <1>3
<1>6. p + n <= p
    BY <1>3, <1>4, <1>5, Zenon
<1>7. QED
    BY <1>4, <1>6

LEMMA AllGot ==
    ASSUME sent \in Seq(Frames), received \in Seq(Seq(Byte)),
           \A i \in 1..Len(sent) : LegalFrame(sent, i),
           FirstBytes(FlattenSeq(received), Ends(DataPieces(sent), Len(sent)), DataOf(sent))
    PROVE  FlattenSeq(received) = DataOf(sent) /\ LegalSent = sent
<1>1. LegalSent = sent
    <2>1. PICK m \in 0..Len(sent) :
             /\ m < Len(sent) => ~LegalFrame(sent, m + 1)
             /\ m = Len(sent) => LegalSent = sent
        BY LegalSentIs
    <2>2. m < Len(sent) => m + 1 \in 1..Len(sent)
        OBVIOUS
    <2>3. m < Len(sent) \/ m = Len(sent)
        OBVIOUS
    <2>4. QED
        BY <2>1, <2>2, <2>3, Zenon
<1>2. PICK G \in Seq(Byte) : G = FlattenSeq(received)
    BY FlatPieces
<1>3. PICK D \in Seq(Byte) : D = DataOf(sent) /\ Len(D) = Ends(DataPieces(sent), Len(sent))
    <2>1. DataPieces(sent) \in Seq(Seq(Byte)) /\ Len(DataPieces(sent)) = Len(sent)
        BY PiecesType
    <2>2. DataOf(sent) = FlattenSeq(DataPieces(sent))
        BY Zenon DEF DataOf, DataPieces
    <2>3. /\ FlattenSeq(DataPieces(sent)) \in Seq(Byte)
          /\ Ends(DataPieces(sent), Len(DataPieces(sent))) = Len(FlattenSeq(DataPieces(sent)))
        BY <2>1, FlatPieces, Zenon
    <2>4. QED
        BY <2>1, <2>2, <2>3, Zenon
<1>4. Len(G) = Len(D) /\ \A i \in 1..Len(D) : G[i] = D[i]
    BY <1>2, <1>3, Zenon DEF FirstBytes
<1>5. G = D
    BY <1>4
<1>6. QED
    BY <1>1, <1>2, <1>3, <1>5, Zenon

\* The parser then is between two frames, or at the end of a data frame that
\* lws_ws_frame_rest_is_payload has not ended yet.
LEMMA DrainedAll ==
    ASSUME InStep, Drained
    PROVE  FlattenSeq(received) = DataOf(sent) /\ LegalSent = sent
<1>1. wire = <<>> /\ buf = <<>> /\ open # "closed"
    BY DEF Drained, Serving
<1>2. WsTypes /\ sent \in Seq(Frames) /\ received \in Seq(Seq(Byte)) /\ ws \in WsFields
    BY DEF InStep, WsInv, WsTypes
<1>3. PICK k \in 0..Len(sent), o \in Nat : Parsing(k, o)
    BY <1>1 DEF InStep, WsInv, ParsedTo
<1>4. k \in Nat /\ Len(sent) \in Nat
    BY <1>2, PiecesType
<1>5. PICK p \in Nat : p = Ends(Encodings(sent), k)
    <2>1. Encodings(sent) \in Seq(Seq(Byte)) /\ k \in 0..Len(Encodings(sent))
        BY <1>2, PiecesType
    <2>2. Ends(Encodings(sent), k) \in Nat
        BY <2>1, FlatPieces
    <2>3. QED
        BY <2>2
<1>6. p + o = Len(Stream(sent))
    <2>1. p + o + Len(<<>>) + Len(<<>>) = Len(Stream(sent))
        BY <1>1, <1>3, <1>5, Zenon DEF Parsing, BytesFrom
    <2>2. QED
        BY <2>1
<1>7. \A i \in 1..k : LegalFrame(sent, i)
    BY <1>3, Zenon DEF Parsing
<1>8. CASE BetweenFrames(k, o)
    <2>1. o = 0 /\ FirstBytes(FlattenSeq(received), Ends(DataPieces(sent), k), DataOf(sent))
        BY <1>8, Zenon DEF BetweenFrames
    <2>2. p = Len(Stream(sent))
        BY <1>6, <2>1
    <2>3. k = Len(sent)
        BY <1>2, <1>5, <2>2, StreamEnds, Zenon
    <2>4. QED
        BY <1>2, <1>7, <2>1, <2>3, AllGot, Zenon
<1>9. CASE WithinFrame(k, o)
    <2>1. PICK f : f = sent[k + 1]
        OBVIOUS
    <2>2. /\ k < Len(sent) /\ StartsLegal(sent, k + 1) /\ InFrame(ws, f, o)
          /\ FirstBytes(FlattenSeq(received),
                        Ends(DataPieces(sent), k) + Delivered(ws, f), DataOf(sent))
        BY <1>9, <2>1, Zenon DEF WithinFrame
    <2>3. /\ f \in Frames /\ Len(Encode(f)) \in Nat
          /\ Ends(Encodings(sent), k + 1) = p + Len(Encode(f))
          /\ Ends(Encodings(sent), k + 1) <= Len(Stream(sent))
        BY <1>2, <1>4, <1>5, <2>1, <2>2, StreamAt
    <2>4. /\ o <= Len(Encode(f))
          /\ (ws.state = "PAYLOAD" => ws.rx_packet_length > 0) => o < Len(Encode(f))
        BY <1>2, <2>2, <2>3, WithinBytes, Zenon
    <2>5. o = Len(Encode(f)) /\ Ends(Encodings(sent), k + 1) = Len(Stream(sent))
        <3>1. PICK n \in Nat : n = Len(Encode(f))
            BY <2>3
        <3>2. p + n <= p + o /\ o <= n
            BY <1>6, <2>3, <2>4, <3>1, Zenon
        <3>3. n = o
            BY <3>2
        <3>4. QED
            BY <1>6, <2>3, <3>1, <3>3, Zenon
    <2>6. ws.state = "PAYLOAD" /\ ~(ws.rx_packet_length > 0)
        <3>1. ~(o < Len(Encode(f)))
            BY <2>5
        <3>2. QED
            BY <2>4, <3>1, Zenon
    <2>7. ws.rx_packet_length = 0
        BY <1>2, <2>6 DEF WsFields
    <2>8. InPayload(ws, f, o)
        <3>1. ~AfterFirst(ws, f, o) /\ ~InLength(ws, f, o) /\ ~InKey(ws, f, o)
            BY <2>6 DEF AfterFirst, InLength, InKey
        <3>2. QED
            BY <2>2, <3>1, Zenon DEF InFrame
    <2>9. IsData(f) /\ LengthKnown(ws, f)
        BY <2>6, <2>8, Zenon DEF InPayload
    <2>10. LegalFrame(sent, k + 1)
        BY <2>1, <2>2, <2>9, PayloadLegal, Zenon
    <2>11. k + 1 \in 0..Len(sent)
        BY <1>4, <2>2
    <2>12. k + 1 = Len(sent)
        BY <1>2, <2>5, <2>11, StreamEnds, Zenon
    <2>13. \A i \in 1..Len(sent) : LegalFrame(sent, i)
        <3>1. \A i \in 1..Len(sent) : i \in 1..k \/ i = k + 1
            BY <1>4, <2>12
        <3>2. QED
            BY <1>7, <2>10, <3>1, Zenon
    <2>14. Ends(DataPieces(sent), k) + Delivered(ws, f) = Ends(DataPieces(sent), k + 1)
        <3>1. Len(f.payload) - 0 = Len(f.payload)
            BY <2>3, FrameNumbers
        <3>2. Delivered(ws, f) = Len(DataPiece(f))
            BY <2>6, <2>7, <2>9, <3>1, Zenon DEF Delivered, DataPiece
        <3>3. Ends(DataPieces(sent), k + 1) = Ends(DataPieces(sent), k) + Len(DataPiece(f))
            BY <1>2, <1>4, <2>1, <2>2, DataAt
        <3>4. QED
            BY <3>2, <3>3, Zenon
    <2>15. FirstBytes(FlattenSeq(received), Ends(DataPieces(sent), Len(sent)), DataOf(sent))
        BY <2>2, <2>12, <2>14, Zenon
    <2>16. QED
        BY <1>2, <2>13, <2>15, AllGot, Zenon
<1>10. QED
    BY <1>3, <1>8, <1>9, Zenon DEF Parsing

-----------------------------------------------------------------------------
(* After a frame was refused                                               *)

\* A step in which nothing is received, sent or answered.
LEMMA QuietKeeps ==
    ASSUME OutOfStep, UNCHANGED <<received, sent, pongs, cuts>>,
           (Refusing \/ open = "closed")', open = "closed" => open' = "closed"
    PROVE  OutOfStep'
<1>1. received' = received /\ sent' = sent
    OBVIOUS
<1>2. SplitsExplained' /\ PongsEcho'
    BY HistoriesKept DEF OutOfStep
<1>3. PICK l \in 0..Len(sent), n \in Nat : Got(l, n)
    BY DEF OutOfStep
<1>4. Got(l, n)' /\ l \in 0..Len(sent')
    BY <1>1, <1>3, Zenon DEF Got
<1>5. Cause'
    BY <1>1, Zenon DEF OutOfStep, Cause
<1>6. sent' \in Seq(Frames) /\ received' \in Seq(Seq(Byte))
    BY <1>1 DEF OutOfStep
<1>7. QED
    BY <1>2, <1>4, <1>5, <1>6, Zenon DEF OutOfStep

\* What is parsed out of step is not received.
LEMMA ParseQuiet ==
    ASSUME OutOfStep,
           \/ FirstByte \/ LengthByte \/ ExtendedLengthByte \/ KeyByte
           \/ ControlByte \/ Bulk \/ BulkEmpty
    PROVE  OutOfStep'
<1>1. Refusing /\ open # "closed"
    BY DEF OutOfStep, FirstByte, LengthByte, ExtendedLengthByte, KeyByte, ControlByte,
           Bulk, BulkEmpty, AtByte
<1>2. ~Serving /\ open # "established"
    BY <1>1 DEF Refusing, Serving
<1>3. ASSUME NEW w, Spill(w)
      PROVE  UNCHANGED <<received, sent, pongs, cuts>> /\ (Refusing \/ open = "closed")'
    <2>1. UNCHANGED <<received, sent, pongs, cuts>>
        BY <1>2, <1>3 DEF Spill, SpillControl
    <2>2. open' = open \/ open' = PeerClose(open)
        BY <1>3 DEF Spill, SpillControl
    <2>3. PeerClose(open) \in {"acknowledging", "closed"}
        BY <1>1 DEF Refusing, PeerClose
    <2>4. QED
        BY <1>1, <2>1, <2>2, <2>3 DEF Refusing
<1>4. ASSUME NEW w, Continue(w)
      PROVE  UNCHANGED <<received, sent, pongs, cuts>> /\ (Refusing \/ open = "closed")'
    BY <1>1, <1>4 DEF Continue, Refusing
<1>5. ASSUME NEW w, Refuse(w)
      PROVE  UNCHANGED <<received, sent, pongs, cuts>> /\ (Refusing \/ open = "closed")'
    BY <1>2, <1>5 DEF Refuse
<1>6. ASSUME Bail
      PROVE  UNCHANGED <<received, sent, pongs, cuts>> /\ (Refusing \/ open = "closed")'
    BY <1>6 DEF Bail
<1>7. CASE FirstByte
    <2>1. (\E w : Refuse(w)) \/ (\E w : Continue(w))
        BY <1>7, Zenon DEF FirstByte
    <2>2. QED
        BY <1>1, <1>4, <1>5, <2>1, QuietKeeps, Zenon
<1>8. CASE LengthByte
    <2>1. Bail \/ (\E w : Spill(w)) \/ (\E w : Continue(w))
        BY <1>8 DEF LengthByte
    <2>2. QED
        BY <1>1, <1>3, <1>4, <1>6, <2>1, QuietKeeps, Zenon
<1>9. CASE ExtendedLengthByte
    <2>1. Bail \/ (\E w : Continue(w))
        BY <1>9, Zenon DEF ExtendedLengthByte
    <2>2. QED
        BY <1>1, <1>4, <1>6, <2>1, QuietKeeps, Zenon
<1>10. CASE KeyByte
    <2>1. (\E w : Spill(w)) \/ (\E w : Continue(w))
        BY <1>10 DEF KeyByte
    <2>2. QED
        BY <1>1, <1>3, <1>4, <2>1, QuietKeeps, Zenon
<1>11. CASE ControlByte
    <2>1. (\E w : Spill(w)) \/ (\E w : Continue(w))
        BY <1>11, Zenon DEF ControlByte
    <2>2. QED
        BY <1>1, <1>3, <1>4, <2>1, QuietKeeps, Zenon
<1>12. CASE Bulk
    <2>1. UNCHANGED <<received, sent, pongs, cuts>> /\ open' = open
        BY <1>2, <1>12 DEF Bulk, Deliver
    <2>2. (Refusing \/ open = "closed")'
        BY <1>1, <2>1 DEF Refusing
    <2>3. QED
        BY <1>1, <2>1, <2>2, QuietKeeps, Zenon
<1>13. CASE BulkEmpty
    <2>1. UNCHANGED <<received, sent, pongs, cuts>> /\ open' = open
        BY <1>13 DEF BulkEmpty
    <2>2. (Refusing \/ open = "closed")'
        BY <1>1, <2>1 DEF Refusing
    <2>3. QED
        BY <1>1, <2>1, <2>2, QuietKeeps, Zenon
<1>14. QED
    BY <1>7, <1>8, <1>9, <1>10, <1>11, <1>12, <1>13

\* A client that sends more frames makes none of the earlier ones legal.
LEMMA SendOutOfStep ==
    ASSUME OutOfStep, NEW f \in Frames, Send(f)
    PROVE  OutOfStep'
<1>1. /\ open # "closed" /\ sent' = Append(sent, f) /\ open' = open
      /\ received' = received /\ pongs' = pongs /\ cuts' = cuts
    BY DEF Send
<1>2. sent \in Seq(Frames) /\ received \in Seq(Seq(Byte))
    BY DEF OutOfStep
<1>3. PICK l \in 0..Len(sent), n \in Nat : Got(l, n)
    BY DEF OutOfStep
<1>4. PICK t : t = sent'
    OBVIOUS
<1>5. /\ t \in Seq(Frames) /\ Len(sent) \in Nat /\ Len(t) = Len(sent) + 1
      /\ \A i \in 1..Len(sent) : t[i] = sent[i]
      /\ \A j \in 0..Len(sent) : Ends(DataPieces(t), j) = Ends(DataPieces(sent), j)
      /\ DataOf(t) = DataOf(sent) \o DataPiece(f)
      /\ DataOf(sent) \in Seq(Byte) /\ DataPiece(f) \in Seq(Byte)
    <2>1. t = Append(sent, f)
        BY <1>1, <1>4
    <2>2. QED
        BY <1>2, <2>1, FrameMore, Zenon
<1>6. DOMAIN sent = 1..Len(sent) /\ DOMAIN t = 1..Len(t) /\ DOMAIN sent \subseteq DOMAIN t
    <2>1. DOMAIN sent = 1..Len(sent) /\ DOMAIN t = 1..Len(t)
        BY <1>2, <1>5, PiecesType
    <2>2. QED
        BY <1>5, <2>1
<1>7. ASSUME NEW i \in 1..Len(sent)
      PROVE  LegalFrame(t, i) <=> LegalFrame(sent, i)
    <2>1. i \in Int /\ i >= 1 /\ (\A j \in 1..i : j \in 1..Len(sent))
        BY <1>5
    <2>2. \A j \in 1..i : t[j] = sent[j]
        BY <1>5, <2>1, Zenon
    <2>3. QED
        BY <2>1, <2>2, LegalLocal
<1>8. n <= Len(DataOf(sent)) /\ Len(FlattenSeq(received)) = n
    <2>1. Ends(DataPieces(sent), l) \in Nat /\ Ends(DataPieces(sent), l) <= Len(DataOf(sent))
        <3>1. DataPieces(sent) \in Seq(Seq(Byte)) /\ Len(DataPieces(sent)) = Len(sent)
            BY <1>2, PiecesType
        <3>2. DataOf(sent) = FlattenSeq(DataPieces(sent))
            BY Zenon DEF DataOf, DataPieces
        <3>3. /\ l \in 0..Len(DataPieces(sent)) /\ Len(DataPieces(sent)) \in l..Len(DataPieces(sent))
            BY <1>5, <3>1
        <3>4. /\ Ends(DataPieces(sent), l) \in Nat
              /\ Ends(DataPieces(sent), l) <= Ends(DataPieces(sent), Len(DataPieces(sent)))
              /\ Ends(DataPieces(sent), Len(DataPieces(sent))) = Len(FlattenSeq(DataPieces(sent)))
            BY <3>1, <3>3, FlatPieces, Zenon
        <3>5. QED
            BY <3>2, <3>4, Zenon
    <2>2. n <= Ends(DataPieces(sent), l) /\ Len(FlattenSeq(received)) = n
        BY <1>3, Zenon DEF Got, FirstBytes
    <2>3. Len(DataOf(sent)) \in Nat
        BY <1>5
    <2>4. QED
        BY <2>1, <2>2, <2>3
<1>9. Got(l, n)' /\ l \in 0..Len(sent')
    <2>1. l \in 0..Len(t) /\ \A i \in 1..l : i \in 1..Len(sent)
        BY <1>5
    <2>2. \A i \in 1..l : LegalFrame(t, i)
        BY <1>3, <1>7, <2>1, Zenon DEF Got
    <2>3. n <= Ends(DataPieces(t), l)
        BY <1>3, <1>5, Zenon DEF Got
    <2>4. FirstBytes(FlattenSeq(received), n, DataOf(sent))
        BY <1>3, Zenon DEF Got
    <2>5. FirstBytes(FlattenSeq(received), n, DataOf(t))
        BY <1>5, <1>8, <2>4, FirstBytesMore, Zenon
    <2>6. QED
        BY <1>1, <1>4, <2>1, <2>2, <2>3, <2>5, Zenon DEF Got
<1>10. SplitsExplained'
    <2>1. SplitsExplained /\ UNCHANGED <<received, cuts>>
        BY <1>1 DEF OutOfStep
    <2>2. Len(FlattenSeq(received)) <= Len(DataOf(sent))
        BY <1>8
    <2>3. QED
        BY <1>1, <1>2, <2>1, <2>2, SplitsSend, Zenon
<1>11. PongsEcho'
    <2>1. PICK ping \in [DOMAIN pongs -> DOMAIN sent] :
             /\ \A i \in DOMAIN pongs : /\ sent[ping[i]].opcode = PING
                                        /\ pongs[i] = sent[ping[i]].payload
             /\ \A i, j \in DOMAIN pongs : i < j => ping[i] < ping[j]
        BY DEF OutOfStep, PongsEcho
    <2>2. ping \in [DOMAIN pongs -> DOMAIN t]
        BY <1>6
    <2>3. \A i \in DOMAIN pongs : ping[i] \in DOMAIN sent
        OBVIOUS
    <2>4. \A i \in DOMAIN pongs : t[ping[i]] = sent[ping[i]]
        BY <1>5, <1>6, <2>3, Zenon
    <2>5. \A i \in DOMAIN pongs : t[ping[i]].opcode = PING /\ pongs[i] = t[ping[i]].payload
        BY <2>1, <2>4, Zenon
    <2>6. QED
        BY <1>1, <1>4, <2>1, <2>2, <2>5, Zenon DEF PongsEcho
<1>12. Cause'
    <2>1. PICK i \in DOMAIN sent : ~LegalFrame(sent, i)
        BY <1>1 DEF OutOfStep, Cause
    <2>2. i \in DOMAIN t /\ ~LegalFrame(t, i)
        BY <1>6, <1>7, <2>1, Zenon
    <2>3. QED
        BY <1>4, <2>2, Zenon DEF Cause
<1>13. (Refusing \/ open = "closed")'
    BY <1>1 DEF OutOfStep, Refusing
<1>14. sent' \in Seq(Frames) /\ received' \in Seq(Seq(Byte))
    BY <1>1, <1>2, <1>4, <1>5
<1>15. QED
    BY <1>9, <1>10, <1>11, <1>12, <1>13, <1>14, Zenon DEF OutOfStep

LEMMA OutOfStepKeeps ==
    ASSUME OutOfStep, [Next]_vars
    PROVE  OutOfStep'
<1>1. ASSUME NEW f \in Frames, Send(f) PROVE OutOfStep'
    BY <1>1, SendOutOfStep
<1>2. ASSUME NEW n \in 1..ReadMax, Read(n) PROVE OutOfStep'
    <2>1. UNCHANGED <<received, sent, pongs, cuts>> /\ open' = open
        BY <1>2 DEF Read
    <2>2. QED
        BY <2>1, QuietKeeps DEF OutOfStep, Refusing
<1>3. CASE \/ FirstByte \/ LengthByte \/ ExtendedLengthByte \/ KeyByte
           \/ ControlByte \/ Bulk \/ BulkEmpty
    BY <1>3, ParseQuiet
<1>4. CASE SendPong
    <2>1. open # "established" /\ open # "closed"
        BY <1>4 DEF OutOfStep, Refusing, SendPong
    <2>2. UNCHANGED <<received, sent, pongs, cuts>> /\ open' = "closed"
        BY <1>4, <2>1 DEF SendPong
    <2>3. QED
        BY <2>1, <2>2, QuietKeeps
<1>5. CASE SendClose
    <2>1. UNCHANGED <<received, sent, pongs, cuts>> /\ open # "closed"
          /\ open' = "awaiting_close_ack"
        BY <1>5 DEF SendClose
    <2>2. QED
        BY <2>1, QuietKeeps DEF Refusing
<1>6. CASE ForgetPong \/ UNCHANGED vars
    <2>1. UNCHANGED <<received, sent, pongs, cuts>> /\ open' = open
        BY <1>6 DEF ForgetPong, vars
    <2>2. QED
        BY <2>1, QuietKeeps DEF OutOfStep, Refusing
<1>7. QED
    BY <1>1, <1>2, <1>3, <1>4, <1>5, <1>6, Zenon DEF Next

-----------------------------------------------------------------------------
(* The theorems                                                            *)

LEMMA StutterKeeps ==
    ASSUME InStep, UNCHANGED vars
    PROVE  WsInv'
<1>1. /\ wire' = wire /\ buf' = buf /\ ws' = ws /\ pong' = pong /\ open' = open
      /\ received' = received /\ sent' = sent /\ pongs' = pongs /\ cuts' = cuts
    BY DEF vars
<1>2. WsTypes'
    BY <1>1, Zenon DEF InStep, WsTypes
<1>3. SplitsExplained' /\ PongsEcho'
    BY <1>1, HistoriesKept DEF InStep
<1>4. \E k \in 0..Len(sent'), o \in Nat : ParsedTo(k, o)'
    <2>1. \A k, o : Parsing(k, o)' <=> Parsing(k, o)
        BY <1>1, Zenon DEF Parsing, BetweenFrames, WithinFrame
    <2>2. \A k, o : ParsedTo(k, o)' <=> ParsedTo(k, o)
        BY <1>1, <2>1, Zenon DEF ParsedTo
    <2>3. QED
        BY <1>1, <2>2, Zenon DEF InStep
<1>5. QED
    BY <1>1, <1>2, <1>3, <1>4, Zenon DEF WsInv, InStep

LEMMA InStepKeeps ==
    ASSUME InStep, [Next]_vars
    PROVE  WsInv'
<1>1. ASSUME NEW f \in Frames, Send(f) PROVE WsInv'
    BY <1>1, SendKeeps
<1>2. ASSUME NEW n \in 1..ReadMax, Read(n) PROVE WsInv'
    BY <1>2, ReadKeeps
<1>3. CASE FirstByte
    BY <1>3, FirstByteKeeps
<1>4. CASE LengthByte
    BY <1>4, LengthByteKeeps
<1>5. CASE ExtendedLengthByte
    BY <1>5, ExtendedLengthByteKeeps
<1>6. CASE KeyByte
    BY <1>6, KeyByteKeeps
<1>7. CASE ControlByte
    BY <1>7, ControlByteKeeps
<1>8. CASE Bulk
    BY <1>8, BulkKeeps
<1>9. CASE BulkEmpty
    BY <1>9, BulkEmptyKeeps
<1>10. CASE SendPong
    BY <1>10, SendPongKeeps
<1>11. CASE UNCHANGED vars
    BY <1>11, StutterKeeps
<1>12. ~SendClose /\ ~ForgetPong
    BY DEF InStep, WsTypes, SendClose, ForgetPong
<1>13. QED
    BY <1>1, <1>2, <1>3, <1>4, <1>5, <1>6, <1>7, <1>8, <1>9, <1>10, <1>11, <1>12,
       Zenon DEF Next

\* What both parts of the invariant say of the frames and of what was got.
LEMMA InvGot ==
    ASSUME WsInv
    PROVE  /\ IsPrefix(FlattenSeq(received), DataOf(LegalSent))
           /\ SplitsExplained /\ PongsEcho
<1>1. CASE InStep
    <2>1. WsTypes
        BY <1>1 DEF InStep
    <2>2. PICK k \in 0..Len(sent), o \in Nat : Parsing(k, o)
        BY <1>1 DEF InStep, ParsedTo
    <2>3. QED
        BY <1>1, <2>1, <2>2, GotPrefix, Zenon DEF InStep
<1>2. CASE OutOfStep
    <2>1. PICK l \in 0..Len(sent), n \in Nat : Got(l, n)
        BY <1>2 DEF OutOfStep
    <2>2. sent \in Seq(Frames) /\ received \in Seq(Seq(Byte))
        BY <1>2 DEF OutOfStep
    <2>3. IsPrefix(FlattenSeq(received), DataOf(LegalSent))
        BY <2>1, <2>2, GotIsLegal, Zenon DEF Got
    <2>4. QED
        BY <1>2, <2>3, Zenon DEF OutOfStep
<1>3. QED
    BY <1>1, <1>2 DEF WsInv

\* A frame that is not legal ends the legal ones.
LEMMA IllegalIsNotAll ==
    ASSUME sent \in Seq(Frames), NEW j \in DOMAIN sent, ~LegalFrame(sent, j)
    PROVE  LegalSent # sent
<1>1. PICK m \in 0..Len(sent) :
         /\ \A i \in 1..m : LegalFrame(sent, i)
         /\ m < Len(sent) => LegalSent # sent
    BY LegalSentIs
<1>2. Len(sent) \in Nat /\ DOMAIN sent = 1..Len(sent)
    BY PiecesType
<1>3. CASE m < Len(sent)
    BY <1>1, <1>3
<1>4. CASE m = Len(sent)
    BY <1>1, <1>2, <1>4
<1>5. QED
    <2>1. ASSUME NEW n \in Nat, NEW i \in 0..n
          PROVE  i < n \/ i = n
        OBVIOUS
    <2>2. m < Len(sent) \/ m = Len(sent)
        BY <1>2, <2>1, Zenon
    <2>3. QED
        BY <1>3, <1>4, <2>2

\* However the stream is cut by reads, the parser knows its place in it as long
\* as the client is served: the frames before that place are legal for this
\* build and have been delivered.  When it is served no longer, there is a frame
\* that the build refuses, or a close frame, and what was delivered came before.
THEOREM WsInvHolds == Spec => []WsInv
<1>1. Init => WsInv
    BY InitHolds
<1>2. WsInv /\ [Next]_vars => WsInv'
    BY InStepKeeps, OutOfStepKeeps DEF WsInv
<1>3. QED
    BY <1>1, <1>2, PTL DEF Spec

\* lws_ws_rx_sm and lws_ws_frame_rest_is_payload give the RECEIVE callbacks
\* the payload bytes of the frames that this build accepts, in order and
\* unmasked, all of them once the stream is read, and nothing after a refused
\* frame: for all frames, keys, reads and buffer sizes.
THEOREM ReceivesNothingLost == Spec => []NothingLost
<1>1. WsInv => NothingLost
    <2>1. ASSUME WsInv, Drained
          PROVE  InStep
        BY <2>1 DEF WsInv, OutOfStep, Drained, Serving, Refusing
    <2>2. QED
        BY <2>1, InvGot, DrainedAll, Zenon DEF NothingLost
<1>2. QED
    BY <1>1, WsInvHolds, PTL

\* Every RECEIVE ends at the end of a frame, where a read ended or with a full
\* buffer, and none spans two frames.
THEOREM ReceivesSplitsExplained == Spec => []SplitsExplained
<1>1. WsInv => SplitsExplained
    BY InvGot
<1>2. QED
    BY <1>1, WsInvHolds, PTL

\* The server starts to close a connection for a frame that this build refuses
\* only, and passes over none.
THEOREM ReceivesDroppedIffIllegal == Spec => []DroppedIffIllegal
<1>1. WsInv => DroppedIffIllegal
    <2>1. ASSUME WsInv, Drained
          PROVE  InStep
        BY <2>1 DEF WsInv, OutOfStep, Drained, Serving, Refusing
    <2>2. ASSUME WsInv, Refusing \/ open = "closed"
          PROVE  \/ LegalSent # sent
                 \/ open = "closed" /\ \E i \in DOMAIN sent : sent[i].opcode = CLOSE
        <3>1. OutOfStep
            BY <2>2 DEF WsInv, InStep, WsTypes, Refusing
        <3>2. QED
            BY <3>1, IllegalIsNotAll, Zenon DEF OutOfStep, Cause
    <2>3. Refusing => open # "closed"
        BY DEF Refusing
    <2>4. QED
        BY <2>1, <2>2, <2>3, DrainedAll, Zenon DEF DroppedIffIllegal
<1>2. QED
    BY <1>1, WsInvHolds, PTL

\* A pong carries the whole payload of a ping, and pongs keep the pings' order.
THEOREM ReceivesPongsEcho == Spec => []PongsEcho
<1>1. WsInv => PongsEcho
    BY InvGot
<1>2. QED
    BY <1>1, WsInvHolds, PTL

=============================================================================
