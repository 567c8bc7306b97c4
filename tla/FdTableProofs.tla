--------------------------- MODULE FdTableProofs ----------------------------
(***************************************************************************)
(* The table stays consistent for every number of connections and every    *)
(* limit.  The operations work on a record; Sound is the invariant of such *)
(* a record, Faithful says that the events are those that were asked for   *)
(* and that the server's copy has the table's entries, and TableInv adds   *)
(* what it takes for the operations to be called as they should be.        *)
(***************************************************************************)
EXTENDS FdTable, SubsequencesProofs

EntryType == [fd : Fds, events : Events]

\* The record has its five parts.
Shaped(t) ==
    t = [fds |-> t.fds, lookup |-> t.lookup, position |-> t.position,
         sockfd |-> t.sockfd, pollfds |-> t.pollfds]

Typed(t) ==
    /\ t.fds \in Seq(EntryType)
    /\ t.lookup \in [Fds -> Wsis \cup {"none"}]
    /\ t.position \in [Wsis -> Nat]
    /\ t.sockfd \in [Wsis -> Fds \cup {NoFd}]

\* TableConsistent, of a record.
Consistent(t) ==
    /\ \A w \in Wsis :
          /\ t.position[w] = NoPos <=> t.sockfd[w] = NoFd
          /\ t.position[w] # NoPos =>
                /\ t.position[w] \in DOMAIN t.fds
                /\ t.fds[t.position[w]].fd = t.sockfd[w]
                /\ t.lookup[t.sockfd[w]] = w
    /\ \A i \in DOMAIN t.fds :
          t.lookup[t.fds[i].fd] \in Wsis /\ t.position[t.lookup[t.fds[i].fd]] = i

Sound(t) == Shaped(t) /\ Typed(t) /\ Consistent(t)

-----------------------------------------------------------------------------

LEMMA ElementOfSeq ==
    ASSUME NEW S, NEW s \in Seq(S), NEW k \in DOMAIN s
    PROVE  s[k] \in S
OBVIOUS

LEMMA FunctionIsSeq ==
    ASSUME NEW S, NEW n \in Nat, NEW f \in [1..n -> S]
    PROVE  f \in Seq(S) /\ Len(f) = n
OBVIOUS

\* An entry's descriptor leads to the wsi that has it, and back.
LEMMA EntryOwner ==
    ASSUME NEW t, Sound(t), NEW i \in DOMAIN t.fds
    PROVE  /\ t.fds[i] \in EntryType /\ t.fds[i].fd \in Fds
           /\ t.lookup[t.fds[i].fd] \in Wsis
           /\ t.position[t.lookup[t.fds[i].fd]] = i
           /\ t.sockfd[t.lookup[t.fds[i].fd]] = t.fds[i].fd
<1>1. t.fds[i] \in EntryType
    BY ElementOfSeq DEF Sound, Typed
<1>2. i # NoPos
    BY DEF Sound, Typed, NoPos
<1>3. QED
    BY <1>1, <1>2 DEF EntryType, Sound, Consistent

\* Changing the events of an entry leaves the table sound.
LEMMA ChangeSound ==
    ASSUME NEW t, Sound(t), NEW w \in Wsis, NEW e \in Events
    PROVE  /\ Sound(change_pollfd(t, w, e))
           /\ change_pollfd(t, w, e).sockfd = t.sockfd
           /\ change_pollfd(t, w, e).position = t.position
<1> DEFINE m == t.position[w]
           F == [t.fds EXCEPT ![m].events = e]
           u == [fds |-> F, lookup |-> t.lookup, position |-> t.position,
                 sockfd |-> t.sockfd, pollfds |-> setFDEvents(t.pollfds, t.sockfd[w], e)]
<1>1. CASE m = NoPos
    BY <1>1 DEF change_pollfd
<1>2. CASE m # NoPos
    <2>1. change_pollfd(t, w, e) = u
        BY <1>2 DEF change_pollfd, Sound, Shaped
    <2>2. m \in DOMAIN t.fds /\ Len(t.fds) \in Nat /\ DOMAIN t.fds = 1..Len(t.fds)
        BY <1>2 DEF Sound, Typed, Consistent
    <2>3. ASSUME NEW i \in DOMAIN t.fds PROVE t.fds[i] \in EntryType
        BY DEF Sound, Typed
    <2>4. /\ F \in Seq(EntryType) /\ Len(F) = Len(t.fds)
          /\ DOMAIN F = DOMAIN t.fds
          /\ \A i \in DOMAIN F : F[i].fd = t.fds[i].fd
        <3>1. DOMAIN F = 1..Len(t.fds)
            BY <2>2
        <3>2. ASSUME NEW i \in 1..Len(t.fds) PROVE F[i] \in EntryType /\ F[i].fd = t.fds[i].fd
            BY <2>2, <2>3 DEF EntryType
        <3>3. F = [i \in 1..Len(t.fds) |-> F[i]]
            BY <3>1
        <3>4. F \in [1..Len(t.fds) -> EntryType]
            BY <3>2, <3>3
        <3>5. QED
            BY <2>2, <3>1, <3>2, <3>4, FunctionIsSeq
    <2>5. /\ u.fds = F /\ u.lookup = t.lookup /\ u.position = t.position
          /\ u.sockfd = t.sockfd
        OBVIOUS
    <2> HIDE DEF F, u
    <2>6. Typed(u)
        BY <2>4, <2>5 DEF Sound, Typed
    <2>7. Consistent(u)
        BY <2>4, <2>5 DEF Sound, Consistent
    <2>8. Shaped(u)
        BY DEF Shaped, u
    <2>9. QED
        BY <2>1, <2>5, <2>6, <2>7, <2>8 DEF Sound
<1>3. QED
    BY <1>1, <1>2

LEMMA ModulationSound ==
    ASSUME NEW t, Sound(t), NEW allow \in BOOLEAN
    PROVE  /\ Sound(lws_accept_modulation(t, allow))
           /\ lws_accept_modulation(t, allow).sockfd = t.sockfd
           /\ lws_accept_modulation(t, allow).position = t.position
<1>1. "listen" \in Wsis /\ (IF allow THEN {"POLLIN"} ELSE {}) \in Events
    BY DEF Wsis, Events
<1>2. QED
    BY <1>1, ChangeSound DEF lws_accept_modulation

\* What insert makes before the listener's mode is changed.
Inserted(t, w, fd) ==
    [fds      |-> Append(t.fds, Entry(fd, {"POLLIN"})),
     lookup   |-> [t.lookup EXCEPT ![fd] = w],
     position |-> [t.position EXCEPT ![w] = Len(t.fds) + 1],
     sockfd   |-> [t.sockfd EXCEPT ![w] = fd],
     pollfds  |-> IF Told(w) THEN addFD(t.pollfds, fd, {"POLLIN"}) ELSE t.pollfds]

\* A wsi that has no place is given the last one.
LEMMA InsertedSound ==
    ASSUME NEW t, Sound(t), NEW w \in Wsis, t.sockfd[w] = NoFd,
           NEW fd \in Fds, \A v \in Wsis : t.sockfd[v] # fd
    PROVE  /\ Sound(Inserted(t, w, fd))
           /\ Inserted(t, w, fd).sockfd = [t.sockfd EXCEPT ![w] = fd]
<1> DEFINE n == Len(t.fds) + 1
           F == Append(t.fds, Entry(fd, {"POLLIN"}))
           u == Inserted(t, w, fd)
<1>1. /\ Len(t.fds) \in Nat /\ DOMAIN t.fds = 1..Len(t.fds)
      /\ Entry(fd, {"POLLIN"}) \in EntryType /\ Entry(fd, {"POLLIN"}).fd = fd
    BY DEF Sound, Typed, Entry, EntryType, Events
<1>2. /\ F \in Seq(EntryType) /\ Len(F) = n /\ F[n].fd = fd /\ DOMAIN F = 1..n
      /\ \A i \in 1..Len(t.fds) : F[i] = t.fds[i]
    BY <1>1 DEF Sound, Typed
<1>3. fd # NoFd /\ n \in Nat /\ n # NoPos
    BY <1>1 DEF Fds, NoFd, NoPos
<1>4. /\ u.fds = F
      /\ u.lookup = [t.lookup EXCEPT ![fd] = w]
      /\ u.position = [t.position EXCEPT ![w] = n]
      /\ u.sockfd = [t.sockfd EXCEPT ![w] = fd]
    BY DEF Inserted
<1>5. Shaped(u)
    BY DEF Shaped, Inserted
<1> HIDE DEF F, u
<1>6. Typed(u)
    BY <1>2, <1>3, <1>4 DEF Sound, Typed
<1>7. Consistent(u)
    <2>1. ASSUME NEW v \in Wsis
          PROVE  /\ u.position[v] = NoPos <=> u.sockfd[v] = NoFd
                 /\ u.position[v] # NoPos =>
                       /\ u.position[v] \in DOMAIN u.fds
                       /\ u.fds[u.position[v]].fd = u.sockfd[v]
                       /\ u.lookup[u.sockfd[v]] = v
        <3>1. CASE v = w
            BY <3>1, <1>1, <1>2, <1>3, <1>4 DEF Sound, Typed
        <3>2. CASE v # w
            <4>1. u.position[v] = t.position[v] /\ u.sockfd[v] = t.sockfd[v] /\ t.sockfd[v] # fd
                BY <3>2, <1>4 DEF Sound, Typed
            <4>2. t.position[v] # NoPos =>
                    /\ t.position[v] \in 1..Len(t.fds) /\ t.sockfd[v] \in Fds
                    /\ t.fds[t.position[v]].fd = t.sockfd[v]
                    /\ t.lookup[t.sockfd[v]] = v
                BY <1>1 DEF Sound, Typed, Consistent
            <4>3. t.position[v] = NoPos <=> t.sockfd[v] = NoFd
                BY DEF Sound, Consistent
            <4>4. t.sockfd[v] \in Fds => u.lookup[t.sockfd[v]] = t.lookup[t.sockfd[v]]
                BY <4>1, <1>4 DEF Sound, Typed
            <4>5. t.position[v] \in 1..Len(t.fds) => /\ u.fds[t.position[v]] = t.fds[t.position[v]]
                                                     /\ t.position[v] \in DOMAIN u.fds
                BY <1>1, <1>2, <1>4
            <4>6. QED
                BY <4>1, <4>2, <4>3, <4>4, <4>5
        <3>3. QED
            BY <3>1, <3>2
    <2>2. ASSUME NEW i \in DOMAIN u.fds
          PROVE  u.lookup[u.fds[i].fd] \in Wsis /\ u.position[u.lookup[u.fds[i].fd]] = i
        <3>1. CASE i = n
            BY <3>1, <1>1, <1>2, <1>3, <1>4 DEF Sound, Typed
        <3>2. CASE i # n
            <4>1. i \in 1..Len(t.fds) /\ u.fds[i] = t.fds[i]
                BY <3>2, <1>1, <1>2, <1>4
            <4>2. /\ t.lookup[t.fds[i].fd] \in Wsis
                  /\ t.position[t.lookup[t.fds[i].fd]] = i
                  /\ t.sockfd[t.lookup[t.fds[i].fd]] = t.fds[i].fd
                  /\ t.fds[i].fd \in Fds
                BY <4>1, <1>1, EntryOwner
            <4>3. t.fds[i].fd # fd /\ t.lookup[t.fds[i].fd] # w
                BY <4>2 DEF Fds, NoFd
            <4>4. u.lookup[t.fds[i].fd] = t.lookup[t.fds[i].fd]
                BY <4>2, <4>3, <1>4 DEF Sound, Typed
            <4>5. QED
                BY <4>1, <4>2, <4>3, <4>4, <1>4 DEF Sound, Typed
        <3>3. QED
            BY <3>1, <3>2
    <2>3. QED
        BY <2>1, <2>2 DEF Consistent
<1>8. Sound(u)
    BY <1>5, <1>6, <1>7 DEF Sound
<1>9. QED
    BY <1>4, <1>8 DEF u

LEMMA InsertIs ==
    ASSUME NEW t, NEW w, NEW fd
    PROVE  \/ insert(t, w, fd) = Inserted(t, w, fd)
           \/ insert(t, w, fd) = lws_accept_modulation(Inserted(t, w, fd), FALSE)
BY DEF insert, Inserted

LEMMA InsertSound ==
    ASSUME NEW t, Sound(t), NEW w \in Wsis, t.sockfd[w] = NoFd,
           NEW fd \in Fds, \A v \in Wsis : t.sockfd[v] # fd
    PROVE  /\ Sound(insert(t, w, fd))
           /\ \A v \in Wsis : insert(t, w, fd).sockfd[v] = IF v = w THEN fd ELSE t.sockfd[v]
<1>1. /\ Sound(Inserted(t, w, fd))
      /\ Inserted(t, w, fd).sockfd = [t.sockfd EXCEPT ![w] = fd]
    BY InsertedSound
<1>2. PICK u : u = Inserted(t, w, fd)
    OBVIOUS
<1>3. Sound(u) /\ \A v \in Wsis : u.sockfd[v] = IF v = w THEN fd ELSE t.sockfd[v]
    BY <1>1, <1>2 DEF Sound, Typed
<1>4. Sound(lws_accept_modulation(u, FALSE)) /\ lws_accept_modulation(u, FALSE).sockfd = u.sockfd
    BY <1>3, ModulationSound
<1>5. insert(t, w, fd) = u \/ insert(t, w, fd) = lws_accept_modulation(u, FALSE)
    BY <1>2, InsertIs
<1>6. QED
    BY <1>3, <1>4, <1>5

\* The last entry moves into the place that becomes free, with its wsi.
LEMMA WithoutSound ==
    ASSUME NEW t, Sound(t), NEW w \in Wsis, t.position[w] # NoPos
    PROVE  /\ Sound(without(t, w))
           /\ without(t, w).sockfd = [t.sockfd EXCEPT ![w] = NoFd]
<1> DEFINE m    == t.position[w]
           L    == Len(t.fds)
           last == t.fds[L]
           end  == t.lookup[last.fd]
           F    == [i \in 1..(L - 1) |-> IF i = m THEN last ELSE t.fds[i]]
           u    == [fds      |-> F,
                    lookup   |-> [t.lookup EXCEPT ![t.sockfd[w]] = "none"],
                    position |-> [t.position EXCEPT ![end] = m, ![w] = NoPos],
                    sockfd   |-> [t.sockfd EXCEPT ![w] = NoFd],
                    pollfds  |-> IF Told(w) THEN deleteFD(t.pollfds, t.sockfd[w]) ELSE t.pollfds]
<1>1. without(t, w) = u
    BY DEF without
<1>2. /\ L \in Nat /\ DOMAIN t.fds = 1..L /\ m \in 1..L
      /\ t.fds[m].fd = t.sockfd[w] /\ t.lookup[t.sockfd[w]] = w
      /\ t.sockfd[w] \in Fds
    BY DEF Sound, Typed, Consistent
<1>3. /\ L \in DOMAIN t.fds
      /\ last \in EntryType /\ last.fd \in Fds
      /\ end \in Wsis /\ t.position[end] = L /\ t.sockfd[end] = last.fd
    BY <1>2, EntryOwner
<1>4. ASSUME NEW i \in 1..L
      PROVE  /\ t.fds[i] \in EntryType /\ t.fds[i].fd \in Fds
             /\ t.lookup[t.fds[i].fd] \in Wsis
             /\ t.position[t.lookup[t.fds[i].fd]] = i
             /\ t.sockfd[t.lookup[t.fds[i].fd]] = t.fds[i].fd
    BY <1>2, EntryOwner
<1>5. /\ u.fds = F
      /\ u.lookup = [t.lookup EXCEPT ![t.sockfd[w]] = "none"]
      /\ u.position = [t.position EXCEPT ![end] = m, ![w] = NoPos]
      /\ u.sockfd = [t.sockfd EXCEPT ![w] = NoFd]
    OBVIOUS
<1>6. Shaped(u)
    BY DEF Shaped
<1>7. /\ F \in Seq(EntryType) /\ DOMAIN F = 1..(L - 1)
      /\ \A i \in 1..(L - 1) : F[i] = IF i = m THEN last ELSE t.fds[i]
    <2> HIDE DEF L, last
    <2>1. L - 1 \in Nat /\ 1..(L - 1) \in SUBSET (1..L)
        BY <1>2
    <2>2. ASSUME NEW i \in 1..(L - 1)
          PROVE  (IF i = m THEN last ELSE t.fds[i]) \in EntryType
        BY <2>1, <1>3, <1>4
    <2>3. F \in [1..(L - 1) -> EntryType]
        BY <2>2
    <2>4. QED
        BY <2>1, <2>3, FunctionIsSeq
<1>8. /\ u.position[w] = NoPos
      /\ end # w => u.position[end] = m
      /\ \A v \in Wsis \ {w, end} : u.position[v] = t.position[v]
      /\ u.sockfd[w] = NoFd
      /\ \A v \in Wsis \ {w} : u.sockfd[v] = t.sockfd[v]
      /\ \A f \in Fds \ {t.sockfd[w]} : u.lookup[f] = t.lookup[f]
    BY <1>3, <1>5 DEF Sound, Typed
<1>9. Typed(u)
    BY <1>2, <1>3, <1>5, <1>7 DEF Sound, Typed, NoPos
<1> HIDE DEF m, L, last, end, F, u
<1>10. ASSUME NEW v \in Wsis \ {w}
       PROVE  /\ t.position[v] = NoPos <=> t.sockfd[v] = NoFd
              /\ t.position[v] # NoPos =>
                    /\ t.position[v] \in 1..L /\ t.position[v] # m
                    /\ t.fds[t.position[v]].fd = t.sockfd[v]
                    /\ t.sockfd[v] \in Fds /\ t.sockfd[v] # t.sockfd[w]
                    /\ t.lookup[t.sockfd[v]] = v
                    /\ t.position[v] = L => v = end
    <2>1. /\ t.position[v] = NoPos <=> t.sockfd[v] = NoFd
          /\ t.position[v] # NoPos =>
                /\ t.position[v] \in DOMAIN t.fds
                /\ t.fds[t.position[v]].fd = t.sockfd[v]
                /\ t.lookup[t.sockfd[v]] = v
          /\ t.sockfd[v] \in Fds \cup {NoFd}
        BY DEF Sound, Typed, Consistent
    <2>2. t.position[v] # NoPos => t.sockfd[v] # t.sockfd[w] /\ t.position[v] # m
        BY <2>1, <1>2
    <2>3. t.position[v] # NoPos /\ t.position[v] = L => v = end
        BY <2>1 DEF last, end
    <2>4. QED
        BY <2>1, <2>2, <2>3, <1>2
<1>11. Consistent(u)
    <2>1. ASSUME NEW v \in Wsis
          PROVE  /\ u.position[v] = NoPos <=> u.sockfd[v] = NoFd
                 /\ u.position[v] # NoPos =>
                       /\ u.position[v] \in DOMAIN u.fds
                       /\ u.fds[u.position[v]].fd = u.sockfd[v]
                       /\ u.lookup[u.sockfd[v]] = v
        <3>1. CASE v = w
            BY <3>1, <1>8
        <3>2. CASE v # w /\ v = end
            <4>1. m # L
                BY <1>3, <1>10, <3>2, <1>2 DEF NoPos
            <4>2. m \in 1..(L - 1) /\ F[m] = last /\ m # NoPos
                BY <4>1, <1>2, <1>7 DEF NoPos
            <4>3. t.position[v] # NoPos
                BY <1>2, <1>3, <3>2 DEF NoPos
            <4>4. QED
                BY <3>2, <4>2, <4>3, <1>3, <1>5, <1>7, <1>8, <1>10
        <3>3. CASE v # w /\ v # end
            <4>1. u.position[v] = t.position[v] /\ u.sockfd[v] = t.sockfd[v]
                BY <3>3, <1>8
            <4>2. t.position[v] # NoPos =>
                     /\ t.position[v] \in 1..(L - 1) /\ F[t.position[v]] = t.fds[t.position[v]]
                     /\ u.lookup[t.sockfd[v]] = t.lookup[t.sockfd[v]]
                BY <3>3, <1>2, <1>7, <1>8, <1>10
            <4>3. QED
                BY <3>3, <4>1, <4>2, <1>5, <1>7, <1>10
        <3>4. QED
            BY <3>1, <3>2, <3>3
    <2>2. ASSUME NEW i \in DOMAIN u.fds
          PROVE  u.lookup[u.fds[i].fd] \in Wsis /\ u.position[u.lookup[u.fds[i].fd]] = i
        <3>1. i \in 1..(L - 1) /\ i \in 1..L /\ i # L
            BY <1>2, <1>5, <1>7
        <3>2. CASE i = m
            <4>1. end # w
                BY <3>1, <3>2, <1>3 DEF m
            <4>2. u.fds[i] = last /\ last.fd # t.sockfd[w]
                BY <3>1, <3>2, <4>1, <1>2, <1>3, <1>5, <1>7 DEF end
            <4>3. QED
                BY <3>2, <4>1, <4>2, <1>3, <1>8 DEF end
        <3>3. CASE i # m
            <4>1. u.fds[i] = t.fds[i]
                BY <3>1, <3>3, <1>5, <1>7
            <4>2. t.lookup[t.fds[i].fd] # w /\ t.lookup[t.fds[i].fd] # end
                BY <3>1, <3>3, <1>3, <1>4 DEF m
            <4>3. t.fds[i].fd # t.sockfd[w]
                BY <4>2, <1>2
            <4>4. QED
                BY <3>1, <4>1, <4>2, <4>3, <1>4, <1>8
        <3>4. QED
            BY <3>2, <3>3
    <2>3. QED
        BY <2>1, <2>2 DEF Consistent
<1>12. QED
    BY <1>1, <1>5, <1>6, <1>9, <1>11 DEF Sound

LEMMA RemoveSound ==
    ASSUME NEW t, Sound(t), NEW w \in Wsis, t.position[w] # NoPos
    PROVE  /\ Sound(remove(t, w))
           /\ remove(t, w).sockfd = [t.sockfd EXCEPT ![w] = NoFd]
<1>1. \/ remove(t, w) = without(t, w)
      \/ remove(t, w) = lws_accept_modulation(without(t, w), TRUE)
    BY DEF remove
<1>2. /\ Sound(without(t, w))
      /\ without(t, w).sockfd = [t.sockfd EXCEPT ![w] = NoFd]
    BY WithoutSound
<1>3. /\ Sound(lws_accept_modulation(without(t, w), TRUE))
      /\ lws_accept_modulation(without(t, w), TRUE).sockfd = without(t, w).sockfd
    BY <1>2, ModulationSound
<1>4. QED
    BY <1>1, <1>2, <1>3

-----------------------------------------------------------------------------
(* What the operations do to the entries, and to the server's copy         *)

\* The entry of a wsi that has a place, wherever that is.
EntryOf(t, w) == t.fds[t.position[w]]

Placed(t) == {w \in Wsis : t.position[w] # NoPos}

\* The entry of a wsi has its descriptor, and no two have the same.
LEMMA EntriesApart ==
    ASSUME NEW t, Sound(t), NEW w \in Placed(t)
    PROVE  /\ EntryOf(t, w) \in EntryType /\ EntryOf(t, w).fd = t.sockfd[w]
           /\ t.sockfd[w] \in Fds
           /\ t.lookup[t.sockfd[w]] = w
           /\ \A v \in Placed(t) :
                 v # w => t.sockfd[v] # t.sockfd[w] /\ t.position[v] # t.position[w]
<1>1. \A v \in Placed(t) : /\ v \in Wsis /\ t.position[v] \in DOMAIN t.fds
                           /\ t.fds[t.position[v]].fd = t.sockfd[v]
                           /\ t.lookup[t.sockfd[v]] = v
    BY DEF Placed, Sound, Consistent
<1>2. EntryOf(t, w) \in EntryType
    BY <1>1, ElementOfSeq DEF Sound, Typed, EntryOf
<1>3. t.sockfd[w] \in Fds
    BY <1>1, <1>2 DEF EntryType, EntryOf
<1>4. QED
    BY <1>1, <1>2, <1>3 DEF EntryOf

\* A change of events changes one entry, the one it is meant for.
LEMMA ChangeEntries ==
    ASSUME NEW t, Sound(t), NEW w \in Placed(t), NEW e \in Events,
           NEW u, u = change_pollfd(t, w, e)
    PROVE  /\ u.position = t.position /\ u.sockfd = t.sockfd /\ Placed(u) = Placed(t)
           /\ EntryOf(u, w) = Entry(t.sockfd[w], e)
           /\ \A v \in Placed(t) : v # w => EntryOf(u, v) = EntryOf(t, v)
           /\ u.pollfds = setFDEvents(t.pollfds, t.sockfd[w], e)
<1> DEFINE m == t.position[w]
           F == [t.fds EXCEPT ![m].events = e]
<1>1. w \in Wsis /\ m # NoPos /\ m \in DOMAIN t.fds /\ t.fds[m].fd = t.sockfd[w]
    BY DEF Placed, Sound, Consistent
<1>2. t.fds[m] \in EntryType
    BY <1>1, ElementOfSeq DEF Sound, Typed
<1>3. u = [fds |-> F, lookup |-> t.lookup, position |-> t.position,
           sockfd |-> t.sockfd, pollfds |-> setFDEvents(t.pollfds, t.sockfd[w], e)]
    BY <1>1 DEF change_pollfd, Sound, Shaped
<1>4. F[m] = Entry(t.sockfd[w], e)
    BY <1>1, <1>2 DEF Entry, EntryType
<1>5. \A i \in DOMAIN t.fds : i # m => F[i] = t.fds[i]
    OBVIOUS
<1> HIDE DEF F
<1>6. /\ u.fds = F /\ u.position = t.position /\ u.sockfd = t.sockfd
      /\ u.pollfds = setFDEvents(t.pollfds, t.sockfd[w], e)
    BY <1>3
<1>7. \A v \in Placed(t) : v # w => t.position[v] \in DOMAIN t.fds /\ t.position[v] # m
    BY EntriesApart DEF Placed, Sound, Consistent
<1>8. QED
    BY <1>4, <1>5, <1>6, <1>7 DEF EntryOf, Placed

\* An insertion adds one entry, at the end.
LEMMA InsertEntries ==
    ASSUME NEW t, Sound(t), NEW w \in Wsis, t.sockfd[w] = NoFd, NEW fd \in Fds,
           NEW u, u = Inserted(t, w, fd)
    PROVE  /\ u.sockfd = [t.sockfd EXCEPT ![w] = fd]
           /\ w \notin Placed(t) /\ Placed(u) = Placed(t) \cup {w}
           /\ EntryOf(u, w) = Entry(fd, {"POLLIN"})
           /\ \A v \in Placed(t) : EntryOf(u, v) = EntryOf(t, v)
           /\ u.pollfds = IF Told(w) THEN addFD(t.pollfds, fd, {"POLLIN"}) ELSE t.pollfds
<1> DEFINE n == Len(t.fds) + 1
           F == Append(t.fds, Entry(fd, {"POLLIN"}))
<1>1. /\ Len(t.fds) \in Nat /\ DOMAIN t.fds = 1..Len(t.fds) /\ t.fds \in Seq(EntryType)
      /\ Entry(fd, {"POLLIN"}) \in EntryType
      /\ t.position \in [Wsis -> Nat]
    BY DEF Sound, Typed, Entry, EntryType, Events
<1>2. F[n] = Entry(fd, {"POLLIN"}) /\ \A i \in 1..Len(t.fds) : F[i] = t.fds[i]
    BY <1>1
<1>3. /\ u.fds = F /\ u.position = [t.position EXCEPT ![w] = n]
      /\ u.sockfd = [t.sockfd EXCEPT ![w] = fd]
      /\ u.pollfds = IF Told(w) THEN addFD(t.pollfds, fd, {"POLLIN"}) ELSE t.pollfds
    BY DEF Inserted
<1> HIDE DEF F
<1>4. w \notin Placed(t)
    BY DEF Placed, Sound, Consistent
<1>5. n # NoPos
    BY <1>1 DEF NoPos
<1>6. Placed(u) = Placed(t) \cup {w}
    BY <1>1, <1>3, <1>5 DEF Placed
<1>7. \A v \in Placed(t) : t.position[v] \in 1..Len(t.fds) /\ v \in Wsis
    BY <1>1 DEF Placed, Sound, Consistent
<1>8. QED
    BY <1>1, <1>2, <1>3, <1>4, <1>6, <1>7 DEF EntryOf

\* A removal takes one entry away, and moves no other entry from its wsi.
LEMMA WithoutEntries ==
    ASSUME NEW t, Sound(t), NEW w \in Placed(t), NEW u, u = without(t, w)
    PROVE  /\ u.sockfd = [t.sockfd EXCEPT ![w] = NoFd]
           /\ Placed(u) = Placed(t) \ {w}
           /\ \A v \in Placed(u) : EntryOf(u, v) = EntryOf(t, v)
           /\ u.pollfds = IF Told(w) THEN deleteFD(t.pollfds, t.sockfd[w]) ELSE t.pollfds
<1> DEFINE m    == t.position[w]
           L    == Len(t.fds)
           last == t.fds[L]
           end  == t.lookup[last.fd]
           F    == [i \in 1..(L - 1) |-> IF i = m THEN last ELSE t.fds[i]]
<1>1. /\ L \in Nat /\ DOMAIN t.fds = 1..L /\ m \in 1..L /\ w \in Wsis
      /\ t.position \in [Wsis -> Nat] /\ m # NoPos
    BY DEF Placed, Sound, Typed, Consistent
<1>2. end \in Wsis /\ t.position[end] = L
    BY <1>1, EntryOwner
<1>3. /\ u.fds = F
      /\ u.position = [t.position EXCEPT ![end] = m, ![w] = NoPos]
      /\ u.sockfd = [t.sockfd EXCEPT ![w] = NoFd]
      /\ u.pollfds = IF Told(w) THEN deleteFD(t.pollfds, t.sockfd[w]) ELSE t.pollfds
    BY DEF without
<1>4. \A i \in 1..(L - 1) : F[i] = IF i = m THEN last ELSE t.fds[i]
    OBVIOUS
<1> HIDE DEF m, L, last, end, F
<1>5. /\ u.position[w] = NoPos
      /\ end # w => u.position[end] = m
      /\ \A v \in Wsis \ {w, end} : u.position[v] = t.position[v]
    BY <1>1, <1>2, <1>3
<1>6. L # NoPos
    BY <1>1 DEF NoPos
<1>7. Placed(u) = Placed(t) \ {w}
    BY <1>1, <1>2, <1>5, <1>6 DEF Placed
<1>8. ASSUME NEW v \in Placed(t), v # w PROVE EntryOf(u, v) = EntryOf(t, v)
    <2>1. v \in Wsis /\ t.position[v] \in 1..L /\ t.position[v] # m
        BY <1>1, <1>8, EntriesApart DEF Placed, Sound, Consistent, m
    <2>2. CASE v = end
        <3>1. u.position[v] = m /\ m \in 1..(L - 1)
            BY <1>1, <1>2, <1>5, <1>8, <2>1, <2>2
        <3>2. EntryOf(u, v) = last
            BY <1>3, <1>4, <3>1 DEF EntryOf
        <3>3. QED
            BY <1>2, <2>2, <3>2 DEF EntryOf, last
    <2>3. CASE v # end
        <3>1. t.position[v] # L
            BY <1>2, <1>6, <2>1, <2>3, EntriesApart DEF Placed
        <3>2. t.position[v] \in 1..(L - 1) /\ u.position[v] = t.position[v]
            BY <1>1, <1>5, <1>8, <2>1, <2>3, <3>1
        <3>3. QED
            BY <1>3, <1>4, <2>1, <3>2 DEF EntryOf
    <2>4. QED
        BY <2>2, <2>3
<1>9. QED
    BY <1>3, <1>7, <1>8

UDPEntry == Entry(UDPfd, {"POLLIN"})

\* No two entries of the server have the same descriptor.
Apart(p) == \A i, j \in DOMAIN p : p[i].fd = p[j].fd => i = j

\* MirroredInServer, of a record: by wsis instead of positions.
Mirrored(t) ==
    /\ t.pollfds \in Seq(EntryType)
    /\ Apart(t.pollfds)
    /\ \E i \in DOMAIN t.pollfds : t.pollfds[i] = UDPEntry
    /\ \A w \in Placed(t) : Told(w) => \E i \in DOMAIN t.pollfds : t.pollfds[i] = EntryOf(t, w)
    /\ \A i \in DOMAIN t.pollfds :
          \/ t.pollfds[i] = UDPEntry
          \/ \E w \in Placed(t) : Told(w) /\ t.pollfds[i] = EntryOf(t, w)
    /\ \A w \in Placed(t) : t.sockfd[w] \notin OwnFds

LEMMA UDPEntryType == UDPEntry \in EntryType /\ UDPEntry.fd = UDPfd /\ UDPfd \in OwnFds
BY FdTableAssumption DEF UDPEntry, Entry, EntryType, Events

\* setFDEvents follows a change of events.
LEMMA ChangeMirrored ==
    ASSUME NEW t, Sound(t), Mirrored(t), NEW w \in Wsis, Told(w), NEW e \in Events
    PROVE  Mirrored(change_pollfd(t, w, e))
<1>1. CASE t.position[w] = NoPos
    BY <1>1 DEF change_pollfd
<1>2. CASE t.position[w] # NoPos
    <2> PICK u : u = change_pollfd(t, w, e)
        OBVIOUS
    <2> DEFINE P == t.pollfds
               Q == setFDEvents(P, t.sockfd[w], e)
    <2>0. w \in Placed(t)
        BY <1>2 DEF Placed
    <2>1. /\ u.position = t.position /\ u.sockfd = t.sockfd /\ Placed(u) = Placed(t)
          /\ EntryOf(u, w) = Entry(t.sockfd[w], e)
          /\ \A v \in Placed(t) : v # w => EntryOf(u, v) = EntryOf(t, v)
          /\ u.pollfds = Q
        BY <2>0, ChangeEntries
    <2>2. P \in Seq(EntryType) /\ Len(P) \in Nat /\ DOMAIN P = 1..Len(P)
        BY DEF Mirrored
    <2>3. /\ DOMAIN Q = 1..Len(P)
          /\ \A i \in DOMAIN P : Q[i] = IF P[i].fd = t.sockfd[w] THEN Entry(t.sockfd[w], e) ELSE P[i]
        BY <2>2 DEF setFDEvents
    <2>4. \A v \in Placed(t) : /\ EntryOf(t, v).fd = t.sockfd[v] /\ t.sockfd[v] \in Fds
                               /\ v # w => t.sockfd[v] # t.sockfd[w]
        BY <2>0, EntriesApart
    <2>5. Entry(t.sockfd[w], e) \in EntryType /\ Entry(t.sockfd[w], e).fd = t.sockfd[w]
        BY <2>0, <2>4 DEF Entry, EntryType
    <2>6. \A i \in DOMAIN P : P[i] \in EntryType
        BY <2>2, ElementOfSeq
    <2>7. Q \in Seq(EntryType) /\ DOMAIN Q = DOMAIN P
        <3>1. \A i \in 1..Len(P) : Q[i] \in EntryType
            BY <2>2, <2>3, <2>5, <2>6
        <3>2. Q = [i \in 1..Len(P) |-> Q[i]]
            BY <2>3 DEF setFDEvents
        <3>3. Q \in [1..Len(P) -> EntryType]
            BY <3>1, <3>2
        <3>4. QED
            BY <2>2, <2>3, <3>3, FunctionIsSeq
    <2> HIDE DEF Q
    <2>8. UDPEntry.fd # t.sockfd[w]
        BY <2>0, UDPEntryType DEF Mirrored
    <2>9. \A i \in DOMAIN P : Q[i].fd = P[i].fd
        BY <2>3, <2>5
    <2>10. Apart(Q)
        BY <2>7, <2>9 DEF Mirrored, Apart
    <2>11. \E i \in DOMAIN Q : Q[i] = UDPEntry
        BY <2>3, <2>7, <2>8 DEF Mirrored
    <2>12. ASSUME NEW v \in Placed(t), Told(v) PROVE \E i \in DOMAIN Q : Q[i] = EntryOf(u, v)
        <3>1. PICK i \in DOMAIN P : P[i] = EntryOf(t, v)
            BY <2>12 DEF Mirrored
        <3>2. QED
            BY <2>1, <2>3, <2>4, <2>7, <3>1
    <2>13. ASSUME NEW i \in DOMAIN Q
           PROVE  Q[i] = UDPEntry \/ \E v \in Placed(t) : Told(v) /\ Q[i] = EntryOf(u, v)
        <3>1. CASE P[i] = UDPEntry
            BY <2>3, <2>7, <2>8, <3>1
        <3>2. ASSUME NEW v \in Placed(t), Told(v), P[i] = EntryOf(t, v)
              PROVE  Q[i] = EntryOf(u, v)
            BY <2>1, <2>3, <2>4, <2>7, <3>2
        <3>3. QED
            BY <2>7, <3>1, <3>2 DEF Mirrored
    <2>14. Mirrored(u)
        BY <2>1, <2>7, <2>10, <2>11, <2>12, <2>13 DEF Mirrored
    <2>15. QED
        BY <2>14
<1>3. QED
    BY <1>1, <1>2

LEMMA ModulationMirrored ==
    ASSUME NEW t, Sound(t), Mirrored(t), NEW allow \in BOOLEAN
    PROVE  Mirrored(lws_accept_modulation(t, allow))
<1>1. "listen" \in Wsis /\ Told("listen") /\ (IF allow THEN {"POLLIN"} ELSE {}) \in Events
    BY DEF Wsis, Events, Told
<1>2. QED
    BY <1>1, ChangeMirrored DEF lws_accept_modulation

LEMMA ServerAppends ==
    ASSUME NEW p \in Seq(EntryType), NEW e \in EntryType, NEW q, q = Append(p, e)
    PROVE  /\ q \in Seq(EntryType) /\ DOMAIN q = DOMAIN p \cup {Len(p) + 1}
           /\ Len(p) + 1 \notin DOMAIN p /\ q[Len(p) + 1] = e
           /\ \A i \in DOMAIN p : q[i] = p[i]
<1>1. Len(p) \in Nat /\ DOMAIN p = 1..Len(p)
    OBVIOUS
<1>2. /\ Append(p, e) \in Seq(EntryType) /\ Len(Append(p, e)) = Len(p) + 1
      /\ Append(p, e)[Len(p) + 1] = e
    BY <1>1
<1>3. \A i \in 1..Len(p) : Append(p, e)[i] = p[i]
    BY <1>1
<1>4. DOMAIN q = 1..(Len(p) + 1)
    BY <1>2
<1>5. QED
    BY <1>1, <1>2, <1>3, <1>4

\* addFD follows an insertion.
LEMMA InsertedMirrored ==
    ASSUME NEW t, Sound(t), Mirrored(t), NEW w \in Wsis, t.sockfd[w] = NoFd,
           NEW fd \in Fds \ OwnFds, \A v \in Wsis : t.sockfd[v] # fd
    PROVE  Mirrored(Inserted(t, w, fd))
<1> PICK u : u = Inserted(t, w, fd)
    OBVIOUS
<1> PICK e : e = Entry(fd, {"POLLIN"})
    OBVIOUS
<1> DEFINE P == t.pollfds
<1>1. /\ u.sockfd = [t.sockfd EXCEPT ![w] = fd]
      /\ w \notin Placed(t) /\ Placed(u) = Placed(t) \cup {w}
      /\ EntryOf(u, w) = e
      /\ \A v \in Placed(t) : EntryOf(u, v) = EntryOf(t, v)
      /\ u.pollfds = IF Told(w) THEN Append(P, e) ELSE P
    BY InsertEntries DEF addFD
<1>2. \A v \in Placed(t) : EntryOf(t, v).fd = t.sockfd[v] /\ t.sockfd[v] # fd /\ v \in Wsis
    BY EntriesApart DEF Placed
<1>3. \A v \in Placed(u) : u.sockfd[v] \notin OwnFds
    BY <1>1, <1>2 DEF Mirrored, Sound, Typed
<1>4. e \in EntryType /\ e.fd = fd
    BY DEF Entry, EntryType, Events
<1>5. \A i \in DOMAIN P : P[i].fd # fd
    BY <1>2, UDPEntryType DEF Mirrored
<1>6. CASE ~Told(w)
    BY <1>1, <1>3, <1>6 DEF Mirrored
<1>7. CASE Told(w)
    <2> PICK n : n = Len(P) + 1
        OBVIOUS
    <2> PICK Q : Q = Append(P, e)
        OBVIOUS
    <2>1. /\ Q \in Seq(EntryType) /\ DOMAIN Q = DOMAIN P \cup {n}
          /\ n \notin DOMAIN P /\ Q[n] = e
          /\ \A i \in DOMAIN P : Q[i] = P[i]
        BY <1>4, ServerAppends DEF Mirrored
    <2>2. u.pollfds = Q
        BY <1>1, <1>7
    <2>3. Apart(Q)
        BY <1>4, <1>5, <2>1 DEF Mirrored, Apart
    <2>4. \E i \in DOMAIN Q : Q[i] = UDPEntry
        BY <2>1 DEF Mirrored
    <2>5. ASSUME NEW v \in Placed(u), Told(v) PROVE \E i \in DOMAIN Q : Q[i] = EntryOf(u, v)
        BY <1>1, <2>1, <2>5 DEF Mirrored
    <2>6. ASSUME NEW i \in DOMAIN Q
          PROVE  Q[i] = UDPEntry \/ \E v \in Placed(u) : Told(v) /\ Q[i] = EntryOf(u, v)
        <3>1. CASE i = n
            BY <1>1, <1>7, <2>1, <3>1
        <3>2. CASE i # n
            BY <1>1, <2>1, <3>2 DEF Mirrored
        <3>3. QED
            BY <3>1, <3>2
    <2>7. Mirrored(u)
        BY <1>3, <2>1, <2>2, <2>3, <2>4, <2>5, <2>6 DEF Mirrored
    <2>8. QED
        BY <2>7
<1>8. QED
    BY <1>6, <1>7

\* deleteFD erases the entries of a descriptor and no others.
LEMMA ServerDeletes ==
    ASSUME NEW p \in Seq(EntryType), NEW fd, NEW q, q = deleteFD(p, fd), Apart(p)
    PROVE  /\ q \in Seq(EntryType)
           /\ Apart(q)
           /\ \A k \in DOMAIN q : q[k].fd # fd /\ \E i \in DOMAIN p : q[k] = p[i]
           /\ \A i \in DOMAIN p : p[i].fd # fd => \E k \in DOMAIN q : q[k] = p[i]
<1> DEFINE K == {i \in DOMAIN p : p[i].fd # fd}
<1>1. K \in SUBSET (DOMAIN p) /\ q = Subsequence(p, K)
    BY DEF deleteFD
<1>2. \A i : i \in K <=> i \in DOMAIN p /\ p[i].fd # fd
    OBVIOUS
<1> HIDE DEF K
<1>3. q \in Seq(EntryType)
    BY <1>1, SubsequenceType
<1>4. /\ \A k \in DOMAIN q : \E i \in K : q[k] = p[i]
      /\ \A i \in K : \E k \in DOMAIN q : q[k] = p[i]
    BY <1>1, SubsequenceElements
<1>5. ASSUME NEW k \in DOMAIN q, NEW l \in DOMAIN q, q[k].fd = q[l].fd PROVE k = l
    <2>1. ASSUME NEW a \in DOMAIN q, NEW b \in DOMAIN q, a < b PROVE q[a].fd # q[b].fd
        <3>1. PICK m, n \in K : m < n /\ q[a] = p[m] /\ q[b] = p[n]
            BY <1>1, <2>1, SubsequenceOrder
        <3>2. m # n /\ m \in DOMAIN p /\ n \in DOMAIN p
            BY <1>2, <3>1
        <3>3. QED
            BY <3>1, <3>2 DEF Apart
    <2>2. k \in Int /\ l \in Int
        BY <1>3
    <2>3. QED
        BY <1>5, <2>1, <2>2
<1>6. QED
    BY <1>2, <1>3, <1>4, <1>5 DEF Apart

LEMMA WithoutMirrored ==
    ASSUME NEW t, Sound(t), Mirrored(t), NEW w \in Placed(t)
    PROVE  Mirrored(without(t, w))
<1> PICK u : u = without(t, w)
    OBVIOUS
<1> DEFINE P == t.pollfds
           s == t.sockfd[w]
<1>1. /\ u.sockfd = [t.sockfd EXCEPT ![w] = NoFd]
      /\ Placed(u) = Placed(t) \ {w}
      /\ \A v \in Placed(u) : EntryOf(u, v) = EntryOf(t, v)
      /\ u.pollfds = IF Told(w) THEN deleteFD(P, s) ELSE P
    BY WithoutEntries
<1>2. \A v \in Placed(t) : /\ EntryOf(t, v).fd = t.sockfd[v] /\ v \in Wsis
                           /\ v # w => t.sockfd[v] # s
    BY EntriesApart DEF Placed
<1>3. \A v \in Placed(u) : u.sockfd[v] \notin OwnFds
    BY <1>1, <1>2 DEF Mirrored, Sound, Typed
<1>4. CASE ~Told(w)
    BY <1>1, <1>3, <1>4 DEF Mirrored
<1>5. CASE Told(w)
    <2> PICK Q : Q = deleteFD(P, s)
        OBVIOUS
    <2>1. P \in Seq(EntryType) /\ Apart(P)
        BY DEF Mirrored
    <2>2. /\ Q \in Seq(EntryType)
          /\ Apart(Q)
          /\ \A k \in DOMAIN Q : Q[k].fd # s /\ \E i \in DOMAIN P : Q[k] = P[i]
          /\ \A i \in DOMAIN P : P[i].fd # s => \E k \in DOMAIN Q : Q[k] = P[i]
        <3> HIDE DEF P, s
        <3> QED BY <2>1, ServerDeletes
    <2>3. u.pollfds = Q
        BY <1>1, <1>5
    <2>4. \E i \in DOMAIN Q : Q[i] = UDPEntry
        <3>1. PICK i \in DOMAIN P : P[i] = UDPEntry
            BY DEF Mirrored
        <3>2. UDPEntry.fd # s
            BY UDPEntryType DEF Mirrored
        <3>3. QED
            BY <2>2, <3>1, <3>2
    <2>5. ASSUME NEW v \in Placed(u), Told(v) PROVE \E i \in DOMAIN Q : Q[i] = EntryOf(u, v)
        <3>1. PICK i \in DOMAIN P : P[i] = EntryOf(t, v)
            BY <1>1, <2>5 DEF Mirrored
        <3>2. QED
            BY <1>1, <1>2, <2>2, <3>1
    <2>6. ASSUME NEW k \in DOMAIN Q
          PROVE  Q[k] = UDPEntry \/ \E v \in Placed(u) : Told(v) /\ Q[k] = EntryOf(u, v)
        <3>1. PICK i \in DOMAIN P : Q[k] = P[i] /\ P[i].fd # s
            BY <2>2
        <3>2. \/ P[i] = UDPEntry
              \/ \E v \in Placed(t) : Told(v) /\ P[i] = EntryOf(t, v)
            BY DEF Mirrored
        <3>3. QED
            BY <1>1, <1>2, <3>1, <3>2
    <2>7. Mirrored(u)
        BY <1>3, <2>2, <2>3, <2>4, <2>5, <2>6 DEF Mirrored
    <2>8. QED
        BY <2>7
<1>6. QED
    BY <1>4, <1>5

\* EventsAsWanted, of a record and the wsis that asked for POLLOUT.
Asked(t, W) ==
    \A c \in Conns : c \in Placed(t) =>
        EntryOf(t, c).events = {"POLLIN"} \cup (IF c \in W THEN {"POLLOUT"} ELSE {})

\* The server polls what the table has, and the table what was asked for.
Faithful(t, W) == Sound(t) /\ Mirrored(t) /\ Asked(t, W) /\ W \subseteq Placed(t)

LEMMA ModulationFaithful ==
    ASSUME NEW t, NEW W, Faithful(t, W), NEW allow \in BOOLEAN
    PROVE  /\ Faithful(lws_accept_modulation(t, allow), W)
           /\ Placed(lws_accept_modulation(t, allow)) = Placed(t)
<1> PICK e : e = IF allow THEN {"POLLIN"} ELSE {}
    OBVIOUS
<1> PICK u : u = lws_accept_modulation(t, allow)
    OBVIOUS
<1>1. Sound(t) /\ Mirrored(t) /\ Asked(t, W) /\ W \subseteq Placed(t) /\ e \in Events
    BY DEF Faithful, Events
<1>2. Sound(u) /\ Mirrored(u) /\ u.position = t.position
    BY <1>1, ModulationSound, ModulationMirrored
<1>3. Placed(u) = Placed(t)
    BY <1>2 DEF Placed
<1>4. u = change_pollfd(t, "listen", e)
    BY DEF lws_accept_modulation
<1>5. \A c \in Conns : c \in Placed(t) => EntryOf(u, c) = EntryOf(t, c)
    <2>1. CASE "listen" \in Placed(t)
        BY <1>1, <1>4, <2>1, ChangeEntries, FdTableAssumption
    <2>2. CASE "listen" \notin Placed(t)
        BY <1>4, <2>2 DEF change_pollfd, Placed, Wsis
    <2>3. QED
        BY <2>1, <2>2
<1>6. Asked(u, W)
    BY <1>1, <1>3, <1>5 DEF Asked
<1>7. QED
    BY <1>1, <1>2, <1>3, <1>6 DEF Faithful

LEMMA InsertFaithful ==
    ASSUME NEW t, NEW W, Faithful(t, W), NEW w \in Wsis, t.sockfd[w] = NoFd,
           NEW fd \in Fds \ OwnFds, \A v \in Wsis : t.sockfd[v] # fd
    PROVE  Faithful(insert(t, w, fd), W)
<1> PICK u : u = Inserted(t, w, fd)
    OBVIOUS
<1>1. Sound(t) /\ Mirrored(t) /\ Asked(t, W) /\ W \subseteq Placed(t)
    BY DEF Faithful
<1>2. Sound(u) /\ Mirrored(u)
    BY <1>1, InsertedSound, InsertedMirrored
<1>3. /\ u.sockfd = [t.sockfd EXCEPT ![w] = fd]
      /\ w \notin Placed(t) /\ Placed(u) = Placed(t) \cup {w}
      /\ EntryOf(u, w) = Entry(fd, {"POLLIN"})
      /\ \A v \in Placed(t) : EntryOf(u, v) = EntryOf(t, v)
      /\ u.pollfds = IF Told(w) THEN addFD(t.pollfds, fd, {"POLLIN"}) ELSE t.pollfds
    BY <1>1, InsertEntries
<1>4. Asked(u, W)
    <2> SUFFICES ASSUME NEW c \in Conns, c \in Placed(u)
                 PROVE  EntryOf(u, c).events = {"POLLIN"} \cup (IF c \in W THEN {"POLLOUT"} ELSE {})
        BY DEF Asked
    <2>1. CASE c = w
        <3>1. c \notin W /\ EntryOf(u, c).events = {"POLLIN"}
            BY <1>1, <1>3, <2>1 DEF Entry
        <3>2. QED
            BY <3>1
    <2>2. CASE c # w
        BY <1>1, <1>3, <2>2 DEF Asked
    <2>3. QED
        BY <2>1, <2>2
<1>5. Faithful(u, W)
    BY <1>1, <1>2, <1>3, <1>4 DEF Faithful
<1>6. QED
    BY <1>5, InsertIs, ModulationFaithful

LEMMA RemoveFaithful ==
    ASSUME NEW t, NEW W, Faithful(t, W), NEW w \in Placed(t)
    PROVE  /\ Faithful(remove(t, w), W \ {w})
           /\ Placed(remove(t, w)) = Placed(t) \ {w}
<1> PICK u : u = without(t, w)
    OBVIOUS
<1>1. Sound(t) /\ Mirrored(t) /\ Asked(t, W) /\ W \subseteq Placed(t) /\ w \in Wsis
      /\ t.position[w] # NoPos
    BY DEF Faithful, Placed
<1>2. Sound(u) /\ Mirrored(u)
    BY <1>1, WithoutSound, WithoutMirrored
<1>3. /\ u.sockfd = [t.sockfd EXCEPT ![w] = NoFd]
      /\ Placed(u) = Placed(t) \ {w}
      /\ \A v \in Placed(u) : EntryOf(u, v) = EntryOf(t, v)
      /\ u.pollfds = IF Told(w) THEN deleteFD(t.pollfds, t.sockfd[w]) ELSE t.pollfds
    BY <1>1, WithoutEntries
<1>4. Asked(u, W \ {w})
    BY <1>1, <1>3 DEF Asked
<1>5. Faithful(u, W \ {w})
    BY <1>1, <1>2, <1>3, <1>4 DEF Faithful
<1>6. remove(t, w) = u \/ remove(t, w) = lws_accept_modulation(u, TRUE)
    BY DEF remove
<1>7. QED
    BY <1>3, <1>5, <1>6, ModulationFaithful

\* The request of a write and its end.
LEMMA ChangeFaithful ==
    ASSUME NEW t, NEW W, Faithful(t, W), NEW c \in Conns, c \in Placed(t), NEW e, NEW V,
           e = IF c \in W THEN {"POLLIN"} ELSE {"POLLIN", "POLLOUT"},
           V = (W \cup {c}) \ (W \cap {c})
    PROVE  Faithful(change_pollfd(t, c, e), V)
<1> PICK u : u = change_pollfd(t, c, e)
    OBVIOUS
<1>1. Sound(t) /\ Mirrored(t) /\ Asked(t, W) /\ W \subseteq Placed(t)
    BY DEF Faithful
<1>2. c \in Wsis /\ Told(c) /\ e \in Events
    BY FdTableAssumption DEF Wsis, Told, Events
<1>3. Sound(u) /\ Mirrored(u)
    BY <1>1, <1>2, ChangeSound, ChangeMirrored
<1>4. /\ Placed(u) = Placed(t)
      /\ EntryOf(u, c) = Entry(t.sockfd[c], e)
      /\ \A v \in Placed(t) : v # c => EntryOf(u, v) = EntryOf(t, v)
    BY <1>1, <1>2, ChangeEntries
<1>5. Asked(u, V)
    <2> SUFFICES ASSUME NEW d \in Conns, d \in Placed(u)
                 PROVE  EntryOf(u, d).events = {"POLLIN"} \cup (IF d \in V THEN {"POLLOUT"} ELSE {})
        BY DEF Asked
    <2>1. CASE d = c
        <3>1. EntryOf(u, d).events = e
            BY <1>4, <2>1 DEF Entry
        <3>2. d \in V <=> c \notin W
            BY <2>1
        <3>3. QED
            BY <3>1, <3>2
    <2>2. CASE d # c
        <3>1. d \in V <=> d \in W
            BY <2>2
        <3>2. EntryOf(u, d) = EntryOf(t, d) /\ d \in Placed(t)
            BY <1>4, <2>2
        <3>3. QED
            BY <1>1, <3>1, <3>2 DEF Asked
    <2>3. QED
        BY <2>1, <2>2
<1>6. QED
    BY <1>1, <1>3, <1>4, <1>5 DEF Faithful

-----------------------------------------------------------------------------

LEMMA TableOfBecomes ==
    ASSUME NEW t, Sound(t), Becomes(t)
    PROVE  Table' = t
BY DEF Sound, Shaped, Becomes, Table

LEMMA LowestIn ==
    ASSUME NEW S \in SUBSET Nat, S # {}
    PROVE  Lowest(S) \in S
<1>1. \E f \in S : \A g \in S : f <= g
    BY LeastNat
<1>2. QED
    BY <1>1 DEF Lowest

-----------------------------------------------------------------------------

LEMMA TableFields ==
    /\ Table.fds = fds /\ Table.lookup = lookup /\ Table.position = position
    /\ Table.sockfd = sockfd /\ Table.pollfds = pollfds
BY DEF Table

\* The inductive invariant.  Nobody waits who is connected, and a table that is
\* not made yet is empty.
TableInv ==
    /\ Faithful(Table, wanted)
    /\ \A c \in backlog : c \in Conns /\ sockfd[c] = NoFd
    /\ phase = "create" => \A w \in Wsis : sockfd[w] = NoFd
    /\ index \in Nat \ {0}

LEMMA InitTable == Init => TableInv
<1> SUFFICES ASSUME Init PROVE TableInv
    OBVIOUS
<1>1. /\ Shaped(Table)
      /\ Table.fds = <<>> /\ Table.lookup = lookup /\ Table.position = position
      /\ Table.sockfd = sockfd /\ Table.pollfds = <<UDPEntry>>
    BY DEF Init, Table, Shaped, UDPEntry
<1>2. Typed(Table)
    BY <1>1 DEF Init, Typed, NoPos, NoFd
<1>3. Consistent(Table)
    BY <1>1 DEF Init, Consistent
<1>4. Placed(Table) = {}
    BY <1>1 DEF Init, Placed
<1>5. Mirrored(Table)
    BY <1>1, <1>4, UDPEntryType DEF Mirrored, Apart
<1>6. Faithful(Table, wanted)
    BY <1>1, <1>2, <1>3, <1>4, <1>5 DEF Faithful, Sound, Asked, Init
<1>7. QED
    BY <1>6 DEF TableInv, Init

\* A descriptor that is not used belongs to no wsi.
LEMMA UnusedFree ==
    ASSUME TableInv, NEW f \in Unused
    PROVE  f \in Fds /\ f \notin OwnFds /\ \A v \in Wsis : sockfd[v] # f
<1>1. sockfd \in [Wsis -> Fds \cup {NoFd}]
    BY TableFields DEF TableInv, Faithful, Sound, Typed
<1>2. f \in Fds /\ f # NoFd
    BY DEF Unused, Fds, NoFd
<1>3. QED
    BY <1>1, <1>2 DEF Unused, Used

LEMMA UnusedNat == Unused \in SUBSET Nat
BY FdTableAssumption DEF Unused, Fds

\* A descriptor taken away, there is still one outside the server's own.
LEMMA RoomForTwo == \A x : (Fds \ OwnFds) \ {x} # {}
<1> SUFFICES ASSUME NEW x, (Fds \ OwnFds) \ {x} = {} PROVE FALSE
    OBVIOUS
<1> DEFINE S == OwnFds \cup {x}
<1>1. MaxFds \in Nat /\ Cardinality(OwnFds) + 3 <= MaxFds /\ OwnFds \subseteq Fds
    BY FdTableAssumption
<1>2. IsFiniteSet(Fds) /\ (MaxFds > 0 => Cardinality(Fds) = MaxFds)
    <2>1. 0 \in Int /\ MaxFds - 1 \in Int
        BY <1>1
    <2>2. /\ IsFiniteSet(0..(MaxFds - 1))
          /\ Cardinality(0..(MaxFds - 1)) = IF 0 > MaxFds - 1 THEN 0 ELSE MaxFds - 1 - 0 + 1
        BY <2>1, FS_Interval
    <2>3. QED
        BY <1>1, <2>2 DEF Fds
<1>3. IsFiniteSet(OwnFds) /\ Cardinality(OwnFds) \in Nat
    BY <1>1, <1>2, FS_Subset, FS_CardinalityType
<1>4. IsFiniteSet(S) /\ Cardinality(S) <= Cardinality(OwnFds) + 1 /\ Cardinality(S) \in Nat
    <2>1. /\ IsFiniteSet(S)
          /\ Cardinality(S) = IF x \in OwnFds THEN Cardinality(OwnFds) ELSE Cardinality(OwnFds) + 1
        BY <1>3, FS_AddElement
    <2>2. QED
        BY <1>3, <2>1
<1>5. Fds \in SUBSET S
    OBVIOUS
<1>6. Cardinality(Fds) <= Cardinality(S)
    BY <1>4, <1>5, FS_Subset
<1>7. QED
    BY <1>1, <1>2, <1>3, <1>4, <1>6

\* Every step leaves the table sound.
LEMMA TableStep == TableInv /\ [Next]_vars => TableInv'
<1> SUFFICES ASSUME TableInv, [Next]_vars PROVE TableInv'
    OBVIOUS
<1> USE TableFields
<1>0. /\ Faithful(Table, wanted) /\ Sound(Table)
      /\ \A c \in backlog : c \in Conns /\ sockfd[c] = NoFd
      /\ phase = "create" => \A w \in Wsis : sockfd[w] = NoFd
      /\ index \in Nat \ {0}
      /\ sockfd \in [Wsis -> Fds \cup {NoFd}] /\ position \in [Wsis -> Nat]
      /\ \A w \in Wsis : position[w] = NoPos <=> sockfd[w] = NoFd
    BY DEF TableInv, Faithful, Sound, Typed, Consistent
<1>1. CASE /\ UNCHANGED <<table, backlog, index, wanted>>
           /\ phase' = "create" => phase = "create"
    <2>1. Table' = Table /\ sockfd' = sockfd
        BY <1>1 DEF table, Table
    <2>2. Faithful(Table, wanted)'
        BY <1>0, <1>1, <2>1 DEF Faithful, Sound, Shaped, Typed, Consistent, Mirrored, Asked,
                                Placed, EntryOf
    <2>3. QED
        BY <1>0, <1>1, <2>1, <2>2 DEF TableInv
<1>2. CASE CreateContext
    <2> PICK p : p = Lowest(Unused)
        OBVIOUS
    <2> PICK l : l = Lowest(Unused \ {p})
        OBVIOUS
    <2> PICK t1 : t1 = insert(Table, "pipe", p)
        OBVIOUS
    <2> DEFINE t2 == insert(t1, "listen", l)
    <2>0. Sound(Table) /\ Faithful(Table, wanted)
        BY <1>0
    <2>1. Unused = Fds \ OwnFds /\ \A w \in Wsis : sockfd[w] = NoFd
        BY <1>0, <1>2 DEF CreateContext, Unused, Used
    <2>2. p \in Unused /\ l \in Unused /\ l # p
        <3>1. \A x : Unused \ {x} # {}
            BY <2>1, RoomForTwo
        <3>2. Unused # {}
            BY <3>1
        <3>3. p \in Unused
            BY <3>2, UnusedNat, LowestIn
        <3>4. Unused \ {p} \in SUBSET Nat /\ Unused \ {p} # {}
            BY <3>1, UnusedNat
        <3>5. l \in Unused \ {p}
            BY <3>4, LowestIn
        <3>6. QED
            BY <3>3, <3>5
    <2>3. Becomes(t2) /\ UNCHANGED <<backlog, index, wanted>> /\ phase' # "create"
        BY <1>2 DEF CreateContext
    <2>4. "pipe" \in Wsis /\ "listen" \in Wsis /\ p \in Fds /\ l \in Fds /\ p # NoFd /\ l # NoFd
          /\ p \notin OwnFds /\ l \notin OwnFds
        BY <2>1, <2>2 DEF Wsis, Unused, Fds, NoFd
    <2>5. Table.sockfd["pipe"] = NoFd /\ \A v \in Wsis : Table.sockfd[v] # p
        BY <2>1, <2>4
    <2>6. Sound(t1) /\ \A v \in Wsis : t1.sockfd[v] = IF v = "pipe" THEN p ELSE Table.sockfd[v]
        BY <2>0, <2>4, <2>5, InsertSound
    <2>7. t1.sockfd["listen"] = NoFd /\ \A v \in Wsis : t1.sockfd[v] # l
        BY <2>1, <2>2, <2>4, <2>6
    <2>8. Sound(t2) /\ \A v \in Wsis : t2.sockfd[v] = IF v = "listen" THEN l ELSE t1.sockfd[v]
        BY <2>4, <2>6, <2>7, InsertSound
    <2>9. Faithful(t1, wanted)
        BY <2>0, <2>4, <2>5, InsertFaithful
    <2>10. Faithful(t2, wanted)
        BY <2>4, <2>7, <2>9, InsertFaithful
    <2> HIDE DEF t2
    <2>11. Table' = t2 /\ sockfd' = t2.sockfd
        BY <2>3, <2>8, TableOfBecomes DEF Becomes
    <2>12. \A d \in backlog' : d \in Conns /\ sockfd'[d] = NoFd
        <3>1. ASSUME NEW d \in Conns PROVE d \in Wsis /\ d # "pipe" /\ d # "listen"
            BY FdTableAssumption DEF Wsis
        <3>2. QED
            BY <1>0, <2>3, <2>6, <2>8, <2>11, <3>1
    <2>13. QED
        BY <1>0, <2>3, <2>11, <2>12, <2>10 DEF TableInv
<1>3. ASSUME NEW c \in Conns, Connect(c) PROVE TableInv'
    <2>1. Table' = Table /\ sockfd' = sockfd /\ wanted' = wanted
        BY <1>3 DEF Connect, table, Table
    <2>2. QED
        BY <1>0, <1>3, <2>1 DEF Connect, TableInv, table
<1>4. ASSUME NEW c \in Conns, Accept(c) PROVE TableInv'
    <2> PICK f : f = Lowest(Unused)
        OBVIOUS
    <2> DEFINE t == insert(Table, c, f)
    <2>1. c \in Wsis /\ sockfd[c] = NoFd /\ f \in Unused
        BY <1>0, <1>4, LowestIn, UnusedNat DEF Accept, Wsis
    <2>2. f \in Fds /\ f \notin OwnFds /\ \A v \in Wsis : sockfd[v] # f
        BY <2>1, UnusedFree
    <2>3. Sound(t) /\ \A v \in Wsis : t.sockfd[v] = IF v = c THEN f ELSE Table.sockfd[v]
        BY <1>0, <2>1, <2>2, InsertSound
    <2>4. Faithful(t, wanted)
        BY <1>0, <2>1, <2>2, InsertFaithful
    <2>5. /\ Becomes(t) /\ backlog' = backlog \ {c} /\ phase' # "create"
          /\ UNCHANGED <<index, wanted>>
        BY <1>4 DEF Accept
    <2> HIDE DEF t
    <2>6. Table' = t /\ sockfd' = t.sockfd
        BY <2>3, <2>5, TableOfBecomes DEF Becomes
    <2>7. \A d \in backlog' : d \in Conns /\ sockfd'[d] = NoFd
        BY <1>0, <2>3, <2>5, <2>6 DEF Wsis
    <2>8. QED
        BY <1>0, <2>5, <2>6, <2>7, <2>4 DEF TableInv
<1>5. ASSUME NEW c \in Conns, WantWrite(c) PROVE TableInv'
    <2> DEFINE e == IF c \in wanted THEN {"POLLIN"} ELSE {"POLLIN", "POLLOUT"}
               t == change_pollfd(Table, c, e)
    <2>1. c \in Wsis /\ e \in Events
        BY DEF Wsis, Events
    <2>2. Sound(t) /\ t.sockfd = sockfd
        <3> HIDE DEF e
        <3>1. QED
            BY <1>0, <2>1, ChangeSound
    <2>3. Becomes(t) /\ backlog' = backlog /\ index' = index /\ phase' # "create"
        BY <1>5 DEF WantWrite
    <2>4. wanted' = (wanted \cup {c}) \ (wanted \cap {c}) /\ c \in Placed(Table)
        BY <1>5, <2>1 DEF WantWrite, Placed
    <2>5. Faithful(t, wanted')
        BY <1>0, <2>4, ChangeFaithful
    <2> HIDE DEF t
    <2>6. Table' = t /\ sockfd' = t.sockfd
        BY <2>2, <2>3, TableOfBecomes DEF Becomes
    <2>7. QED
        BY <1>0, <2>2, <2>3, <2>6, <2>5 DEF TableInv
<1>6. ASSUME NEW c \in Conns, Close(c) PROVE TableInv'
    <2> DEFINE t == remove(Table, c)
    <2>1. c \in Wsis /\ position[c] # NoPos
        BY <1>6 DEF Wsis, Close
    <2>2. Sound(t) /\ t.sockfd = [sockfd EXCEPT ![c] = NoFd]
        BY <1>0, <2>1, RemoveSound
    <2>3. /\ Becomes(t) /\ wanted' = wanted \ {c} /\ phase' # "create"
          /\ UNCHANGED <<backlog, index>>
        BY <1>6 DEF Close
    <2>4. Faithful(t, wanted')
        BY <1>0, <2>1, <2>3, RemoveFaithful DEF Placed
    <2> HIDE DEF t
    <2>5. Table' = t /\ sockfd' = t.sockfd
        BY <2>2, <2>3, TableOfBecomes DEF Becomes
    <2>6. \A d \in backlog' : d \in Conns /\ sockfd'[d] = NoFd
        BY <1>0, <2>2, <2>3, <2>5 DEF Wsis
    <2>7. QED
        BY <1>0, <2>3, <2>5, <2>6, <2>4 DEF TableInv
<1>7. CASE DestroyStep
    <2> DEFINE w == lookup[fds[index].fd]
               t == IF w = "none" THEN Table ELSE remove(Table, w)
    <2>1. index \in DOMAIN fds
        BY <1>0, <1>7 DEF DestroyStep, Sound, Typed, fds_count
    <2>2. w \in Wsis /\ position[w] = index
        BY <1>0, <2>1, EntryOwner
    <2>3. w # "none" /\ position[w] # NoPos
        BY <1>0, <2>2, FdTableAssumption DEF Wsis, NoPos
    <2>4. Sound(t) /\ t.sockfd = [sockfd EXCEPT ![w] = NoFd]
        <3> HIDE DEF w
        <3>1. QED
            BY <1>0, <2>2, <2>3, RemoveSound
    <2>5. Becomes(t) /\ backlog' = backlog /\ phase' # "create" /\ index' \in Nat \ {0}
        BY <1>0, <1>7 DEF DestroyStep, NextIndex
    <2>6. Faithful(t, wanted \ {w}) /\ Placed(t) = Placed(Table) \ {w}
        <3> HIDE DEF w
        <3>1. w \in Placed(Table)
            BY <2>2, <2>3 DEF Placed
        <3>2. QED
            BY <1>0, <2>3, <3>1, RemoveFaithful
    <2>7. wanted' = wanted \ {w}
        <3>1. wanted' = {v \in wanted : t.position[v] # NoPos}
            BY <1>7 DEF DestroyStep
        <3>2. wanted \subseteq Placed(Table)
            BY <1>0 DEF Faithful
        <3> HIDE DEF t, w
        <3>3. \A v \in wanted : t.position[v] # NoPos <=> v # w
            BY <2>6, <3>2 DEF Placed
        <3>4. QED
            BY <3>1, <3>3
    <2> HIDE DEF t, w
    <2>8. Table' = t /\ sockfd' = t.sockfd
        BY <2>4, <2>5, TableOfBecomes DEF Becomes
    <2>9. \A d \in backlog' : d \in Conns /\ sockfd'[d] = NoFd
        BY <1>0, <2>4, <2>5, <2>8 DEF Wsis
    <2>10. QED
        BY <1>0, <2>5, <2>8, <2>9, <2>6, <2>7 DEF TableInv
<1>8. CASE ServiceListener \/ AcceptFails \/ StartDestroy \/ EndDestroy \/ UNCHANGED vars
    BY <1>1, <1>8 DEF ServiceListener, AcceptFails, StartDestroy, EndDestroy, vars, table
<1>9. QED
    BY <1>2, <1>3, <1>4, <1>5, <1>6, <1>7, <1>8 DEF Next

\* After any connections, requests and removals, and through the destruction
\* of the context, positions, descriptors and entries name each other.
THEOREM TableStaysConsistent == Spec => []TableConsistent
<1>1. TableInv => TableConsistent
    BY TableFields DEF TableInv, Faithful, Sound, Consistent, TableConsistent
<1>2. QED
    BY <1>1, InitTable, TableStep, PTL DEF Spec

\* Every connection is polled for what it asked for, however often the entries
\* were moved and the listener's mode was changed (change_pollfd, insert,
\* without).
THEOREM EventsStayAsWanted == Spec => []EventsAsWanted
<1>1. TableInv => EventsAsWanted
    <2> SUFFICES ASSUME TableInv, NEW c \in Conns, position[c] # NoPos
                 PROVE  fds[position[c]].events
                            = {"POLLIN"} \cup (IF c \in wanted THEN {"POLLOUT"} ELSE {})
        BY DEF EventsAsWanted
    <2>1. c \in Placed(Table) /\ EntryOf(Table, c) = fds[position[c]]
        BY TableFields DEF Placed, EntryOf, Wsis
    <2>2. QED
        BY <2>1 DEF TableInv, Faithful, Asked
<1>2. QED
    BY <1>1, InitTable, TableStep, PTL DEF Spec

\* The wsis that the server polls, as positions; 0 stands for the UDP socket.
LEMMA CopyIsBijective ==
    ASSUME TableInv,
           NEW Copied, Copied = {i \in DOMAIN fds : Told(lookup[fds[i].fd])}
    PROVE  ExistsBijection(DOMAIN pollfds, Copied \cup {0})
<1> DEFINE Owner(e) == IF e.fd = UDPfd THEN 0 ELSE position[lookup[e.fd]]
           g == [i \in DOMAIN pollfds |-> Owner(pollfds[i])]
<1> USE TableFields
<1>1. Sound(Table) /\ Mirrored(Table)
    BY DEF TableInv, Faithful
<1>2. ASSUME NEW w \in Placed(Table), Told(w)
      PROVE  /\ position[w] \in Copied
             /\ Owner(EntryOf(Table, w)) = position[w]
             /\ EntryOf(Table, w) = fds[position[w]]
    <2>1. /\ EntryOf(Table, w).fd = sockfd[w] /\ lookup[sockfd[w]] = w
        BY <1>1, EntriesApart
    <2>2. position[w] \in DOMAIN fds
        BY <1>1 DEF Sound, Consistent, Placed
    <2>3. sockfd[w] # UDPfd
        BY <1>1, UDPEntryType DEF Mirrored
    <2>4. QED
        BY <1>2, <2>1, <2>2, <2>3 DEF EntryOf
<1>3. ASSUME NEW i \in Copied
      PROVE  /\ lookup[fds[i].fd] \in Placed(Table) /\ Told(lookup[fds[i].fd])
             /\ position[lookup[fds[i].fd]] = i
             /\ i # 0
    <2>1. i \in DOMAIN fds /\ Told(lookup[fds[i].fd])
        OBVIOUS
    <2>2. lookup[fds[i].fd] \in Wsis /\ position[lookup[fds[i].fd]] = i
        BY <1>1, <2>1, EntryOwner
    <2>3. i # 0
        BY <1>1, <2>1 DEF Sound, Typed
    <2>4. QED
        BY <2>1, <2>2, <2>3 DEF Placed, NoPos
<1>4. ASSUME NEW i \in DOMAIN pollfds
      PROVE  /\ g[i] \in Copied \cup {0}
             /\ g[i] = 0 <=> pollfds[i] = UDPEntry
             /\ g[i] # 0 => pollfds[i] = fds[g[i]]
    <2>1. CASE pollfds[i] = UDPEntry
        BY <2>1, UDPEntryType
    <2>2. ASSUME NEW w \in Placed(Table), Told(w), pollfds[i] = EntryOf(Table, w)
          PROVE  g[i] \in Copied /\ g[i] # 0 /\ pollfds[i] = fds[g[i]]
        <3>1. g[i] = Owner(EntryOf(Table, w))
            BY <2>2
        <3>2. /\ position[w] \in Copied
              /\ Owner(EntryOf(Table, w)) = position[w]
              /\ EntryOf(Table, w) = fds[position[w]]
            BY <1>2, <2>2
        <3> HIDE DEF g, Owner
        <3>3. g[i] = position[w] /\ position[w] # 0
            BY <1>3, <3>1, <3>2
        <3>4. QED
            BY <2>2, <3>2, <3>3
    <2>3. pollfds[i] # UDPEntry =>
              \E w \in Placed(Table) : Told(w) /\ pollfds[i] = EntryOf(Table, w)
        BY <1>1 DEF Mirrored
    <2>4. pollfds[i] # UDPEntry => g[i] \in Copied /\ g[i] # 0 /\ pollfds[i] = fds[g[i]]
        BY <2>2, <2>3
    <2>5. QED
        BY <2>1, <2>4, UDPEntryType
<1>5. g \in [DOMAIN pollfds -> Copied \cup {0}]
    BY <1>4
<1>6. \A k \in Copied \cup {0} : \E i \in DOMAIN pollfds : g[i] = k
    <2>1. \E i \in DOMAIN pollfds : g[i] = 0
        BY <1>1, <1>4 DEF Mirrored
    <2>2. ASSUME NEW k \in Copied PROVE \E i \in DOMAIN pollfds : g[i] = k
        <3>1. PICK w \in Placed(Table) : Told(w) /\ position[w] = k
            BY <1>3
        <3>2. PICK i \in DOMAIN pollfds : pollfds[i] = EntryOf(Table, w)
            BY <1>1, <3>1 DEF Mirrored
        <3>3. g[i] = k
            BY <1>2, <3>1, <3>2
        <3>4. QED
            BY <3>3
    <2>3. QED
        BY <2>1, <2>2
<1> HIDE DEF g
<1>7. ASSUME NEW i \in DOMAIN pollfds, NEW j \in DOMAIN pollfds, g[i] = g[j] PROVE i = j
    <2>1. pollfds[i] = pollfds[j]
        BY <1>4, <1>7
    <2>2. QED
        BY <1>1, <2>1 DEF Mirrored, Apart
<1>8. g \in Bijection(DOMAIN pollfds, Copied \cup {0})
    BY <1>5, <1>6, <1>7 DEF Bijection, Injection, Surjection, IsInjective
<1>9. QED
    BY <1>8 DEF ExistsBijection

\* The server polls the UDP socket and the entries of the table, the pipe's
\* excepted: each once, with the events it has there (addFD, deleteFD,
\* setFDEvents, whatever the table moves).
THEOREM ServerStaysMirrored == Spec => []MirroredInServer
<1>1. TableInv => MirroredInServer
    <2> SUFFICES ASSUME TableInv PROVE MirroredInServer
        OBVIOUS
    <2> USE TableFields
    <2> PICK Copied : Copied = {i \in DOMAIN fds : Told(lookup[fds[i].fd])}
        OBVIOUS
    <2>1. Sound(Table) /\ Mirrored(Table)
        BY DEF TableInv, Faithful
    <2>2. pollfds \in Seq(EntryType) /\ Len(pollfds) \in Nat /\ DOMAIN pollfds = 1..Len(pollfds)
        BY <2>1 DEF Mirrored
    <2>3. Len(pollfds) = Cardinality(Copied) + 1
        <3>1. DOMAIN fds = 1..Len(fds) /\ Len(fds) \in Nat
            BY <2>1 DEF Sound, Typed
        <3>2. IsFiniteSet(DOMAIN fds) /\ Copied \in SUBSET (DOMAIN fds)
            BY <3>1, FS_Interval
        <3>3. IsFiniteSet(Copied) /\ 0 \notin Copied /\ Cardinality(Copied) \in Nat
            BY <3>1, <3>2, FS_Subset, FS_CardinalityType
        <3>4. Cardinality(Copied \cup {0}) = Cardinality(Copied) + 1
            BY <3>3, FS_AddElement
        <3>5. IsFiniteSet(1..Len(pollfds)) /\ Cardinality(1..Len(pollfds)) = Len(pollfds)
            BY <2>2, FS_Interval
        <3>6. Cardinality(Copied \cup {0}) = Cardinality(DOMAIN pollfds)
            <4>1. ExistsBijection(DOMAIN pollfds, Copied \cup {0})
                BY CopyIsBijective
            <4>2. IsFiniteSet(DOMAIN pollfds)
                BY <2>2, <3>5
            <4>3. QED
                BY <4>1, <4>2, FS_Bijection
        <3>7. QED
            BY <2>2, <3>4, <3>5, <3>6
    <2>4. ASSUME NEW i \in Copied PROVE \E j \in DOMAIN pollfds : pollfds[j] = fds[i]
        <3>1. i \in DOMAIN fds /\ Told(lookup[fds[i].fd])
            OBVIOUS
        <3>2. lookup[fds[i].fd] \in Wsis /\ position[lookup[fds[i].fd]] = i /\ i # NoPos
            BY <2>1, <3>1, EntryOwner DEF Sound, Typed, NoPos
        <3>3. lookup[fds[i].fd] \in Placed(Table) /\ EntryOf(Table, lookup[fds[i].fd]) = fds[i]
            BY <3>2 DEF Placed, EntryOf
        <3>4. QED
            BY <2>1, <3>1, <3>3 DEF Mirrored
    <2>5. ASSUME NEW j \in DOMAIN pollfds, pollfds[j] # UDPEntry
          PROVE  \E i \in Copied : pollfds[j] = fds[i]
        <3>1. PICK w \in Placed(Table) : Told(w) /\ pollfds[j] = EntryOf(Table, w)
            BY <2>1, <2>5 DEF Mirrored
        <3>2. /\ EntryOf(Table, w).fd = sockfd[w] /\ lookup[sockfd[w]] = w
            BY <2>1, EntriesApart
        <3>3. position[w] \in DOMAIN fds
            BY <2>1 DEF Sound, Consistent, Placed
        <3>4. QED
            BY <3>1, <3>2, <3>3 DEF EntryOf
    <2>6. {pollfds[j] : j \in DOMAIN pollfds}
              = {Entry(UDPfd, {"POLLIN"})} \cup {fds[i] : i \in Copied}
        <3>1. \E j \in DOMAIN pollfds : pollfds[j] = UDPEntry
            BY <2>1 DEF Mirrored
        <3>2. QED
            BY <2>4, <2>5, <3>1 DEF UDPEntry
    <2>7. QED
        BY <2>3, <2>6 DEF MirroredInServer
<1>2. QED
    BY <1>1, InitTable, TableStep, PTL DEF Spec

=============================================================================
