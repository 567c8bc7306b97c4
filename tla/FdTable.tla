------------------------------ MODULE FdTable -------------------------------
(***************************************************************************)
(* libwebsockets' table of polled sockets, and its copy in the server.     *)
(* pollfd.c keeps pt->fds dense: a removed entry is filled with the last   *)
(* one, whose wsi is told its new position.  Every change is passed to     *)
(* addFD, deleteFD or setFDEvents of Serveri, which polls its own vector.  *)
(* The listener is not polled for POLLIN while the table has no room.      *)
(*                                                                         *)
(* Serveri.tla takes the table as a set of connections with events; this   *)
(* module is about how that set is stored and what happens when it fills.  *)
(***************************************************************************)
EXTENDS Subsequences

CONSTANTS
    Conns,      \* connections that clients may make
    OwnFds,     \* descriptors outside the table: stdio, log, tty, UDP socket,
                \* and the write end of the pipe
    UDPfd,      \* the one of them that Serveri polls
    MaxFds      \* RLIMIT_NOFILE, which is max_fds and fd_limit_per_thread

Fds  == 0..(MaxFds - 1)
Wsis == Conns \cup {"pipe", "listen"}

\* There is room for the pipe, the listener and a connection.  At least the
\* UDP socket and the write end of the pipe are outside the table.
ASSUME FdTableAssumption ==
    /\ MaxFds \in Nat
    /\ OwnFds \subseteq Fds /\ UDPfd \in OwnFds
    /\ Cardinality(OwnFds) >= 2 /\ Cardinality(OwnFds) + 3 <= MaxFds
    /\ {"pipe", "listen", "none"} \cap Conns = {}

Events == SUBSET {"POLLIN", "POLLOUT"}
NoFd   == -1
NoPos  == 0     \* LWS_NO_FDS_POS; entries are counted from 1

VARIABLES
    phase,      \* "create", "run", "accept" (in the accept loop), "destroy",
                \* "destroyed"
    fds,        \* pt->fds, up to fds_count
    lookup,     \* context->lws_lookup
    position,   \* position_in_fds_table of each wsi
    sockfd,     \* desc.sockfd of each wsi, NoFd when it has none
    pollfds,    \* Serveri::pollfds
    backlog,    \* connections that wait to be accepted
    index,      \* n of the loop in lws_context_destroy
    wanted      \* history: the wsis that asked for POLLOUT

vars == <<phase, fds, lookup, position, sockfd, pollfds, backlog, index, wanted>>
table == <<fds, lookup, position, sockfd, pollfds>>

fds_count == Len(fds)

Used   == OwnFds \cup {sockfd[w] : w \in {v \in Wsis : sockfd[v] # NoFd}}
Unused == Fds \ Used

\* The kernel hands out the lowest descriptor.
Lowest(S) == CHOOSE f \in S : \A g \in S : f <= g

Entry(fd, events) == [fd |-> fd, events |-> events]

Init ==
    /\ phase = "create"
    /\ fds = <<>>
    /\ lookup = [f \in Fds |-> "none"]
    /\ position = [w \in Wsis |-> NoPos]
    /\ sockfd = [w \in Wsis |-> NoFd]
    /\ pollfds = <<Entry(UDPfd, {"POLLIN"})>>
    /\ backlog = {}
    /\ index = 1
    /\ wanted = {}

-----------------------------------------------------------------------------
(* Serveri's side                                                          *)

addFD(p, fd, events) == Append(p, Entry(fd, events))

deleteFD(p, fd) == Subsequence(p, {i \in DOMAIN p : p[i].fd # fd})

\* As if events were added to the old ones.
setFDEvents_Adds(p, fd, events) ==
    [i \in DOMAIN p |-> IF p[i].fd = fd THEN Entry(fd, p[i].events \cup events) ELSE p[i]]

setFDEvents(p, fd, events) ==
    [i \in DOMAIN p |-> IF p[i].fd = fd THEN Entry(fd, events) ELSE p[i]]

\* The pipe has no vhost, and so no callback: Serveri never polls it.
Told(w) == w # "pipe"

-----------------------------------------------------------------------------
(* The table.  A state of it is a record, so that an operation can be      *)
(* followed by the change of the listener's mode that it leads to.         *)

Table == [fds |-> fds, lookup |-> lookup, position |-> position,
          sockfd |-> sockfd, pollfds |-> pollfds]

Becomes(t) ==
    /\ fds' = t.fds /\ lookup' = t.lookup /\ position' = t.position
    /\ sockfd' = t.sockfd /\ pollfds' = t.pollfds

\* As if the entry were looked up by its position when it was inserted last.
change_pollfd_Last(t, w, events) ==
    IF t.position[w] = NoPos THEN t
    ELSE [t EXCEPT !.fds[Len(t.fds)].events = events,
                   !.pollfds = setFDEvents(@, t.sockfd[w], events)]

\* _lws_change_pollfd, with the events that it leaves.
change_pollfd(t, w, events) ==
    IF t.position[w] = NoPos THEN t
    ELSE [t EXCEPT !.fds[t.position[w]].events = events,
                   !.pollfds = setFDEvents(@, t.sockfd[w], events)]

\* As if the condition were the wrong way round.
lws_accept_modulation_Swapped(t, allow) ==
    change_pollfd(t, "listen", IF allow THEN {} ELSE {"POLLIN"})

lws_accept_modulation(t, allow) ==
    change_pollfd(t, "listen", IF allow THEN {"POLLIN"} ELSE {})

\* __insert_wsi_socket_into_fds: the last place free but one defeats accepts.
insert(t, w, fd) ==
    LET n == Len(t.fds) + 1
        u == [fds      |-> Append(t.fds, Entry(fd, {"POLLIN"})),
              lookup   |-> [t.lookup EXCEPT ![fd] = w],
              position |-> [t.position EXCEPT ![w] = n],
              sockfd   |-> [t.sockfd EXCEPT ![w] = fd],
              pollfds  |-> IF Told(w) THEN addFD(t.pollfds, fd, {"POLLIN"}) ELSE t.pollfds]
    IN  IF n = MaxFds - 1 THEN lws_accept_modulation(u, FALSE) ELSE u

\* As if the wsi that is moved were not told its new position.
without_NoFixup(t, w) ==
    LET m    == t.position[w]
        last == t.fds[Len(t.fds)]
    IN  [fds      |-> [i \in 1..(Len(t.fds) - 1) |-> IF i = m THEN last ELSE t.fds[i]],
         lookup   |-> [t.lookup EXCEPT ![t.sockfd[w]] = "none"],
         position |-> [t.position EXCEPT ![w] = NoPos],
         sockfd   |-> [t.sockfd EXCEPT ![w] = NoFd],
         pollfds  |-> IF Told(w) THEN deleteFD(t.pollfds, t.sockfd[w]) ELSE t.pollfds]

\* The last entry takes the place of w's, and its wsi the position.  The
\* descriptor is closed, by __lws_close_free_wsi_final or with the pipe.
without(t, w) ==
    LET m    == t.position[w]
        last == t.fds[Len(t.fds)]
        end  == t.lookup[last.fd]
    IN  [fds      |-> [i \in 1..(Len(t.fds) - 1) |-> IF i = m THEN last ELSE t.fds[i]],
         lookup   |-> [t.lookup EXCEPT ![t.sockfd[w]] = "none"],
         position |-> [t.position EXCEPT ![end] = m, ![w] = NoPos],
         sockfd   |-> [t.sockfd EXCEPT ![w] = NoFd],
         pollfds  |-> IF Told(w) THEN deleteFD(t.pollfds, t.sockfd[w]) ELSE t.pollfds]

\* __remove_wsi_socket_from_fds: a place that is free again allows accepts,
\* unless the context is being destroyed.
remove(t, w) ==
    LET u == without(t, w)
    IN  IF phase # "destroy" /\ Len(u.fds) < MaxFds - 1
        THEN lws_accept_modulation(u, TRUE)
        ELSE u

-----------------------------------------------------------------------------
(* The context                                                             *)

\* lws_create_event_pipes, then _lws_vhost_init_server.
CreateContext ==
    /\ phase = "create"
    /\ LET p == Lowest(Unused)
           l == Lowest(Unused \ {p})
       IN  Becomes(insert(insert(Table, "pipe", p), "listen", l))
    /\ phase' = "run"
    /\ UNCHANGED <<backlog, index, wanted>>

\* A client connects; the kernel keeps it until it is accepted.
Connect(c) ==
    /\ phase \in {"run", "accept"}
    /\ sockfd[c] = NoFd /\ c \notin backlog
    /\ backlog' = backlog \cup {c}
    /\ UNCHANGED <<phase, table, index, wanted>>

Polled(w) ==
    \E i \in DOMAIN pollfds : pollfds[i].fd = sockfd[w] /\ "POLLIN" \in pollfds[i].events

\* poll reports the listener, and rops_handle_POLLIN_listen is called.
ServiceListener ==
    /\ phase = "run"
    /\ backlog # {} /\ Polled("listen")
    /\ phase' = "accept"
    /\ UNCHANGED <<table, backlog, index, wanted>>

\* No descriptor is left (EMFILE): the loop ends, and the client still waits.
AcceptFails ==
    /\ phase = "accept"
    /\ backlog # {} /\ Unused = {}
    /\ phase' = "run"
    /\ UNCHANGED <<table, backlog, index, wanted>>

\* The condition of the accept loop that the table decides.
MoreToAccept(t) ==
    /\ Len(t.fds) < MaxFds - 1
    /\ t.position["listen"] # NoPos
    /\ "POLLIN" \in t.fds[t.position["listen"]].events

\* One connection is accepted; the loop goes on while there are more.  That
\* lws_get_idlest_tsi finds no room for it is left out: descriptors run out
\* before the table does, by FdTableAssumption.
Accept(c) ==
    /\ phase = "accept"
    /\ c \in backlog /\ Unused # {}
    /\ LET t == insert(Table, c, Lowest(Unused))
       IN  /\ Becomes(t)
           /\ phase' = IF MoreToAccept(t) /\ backlog # {c} THEN "accept" ELSE "run"
    /\ backlog' = backlog \ {c}
    /\ UNCHANGED <<index, wanted>>

\* lws_callback_on_writable, and the end of POLLOUT when it was handled.
WantWrite(c) ==
    /\ phase = "run" /\ position[c] # NoPos
    /\ wanted' = (wanted \cup {c}) \ (wanted \cap {c})
    /\ Becomes(change_pollfd(Table, c,
                 IF c \in wanted THEN {"POLLIN"} ELSE {"POLLIN", "POLLOUT"}))
    /\ UNCHANGED <<phase, backlog, index>>

\* The connection ends, for whatever reason.
Close(c) ==
    /\ phase = "run" /\ position[c] # NoPos
    /\ Becomes(remove(Table, c))
    /\ wanted' = wanted \ {c}
    /\ UNCHANGED <<phase, backlog, index>>

-----------------------------------------------------------------------------
(* lws_context_destroy, called by ~Serveri when run() has returned         *)

StartDestroy ==
    /\ phase = "run"
    /\ phase' = "destroy"
    /\ UNCHANGED <<table, backlog, index, wanted>>

\* As if the loop went on to the next entry after a removal.
NextIndex_Advances(t) == index + 1

\* n-- and n++: the entry that moved into the place is next.
NextIndex(t) == index

DestroyStep ==
    /\ phase = "destroy"
    /\ index <= fds_count
    /\ LET w == lookup[fds[index].fd]
           t == IF w = "none" THEN Table ELSE remove(Table, w)
       IN  /\ Becomes(t)
           /\ index' = IF w = "none" THEN index + 1 ELSE NextIndex(t)
           /\ wanted' = {c \in wanted : t.position[c] # NoPos}
    /\ UNCHANGED <<phase, backlog>>

EndDestroy ==
    /\ phase = "destroy"
    /\ index > fds_count
    /\ phase' = "destroyed"
    /\ UNCHANGED <<table, backlog, index, wanted>>

Next ==
    \/ CreateContext
    \/ \E c \in Conns : Connect(c) \/ Accept(c) \/ WantWrite(c) \/ Close(c)
    \/ ServiceListener \/ AcceptFails
    \/ StartDestroy \/ DestroyStep \/ EndDestroy

Spec == Init /\ [][Next]_vars

\* The loop polls and services again and again, and the kernel's queue forgets
\* nobody.  That a connection ends is not assumed: the server never closes one
\* that serves a plain request, nor one whose client was lost without a word
\* and to which nothing is sent.
Fairness ==
    /\ WF_vars(CreateContext)
    /\ WF_vars(ServiceListener)
    /\ WF_vars(AcceptFails)
    /\ \A c \in Conns : SF_vars(Accept(c))
    /\ WF_vars(DestroyStep) /\ WF_vars(EndDestroy)

FairSpec == Spec /\ Fairness

-----------------------------------------------------------------------------

\* Positions, descriptors and the table name each other: a change of events
\* reaches the entry of the wsi that it is meant for, after any removals.
TableConsistent ==
    /\ \A w \in Wsis :
          /\ position[w] = NoPos <=> sockfd[w] = NoFd
          /\ position[w] # NoPos =>
                /\ position[w] \in DOMAIN fds
                /\ fds[position[w]].fd = sockfd[w]
                /\ lookup[sockfd[w]] = w
    /\ \A i \in DOMAIN fds : lookup[fds[i].fd] \in Wsis /\ position[lookup[fds[i].fd]] = i

\* Each connection is polled for what it asked for, whatever moved since.
EventsAsWanted ==
    \A c \in Conns : position[c] # NoPos =>
        fds[position[c]].events = {"POLLIN"} \cup (IF c \in wanted THEN {"POLLOUT"} ELSE {})

\* Serveri polls the UDP socket and exactly the table's entries, the pipe's
\* excepted, with the same events.
MirroredInServer ==
    LET Copied == {i \in DOMAIN fds : Told(lookup[fds[i].fd])}
    IN  /\ {pollfds[i] : i \in DOMAIN pollfds}
              = {Entry(UDPfd, {"POLLIN"})} \cup {fds[i] : i \in Copied}
        /\ Len(pollfds) = Cardinality(Copied) + 1

\* The loop of lws_context_destroy ends, although it steps back after every
\* entry that it removes, and does not end too early: then the table is empty,
\* no descriptor of it is left open, and Serveri polls only its UDP socket.
DestroyEnds ==
    phase = "destroy" ~> /\ phase = "destroyed"
                         /\ fds = <<>>
                         /\ Used = OwnFds
                         /\ pollfds = <<Entry(UDPfd, {"POLLIN"})>>

\* A client that waits is accepted, unless the server shuts down or from some
\* time on never has a descriptor free again: an accept that failed for want of
\* a descriptor is tried again, and the listener is polled when one was closed.
WaitingAccepted ==
    \/ <>[](Unused = {})
    \/ \A c \in Conns :
          c \in backlog ~> c \notin backlog \/ phase \in {"destroy", "destroyed"}

=============================================================================
