---------------------------- MODULE MonitorPage -----------------------------
(***************************************************************************)
(* The page use_examples/monitor.html: its one variable for a websocket,   *)
(* the buttons and the timer that replace it, the events of the sockets    *)
(* that were replaced and are still closing, and the boxes that it draws.  *)
(*                                                                         *)
(* The browser runs one event handler at a time.  A socket that close() is *)
(* called on, or whose connection fails, reports it later.                 *)
(***************************************************************************)
EXTENDS Integers, Sequences, FiniteSets

CONSTANTS
    Sockets,    \* WebSocket objects; one can be made again after its close event
    Messages,   \* what servers send: the colours of their lights
    MaxClicks,  \* bound: clicks while a connection is there
    MaxTimers   \* bound: timers that are pending when Yhdista is clicked

null     == "null"
NoNumber == -1      \* null, where numbers are

ASSUME PageAssumption ==
    /\ null \notin Sockets
    /\ MaxClicks \in Nat /\ MaxTimers \in Nat
    /\ \A m \in Messages : m \in Seq(STRING)

VARIABLES
    socket,         \* the page's socket or null
    autoReconnect,
    state,          \* of each WebSocket: "none", "connecting", "open", "ending"
                    \* (no more messages, the close event is to come)
    timers,         \* pending setTimeout(yhdista, 3000)
    status,         \* what updateStatus showed last
    lastNumLights,  \* declared, compared and, for a misspelt name, never set
    lastNumlights,  \* the variable that is set instead
    boxes,          \* the light boxes on the page
    told,           \* history: the last message
    clicks          \* history: clicks while a connection was there or ending

connVars == <<socket, autoReconnect, state, timers, status, clicks>>
vizVars  == <<lastNumLights, lastNumlights, boxes, told>>
pageVars == <<connVars, vizVars>>

Live   == {s \in Sockets : state[s] \in {"connecting", "open"}}
Ending == {s \in Sockets : state[s] = "ending"}
Free   == {s \in Sockets : state[s] = "none"}

\* The script ends with yhdista().
PageInit ==
    /\ \E s \in Sockets :
          /\ socket = s
          /\ state = [x \in Sockets |-> IF x = s THEN "connecting" ELSE "none"]
    /\ autoReconnect = TRUE
    /\ timers = 0
    /\ status = "Connecting"
    /\ lastNumLights = NoNumber /\ lastNumlights = NoNumber
    /\ boxes = <<>> /\ told = <<>>
    /\ clicks = 0

-----------------------------------------------------------------------------
(* Connections                                                             *)

\* close() on a socket that is closing does nothing.
Closed(st, s) == IF s \in DOMAIN st /\ st[s] # "none" THEN [st EXCEPT ![s] = "ending"] ELSE st

\* new WebSocket, the old ones being in st.
Connect(st) ==
    \E s \in Free :
        /\ state' = [st EXCEPT ![s] = "connecting"]
        /\ socket' = s
        /\ status' = "Connecting"

\* As if a timer went on when a click has made a socket meanwhile.
yhdista_NoReturn(force) ==
    /\ Connect(IF force THEN Closed(state, socket) ELSE state)
    /\ UNCHANGED <<autoReconnect, vizVars>>

yhdista(force) ==
    /\ IF socket # null /\ ~force
       THEN UNCHANGED <<socket, state, status>>
       ELSE Connect(Closed(state, socket))
    /\ UNCHANGED <<autoReconnect, vizVars>>

\* The clicks that find a connection are counted.
Click == clicks' = IF Live \cup Ending = {} THEN clicks ELSE clicks + 1

ClickYhdista ==
    /\ timers <= MaxTimers
    /\ yhdista(TRUE)
    /\ Click /\ clicks' <= MaxClicks
    /\ UNCHANGED timers

\* A timer of setTimeout fires once.
Fired == timers - 1

Timer ==
    /\ timers > 0
    /\ timers' = Fired
    /\ yhdista(FALSE)
    /\ UNCHANGED clicks

\* Without a socket the button does nothing, even if a timer is pending.
katkaise ==
    /\ socket # null
    /\ autoReconnect' = FALSE
    /\ state' = Closed(state, socket)
    /\ socket' = null
    /\ Click /\ clicks' <= MaxClicks
    /\ UNCHANGED <<timers, status, vizVars>>

OnOpen(s) ==
    /\ state[s] = "connecting"
    /\ state' = [state EXCEPT ![s] = "open"]
    /\ status' = "Open"
    /\ UNCHANGED <<socket, autoReconnect, timers, clicks, vizVars>>

\* The server refuses, closes or is gone.  onerror only logs.
Drop(s) ==
    /\ state[s] \in {"connecting", "open"}
    /\ state' = [state EXCEPT ![s] = "ending"]
    /\ UNCHANGED <<socket, autoReconnect, timers, status, clicks, vizVars>>

\* As if the page kept the socket that is closed.
socketAfterClose_Kept(s) == socket

\* onclose clears the page's variable, whichever socket it holds by then.
socketAfterClose(s) == null

OnClose(s) ==
    /\ state[s] = "ending"
    /\ state' = [state EXCEPT ![s] = "none"]
    /\ status' = "Closed"
    /\ socket' = socketAfterClose(s)
    /\ timers' = IF autoReconnect THEN timers + 1 ELSE timers
    /\ UNCHANGED <<autoReconnect, clicks, vizVars>>

-----------------------------------------------------------------------------
(* Drawing                                                                 *)

\* As if old boxes were only replaced when there are too few.
Drawn_Longer(fullUpdate, data) ==
    [i \in 1..(IF Len(boxes) > Len(data) THEN Len(boxes) ELSE Len(data)) |->
        IF i <= Len(data) THEN data[i] ELSE boxes[i]]

\* All boxes are made anew, or the first ones are given the colours.
Drawn(fullUpdate, data) ==
    IF fullUpdate THEN data
    ELSE [i \in DOMAIN boxes |-> IF i <= Len(data) THEN data[i] ELSE boxes[i]]

updateViz(data) ==
    LET numLights  == Len(data)
        fullUpdate == lastNumLights # numLights
    IN  /\ boxes' = Drawn(fullUpdate, data)
        /\ lastNumlights' = numLights
        /\ UNCHANGED lastNumLights

OnMessage(s, data) ==
    /\ state[s] = "open"
    /\ updateViz(data)
    /\ told' = data
    /\ UNCHANGED connVars

PageNext ==
    \/ ClickYhdista \/ Timer \/ katkaise
    \/ \E s \in Sockets :
          \/ OnOpen(s) \/ Drop(s) \/ OnClose(s)
          \/ \E data \in Messages : OnMessage(s, data)

PageSpec == PageInit /\ [][PageNext]_pageVars

\* Timers and close events come; some server is there to connect to.
PageFairness ==
    /\ WF_pageVars(Timer)
    /\ \A s \in Sockets : WF_pageVars(OnClose(s)) /\ SF_pageVars(OnOpen(s))

PageFairSpec == PageSpec /\ PageFairness

-----------------------------------------------------------------------------

\* The page has one connection, and one more at most for every click that
\* found one: the close event of the socket that was replaced clears the
\* variable that holds the new one, and the timer makes another.  A connection
\* that the page has lost track of, and that no button closes any more, comes of
\* such a click: losses and timers alone leave none.
ConnectionsAccounted ==
    /\ Cardinality(Live) <= 1 + clicks
    /\ clicks = 0 => \A s \in Live : socket = s

\* The boxes are the lights of the last message, whatever number the messages
\* before it were about.
DrawnAsTold == boxes = told

\* A page that nobody disconnects is connected again and again, through every
\* loss, refusal and click.
Reconnects == []<>(~autoReconnect \/ \E s \in Sockets : state[s] = "open")

=============================================================================
