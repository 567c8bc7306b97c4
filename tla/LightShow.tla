----------------------------- MODULE LightShow ------------------------------
(***************************************************************************)
(* What the server promises, without sockets, poll or callbacks: one state *)
(* of the lights, which updates change; from time to time that state, as a *)
(* whole, is put on stage and published; and every viewer is shown states  *)
(* that were published, in the order in which they were.                   *)
(***************************************************************************)
EXTENDS DMXController

CONSTANTS
    Viewers,   \* those who may watch
    Updates,   \* what is asked of the lights: a tag and a list of commands
    Lossy      \* may the stage miss what is published

VARIABLES
    state,     \* the tag and the colour of every light, as last asked for
    published, \* the state that viewers are sent
    stage,     \* what every light emits, once the stage was reached
    viewers,   \* who watches
    feed,      \* what is on its way to a viewer
    view       \* what a viewer sees

vars == <<state, published, stage, viewers, feed, view>>

Init ==
    /\ state = [tag |-> <<>>, lights |-> [i \in LightIds |-> Black]]
    /\ published = state
    /\ stage = <<>>
    /\ viewers = {}
    /\ feed = [v \in Viewers |-> <<>>]
    /\ view = [v \in Viewers |-> <<>>]

\* The colour that a list of commands leaves light i with.
Asked(commands, i) ==
    LET For == {k \in DOMAIN commands : commands[k].index = i}
    IN  IF For = {} THEN state.lights[i]
        ELSE commands[CHOOSE k \in For : \A m \in For : k >= m].color

Ask(u) ==
    /\ state' = [tag |-> u.tag, lights |-> [i \in LightIds |-> Asked(u.lights, i)]]
    /\ UNCHANGED <<published, stage, viewers, feed, view>>

\* A light of three colours emits them, a UV light their intensity.
Emission(i, c) == IF LightsConfig[i].type = "rgb" THEN c ELSE Intensity(c)

Publish ==
    /\ published' = state
    /\ \/ stage' = <<[i \in LightIds |-> Emission(i, state.lights[i])]>>
       \/ Lossy /\ UNCHANGED stage
    /\ UNCHANGED <<state, viewers, feed, view>>

Join(v) ==
    /\ v \notin viewers
    /\ viewers' = viewers \cup {v}
    /\ UNCHANGED <<state, published, stage, feed, view>>

Post(v) ==
    /\ v \in viewers
    /\ feed' = [feed EXCEPT ![v] = Append(@, published)]
    /\ UNCHANGED <<state, published, stage, viewers, view>>

Show(v) ==
    /\ feed[v] # <<>>
    /\ view' = [view EXCEPT ![v] = <<Head(feed[v])>>]
    /\ feed' = [feed EXCEPT ![v] = Tail(@)]
    /\ UNCHANGED <<state, published, stage, viewers>>

\* The viewer does not look any more.
Lose(v) ==
    /\ v \in viewers
    /\ feed' = [feed EXCEPT ![v] = <<>>]
    /\ UNCHANGED <<state, published, stage, viewers, view>>

Leave(v) ==
    /\ v \in viewers
    /\ viewers' = viewers \ {v}
    /\ feed' = [feed EXCEPT ![v] = <<>>]
    /\ view' = [view EXCEPT ![v] = <<>>]
    /\ UNCHANGED <<state, published, stage>>

Next ==
    \/ \E u \in Updates : Ask(u)
    \/ Publish
    \/ \E v \in Viewers : Join(v) \/ Post(v) \/ Show(v) \/ Lose(v) \/ Leave(v)

Spec == Init /\ [][Next]_vars

=============================================================================
