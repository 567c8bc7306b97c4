--------------------------- MODULE MCLightClient ----------------------------
(* A small instance of LightClient: the buffer holds two commands and a    *)
(* part of a third.                                                        *)
EXTENDS LightClient

MCConfigLights == <<[type |-> "rgb", address |-> 1]>>

MCNick == <<97>>

MCCommands ==
    {[index |-> 0,   color |-> [red |-> 1, green |-> 0, blue |-> 1]],
     [index |-> 127, color |-> [red |-> 255, green |-> 1, blue |-> 0]]}

=============================================================================
