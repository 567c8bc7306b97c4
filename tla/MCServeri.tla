----------------------------- MODULE MCServeri ------------------------------
(***************************************************************************)
(* Small instances of Serveri for TLC: an RGB light at address 1 and a UV  *)
(* light at address 6, and packets that set one, both or none of them.     *)
(***************************************************************************)
EXTENDS Serveri, TLC

CONSTANTS c1, c2

MCConfigLights == <<[type |-> "rgb", address |-> 1], [type |-> "uv", address |-> 6]>>

\* Tag "Ia": the whitelist erases the I.  Light 0 is set twice, the second
\* colour wins.
RedPacket == <<1, 0, 73, 97, 0, 1, 0, 0, 9, 9, 9, 1, 0, 0, 255, 0, 16>>

\* Empty tag; lights 1 and 7, which does not exist.
UVPacket == <<1, 0, 0, 1, 1, 0, 10, 20, 200, 1, 7, 0, 1, 2, 3>>

\* Wrong version.
BadPacket == <<2, 0, 98, 0>>

RedAndUV  == {RedPacket, UVPacket}
RedAndBad == {RedPacket, BadPacket}
OnlyRed   == {RedPacket}
OnlyBad   == {BadPacket}

Symm == Permutations({c1, c2})

=============================================================================
