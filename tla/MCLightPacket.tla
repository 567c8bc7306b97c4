--------------------------- MODULE MCLightPacket ----------------------------
(* PacketLoops over every packet that can be put together from a few       *)
(* pieces.                                                                 *)
EXTENDS PacketLoops, SequencesExt

CONSTANTS
    Pieces,       \* what a packet is put together from
    MaxPieces     \* bound: how many pieces

\* Three lights; the second and the third overlap.
MCConfigLights ==
    <<[type |-> "rgb", address |-> 257], [type |-> "rgb", address |-> 6],
      [type |-> "uv", address |-> 8]>>

MCPieces ==
    {<<0>>, <<1>>, <<97>>, <<200>>, <<1, 0>>,
     <<1, 0, 0, 9, 8, 7>>, <<1, 1, 0, 255, 255, 255>>, <<1, 2, 1, 200, 100, 50>>,
     <<1, 200, 0, 5, 5, 5>>, <<2, 0, 0, 4, 4, 4>>}

MCPackets ==
    {FlattenSeq(s) : s \in UNION {[1..n -> Pieces] : n \in 0..MaxPieces}}

=============================================================================
