---------------------------- MODULE MCWsReceive -----------------------------
(***************************************************************************)
(* Small streams for TLC: a few frames of every kind, cut in every way.    *)
(***************************************************************************)
EXTENDS WsReceive

LOCAL Bits == INSTANCE Bitwise

MCXor(a, b) == Bits!^^(a, b)

F(opcode, final, key, payload) ==
    [opcode |-> opcode, final |-> final, rsv |-> 0, ext |-> 0, bit63 |-> FALSE,
     masked |-> key # ZeroKey, key |-> key, payload |-> payload]

Key == [i \in 0..3 |-> 2 ^ i]

Ping    == F(PING, TRUE, Key, <<9>>)
Close   == F(CLOSE, TRUE, ZeroKey, <<>>)
Pong    == F(PONG, TRUE, ZeroKey, <<4>>)
Long    == [F(BINARY, TRUE, Key, <<1, 2, 3, 4, 5>>) EXCEPT !.ext = 2]
Start   == F(TEXT, FALSE, Key, <<7, 8>>)
Middle  == F(CONTINUATION, FALSE, ZeroKey, <<6>>)
End     == F(CONTINUATION, TRUE, Key, <<>>)
Huge    == [F(BINARY, TRUE, ZeroKey, <<>>) EXCEPT !.ext = 8]
TooHuge == [Huge EXCEPT !.bit63 = TRUE]
Rsv1    == [Middle EXCEPT !.rsv = 4]
Rsv2    == [Middle EXCEPT !.rsv = 2]
BadCtl  == [Ping EXCEPT !.final = FALSE]
BigCtl  == [Ping EXCEPT !.ext = 2]
BadOp   == F(11, TRUE, ZeroKey, <<>>)

EveryKind == {Ping, Close, Pong, Long, Start, Middle, End, Huge, TooHuge, Rsv1,
              Rsv2, BadCtl, BigCtl, BadOp}

Packet == F(BINARY, TRUE, Key, <<1, 0, 0>>)

OnePacket == {Packet}

=============================================================================
