---------------------------- MODULE MCPacketCodec ----------------------------
(* PacketCodec for TLC.                                                      *)
EXTENDS PacketCodec

Bits == INSTANCE Bitwise
BitsXor(a, b) == Bits!^^(a, b)

\* Pings, ids of one byte and of two, with and without metadata.
Few == [id : {7}, meta : {<<>>, <<1>>}, data : {<<17, 1, 255>>}]
       \cup [id : {258}, meta : {<<>>, <<1>>}, data : {<<0, 1>>}]
OneAndThree == {<<1>>, <<3, 0, 7>>}
==============================================================================
