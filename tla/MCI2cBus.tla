------------------------------- MODULE MCI2cBus -------------------------------
(* I2cBus with bytes of two bits: one of the address, one for the direction. *)
EXTENDS I2cBus

BitsTwo == 2
OwnAddr == <<1>>
BothAddrs == <<<<0>>, <<1>>>>
UpToTwoBytes == {<<>>, <<<<0, 1>>>>, <<<<1, 1>>, <<1, 0>>>>}
OneOrTwo == {1, 2}
TwoReplies == {<<0, 0>>, <<1, 0>>}
OtherByte == [b \in Byte |-> <<[b EXCEPT ![1] = 1 - @]>>]

=============================================================================
