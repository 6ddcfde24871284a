------------------------------- MODULE MCI2C -------------------------------
(***************************************************************************)
(* Small transfers for TLC; a block of three bytes goes by DMA.            *)
(***************************************************************************)
EXTENDS I2CMaster

OneTask == {1}
TwoTasks == {1, 2}
SomeWrites == {<<0>>, <<1>>, <<2>>, <<1, 3>>, <<2, 0, 1>>, <<3>>, <<4, 3>>, <<3, 0, 2>>}
SomeReads == {<<1>>, <<2>>, <<3>>, <<1, 1>>, <<1, 2>>, <<4>>, <<2, 3>>}
ShortWrites == {<<1>>}
NoReads == {}
=============================================================================
