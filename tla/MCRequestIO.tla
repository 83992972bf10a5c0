------------------------------ MODULE MCRequestIO ------------------------------
(* Instances of RequestIO for TLC: the coroutines are numbers, in the order  *)
(* in which they were created, and the streams are given by name.            *)
EXTENDS RequestIO

TwoCoroutines == 1..2
NoStderr == {"stdin", "stdout"}
TwoVMs == 1..2

Alone == {{"pipe"}, {"thread"}, {"tcp"}, {"udp"}}
AloneAndMixed == Alone \cup {{"udp", "client"}, {"udp", "tcp"}, {"udp", "thread"}}
PipeAlone == {{"pipe"}}
ClientAndUdp == {{"client"}, {"client", "udp"}}

===============================================================================
