----------------------------- MODULE MCSockets -----------------------------
(* Instances of Sockets for TLC: a page whose lost socket's handler may still *)
(* be running when the next one starts, over either broadcaster.             *)
EXTENDS Sockets

TwoHandlers == 1..2
BothTransports == {"in-process", "redis"}
=============================================================================
