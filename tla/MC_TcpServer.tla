---------------------------- MODULE MC_TcpServer ----------------------------
(* TcpServer instantiated for TLC: one or two connections, sends of 1 or 2 *)
(* units against a 1-unit kernel buffer, so that sends both complete and   *)
(* leave output buffered, and a high-water mark the buffer can reach.      *)
EXTENDS TcpServer

CONSTANTS Base, Io, C1, C2

MCLoopsSeparate == {Base, Io}
MCConnsOne == {C1}
MCConnsTwo == {C1, C2}
MCLoopsSingle == {Base}
MCMsgLens == {1, 2}
====
