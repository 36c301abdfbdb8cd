---------------------------- MODULE MC_PollPoller ----------------------------
(* Instantiation of PollPoller for TLC.  Three fds: the listening socket   *)
(* and idleFd_ take two, so one connection fits and a second one meets     *)
(* EMFILE unless the first has been closed and its fd is reused; the       *)
(* acceptor's and a connection's entries make the swap-with-last path.     *)
(*                                                                         *)
(* Beside it, in the same run, one connection's Buffer: what handleRead()  *)
(* does once poll() has reported the socket.  The two share no state, so   *)
(* a step is a step of one of them.  Sizes are scaled down from 8, 1024    *)
(* and 65536 so that readFd() fills the buffer, spills into extrabuf, and  *)
(* append() both resizes and moves the bytes back.                         *)
EXTENDS PollPoller, TLC

CONSTANTS A, C1, C2

MCConnChans == {C1, C2}
MCFds == {0, 1, 2}

VARIABLES bstore, breaderIndex, bwriterIndex, bkernel, bentered, bretrieved

bvars == <<bstore, breaderIndex, bwriterIndex, bkernel, bentered, bretrieved>>

Buf == INSTANCE Buffer
       WITH store <- bstore, readerIndex <- breaderIndex,
            writerIndex <- bwriterIndex, kernel <- bkernel,
            entered <- bentered, retrieved <- bretrieved,
            CheapPrepend <- 1, InitialSize <- 2, ExtraBuf <- 2,
            AppendSizes <- {1, 2}, MaxBytes <- 4

IoInit == Init /\ Buf!Init

IoNext == \/ Next /\ UNCHANGED bvars
          \/ Buf!Next /\ UNCHANGED vars

IoSpec == IoInit /\ [][IoNext]_<<vars, bvars>> /\ WF_vars(HandleAccept)

BufTypeOK == Buf!TypeOK
BufStreamIntact == Buf!StreamIntact

====
