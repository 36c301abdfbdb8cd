-------------------------------- MODULE Buffer --------------------------------
(***************************************************************************)
(* muduo's Buffer (net/Buffer.cc, and the inline members of Buffer.h,     *)
(* which is not in the tree and follows spec section 4.6): a vector of    *)
(* bytes with readerIndex_ and writerIndex_, kCheapPrepend bytes kept in  *)
(* front.  TcpConnection fills inputBuffer_ with readFd() and its message *)
(* callback consumes it with retrieve(); sendInLoop() append()s to         *)
(* outputBuffer_ and handleWrite() retrieve()s what the kernel took.  One  *)
(* buffer here is driven by all four calls.                                *)
(*                                                                         *)
(* store is buffer_: store[i + 1] is the byte at index i.  A byte is its   *)
(* place in the stream of bytes that entered the buffer (1, 2, ...), so a  *)
(* lost, doubled or reordered byte shows; Garbage fills fresh space.  The  *)
(* peer's bytes wait in the kernel (kernel) until readFd() takes them.    *)
(***************************************************************************)
EXTENDS Naturals, Sequences

CONSTANTS
    CheapPrepend,  \* kCheapPrepend
    InitialSize,   \* kInitialSize
    ExtraBuf,      \* sizeof extrabuf, readFd()'s stack buffer
    AppendSizes,   \* lengths sendInLoop() appends
    MaxBytes       \* bytes that enter the buffer in a behaviour

ASSUME /\ {CheapPrepend, InitialSize, ExtraBuf, MaxBytes} \subseteq Nat \ {0}
       /\ AppendSizes \subseteq Nat \ {0}

Garbage == 0

VARIABLES
    store,        \* buffer_
    readerIndex,  \* readerIndex_
    writerIndex,  \* writerIndex_
    kernel,       \* bytes the peer sent that readFd() has not taken
    entered,      \* bytes that entered the buffer so far
    retrieved     \* bytes retrieved so far

vars == <<store, readerIndex, writerIndex, kernel, entered, retrieved>>

ReadableBytes == writerIndex - readerIndex
WritableBytes == Len(store) - writerIndex

\* The next n bytes of the stream.
NextBytes(n) == [j \in 1 .. n |-> entered + j]

\* std::copy of the sequence b to index at of s.
CopyTo(s, at, b) ==
    [i \in 1 .. Len(s) |-> IF i - 1 - at \in 0 .. Len(b) - 1 THEN b[i - at] ELSE s[i]]

\* Variant: makeSpace() that moves the bytes back whenever they fit,
\* forgetting the kCheapPrepend bytes in front.
MakeSpaceNoHeadroom(s, r, w, len) ==
    IF (Len(s) - w) + r < len
    THEN [store |-> s \o [i \in 1 .. w + len - Len(s) |-> Garbage],
          reader |-> r, writer |-> w]
    ELSE [store |-> CopyTo(s, CheapPrepend, SubSeq(s, r + 1, w)),
          reader |-> CheapPrepend, writer |-> CheapPrepend + (w - r)]

\* makeSpace(len): resize to writerIndex_ + len when even moving the
\* readable bytes back to kCheapPrepend leaves too little room; otherwise
\* move them there.
MakeSpace(s, r, w, len) ==
    IF (Len(s) - w) + r < len + CheapPrepend
    THEN [store |-> s \o [i \in 1 .. w + len - Len(s) |-> Garbage],
          reader |-> r, writer |-> w]
    ELSE [store |-> CopyTo(s, CheapPrepend, SubSeq(s, r + 1, w)),
          reader |-> CheapPrepend, writer |-> CheapPrepend + (w - r)]

\* append(data, len) on buffer b: ensureWritableBytes(len), which calls
\* makeSpace() when writableBytes() < len, then copy and hasWritten(len).
AppendTo(b, data) ==
    LET m == IF Len(b.store) - b.writer < Len(data)
             THEN MakeSpace(b.store, b.reader, b.writer, Len(data)) ELSE b
    IN [m EXCEPT !.store = CopyTo(m.store, m.writer, data),
                 !.writer = m.writer + Len(data)]

Apply(b) == /\ store' = b.store
            /\ readerIndex' = b.reader
            /\ writerIndex' = b.writer

MinOf(a, b) == IF a < b THEN a ELSE b

Current == [store |-> store, reader |-> readerIndex, writer |-> writerIndex]

-----------------------------------------------------------------------------
\* The peer sends a byte; it waits in the socket's receive buffer.
PeerSend ==
    /\ entered + kernel < MaxBytes
    /\ kernel' = kernel + 1
    /\ UNCHANGED <<store, readerIndex, writerIndex, entered, retrieved>>

\* Variant: readFd() that appends all n bytes from extrabuf.
ExtraAll(data, writable) == data

\* The bytes readv() put in extrabuf, past the writable ones.
ExtraBytes(data, writable) == SubSeq(data, writable + 1, Len(data))

\* readFd(): one readv() into the writable space and, when that is smaller
\* than extrabuf, extrabuf as well; it returns what the socket holds, up
\* to the space offered.  If it fits, hasWritten(n); otherwise the buffer
\* is full to its end and append() copies the rest from extrabuf.
\* handleRead() calls it when poll() reports the socket readable; n = 0
\* (EOF) and n < 0 are TcpConnection's, and leave the buffer as it is.
ReadFd ==
    LET writable == WritableBytes
        n == IF writable < ExtraBuf THEN MinOf(kernel, writable + ExtraBuf)
             ELSE MinOf(kernel, writable)
        data == NextBytes(n)
    IN /\ kernel > 0
       /\ IF n <= writable
          THEN Apply([Current EXCEPT !.store = CopyTo(store, writerIndex, data),
                                     !.writer = writerIndex + n])
          ELSE Apply(AppendTo([Current EXCEPT
                                 !.store = CopyTo(store, writerIndex,
                                                  SubSeq(data, 1, writable)),
                                 !.writer = Len(store)],
                              ExtraBytes(data, writable)))
       /\ kernel' = kernel - n
       /\ entered' = entered + n
       /\ UNCHANGED retrieved

\* append(data, len) from sendInLoop() with the bytes the kernel refused.
AppendData(len) ==
    /\ entered + kernel + len <= MaxBytes
    /\ Apply(AppendTo(Current, NextBytes(len)))
    /\ entered' = entered + len
    /\ UNCHANGED <<kernel, retrieved>>

\* retrieve(len), from handleWrite() after a write and from a message
\* callback (retrieveUntil(), or retrieveAll() in the default one):
\* advance readerIndex_, or retrieveAll() when len is everything readable.
Retrieve(len) ==
    /\ len \in 1 .. ReadableBytes
    /\ IF len < ReadableBytes
       THEN /\ readerIndex' = readerIndex + len
            /\ UNCHANGED writerIndex
       ELSE /\ readerIndex' = CheapPrepend
            /\ writerIndex' = CheapPrepend
    /\ retrieved' = retrieved + len
    /\ UNCHANGED <<store, kernel, entered>>

\* Buffer(kInitialSize): kCheapPrepend + kInitialSize bytes, both indices
\* at kCheapPrepend.
Init ==
    /\ store = [i \in 1 .. CheapPrepend + InitialSize |-> Garbage]
    /\ readerIndex = CheapPrepend
    /\ writerIndex = CheapPrepend
    /\ kernel = 0
    /\ entered = 0
    /\ retrieved = 0

Next == \/ PeerSend
        \/ ReadFd
        \/ \E len \in AppendSizes : AppendData(len)
        \/ \E len \in 1 .. MaxBytes : Retrieve(len)

Spec == Init /\ [][Next]_vars

-----------------------------------------------------------------------------
(* Properties.                                                             *)

\* Spec property 4: 0 <= kCheapPrepend <= readerIndex_ <= writerIndex_ <=
\* size() after every operation.
TypeOK ==
    /\ store \in Seq(0 .. MaxBytes)
    /\ CheapPrepend <= readerIndex /\ readerIndex <= writerIndex
    /\ writerIndex <= Len(store)
    /\ kernel \in 0 .. MaxBytes /\ {entered, retrieved} \subseteq 0 .. MaxBytes

\* The readable bytes are exactly the bytes that entered and were not
\* retrieved, in the order they entered: readFd()'s split between the
\* buffer and extrabuf, makeSpace()'s move to kCheapPrepend and
\* retrieve()'s reset lose, double and reorder nothing.
StreamIntact ==
    SubSeq(store, readerIndex + 1, writerIndex)
        = [j \in 1 .. ReadableBytes |-> retrieved + j]

====
