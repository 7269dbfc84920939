---------------------------- MODULE FrameStream ----------------------------
(***************************************************************************)
(* Control frames as bytes on the socket: encode_frame on the manager's    *)
(* side, and _read_ctrl_frames of the worker, which takes what has arrived *)
(* and yields the frames that are complete.  The stream may be cut         *)
(* anywhere.  The length is a big-endian number of two digits to the base  *)
(* Base; type and request are one byte each.  A request body of 2 MiB, the *)
(* default limit of the web framework, stays far below _MAX_FRAME_PAYLOAD: *)
(* the exit at an oversized frame is left to Crash in WorkerContract.      *)
(***************************************************************************)
EXTENDS Integers, Sequences

CONSTANT Base

ASSUME StreamAssumption == Base \in Nat \ {0, 1}

VARIABLES
    sent,      \* the frames handed to write_all
    tosend,    \* bytes of theirs that are not in the socket yet
    sock,      \* bytes in the socket
    recv_buf,  \* bytes the worker has taken
    got,       \* the frames it has yielded
    draining   \* whether it is inside the generator

streamVars == <<sent, tosend, sock, recv_buf, got, draining>>

HEADER_SIZE == 4

StreamInit ==
    /\ sent = <<>> /\ tosend = <<>> /\ sock = <<>>
    /\ recv_buf = <<>> /\ got = <<>> /\ draining = FALSE

encode_frame(f) ==
    LET plen == Len(f.payload)
    IN  <<plen \div Base, plen % Base, f.type, f.id>> \o f.payload

\* Under the lock of the write half: a whole frame after whole frames.
SendFrame(f) ==
    /\ tosend = <<>>
    /\ sent' = Append(sent, f)
    /\ tosend' = encode_frame(f)
    /\ UNCHANGED <<sock, recv_buf, got, draining>>

\* The kernel takes a part of what write_all still has.
WriteSome ==
    /\ \E k \in 1..Len(tosend) :
          /\ sock' = sock \o SubSeq(tosend, 1, k)
          /\ tosend' = SubSeq(tosend, k + 1, Len(tosend))
    /\ UNCHANGED <<sent, recv_buf, got, draining>>

\* recv(65536); what a longer queue would leave behind, WriteSome leaves.
Recv ==
    /\ ~draining /\ sock # <<>>
    /\ recv_buf' = recv_buf \o sock
    /\ sock' = <<>>
    /\ draining' = TRUE
    /\ UNCHANGED <<sent, tosend, got>>

plen_of(buf) == buf[1] * Base + buf[2]

\* Mutant of Complete: the header counts as payload.
CompleteEarly(buf) == Len(buf) >= HEADER_SIZE /\ Len(buf) >= plen_of(buf)

Complete(buf) == Len(buf) >= HEADER_SIZE /\ Len(buf) >= HEADER_SIZE + plen_of(buf)

\* buf[: k], which takes what there is.
Upto(buf, k) == SubSeq(buf, 1, IF k < Len(buf) THEN k ELSE Len(buf))

FirstFrame(buf) ==
    [type |-> buf[3], id |-> buf[4],
     payload |-> Upto(SubSeq(buf, HEADER_SIZE + 1, Len(buf)), plen_of(buf))]

\* The next complete frame is yielded and handled.
Yield ==
    /\ draining /\ Complete(recv_buf)
    /\ got' = Append(got, FirstFrame(recv_buf))
    /\ recv_buf' = SubSeq(recv_buf, HEADER_SIZE + plen_of(recv_buf) + 1, Len(recv_buf))
    /\ UNCHANGED <<sent, tosend, sock, draining>>

Drained ==
    /\ draining /\ ~Complete(recv_buf)
    /\ draining' = FALSE
    /\ UNCHANGED <<sent, tosend, sock, recv_buf, got>>

StreamStep == WriteSome \/ Recv \/ Drained

\* The bytes of the first k frames, for every k.
BytesUpto(frames) ==
    LET upto[k \in 0..Len(frames)] ==
            IF k = 0 THEN <<>> ELSE upto[k-1] \o encode_frame(frames[k])
    IN  upto

Bytes(frames) == BytesUpto(frames)[Len(frames)]

\* However the stream is cut, the worker handles the frames that were sent,
\* in order and unchanged, and no byte is lost between the two ends.
StreamIntact == Bytes(got) \o recv_buf \o sock \o tosend = Bytes(sent)
=============================================================================
