--------------------------- MODULE ZygoteProtocol ---------------------------
(***************************************************************************)
(* The control socket between the server (ZygoteManager, zygote.rs) and    *)
(* the Python zygote worker (zygote_worker.py), at the level of whole      *)
(* frames.  The socket is a Unix stream: each direction is FIFO and        *)
(* reliable until an end is closed.  A frame is written under the write    *)
(* lock (manager) or from one thread (worker), so frames never interleave. *)
(* Payload bytes are counted, not represented.                             *)
(***************************************************************************)
EXTENDS Integers, Sequences

CONSTANTS
    IdLimit,    \* bound: req_id values handed out (2^32 in the code)
    MaxFrame,   \* bound: output bytes the worker puts in one frame (65536)
    SockCap     \* bound: frames the kernel queues towards the worker

ASSUME ProtocolAssumption ==
    /\ IdLimit \in Nat \ {0}
    /\ MaxFrame \in Nat \ {0}
    /\ SockCap \in Nat \ {0}

VARIABLES
    toWorker,    \* frames written by the manager, not yet read by the worker
    fromWorker,  \* frames queued by the worker, not yet read by the manager
    workerOpen   \* the worker's end of the socket is open

socketVars == <<toWorker, fromWorker, workerOpen>>

Ids == 1..IdLimit

Streams == {"STDOUT", "STDERR"}

RequestFrame == [type : {"RUN", "KILL"}, id : Ids]
OutputFrame == [type : Streams, id : Ids, val : 1..MaxFrame]
DoneFrame == [type : {"DONE"}, id : Ids, val : Int]
ReplyFrame == OutputFrame \cup DoneFrame

Request(t, id) == [type |-> t, id |-> id]

\* Mutant of Reply: the length of the payload is one short.
ReplyShort(t, id, v) == [type |-> t, id |-> id, val |-> v - 1]

Reply(t, id, v) == [type |-> t, id |-> id, val |-> v]

\* write_all of one frame by a holder of the write lock: it waits for room.
SendRequest(t, id) ==
    /\ workerOpen
    /\ Len(toWorker) < SockCap
    /\ toWorker' = Append(toWorker, Request(t, id))
    /\ UNCHANGED <<fromWorker, workerOpen>>

\* write_all to a socket whose other end is gone fails at once (EPIPE).
SendFails ==
    /\ ~workerOpen
    /\ UNCHANGED socketVars

SocketInit ==
    /\ toWorker = <<>>
    /\ fromWorker = <<>>
    /\ workerOpen = TRUE

SocketTypeOK ==
    /\ toWorker \in Seq(RequestFrame)
    /\ fromWorker \in Seq(ReplyFrame)
    /\ workerOpen \in BOOLEAN
=============================================================================
