----------------------------- MODULE ZygotePool -----------------------------
(***************************************************************************)
(* The zygote pool end to end: the manager's calls and read_loop composed  *)
(* with a worker that keeps its contract.  The queue of queue.rs lets at   *)
(* most MaxWorkers calls be in flight.                                     *)
(***************************************************************************)
EXTENDS ZygoteManager, WorkerContract, FiniteSets, FiniteSetsExt

CONSTANTS
    MaxWorkers,  \* max_workers, the worker tasks of the queue
    MaxWrites,   \* bound: output frames of all children together
    OutCap       \* bound: frames queued towards the manager before pipes wait

ASSUME PoolAssumption ==
    /\ MaxWorkers \in Nat \ {0}
    /\ MaxWrites \in Nat
    /\ OutCap \in Nat \ {0}

vars == <<managerVars, workerVars, socketVars>>

Init == ManagerInit /\ ContractInit /\ SocketInit

InFlight == {c \in Callers : pc[c] \notin {"start", "done"}}

\* A worker task of the queue is free to take the job that makes the call.
Dispatched(c) == pc[c] = "start" => Cardinality(InFlight) < MaxWorkers

FramesOf(id) == wrote[id].frames

\* The bounds on the output of the children.
MayWrite == MapThenSumSet(FramesOf, Ids) < MaxWrites /\ Len(fromWorker) < OutCap

\* The worker and its children.
WorkerStep == Events \/ (MayWrite /\ ForwardSome)

Next ==
    \/ \E c \in Callers : Dispatched(c) /\ CallStep(c) /\ UNCHANGED workerVars
    \/ ReadLoopStep /\ UNCHANGED workerVars
    \/ WorkerStep /\ UNCHANGED managerVars

Spec == Init /\ [][Next]_vars

-----------------------------------------------------------------------------
(* Safety; what the pool does in time is in PoolLiveness *)

\* Every variable stays in its type.
TypeOK == SocketTypeOK /\ ManagerTypeOK /\ ContractTypeOK

\* An entry of the pending map belongs to a call of run() that is still in
\* flight: every way out of run(), the answers of read_loop and the late
\* insertion after a lost connection included, leaves no entry behind.
PendingNoLeak ==
    \A id \in pending : \E c \in Callers :
        /\ rid[c] = id
        /\ pc[c] \in {"lockRun", "writeRun", "wait", "lockKill", "writeKill"}

\* One task at a time writes to the socket, and it holds the write lock:
\* frames are never interleaved, and the lock is never lost.
OneWriter ==
    /\ \A c \in Callers : pc[c] \in {"writeRun", "writeKill"} <=> lock = c
    /\ rpc = "writeKill" <=> lock = Reader

\* A call that reports an exit reports its own child: the child is reaped,
\* the code is its code, and stdout and stderr are all it wrote, nothing
\* lost, repeated or taken from another request.
OutputFaithful ==
    \A c \in Callers :
        pc[c] = "done" /\ res[c].kind = "exit" =>
            /\ kid[rid[c]] = "done"
            /\ res[c].code = code[rid[c]]
            /\ res[c].out = wrote[rid[c]].STDOUT
            /\ res[c].err = wrote[rid[c]].STDERR

\* The manager buffers at most max_output bytes for a request between two
\* frames, and hands out at most twice that: the frame that breaks the cap
\* is itself no longer than max_output.
OutputBounded ==
    /\ \A id \in pending :
          ~(rpc = "limit" /\ cut.id = id) => entry[id].out + entry[id].err <= MaxOutput
    /\ \A c \in Callers : res[c].out + res[c].err <= 2 * MaxOutput

\* read_loop still has to send a KILL frame for the request.
ReaderOwesKill(id) == rpc \in {"limit", "lockKill", "writeKill"} /\ cut.id = id

Queued(t, id) == \E i \in DOMAIN toWorker : toWorker[i] = Request(t, id)

\* While the worker is up, no sandbox outlives a call that reported a
\* timeout or the output limit without its KILL on the way, and the KILL
\* never overtakes the RUN it is meant for.
NoStraySandbox ==
    workerOpen =>
        /\ \A c \in Callers :
              /\ pc[c] = "done"
              /\ res[c].kind \in {"timeout", "limit"}
              /\ kid[rid[c]] = "live" \/ Queued("RUN", rid[c])
              => Queued("KILL", rid[c]) \/ ReaderOwesKill(rid[c])
        /\ \A i, j \in DOMAIN toWorker :
              /\ toWorker[i].type = "RUN" /\ toWorker[j].type = "KILL"
              /\ toWorker[i].id = toWorker[j].id
              => i < j

\* "Zygote connection lost" is told to a call only if the worker is gone.
\* It needs every frame of the worker to fit into the cap.
LostMeansWorkerGone ==
    \A c \in Callers : res[c].kind = "lost" => ~workerOpen

\* The request broke the output limit: read_loop answers it first and sends
\* the KILL afterwards.
BrokeLimit(id) ==
    ReaderOwesKill(id) \/ \E c \in Callers : rid[c] = id /\ res[c].kind = "limit"

\* No more sandboxes run at once than there are worker tasks, apart from
\* those that broke the output limit: run() writes the KILL of a timeout
\* before it returns, so the RUN of the task's next job is behind it.
SandboxesWithinWorkers ==
    Cardinality({id \in Ids : kid[id] = "live" /\ ~BrokeLimit(id)}) <= MaxWorkers
=============================================================================
