---------------------------- MODULE WorkerContract ----------------------------
(***************************************************************************)
(* What the zygote worker promises the manager over the control socket,    *)
(* without the event loop, the pipes and the send buffer that keep the     *)
(* promise (those are in ZygoteWorker).  fromWorker includes the frames    *)
(* the worker has queued in its own _out buffer.                           *)
(*                                                                         *)
(* A sandbox child is "none" before its RUN frame is handled, "live" while *)
(* the process runs, "dead" once it has exited or been killed but is not   *)
(* yet reaped, "noted" if the worker found it unreaped and wrote its note, *)
(* "done" when it is reaped and its DONE frame is queued, and "failed"     *)
(* when pipe() or fork() failed, which is answered by no frame.            *)
(***************************************************************************)
EXTENDS ZygoteProtocol

CONSTANTS
    ExitCodes,   \* exit codes a child may choose
    Crashes      \* the worker process may die

ASSUME ContractAssumption ==
    /\ ExitCodes \subseteq Int
    /\ Crashes \in BOOLEAN

VARIABLES
    kid,     \* the child of each request
    code,    \* its exit code, once it is dead
    wrote    \* what it wrote: frames, and bytes on each stream

workerVars == <<kid, code, wrote>>

SIGKILLED == -9   \* waitstatus_to_exitcode of a child killed by SIGKILL

Outputs == [frames : Nat, STDOUT : Nat, STDERR : Nat]

ContractTypeOK ==
    /\ kid \in [Ids -> {"none", "live", "dead", "noted", "done", "failed"}]
    /\ code \in [Ids -> Int]
    /\ wrote \in [Ids -> Outputs]

ContractInit ==
    /\ kid = [id \in Ids |-> "none"]
    /\ code = [id \in Ids |-> 0]
    /\ wrote = [id \in Ids |-> [frames |-> 0, STDOUT |-> 0, STDERR |-> 0]]

\* The next control frame is of this type and for this request.
Takes(t, id) ==
    /\ workerOpen
    /\ toWorker # <<>>
    /\ Head(toWorker) = Request(t, id)
    /\ toWorker' = Tail(toWorker)

\* RUN: the child is forked, or the attempt fails and nobody is told.
TakeRun(id) ==
    /\ Takes("RUN", id)
    /\ \E k \in {"live", "failed"} : kid' = [kid EXCEPT ![id] = k]
    /\ UNCHANGED <<code, wrote, fromWorker, workerOpen>>

\* Mutant of TakeKill: the child is not signalled.
TakeKillIdle(id) ==
    /\ Takes("KILL", id)
    /\ UNCHANGED <<kid, code, wrote, fromWorker, workerOpen>>

\* KILL: a running child is killed; for any other request it has no effect.
TakeKill(id) ==
    /\ Takes("KILL", id)
    /\ IF kid[id] = "live"
       THEN /\ kid' = [kid EXCEPT ![id] = "dead"]
            /\ code' = [code EXCEPT ![id] = SIGKILLED]
       ELSE UNCHANGED <<kid, code>>
    /\ UNCHANGED <<wrote, fromWorker, workerOpen>>

\* The count of a child's output, after n more bytes on stream s.
Written(w, s, n) ==
    [frames |-> w.frames + 1,
     STDOUT |-> w.STDOUT + IF s = "STDOUT" THEN n ELSE 0,
     STDERR |-> w.STDERR + IF s = "STDERR" THEN n ELSE 0]

\* Output of a child is forwarded; what a dead child left in its pipes too.
Forward(id, s, n) ==
    /\ workerOpen
    /\ kid[id] \in {"live", "dead"}
    /\ wrote' = [wrote EXCEPT ![id] = Written(@, s, n)]
    /\ fromWorker' = Append(fromWorker, Reply(s, id, n))
    /\ UNCHANGED <<kid, code, toWorker, workerOpen>>

\* The child exits by itself, whether or not the worker is still there.
Exit(id) ==
    /\ kid[id] = "live"
    /\ kid' = [kid EXCEPT ![id] = "dead"]
    /\ \E x \in ExitCodes : code' = [code EXCEPT ![id] = x]
    /\ UNCHANGED <<wrote, socketVars>>

\* The child has closed its output but is not reaped yet: it is killed if
\* it still runs, after a note of one unit on stderr.
NoteAndKill(id) ==
    /\ workerOpen
    /\ kid[id] \in {"live", "dead"}
    /\ kid' = [kid EXCEPT ![id] = "noted"]
    /\ code' = IF kid[id] = "live" THEN [code EXCEPT ![id] = SIGKILLED] ELSE code
    /\ fromWorker' = Append(fromWorker, Reply("STDERR", id, 1))
    /\ wrote' = [wrote EXCEPT ![id] = Written(@, "STDERR", 1)]
    /\ UNCHANGED <<toWorker, workerOpen>>

\* Both pipes are at end of file and the child is reaped: its DONE frame.
Finish(id) ==
    /\ workerOpen
    /\ kid[id] \in {"dead", "noted"}
    /\ kid' = [kid EXCEPT ![id] = "done"]
    /\ fromWorker' = Append(fromWorker, Reply("DONE", id, code[id]))
    /\ UNCHANGED <<code, wrote, toWorker, workerOpen>>

\* The worker process dies: what it had not yet sent is lost, the children
\* live on.
Crash ==
    /\ Crashes
    /\ workerOpen
    /\ workerOpen' = FALSE
    /\ toWorker' = <<>>
    /\ \E k \in 0..Len(fromWorker) : fromWorker' = SubSeq(fromWorker, 1, k)
    /\ UNCHANGED workerVars

ForwardSome == \E id \in Ids, s \in Streams, n \in 1..MaxFrame : Forward(id, s, n)

\* Everything else: the number of these steps is bounded by the number of
\* requests.
Events ==
    \/ \E id \in Ids :
          \/ TakeRun(id) \/ TakeKill(id) \/ Exit(id)
          \/ NoteAndKill(id) \/ Finish(id)
    \/ Crash

ContractNext == Events \/ ForwardSome
=============================================================================
