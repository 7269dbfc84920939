---------------------------- MODULE PoolLiveness ----------------------------
(***************************************************************************)
(* The zygote pool with what it can be relied on to do.  The worker's loop *)
(* looks at its control frames only when select() reports the socket.  An  *)
(* exception in the handler of a RUN frame ends the loop over the frames   *)
(* received so far, and if that was all there is, they lie in _recv_buf    *)
(* until the manager sends another frame: the worker is asleep on them.    *)
(***************************************************************************)
EXTENDS ZygotePool

VARIABLE asleep   \* every control frame not handled yet is in _recv_buf

allVars == <<vars, asleep>>

LivenessInit == Init /\ asleep = FALSE

\* In this step, the handler of a RUN frame raises.
RunRaises == \E id \in Ids : kid[id] = "none" /\ kid'[id] = "failed"

\* A frame more on the socket wakes the worker.  A RUN that fails puts it to
\* sleep if the frames behind it were received together with it; otherwise
\* the socket is still readable.  A sleeping worker goes on serving pipes.
Wakefulness ==
    \/ /\ Len(toWorker') > Len(toWorker)
       /\ asleep' = FALSE
    \/ /\ Len(toWorker') < Len(toWorker)
       /\ asleep => ~workerOpen'
       /\ asleep' \in {FALSE, RunRaises /\ toWorker' # <<>>}
    \/ /\ toWorker' = toWorker
       /\ UNCHANGED asleep

LivenessNext == Next /\ Wakefulness

\* The worker handles a control frame.
TakeFrame == ~asleep /\ \E id \in Ids : TakeRun(id) \/ TakeKill(id)

(***************************************************************************)
(* Fairness.  The runtime polls every task that is ready, and the mutex of *)
(* tokio is first come, first served, hence the strong fairness of the two *)
(* lock steps.  The timer fires (GiveUp).  The worker handles control      *)
(* frames while it is awake.  Nothing is assumed of the children: they may *)
(* run forever.                                                            *)
(***************************************************************************)
FairSpec ==
    /\ LivenessInit /\ [][LivenessNext]_allVars
    /\ \A c \in Callers :
          /\ WF_vars((WriteRun(c) \/ Receive(c) \/ GiveUp(c) \/ WriteKill(c)
                        \/ Register(c)) /\ UNCHANGED workerVars)
          /\ SF_vars(AcquireWrite(c) /\ UNCHANGED workerVars)
    /\ WF_vars(ReadLoopStep /\ UNCHANGED workerVars)
    /\ SF_vars(CutOffAcquire /\ UNCHANGED workerVars)
    /\ WF_vars(TakeFrame /\ UNCHANGED managerVars)

-----------------------------------------------------------------------------

\* Every call of run() that has begun returns, whatever its child does and
\* whether or not the worker survives or falls asleep.
EveryCallReturns ==
    \A c \in Callers : (pc[c] # "start") ~> (pc[c] = "done")

\* The sandbox of a call that was cut off stops running, unless the worker
\* dies, or sleeps on the KILL because a RUN received with it has failed.
CutOffSandboxStops ==
    \A id \in Ids :
        (\E c \in Callers :
            rid[c] = id /\ pc[c] = "done" /\ res[c].kind \in {"timeout", "limit"})
        ~> \/ kid[id] \in {"dead", "noted", "done", "failed"}
           \/ ~workerOpen
           \/ asleep /\ Queued("KILL", id)
=============================================================================
