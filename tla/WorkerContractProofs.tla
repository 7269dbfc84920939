------------------------ MODULE WorkerContractProofs ------------------------
(***************************************************************************)
(* What the zygote worker owes the manager, for any number of requests,    *)
(* fds, pids and for any buffer sizes: it does every step of the event     *)
(* loop, the pipes and the send buffer as a step of WorkerContract, or as  *)
(* none; and its send buffer stays bounded however slowly the manager      *)
(* reads.                                                                  *)
(***************************************************************************)
EXTENDS ZygoteWorkerProofs

-----------------------------------------------------------------------------
(* The child of a request, as the contract sees it *)

\* The request has a child that still runs.
Live(id) == reqs[id].pid # 0 /\ proc[reqs[id].pid].st = "running"

KidByPid == [id \in Ids |-> IF fate[id] # "forked" THEN fate[id]
                            ELSE IF waiting.id = id THEN "noted"
                            ELSE IF Live(id) THEN "live" ELSE "dead"]

\* The worker finds the running child of a request by the pid it holds.
LEMMA KidFound == WorkerInv => kid = KidByPid
<1> SUFFICES ASSUME WorkerInv PROVE kid = KidByPid
  OBVIOUS
<1>1. TypeInv /\ Children
  BY Zenon DEF WorkerInv
<1>2. ASSUME NEW id \in Ids
      PROVE  (\E p \in Pids : proc[p] = [st |-> "running", id |-> id]) <=> Live(id)
  <2>1. ASSUME NEW p \in Pids, proc[p] = [st |-> "running", id |-> id]
        PROVE  Live(id)
    <3>1. proc[p].st = "running" /\ proc[p].id = id /\ p # 0
      BY <2>1, WorkerAssumption
    <3>2. waiting # [id |-> id, pid |-> p]
      <4> SUFFICES ASSUME waiting = [id |-> id, pid |-> p] PROVE FALSE
        OBVIOUS
      <4>1. waiting # NoWait /\ waiting.pid = p
        BY <3>1, Zenon DEF NoWait
      <4> QED
        BY <1>1, <3>1, <4>1 DEF Children
    <3> QED
      BY <1>1, <3>1, <3>2 DEF Children, Live
  <2>2. ASSUME Live(id)
        PROVE  \E p \in Pids : proc[p] = [st |-> "running", id |-> id]
    <3> DEFINE p == reqs[id].pid
    <3>1. p \in Pids /\ proc[p].st = "running" /\ proc[p].id = id
      <4>1. p # 0 /\ proc[p].st = "running"
        BY <2>2, Zenon DEF Live
      <4>2. p \in Pids
        BY <1>1, <4>1, Zenon DEF TypeInv
      <4> QED
        BY <1>1, <4>1, <4>2, Zenon DEF Children
    <3>2. proc[p] \in [st : Statuses, id : Ids \cup {0}]
      BY <1>1, <3>1, Zenon DEF TypeInv
    <3>3. proc[p] = [st |-> "running", id |-> id]
      BY <3>1, <3>2, Zenon
    <3> QED
      BY <3>1, <3>3, Zenon
  <2> QED
    BY <2>1, <2>2, Zenon
<1>3. ASSUME NEW id \in Ids PROVE kid[id] = KidByPid[id]
  BY <1>2, Zenon DEF kid, KidByPid
<1> QED
  BY <1>3, Zenon DEF kid, KidByPid

\* The same, before and after a step.
LEMMA KidsFound ==
    ASSUME WorkerInv, WorkerInv'
    PROVE  kid = KidByPid /\ kid' = KidByPid'
<1>1. kid = KidByPid
  BY KidFound, Zenon
<1>2. (WorkerInv => kid = KidByPid)'
  BY KidFound, PTL
<1> QED
  BY <1>1, <1>2, Zenon

\* What the contract may assume of a request that the worker still has.
LEMMA KidHasPid ==
    ASSUME WorkerInv, NEW id \in Ids, reqs[id].pid # 0
    PROVE  /\ kid[id] = IF Live(id) THEN "live" ELSE "dead"
           /\ kid[id] \in {"live", "dead"}
           /\ reqs[id].pid \in Pids /\ proc[reqs[id].pid].id = id
<1>1. /\ fate[id] = "forked" /\ waiting.id # id
      /\ reqs[id].pid \in Pids /\ proc[reqs[id].pid].id = id
  <2>1. TypeInv /\ Children
    BY Zenon DEF WorkerInv
  <2>2. reqs[id].pid \in Pids
    BY <2>1, Zenon DEF TypeInv
  <2> QED
    BY <2>1, <2>2, Zenon DEF Children
<1> QED
  BY <1>1, KidFound, Zenon DEF KidByPid

\* A request whose fate, wait and running child stay the same.
Steady(id) ==
    /\ fate'[id] = fate[id]
    /\ waiting'.id = id <=> waiting.id = id
    /\ Live(id)' <=> Live(id)

\* A step that changes nothing of any child.
LEMMA SameKids ==
    ASSUME WorkerInv, WorkerInv', \A id \in Ids : Steady(id)
    PROVE  kid' = kid
<1>1. ASSUME NEW id \in Ids PROVE KidByPid'[id] = KidByPid[id]
  BY Zenon DEF KidByPid, Steady, Ids
<1>2. KidByPid' = KidByPid
  BY <1>1, ZenonT(30) DEF KidByPid, Ids
<1> QED
  BY <1>2, KidsFound, Zenon

\* A step that changes one child.
LEMMA OneKid ==
    ASSUME WorkerInv, WorkerInv', NEW id \in Ids, NEW k, KidByPid'[id] = k,
           \A j \in Ids : j # id => Steady(j)
    PROVE  kid' = [kid EXCEPT ![id] = k]
<1>1. ASSUME NEW j \in Ids, j # id PROVE KidByPid'[j] = KidByPid[j]
  BY <1>1, Zenon DEF KidByPid, Steady, Ids
<1>2. KidByPid' = [KidByPid EXCEPT ![id] = k]
  <2> DEFINE f == KidByPid
             g == KidByPid'
  <2>1. f = [j \in Ids |-> f[j]] /\ g = [j \in Ids |-> g[j]]
    BY DEF KidByPid, Ids
  <2>2. g[id] = k /\ \A j \in Ids : j # id => g[j] = f[j]
    BY <1>1, Zenon
  <2> HIDE DEF f, g
  <2>3. g = [f EXCEPT ![id] = k]
    BY <2>1, <2>2
  <2> QED
    BY <2>3, Zenon DEF f, g
<1> QED
  BY <1>2, KidsFound, Zenon

-----------------------------------------------------------------------------
(* What is queued for the manager, and what is taken from it *)

\* _flush moves frames from the buffer to the kernel: together they stay the
\* same.
LEMMA TransmitQueues ==
    ASSUME TypeInv, NEW q \in Seq(Frames), Transmit(q)
    PROVE  fromWorker' \o out' = fromWorker \o q
<1> DEFINE k == Min({Len(q), SockOutCap - Len(fromWorker)})
<1>1. /\ SockOutCap \in Nat /\ fromWorker \in Seq(Frames)
      /\ Len(fromWorker) <= SockOutCap
  BY WorkerAssumption, Zenon DEF TypeInv
<1>2. Len(q) \in Int /\ SockOutCap - Len(fromWorker) \in Int
  BY <1>1
<1>3. /\ k \in {Len(q), SockOutCap - Len(fromWorker)}
      /\ k <= Len(q) /\ k <= SockOutCap - Len(fromWorker)
  BY <1>2, MinOfTwo, Zenon
<1>4. fromWorker' = fromWorker \o SubSeq(q, 1, k) /\ out' = SubSeq(q, k + 1, Len(q))
  BY Zenon DEF Transmit
<1> HIDE DEF k
<1>5. k \in 0..Len(q)
  BY <1>1, <1>3
<1>6. /\ (fromWorker \o SubSeq(q, 1, k)) \o SubSeq(q, k + 1, Len(q)) = fromWorker \o q
      /\ fromWorker \o SubSeq(q, 1, k) \in Seq(Frames)
      /\ SubSeq(q, k + 1, Len(q)) \in Seq(Frames)
  BY <1>1, <1>5, Regrouped, ZenonT(30)
<1> QED
  BY <1>4, <1>6, Zenon

\* _send adds one frame at the end of what the manager has yet to read.
LEMMA SendQueues ==
    ASSUME TypeInv, NEW t \in Streams \cup {"DONE"}, NEW id \in Ids, NEW v \in Int,
           Send(t, id, v)
    PROVE  fromWorker' \o out' = Append(fromWorker \o out, Reply(t, id, v))
<1> DEFINE f == Reply(t, id, v)
           q == Append(out, f)
<1>1. f \in Frames /\ out \in Seq(Frames) /\ fromWorker \in Seq(Frames)
  BY Zenon DEF Reply, Frames, TypeInv
<1>2. Transmit(q)
  BY Zenon DEF Send
<1> HIDE DEF f
<1>3. q \in Seq(Frames) /\ fromWorker \o q = Append(fromWorker \o out, f)
  BY <1>1
<1> HIDE DEF q
<1> QED
  BY <1>2, <1>3, TransmitQueues, Zenon DEF f

\* The frame at the head of the receive buffer is the next one for the
\* contract, which does not see where recv has cut the stream.
LEMMA FrameTaken ==
    ASSUME TypeInv, recv_buf # <<>>, recv_buf' = Tail(recv_buf), toWorker' = toWorker
    PROVE  /\ recv_buf \o toWorker # <<>>
           /\ Head(recv_buf \o toWorker) = Head(recv_buf)
           /\ recv_buf' \o toWorker' = Tail(recv_buf \o toWorker)
<1>1. recv_buf \in Seq(RequestFrame) /\ toWorker \in Seq(RequestFrame)
  BY Zenon DEF TypeInv
<1> DEFINE u == recv_buf \o toWorker
           t == Tail(recv_buf) \o toWorker
<1>2. /\ u \in Seq(RequestFrame) /\ Len(u) = Len(recv_buf) + Len(toWorker)
      /\ Len(recv_buf) \in Nat /\ Len(recv_buf) # 0 /\ u[1] = recv_buf[1]
  BY <1>1
<1>3. t = Tail(u)
  BY <1>1
<1>4. Head(u) = Head(recv_buf) /\ u # <<>>
  BY <1>1, <1>2
<1> QED
  BY <1>3, <1>4, Zenon

-----------------------------------------------------------------------------
(* A read takes no more than a frame holds *)

\* The worker keeps its end of the socket open, and no pipe holds more than
\* its capacity.
Within ==
    /\ workerOpen = TRUE
    /\ \A id \in Ids, s \in Streams : pipe[id][s].n <= PipeCap

\* A step after which no pipe holds more than before.
LEMMA SameWithin ==
    ASSUME Within, workerOpen' = workerOpen,
           \A id \in Ids, s \in Streams : pipe'[id][s].n = pipe[id][s].n
    PROVE  Within'
BY Zenon DEF Within, Ids, Streams

\* A child writes only where there is room; nothing else fills a pipe.
LEMMA ChildWithin ==
    ASSUME WorkerInv, Within, NEW p \in Pids,
           \/ ChildExit(p) \/ ChildZombie(p)
           \/ \E s \in Streams : ChildWrite(p, s) \/ ChildClose(p, s)
    PROVE  Within'
<1> DEFINE id == proc[p].id
<1>1. TypeInv /\ Children /\ pipe \in Pipes
  BY Zenon DEF WorkerInv, TypeInv
<1>2. CASE ChildExit(p)
  <2>1. PICK x \in ExitCodes : code' = [code EXCEPT ![proc[p].id] = x]
    BY <1>2, Zenon DEF ChildExit
  <2>2. x \in Int
    BY WorkerAssumption, Zenon
  <2>3. \A j \in Ids, s \in Streams : pipe'[j][s].n = pipe[j][s].n
    <3>1. /\ proc[p].st = "running" /\ proc' = [proc EXCEPT ![p].st = "exiting"]
          /\ pipe' = CloseOutput(proc[p].id)
      BY <1>2, Zenon DEF ChildExit
    <3> QED
      BY <2>1, <2>2, <3>1, ChildEnds, ZenonT(30)
  <2> QED
    BY <1>2, <2>3, SameWithin, Zenon DEF ChildExit, socketVars
<1>3. CASE ChildZombie(p)
  BY <1>3, SameWithin, Zenon DEF ChildZombie, socketVars
<1>4. ASSUME NEW s \in Streams, ChildClose(p, s) PROVE Within'
  <2>1. id \in Ids
    BY <1>1, <1>4, ChildHasRequest, Zenon DEF ChildClose
  <2>2. pipe' = Shut(pipe, id, s)
    BY <1>4, Zenon DEF ChildClose, Shut
  <2> HIDE DEF id
  <2>3. PICK g : g = Shut(pipe, id, s)
    BY Zenon
  <2>4. \A j \in Ids, r \in Streams : g[j][r].n = pipe[j][r].n
    <3>1. pipe \in Pipes /\ s \in Streams
      BY <1>1, Zenon
    <3> QED
      BY ONLY <2>1, <2>3, <3>1, PipeShut, SMTT(30)
  <2>5. pipe' = g
    BY <2>2, <2>3, Zenon
  <2>6. \A j \in Ids, r \in Streams : pipe'[j][r].n = pipe[j][r].n
    BY <2>4, <2>5, Zenon
  <2> QED
    BY <1>4, <2>6, SameWithin, Zenon DEF ChildClose, socketVars
<1>5. ASSUME NEW s \in Streams, ChildWrite(p, s) PROVE Within'
  <2>1. id \in Ids
    BY <1>1, <1>5, ChildHasRequest, ZenonT(30) DEF ChildWrite
  <2>2. /\ pipe[id][s].n < PipeCap /\ pipe' = [pipe EXCEPT ![id][s].n = @ + 1]
        /\ workerOpen' = workerOpen
    BY <1>5, Zenon DEF ChildWrite, socketVars
  <2>3. pipe[id][s].n \in Nat
    BY <1>1, <2>1, ZenonT(30) DEF Pipes, Pipe
  <2>4. PICK v \in Nat : v = pipe[id][s].n + 1
    BY <2>3
  <2>5. pipe' = Holding(pipe, id, s, v)
    BY <2>2, <2>4, ZenonT(30) DEF Holding
  <2> HIDE DEF id
  <2>6. /\ pipe'[id][s].n = v
        /\ \A j \in Ids, r \in Streams : j # id \/ r # s => pipe'[j][r].n = pipe[j][r].n
    BY <1>1, <2>1, <2>5, PipeContents, SMTT(30)
  <2>7. v <= PipeCap
    BY <2>2, <2>3, <2>4, WorkerAssumption
  <2> QED
    BY <2>2, <2>6, <2>7, ZenonT(30) DEF Within, Ids, Streams
<1> QED
  BY <1>2, <1>3, <1>4, <1>5, ZenonT(30)

\* A read empties a pipe and a fork makes new ones.
LEMMA LoopWithin ==
    ASSUME WorkerInv, Within, Loop
    PROVE  Within'
<1>1. TypeInv /\ Children /\ pipe \in Pipes
  BY Zenon DEF WorkerInv, TypeInv
<1>2. CASE Select \/ Recv \/ FramesDone \/ Reap \/ PipesDone
  BY <1>2, SameWithin, Zenon DEF Select, Recv, FramesDone, Reap, PipesDone, kernelVars, socketVars
<1>3. ASSUME NEW id \in Ids, HandleRun(id) PROVE Within'
  <2>1. CASE UNCHANGED pipe
    BY <1>3, <2>1, SameWithin, ZenonT(30) DEF HandleRun, socketVars
  <2>2. CASE pipe' = [pipe EXCEPT ![id] = [s \in Streams |-> [n |-> 0, w |-> TRUE]]]
    <3>1. \A s \in Streams : pipe'[id][s].n = 0
      BY <1>1, <2>2 DEF Pipes
    <3>2. \A j \in Ids : j # id => pipe'[j] = pipe[j]
      BY <1>1, <2>2, ZenonT(30) DEF Pipes
    <3>3. 0 <= PipeCap /\ workerOpen' = workerOpen
      BY <1>3, WorkerAssumption, SMTT(30) DEF HandleRun, socketVars
    <3> QED
      BY <3>1, <3>2, <3>3, ZenonT(30) DEF Within, Ids, Streams
  <2> QED
    BY <1>3, <2>1, <2>2, Zenon DEF HandleRun, Fork, ForkRaises
<1>4. ASSUME NEW p \in Pids, proc[p].st # "free", Kill(p), workerOpen' = workerOpen
      PROVE  Within'
  BY <1>4, KillEnds, SameWithin, ZenonT(30)
<1>5. ASSUME NEW id \in Ids, HandleKill(id) PROVE Within'
  <2>1. CASE reqs[id].pid # 0
    <3>1. reqs[id].pid \in Pids
      BY <1>1, <2>1, ZenonT(30) DEF TypeInv
    <3>2. proc[reqs[id].pid].st # "free"
      BY <1>1, <2>1, ZenonT(30) DEF Children
    <3> QED
      BY <1>4, <1>5, <2>1, <3>1, <3>2, ZenonT(30) DEF HandleKill, socketVars
  <2>2. CASE ~(reqs[id].pid # 0)
    BY <1>5, <2>2, SameWithin, ZenonT(30) DEF HandleKill, socketVars
  <2> QED
    BY <2>1, <2>2, Zenon
<1>6. ASSUME NEW fd \in Fds, HandlePipe(fd) PROVE Within'
  <2> DEFINE id == fdt[fd][1]
             s == fdt[fd][2]
  <2>1. /\ id \in Ids /\ s \in Streams /\ fd_map = fdt
        /\ reqs[id].pid \in Pids /\ proc[reqs[id].pid].st # "free"
    <3>1. fd \in todo
      BY <1>6, ZenonT(30) DEF HandlePipe
    <3> QED
      BY <3>1, ReportedPipe, SMTT(30)
  <2>2. workerOpen' = workerOpen
    BY <1>6, ZenonT(30) DEF HandlePipe
  <2>3. CASE ForwardOutput(fd)
    <3>1. pipe' = Holding(pipe, id, s, 0)
      BY <2>3, ZenonT(30) DEF ForwardOutput, Holding
    <3> HIDE DEF id, s
    <3>2. /\ pipe'[id][s].n = 0
          /\ \A j \in Ids, r \in Streams : j # id \/ r # s => pipe'[j][r].n = pipe[j][r].n
      BY <1>1, <2>1, <3>1, PipeContents, SMTT(30)
    <3>3. 0 <= PipeCap
      BY WorkerAssumption
    <3> QED
      BY <2>2, <3>2, <3>3, ZenonT(30) DEF Within, Ids, Streams
  <2>4. CASE Teardown(fd)
    <3>1. CASE UNCHANGED pipe
      BY <2>2, <3>1, SameWithin, Zenon
    <3>2. CASE Kill(reqs[id].pid)
      BY <1>4, <2>1, <2>2, <3>2, ZenonT(30)
    <3> QED
      BY <2>1, <2>4, <3>1, <3>2, ZenonT(30) DEF Teardown
  <2> QED
    BY <1>6, <2>3, <2>4, ZenonT(30) DEF HandlePipe
<1> QED
  BY <1>2, <1>3, <1>5, <1>6, Zenon DEF Loop

\* Every step keeps the pipes within their capacity.
LEMMA StepWithin ==
    ASSUME WorkerInv, Within, [Next]_vars
    PROVE  Within'
<1>1. CASE \E id \in Ids : ManagerRun(id) \/ ManagerKill(id)
  BY <1>1, SameWithin, Zenon DEF ManagerRun, ManagerKill, SendRequest, kernelVars
<1>2. CASE ManagerRead
  BY <1>2, SameWithin, Zenon DEF ManagerRead, kernelVars
<1>3. CASE UNCHANGED vars
  BY <1>3, SameWithin, Zenon DEF vars, kernelVars, socketVars
<1> QED
  BY <1>1, <1>2, <1>3, ChildWithin, LoopWithin, ZenonT(30) DEF Next

-----------------------------------------------------------------------------
(* Step by step *)

\* A running process is the child its request names, and counts as live.
LEMMA RunningKid ==
    ASSUME WorkerInv, NEW p \in Pids, NEW id, id = proc[p].id, proc[p].st = "running"
    PROVE  /\ id \in Ids /\ reqs[id].pid = p /\ p # 0 /\ kid[id] = "live"
           /\ fate[id] = "forked" /\ waiting.id # id
<1>1. TypeInv /\ Children
  BY Zenon DEF WorkerInv
<1>2. id \in Ids /\ (reqs[id].pid = p \/ waiting = [id |-> id, pid |-> p]) /\ p # 0
  BY <1>1, WorkerAssumption DEF Children
<1>3. reqs[id].pid = p
  <2> SUFFICES ASSUME waiting = [id |-> id, pid |-> p] PROVE FALSE
    BY <1>2, Zenon
  <2>1. waiting # NoWait /\ waiting.pid = p
    BY <1>2, Zenon DEF NoWait
  <2> QED
    BY <1>1, <2>1 DEF Children
<1>4. fate[id] = "forked" /\ waiting.id # id
  BY <1>1, <1>2, <1>3, ZenonT(30) DEF Children
<1> QED
  BY <1>2, <1>3, <1>4, KidHasPid, ZenonT(30) DEF Live

\* A running child that exits or is killed is dead for the contract, and
\* nothing else changes there.
LEMMA KidDies ==
    ASSUME WorkerInv, WorkerInv', NEW p \in Pids, NEW id, id = proc[p].id,
           proc[p].st = "running", proc' = [proc EXCEPT ![p].st = "exiting"],
           UNCHANGED <<reqs, waiting, fate>>
    PROVE  id \in Ids /\ kid[id] = "live" /\ kid' = [kid EXCEPT ![id] = "dead"]
<1>1. /\ id \in Ids /\ reqs[id].pid = p /\ p # 0 /\ kid[id] = "live"
      /\ fate[id] = "forked" /\ waiting.id # id
  BY RunningKid
<1>2. TypeInv /\ Children
  BY ZenonT(30) DEF WorkerInv
<1>3. proc'[p].st = "exiting" /\ \A q \in Pids : q # p => proc'[q] = proc[q]
  BY <1>2, SMTT(30) DEF TypeInv
<1>4. KidByPid'[id] = "dead"
  <2>1. ~Live(id)' /\ fate'[id] = "forked" /\ waiting'.id # id
    BY <1>1, <1>3, ZenonT(30) DEF Live
  <2> QED
    BY <1>1, <2>1, ZenonT(30) DEF KidByPid, Ids
<1>5. ASSUME NEW j \in Ids, j # id PROVE Steady(j)
  <2>1. CASE reqs[j].pid = 0
    BY <2>1, Zenon DEF Steady, Live
  <2>2. CASE reqs[j].pid # 0
    <3>1. proc[reqs[j].pid].id = j
      BY <1>2, <2>2, Zenon DEF Children
    <3>2. reqs[j].pid \in Pids /\ reqs[j].pid # p
      BY <1>2, <1>5, <2>2, <3>1, ZenonT(30) DEF TypeInv
    <3> QED
      BY <1>3, <3>2, ZenonT(30) DEF Steady, Live
  <2> QED
    BY <2>1, <2>2, Zenon
<1> QED
  BY <1>1, <1>4, <1>5, OneKid, ZenonT(30)

\* A child exits by itself.
LEMMA ExitStep ==
    ASSUME WorkerInv, WorkerInv', NEW p \in Pids, ChildExit(p)
    PROVE  Contract!ContractNext
<1>1. PICK id : id = proc[p].id
  BY Zenon
<1>2. /\ proc[p].st = "running" /\ proc' = [proc EXCEPT ![p].st = "exiting"]
      /\ UNCHANGED <<reqs, waiting, fate>>
  BY Zenon DEF ChildExit, loopVars, histVars
<1>3. id \in Ids /\ kid[id] = "live" /\ kid' = [kid EXCEPT ![id] = "dead"]
  BY <1>1, <1>2, KidDies, ZenonT(30)
<1>4. /\ \E x \in ExitCodes : code' = [code EXCEPT ![id] = x]
      /\ wrote' = wrote /\ workerOpen' = workerOpen
      /\ recv_buf' \o toWorker' = recv_buf \o toWorker
      /\ fromWorker' \o out' = fromWorker \o out
  BY <1>1, Zenon DEF ChildExit, socketVars, loopVars, histVars
<1>5. Contract!Exit(id)
  BY <1>3, <1>4, Zenon DEF Contract!Exit, Contract!socketVars
<1> QED
  BY <1>3, <1>5, ZenonT(30) DEF Contract!ContractNext, Contract!Events, Contract!Ids, Ids

\* The worker takes a KILL frame: it kills the child if it still runs.
LEMMA KillStep ==
    ASSUME WorkerInv, WorkerInv', Within, NEW id \in Ids, HandleKill(id)
    PROVE  Contract!ContractNext
<1> SUFFICES Contract!TakeKill(id)
  BY Zenon DEF Contract!ContractNext, Contract!Events, Contract!Ids, Ids
<1>1. TypeInv /\ recv_buf # <<>> /\ Head(recv_buf) = Request("KILL", id)
      /\ recv_buf' = Tail(recv_buf)
      /\ UNCHANGED <<toWorker, fromWorker, workerOpen, out, reqs, waiting, wrote, fate>>
  BY Zenon DEF WorkerInv, HandleKill, socketVars, histVars
<1>2. Contract!Takes("KILL", id)
  BY <1>1, FrameTaken, Zenon DEF Contract!Takes, Contract!Request, Request, Within
<1>3. UNCHANGED <<wrote, workerOpen>> /\ fromWorker' \o out' = fromWorker \o out
  BY <1>1, Zenon
<1>4. CASE Live(id)
  <2>1. PICK p : p = reqs[id].pid
    BY Zenon
  <2>2. p # 0 /\ p \in Pids /\ proc[p].id = id /\ proc[p].st = "running"
    BY <1>4, <2>1, KidHasPid, ZenonT(30) DEF Live
  <2>3. /\ proc' = [proc EXCEPT ![p].st = "exiting"]
        /\ code' = [code EXCEPT ![id] = SIGKILLED]
    BY <2>1, <2>2, ZenonT(30) DEF HandleKill, Kill
  <2>4. kid[id] = "live" /\ kid' = [kid EXCEPT ![id] = "dead"]
    BY <1>1, <2>2, <2>3, KidDies, ZenonT(30)
  <2> QED
    BY <1>2, <1>3, <2>3, <2>4, ZenonT(30) DEF Contract!TakeKill, Contract!SIGKILLED, SIGKILLED
<1>5. CASE ~Live(id)
  <2>1. UNCHANGED <<proc, code>>
    BY <1>5, ZenonT(30) DEF HandleKill, Kill, Live
  <2>2. kid' = kid
    BY <1>1, <2>1, SameKids, ZenonT(30) DEF Steady, Live
  <2>3. kid[id] # "live"
    BY <1>5, KidFound, ZenonT(30) DEF KidByPid, TypeInv, WorkerInv
  <2> QED
    BY <1>2, <1>3, <2>1, <2>2, <2>3, ZenonT(30) DEF Contract!TakeKill
<1> QED
  BY <1>4, <1>5, Zenon

\* What one request and its process go through leaves the others alone.
LEMMA OthersSteady ==
    ASSUME WorkerInv, NEW id \in Ids, NEW p,
           proc[p].st = "free" \/ proc[p].id = id,
           \A q \in Pids : q # p => proc'[q].st = proc[q].st,
           \A j \in Ids : j # id => /\ reqs'[j].pid = reqs[j].pid
                                    /\ fate'[j] = fate[j]
                                    /\ waiting'.id = j <=> waiting.id = j
    PROVE  \A j \in Ids : j # id => Steady(j)
<1> SUFFICES ASSUME NEW j \in Ids, j # id PROVE Steady(j)
  BY Zenon
<1>1. TypeInv /\ Children
  BY Zenon DEF WorkerInv
<1>2. CASE reqs[j].pid = 0
  BY <1>2, ZenonT(30) DEF Steady, Live
<1>3. CASE reqs[j].pid # 0
  <2>1. proc[reqs[j].pid].id = j /\ proc[reqs[j].pid].st # "free"
    BY <1>1, <1>3, Zenon DEF Children
  <2>2. reqs[j].pid \in Pids
    BY <1>1, <1>3, ZenonT(30) DEF TypeInv
  <2>3. reqs[j].pid # p
    BY <2>1
  <2> QED
    BY <2>2, <2>3, SMTT(30) DEF Steady, Live
<1> QED
  BY <1>2, <1>3, ZenonT(30)

\* The worker takes a RUN frame: it forks the child, or fails to.
LEMMA RunStep ==
    ASSUME WorkerInv, WorkerInv', Within, NEW id \in Ids, HandleRun(id)
    PROVE  Contract!ContractNext
<1> SUFFICES Contract!TakeRun(id)
  BY Zenon DEF Contract!ContractNext, Contract!Events, Contract!Ids, Ids
<1>1. /\ TypeInv /\ FdsAreOwn /\ Children /\ RunsFresh
      /\ recv_buf # <<>> /\ Head(recv_buf) = Request("RUN", id)
      /\ recv_buf' = Tail(recv_buf)
      /\ UNCHANGED <<toWorker, fromWorker, workerOpen, out, waiting, code, wrote>>
  BY Zenon DEF WorkerInv, HandleRun, socketVars
<1>2. Contract!Takes("RUN", id)
  BY <1>1, FrameTaken, Zenon DEF Contract!Takes, Contract!Request, Request, Within
<1>3. UNCHANGED <<code, wrote, workerOpen>> /\ fromWorker' \o out' = fromWorker \o out
  BY <1>1, Zenon
<1>4. waiting.id # id
  BY <1>1, FreshRun, Zenon
<1>5. /\ fate \in [Ids -> {"none", "forked", "failed", "done"}]
      /\ reqs \in [Ids -> [pid : Pids \cup {0}, open : SUBSET Fds]]
      /\ proc \in [Pids -> [st : Statuses, id : Ids \cup {0}]]
  BY <1>1, ZenonT(30) DEF TypeInv
<1>6. CASE Fork(id)
  <2>1. PICK p \in FreePids, o \in FreeFds, e \in FreeFds :
           /\ Lowest(o, FreeFds) /\ Lowest(e, FreeFds \ {o})
           /\ proc' = [proc EXCEPT ![p] = [st |-> "running", id |-> id]]
           /\ pipe' = [pipe EXCEPT ![id] = [s \in Streams |-> [n |-> 0, w |-> TRUE]]]
           /\ fdt' = [fdt EXCEPT ![o] = <<id, "STDOUT">>, ![e] = <<id, "STDERR">>]
           /\ reqs' = [reqs EXCEPT ![id] = [pid |-> p, open |-> {o, e}]]
           /\ fd_map' = [fd_map EXCEPT ![o] = <<id, "STDOUT">>, ![e] = <<id, "STDERR">>]
           /\ fate' = [fate EXCEPT ![id] = "forked"]
    BY <1>6, ZenonT(30) DEF Fork
  <2>2. p \in Pids /\ p # 0 /\ proc[p].st = "free"
    BY WorkerAssumption, ZenonT(30) DEF FreePids
  <2>3. /\ proc'[p].st = "running" /\ \A q \in Pids : q # p => proc'[q].st = proc[q].st
        /\ reqs'[id].pid = p /\ \A j \in Ids : j # id => reqs'[j].pid = reqs[j].pid
        /\ fate'[id] = "forked" /\ \A j \in Ids : j # id => fate'[j] = fate[j]
    BY <1>5, <2>1, <2>2, SMTT(30)
  <2>4. KidByPid'[id] = "live"
    BY <1>1, <1>4, <2>2, <2>3, ZenonT(30) DEF KidByPid, Live, Ids
  <2>5. \A j \in Ids : j # id => Steady(j)
    BY <1>1, <2>2, <2>3, OthersSteady, SMTT(30)
  <2>6. kid' = [kid EXCEPT ![id] = "live"]
    BY <2>4, <2>5, OneKid, ZenonT(30)
  <2> QED
    BY <1>2, <1>3, <2>6, ZenonT(30) DEF Contract!TakeRun
<1>7. CASE fate' = [fate EXCEPT ![id] = "failed"] /\ UNCHANGED <<proc, reqs>>
  <2>1. fate'[id] = "failed" /\ \A j \in Ids : j # id => fate'[j] = fate[j]
    BY <1>5, <1>7, Zenon
  <2>2. KidByPid'[id] = "failed"
    BY <2>1, Zenon DEF KidByPid, Ids
  <2>3. \A j \in Ids : j # id => Steady(j)
    BY <1>1, <1>7, <2>1, ZenonT(30) DEF Steady, Live
  <2>4. kid' = [kid EXCEPT ![id] = "failed"]
    BY <2>2, <2>3, OneKid, ZenonT(30)
  <2> QED
    BY <1>2, <1>3, <2>4, ZenonT(30) DEF Contract!TakeRun
<1> QED
  BY <1>6, <1>7, Zenon DEF HandleRun, ForkRaises

\* One read of a pipe is one output frame, no longer than the pipe.
LEMMA ForwardStep ==
    ASSUME WorkerInv, WorkerInv', Within, NEW fd \in todo, ForwardOutput(fd),
           UNCHANGED <<toWorker, workerOpen, recv_buf>>
    PROVE  Contract!ContractNext
<1> DEFINE id == fdt[fd][1]
           s == fdt[fd][2]
           n == pipe[id][s].n
<1>1. /\ id \in Ids /\ s \in Streams /\ fd_map = fdt /\ reqs[id].pid # 0
  BY ReportedPipe
<1>2. /\ n > 0 /\ Send(s, id, n)
      /\ wrote' = [wrote EXCEPT ![id] = Forwarded(@, s, n)]
      /\ UNCHANGED <<reqs, waiting, proc, code, fate>>
  BY <1>1, ZenonT(30) DEF ForwardOutput
<1>3. n \in Nat /\ n <= PipeCap
  BY <1>1, SMTT(30) DEF Within, WorkerInv, TypeInv, Pipes, Pipe
<1> HIDE DEF id, s, n
<1>4. n \in 1..PipeCap /\ n \in Int
  BY <1>2, <1>3, WorkerAssumption, SMTT(30)
<1>5. fromWorker' \o out' = Append(fromWorker \o out, Reply(s, id, n))
  BY <1>1, <1>2, <1>4, SendQueues, ZenonT(30) DEF WorkerInv
<1>6. kid[id] \in {"live", "dead"}
  BY <1>1, KidHasPid, ZenonT(30)
<1>7. kid' = kid
  BY <1>2, SameKids, ZenonT(30) DEF Steady, Live
<1>8. wrote' = [wrote EXCEPT ![id] = Contract!Written(wrote[id], s, n)]
  BY <1>2, Zenon DEF Forwarded, Contract!Written
<1>9. Contract!Forward(id, s, n)
  BY <1>2, <1>5, <1>6, <1>7, <1>8, ZenonT(30) DEF Contract!Forward, Contract!Reply, Reply, Within
<1> QED
  BY <1>1, <1>4, <1>9, ZenonT(30)
     DEF Contract!ContractNext, Contract!ForwardSome, Contract!Ids, Ids, Contract!Streams, Streams

\* The first pipe of a request is closed, of which the contract sees nothing.
LEMMA FirstPipeStep ==
    ASSUME WorkerInv, WorkerInv', NEW fd \in todo, Teardown(fd),
           reqs[fd_map[fd][1]].open \ {fd} # {},
           UNCHANGED <<toWorker, workerOpen, recv_buf>>
    PROVE  UNCHANGED contractVars
<1> DEFINE id == fdt[fd][1]
<1>1. id \in Ids /\ fd_map = fdt
  BY ReportedPipe
<1>2. /\ reqs' = [reqs EXCEPT ![id].open = reqs[id].open \ {fd}]
      /\ UNCHANGED <<waiting, proc, code, wrote, fate, out, fromWorker>>
  BY <1>1, ZenonT(30) DEF Teardown
<1> HIDE DEF id
<1>3. reqs \in [Ids -> [pid : Pids \cup {0}, open : SUBSET Fds]]
  BY Zenon DEF WorkerInv, TypeInv
<1>4. \A j \in Ids : reqs'[j].pid = reqs[j].pid
  BY <1>1, <1>2, <1>3
<1>5. kid' = kid
  BY <1>2, <1>4, SameKids, ZenonT(30) DEF Steady, Live
<1> QED
  BY <1>2, <1>5, ZenonT(30) DEF contractVars

\* WNOHANG reaps the child of the last pipe: the contract's DONE.
LEMMA ReapNowStep ==
    ASSUME WorkerInv, WorkerInv', Within, NEW fd \in todo, Teardown(fd),
           reqs[fd_map[fd][1]].open \ {fd} = {},
           proc[reqs[fd_map[fd][1]].pid].st = "zombie",
           UNCHANGED <<toWorker, workerOpen, recv_buf>>
    PROVE  Contract!ContractNext
<1> DEFINE id == fdt[fd][1]
           p == reqs[id].pid
<1>1. /\ id \in Ids /\ fd_map = fdt /\ p \in Pids /\ p # 0
      /\ proc[p].id = id /\ waiting.id # id
  BY ReportedPipe
<1>2. /\ Forget(id) /\ proc' = [proc EXCEPT ![p] = FreePid]
      /\ Send("DONE", id, code[id]) /\ fate' = [fate EXCEPT ![id] = "done"]
      /\ UNCHANGED <<waiting, code, wrote>> /\ proc[p].st = "zombie"
  BY <1>1, ZenonT(30) DEF Teardown
<1> SUFFICES Contract!Finish(id)
  BY <1>1, Zenon DEF Contract!ContractNext, Contract!Events, Contract!Ids, Ids
<1>3. kid[id] = "dead"
  BY <1>1, <1>2, KidHasPid, ZenonT(30) DEF Live
<1> HIDE DEF id, p
<1>4. /\ fate \in [Ids -> {"none", "forked", "failed", "done"}]
      /\ reqs \in [Ids -> [pid : Pids \cup {0}, open : SUBSET Fds]]
      /\ proc \in [Pids -> [st : Statuses, id : Ids \cup {0}]]
      /\ code[id] \in Int /\ TypeInv
  BY <1>1, ZenonT(30) DEF WorkerInv, TypeInv
<1>5. /\ fate'[id] = "done" /\ \A j \in Ids : j # id => fate'[j] = fate[j]
      /\ \A j \in Ids : j # id => reqs'[j] = reqs[j]
      /\ \A q \in Pids : q # p => proc'[q] = proc[q]
  BY <1>1, <1>2, <1>4, ZenonT(30) DEF Forget
<1>6. \A j \in Ids : j # id => Steady(j)
  BY <1>1, <1>2, <1>5, OthersSteady, SMTT(30)
<1>7. KidByPid'[id] = "done"
  BY <1>1, <1>5, ZenonT(30) DEF KidByPid, Ids
<1>8. kid' = [kid EXCEPT ![id] = "done"]
  BY <1>1, <1>6, <1>7, OneKid, ZenonT(30)
<1>9. fromWorker' \o out' = Append(fromWorker \o out, Reply("DONE", id, code[id]))
  BY <1>1, <1>2, <1>4, SendQueues, ZenonT(30)
<1> QED
  BY <1>2, <1>3, <1>8, <1>9, ZenonT(30) DEF Contract!Finish, Contract!Reply, Reply, Within

\* The child of the last pipe is not reaped yet: the note, and SIGKILL if it
\* still runs.
LEMMA NoteStep ==
    ASSUME WorkerInv, WorkerInv', Within, wpc = "pipes", NEW fd \in todo, Teardown(fd),
           reqs[fd_map[fd][1]].open \ {fd} = {},
           proc[reqs[fd_map[fd][1]].pid].st # "zombie",
           UNCHANGED <<toWorker, workerOpen, recv_buf>>
    PROVE  Contract!ContractNext
<1> DEFINE id == fdt[fd][1]
           p == reqs[id].pid
<1>1. /\ id \in Ids /\ fd_map = fdt /\ p \in Pids /\ p # 0
      /\ proc[p].id = id /\ fate[id] = "forked"
  BY ReportedPipe
<1>2. /\ Forget(id) /\ Kill(p) /\ Send("STDERR", id, 1)
      /\ wrote' = [wrote EXCEPT ![id] = Forwarded(@, "STDERR", 1)]
      /\ waiting' = [id |-> id, pid |-> p] /\ fate' = fate
  BY <1>1, ZenonT(30) DEF Teardown
<1> SUFFICES Contract!NoteAndKill(id)
  BY <1>1, ZenonT(30) DEF Contract!ContractNext, Contract!Events, Contract!Ids, Ids
<1>3. kid[id] = (IF proc[p].st = "running" THEN "live" ELSE "dead")
  BY <1>1, KidHasPid, ZenonT(30) DEF Live
<1> HIDE DEF id, p
<1>4. /\ reqs \in [Ids -> [pid : Pids \cup {0}, open : SUBSET Fds]]
      /\ proc \in [Pids -> [st : Statuses, id : Ids \cup {0}]]
      /\ TypeInv /\ waiting = NoWait
  BY ZenonT(30) DEF WorkerInv, TypeInv, Children
<1>5. /\ \A j \in Ids : j # id => reqs'[j] = reqs[j]
      /\ \A q \in Pids : q # p => proc'[q] = proc[q]
  <2>1. \A j \in Ids : j # id => reqs'[j] = reqs[j]
    BY <1>1, <1>2, <1>4, ZenonT(30) DEF Forget
  <2>2. \A q \in Pids : q # p => proc'[q] = proc[q]
    BY <1>1, <1>2, <1>4, ZenonT(30) DEF Kill
  <2> QED
    BY <2>1, <2>2, ZenonT(30)
<1>6. \A j \in Ids : j # id => (waiting'.id = j <=> waiting.id = j)
  BY <1>2, <1>4, SMTT(30) DEF NoWait, Ids
<1>7. \A j \in Ids : j # id => Steady(j)
  BY <1>1, <1>2, <1>5, <1>6, OthersSteady, SMTT(30)
<1>8. KidByPid'[id] = "noted"
  BY <1>1, <1>2, ZenonT(30) DEF KidByPid, Ids
<1>9. kid' = [kid EXCEPT ![id] = "noted"]
  BY <1>1, <1>7, <1>8, OneKid, ZenonT(30)
<1>10. code' = IF kid[id] = "live" THEN [code EXCEPT ![id] = Contract!SIGKILLED] ELSE code
  BY <1>1, <1>2, <1>3, ZenonT(30) DEF Kill, Contract!SIGKILLED, SIGKILLED
<1>11. fromWorker' \o out' = Append(fromWorker \o out, Reply("STDERR", id, 1))
  <2>1. "STDERR" \in Streams \cup {"DONE"} /\ 1 \in Int
    BY DEF Streams
  <2> QED
    BY <1>1, <1>2, <1>4, <2>1, SendQueues, ZenonT(30)
<1>12. wrote' = [wrote EXCEPT ![id] = Contract!Written(wrote[id], "STDERR", 1)]
  BY <1>2, ZenonT(30) DEF Forwarded, Contract!Written
<1>13. kid[id] \in {"live", "dead"}
  BY <1>3, Zenon
<1> QED
  BY <1>9, <1>10, <1>11, <1>12, <1>13, ZenonT(30)
     DEF Contract!NoteAndKill, Contract!Reply, Reply, Within

\* The blocking waitpid returns: the contract's DONE after the note.
LEMMA ReapStep ==
    ASSUME WorkerInv, WorkerInv', Within, Reap
    PROVE  Contract!ContractNext
<1> DEFINE id == waiting.id
           p == waiting.pid
<1>1. /\ TypeInv /\ Children /\ waiting # NoWait
  BY Zenon DEF WorkerInv, Reap, Children
<1>2. id \in Ids /\ p \in Pids
  BY <1>1, Zenon DEF TypeInv
<1>3. proc[p].id = id /\ fate[id] = "forked"
  BY <1>1, Zenon DEF Children
<1>4. /\ proc' = [proc EXCEPT ![p] = FreePid] /\ Send("DONE", id, code[id])
      /\ fate' = [fate EXCEPT ![id] = "done"] /\ waiting' = NoWait
      /\ UNCHANGED <<toWorker, workerOpen, recv_buf, reqs, code, wrote>>
  BY ZenonT(30) DEF Reap
<1>5. kid[id] = "noted"
  BY <1>2, <1>3, KidFound, ZenonT(30) DEF KidByPid
<1> SUFFICES Contract!Finish(id)
  BY <1>2, ZenonT(30) DEF Contract!ContractNext, Contract!Events, Contract!Ids, Ids
<1>6. \A j \in Ids : j # id => (waiting'.id = j <=> waiting.id = j)
  BY <1>4 DEF NoWait, Ids
<1> HIDE DEF id, p
<1>7. /\ fate'[id] = "done" /\ \A j \in Ids : j # id => fate'[j] = fate[j]
      /\ \A q \in Pids : q # p => proc'[q] = proc[q]
      /\ code[id] \in Int
  BY <1>1, <1>2, <1>4, ZenonT(30) DEF TypeInv
<1>8. \A j \in Ids : j # id => Steady(j)
  BY <1>2, <1>3, <1>4, <1>6, <1>7, OthersSteady, SMTT(30)
<1>9. KidByPid'[id] = "done"
  BY <1>2, <1>7, ZenonT(30) DEF KidByPid, Ids
<1>10. kid' = [kid EXCEPT ![id] = "done"]
  BY <1>2, <1>8, <1>9, OneKid, ZenonT(30)
<1>11. fromWorker' \o out' = Append(fromWorker \o out, Reply("DONE", id, code[id]))
  BY <1>1, <1>2, <1>4, <1>7, SendQueues, ZenonT(30)
<1> QED
  BY <1>4, <1>5, <1>10, <1>11, ZenonT(30) DEF Contract!Finish, Contract!Reply, Reply, Within

\* One ready pipe.
LEMMA PipeStep ==
    ASSUME WorkerInv, WorkerInv', Within, NEW fd \in Fds, HandlePipe(fd)
    PROVE  Contract!ContractNext \/ UNCHANGED contractVars
<1>1. /\ wpc = "pipes" /\ fd \in todo
      /\ UNCHANGED <<toWorker, workerOpen, recv_buf>>
      /\ ForwardOutput(fd) \/ Teardown(fd)
  BY Zenon DEF HandlePipe
<1>2. CASE ForwardOutput(fd)
  BY <1>1, <1>2, ForwardStep, ZenonT(30)
<1>3. CASE Teardown(fd)
  <2>1. CASE reqs[fd_map[fd][1]].open \ {fd} # {}
    BY <1>1, <1>3, <2>1, FirstPipeStep, ZenonT(30)
  <2>2. CASE /\ reqs[fd_map[fd][1]].open \ {fd} = {}
             /\ proc[reqs[fd_map[fd][1]].pid].st = "zombie"
    BY <1>1, <1>3, <2>2, ReapNowStep, ZenonT(30)
  <2>3. CASE /\ reqs[fd_map[fd][1]].open \ {fd} = {}
             /\ proc[reqs[fd_map[fd][1]].pid].st # "zombie"
    BY <1>1, <1>3, <2>3, NoteStep, ZenonT(30)
  <2> QED
    BY <2>1, <2>2, <2>3, ZenonT(30)
<1> QED
  BY <1>1, <1>2, <1>3, ZenonT(30)

\* What only moves frames between the buffers, or data into a pipe, is no
\* step of the contract: select() with its flush, recv, a child that writes,
\* closes its output or becomes a zombie.
LEMMA InnerStep ==
    ASSUME WorkerInv, WorkerInv',
           \/ Select \/ Recv \/ FramesDone \/ PipesDone
           \/ \E p \in Pids :
                 ChildZombie(p) \/ \E s \in Streams : ChildWrite(p, s) \/ ChildClose(p, s)
    PROVE  UNCHANGED contractVars
<1>1. TypeInv /\ Children
  BY Zenon DEF WorkerInv
<1>2. CASE Select \/ Recv \/ FramesDone \/ PipesDone
  <2>1. UNCHANGED <<workerOpen, reqs, waiting, proc, code, wrote, fate>>
    BY <1>2, Zenon DEF Select, Recv, FramesDone, PipesDone, socketVars, kernelVars, histVars
  <2>2. kid' = kid
    BY <2>1, SameKids, Zenon DEF Steady, Live
  <2>3. fromWorker' \o out' = fromWorker \o out
    <3>1. CASE Select
      <4>1. out \in Seq(Frames) /\ Transmit(out)
        BY <1>1, <3>1, ZenonT(30) DEF TypeInv, Select
      <4> QED
        BY <1>1, <4>1, TransmitQueues, ZenonT(30)
    <3>2. CASE Recv \/ FramesDone \/ PipesDone
      BY <3>2, ZenonT(30) DEF Recv, FramesDone, PipesDone, socketVars
    <3> QED
      BY <1>2, <3>1, <3>2, ZenonT(30)
  <2>4. recv_buf' \o toWorker' = recv_buf \o toWorker
    <3>1. CASE Recv
      <4>1. PICK k \in 1..Len(toWorker) :
               /\ recv_buf' = recv_buf \o SubSeq(toWorker, 1, k)
               /\ toWorker' = SubSeq(toWorker, k + 1, Len(toWorker))
        BY <3>1, Zenon DEF Recv
      <4>2. Unseen' = Unseen
        BY <1>1, <4>1, UnseenMoves, ZenonT(30)
      <4> QED
        BY <4>2, Zenon DEF Unseen
    <3>2. CASE Select \/ FramesDone \/ PipesDone
      BY <3>2, Zenon DEF Select, FramesDone, PipesDone, socketVars
    <3> QED
      BY <1>2, <3>1, <3>2, Zenon
  <2> QED
    BY <2>1, <2>2, <2>3, <2>4, ZenonT(30) DEF contractVars
<1>3. ASSUME UNCHANGED <<socketVars, loopVars, code, wrote, fate>>,
             \A q \in Pids : proc'[q].st = "running" <=> proc[q].st = "running"
      PROVE  UNCHANGED contractVars
  <2>1. \A id \in Ids : reqs[id].pid # 0 => reqs[id].pid \in Pids
    BY <1>1, Zenon DEF TypeInv
  <2>2. kid' = kid
    BY <1>3, <2>1, SameKids, ZenonT(30) DEF Steady, Live, loopVars
  <2> QED
    BY <1>3, <2>2, ZenonT(30) DEF contractVars, socketVars, loopVars
<1>4. ASSUME NEW p \in Pids, ChildZombie(p) PROVE UNCHANGED contractVars
  <2>1. proc' = [proc EXCEPT ![p].st = "zombie"] /\ proc[p].st = "exiting"
    BY <1>4, Zenon DEF ChildZombie
  <2>2. \A q \in Pids : proc'[q].st = "running" <=> proc[q].st = "running"
    BY <1>1, <2>1 DEF TypeInv
  <2> QED
    BY <1>3, <1>4, <2>2, ZenonT(30) DEF ChildZombie, histVars
<1>5. ASSUME NEW p \in Pids, NEW s \in Streams, ChildWrite(p, s) \/ ChildClose(p, s)
      PROVE  UNCHANGED contractVars
  BY <1>3, <1>5, ZenonT(30) DEF ChildWrite, ChildClose, histVars
<1> QED
  BY <1>2, <1>4, <1>5, ZenonT(30)

\* Every step of the worker, its children or the manager is one of the
\* contract, of the manager, or of neither.
LEMMA ContractStep ==
    ASSUME WorkerInv, WorkerInv', Within, [Next]_vars
    PROVE  ManagerEnv \/ Contract!ContractNext \/ UNCHANGED contractVars
<1>1. CASE Loop
  BY <1>1, InnerStep, ReapStep, RunStep, KillStep, PipeStep, ZenonT(30) DEF Loop
<1>2. CASE ManagerRead \/ \E id \in Ids : ManagerRun(id) \/ ManagerKill(id)
  BY <1>2, Zenon DEF ManagerEnv
<1>3. ASSUME NEW p \in Pids,
             \/ ChildExit(p) \/ ChildZombie(p)
             \/ \E s \in Streams : ChildWrite(p, s) \/ ChildClose(p, s)
      PROVE  Contract!ContractNext \/ UNCHANGED contractVars
  BY <1>3, ExitStep, InnerStep, ZenonT(30)
<1>4. CASE UNCHANGED vars
  <2>1. UNCHANGED <<socketVars, loopVars, kernelVars, histVars>>
    BY <1>4, Zenon DEF vars
  <2> QED
    BY <2>1, Zenon DEF contractVars, kid, socketVars, loopVars, kernelVars, histVars, Ids
<1> QED
  BY <1>1, <1>2, <1>3, <1>4, ZenonT(30) DEF Next

\* The worker does what it owes the manager: with its event loop, pipes and
\* buffers hidden, every behaviour of it is one that WorkerContract allows.
THEOREM WorkerKeepsContract == Spec => KeepsContract
<1>1. Init => Contract!ContractInit /\ Within
  <2> SUFFICES ASSUME Init PROVE Contract!ContractInit /\ Within
    OBVIOUS
  <2>1. kid = [id \in Ids |-> "none"]
    BY ZenonT(30) DEF Init, kid
  <2>2. code = [id \in Ids |-> 0]
        /\ wrote = [id \in Ids |-> [frames |-> 0, STDOUT |-> 0, STDERR |-> 0]]
    BY Zenon DEF Init
  <2>3. Contract!ContractInit
    BY <2>1, <2>2, ZenonT(30) DEF Contract!ContractInit, Contract!Ids, Ids
  <2>4. Within
    BY WorkerAssumption DEF Init, SocketInit, Within
  <2> QED
    BY <2>3, <2>4, ZenonT(30)
<1>2. WorkerInv /\ Within /\ [Next]_vars => Within'
  BY StepWithin, Zenon
<1>3. WorkerInv /\ WorkerInv' /\ Within /\ [Next]_vars
      => [ManagerEnv \/ Contract!ContractNext]_contractVars
  BY ContractStep, ZenonT(30)
<1> QED
  BY <1>1, <1>2, <1>3, WorkerInvariant, PTL DEF Spec, KeepsContract

-----------------------------------------------------------------------------
(* The bound of the send buffer *)

LOCAL INSTANCE FiniteSetTheorems

\* The buffer has room for what the rest of the round may still queue.
Headroom == Len(out) + Cardinality(Credit) <= SendCap - 1 + 2 * IdLimit

\* The requests and streams are finitely many, two streams to a request.
LEMMA CreditFinite ==
    /\ IsFiniteSet(Credit) /\ Cardinality(Credit) \in Nat
    /\ Cardinality(Credit) <= 2 * IdLimit
<1>1. IsFiniteSet(Ids) /\ Cardinality(Ids) = IdLimit
  BY FS_Interval, ProtocolAssumption, SMTT(30) DEF Ids
<1>2. IsFiniteSet(Streams) /\ Cardinality(Streams) = 2
  <2>1. IsFiniteSet({"STDERR"}) /\ Cardinality({"STDERR"}) = 1
    BY FS_Singleton, ZenonT(30)
  <2>2. Streams = {"STDERR"} \cup {"STDOUT"} /\ "STDOUT" \notin {"STDERR"}
    BY ZenonT(30) DEF Streams
  <2> QED
    BY <2>1, <2>2, FS_AddElement, SMTT(30)
<1>3. IsFiniteSet(Ids \X Streams) /\ Cardinality(Ids \X Streams) = Cardinality(Ids) * 2
  BY <1>1, <1>2, FS_Product, ZenonT(30)
<1>4. Credit \in SUBSET (Ids \X Streams)
  BY ZenonT(30) DEF Credit
<1>5. IsFiniteSet(Credit) /\ Cardinality(Credit) <= Cardinality(Ids \X Streams)
  BY <1>3, <1>4, FS_Subset, ZenonT(30)
<1>6. Cardinality(Credit) \in Nat
  BY <1>5, FS_CardinalityType, ZenonT(30)
<1>7. IdLimit * 2 = 2 * IdLimit
  BY ProtocolAssumption, SMTT(30)
<1> QED
  BY <1>1, <1>3, <1>5, <1>6, <1>7, ZenonT(30)

\* A step that spends credit for what it queues keeps the headroom.
LEMMA HeadroomKept ==
    ASSUME TypeInv, TypeInv', Headroom, SpendsCredit
    PROVE  Headroom'
<1>1. Len(out) \in Nat /\ Len(out') \in Nat /\ SendCap \in Nat /\ IdLimit \in Nat
  <2>1. Len(out) \in Nat /\ Len(out') \in Nat
    BY DEF TypeInv
  <2>2. SendCap \in Nat /\ IdLimit \in Nat
    BY WorkerAssumption, ProtocolAssumption, SMTT(30)
  <2> QED
    BY <2>1, <2>2, ZenonT(30)
<1>2. IsFiniteSet(Credit) /\ Cardinality(Credit) \in Nat
  BY CreditFinite, ZenonT(30)
<1>3. Cardinality(Credit)' \in Nat /\ Cardinality(Credit)' <= 2 * IdLimit
  <2>1. (Cardinality(Credit) \in Nat /\ Cardinality(Credit) <= 2 * IdLimit)'
    BY CreditFinite, PTL
  <2> QED
    BY <2>1, ZenonT(30)
<1>4. CASE Credit' \subseteq Credit /\ Len(out') <= Len(out)
  <2>1. Credit' \in SUBSET Credit
    BY <1>4, ZenonT(30)
  <2>2. Cardinality(Credit') <= Cardinality(Credit)
    BY <1>2, <2>1, FS_Subset, ZenonT(30)
  <2> QED
    BY <1>1, <1>2, <1>3, <1>4, <2>2, SMTT(30) DEF Headroom
<1>5. ASSUME NEW t \in Credit, Credit' \subseteq Credit \ {t}, Len(out') <= Len(out) + 1
      PROVE  Headroom'
  <2>1. Credit' \in SUBSET (Credit \ {t})
    BY <1>5, ZenonT(30)
  <2>2. IsFiniteSet(Credit \ {t}) /\ Cardinality(Credit \ {t}) = Cardinality(Credit) - 1
    BY <1>2, FS_RemoveElement, ZenonT(30)
  <2>3. Cardinality(Credit') <= Cardinality(Credit \ {t})
    BY <2>1, <2>2, FS_Subset, ZenonT(30)
  <2> QED
    BY <1>1, <1>2, <1>3, <1>5, <2>2, <2>3, SMTT(30) DEF Headroom
<1>6. CASE Len(out') < SendCap
  BY <1>1, <1>3, <1>6, SMTT(30) DEF Headroom
<1> QED
  BY <1>4, <1>5, <1>6, ZenonT(30) DEF SpendsCredit

\* However slowly the manager reads, the send buffer exceeds _SEND_BUF_CAP
\* by at most two frames for a request.
THEOREM WorkerBufferBounded == Spec => []SendBufferBounded
<1>1. Init => Headroom
  <2> SUFFICES ASSUME Init PROVE Headroom
    OBVIOUS
  <2>1. Credit = {} /\ Len(out) = 0
    BY DEF Init, Credit, NoWait, Ids
  <2>2. Cardinality(Credit) = 0
    BY <2>1, FS_EmptySet, ZenonT(30)
  <2>3. 0 <= SendCap - 1 + 2 * IdLimit
    BY WorkerAssumption, ProtocolAssumption, SMTT(30)
  <2> QED
    BY <2>1, <2>2, <2>3, SMTT(30) DEF Headroom
<1>2. WorkerInv /\ WorkerInv' /\ Headroom /\ [Next]_vars => Headroom'
  BY StepKeeps, HeadroomKept, ZenonT(30) DEF WorkerInv
<1>3. WorkerInv /\ Headroom => SendBufferBounded
  <2> SUFFICES ASSUME TypeInv, Headroom PROVE SendBufferBounded
    BY ZenonT(30) DEF WorkerInv
  <2>1. Cardinality(Credit) \in Nat
    BY CreditFinite, ZenonT(30)
  <2>2. Len(out) \in Nat /\ SendCap \in Nat /\ IdLimit \in Nat
    BY WorkerAssumption, ProtocolAssumption, SMTT(30) DEF TypeInv
  <2> QED
    BY <2>1, <2>2, SMTT(30) DEF Headroom, SendBufferBounded
<1> QED
  BY <1>1, <1>2, <1>3, WorkerInvariant, PTL DEF Spec
=============================================================================
