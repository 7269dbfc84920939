---------------------------- MODULE ZygoteWorker ----------------------------
(***************************************************************************)
(* The zygote worker (zygote_worker.py): a single-threaded select() loop   *)
(* that forks a sandbox child for every RUN frame, forwards what the       *)
(* children write to their pipes, and reaps them.  The kernel objects the  *)
(* loop works on are part of the state: the worker's fd table, pipes,      *)
(* processes with reusable pids.  The manager at the other end sends RUN   *)
(* once and KILL up to MaxKills times per request, and reads when it       *)
(* likes.  A pipe holds PipeCap units; a read takes all of them (a pipe    *)
(* and a read are 65536 bytes each).                                       *)
(***************************************************************************)
EXTENDS ZygoteProtocol, FiniteSets, FiniteSetsExt

CONSTANTS
    Fds,         \* fd numbers for the read ends of pipes, a set of naturals
    Pids,        \* process ids, without 0
    PipeCap,     \* bound: units a pipe holds
    SendCap,     \* _SEND_BUF_CAP, in frames
    SockOutCap,  \* bound: frames the kernel queues towards the manager
    MaxWrites,   \* bound: writes of one child
    MaxKills,    \* bound: KILL frames for one request
    ExitCodes,   \* exit codes a child may choose
    ForkFails,   \* pipe() or fork() may fail
    ReadErrors   \* the requests whose pipes os.read may fail on

ASSUME WorkerAssumption ==
    /\ Fds \subseteq Nat \ {0} /\ IsFiniteSet(Fds)
    /\ 0 \notin Pids /\ IsFiniteSet(Pids)
    /\ {PipeCap, SendCap, SockOutCap} \subseteq Nat \ {0}
    /\ {MaxWrites, MaxKills} \subseteq Nat
    /\ ExitCodes \subseteq Int
    /\ ForkFails \in BOOLEAN
    /\ ReadErrors \subseteq Ids

VARIABLES
    recv_buf, out,  \* the worker's buffers, in frames
    reqs, fd_map,   \* its dictionaries: 0 as pid or id where there is no key
    wpc, todo,      \* position in the loop; ready pipe fds not yet handled
    waiting,        \* the request and child of the blocking waitpid
    fdt,            \* kernel: the pipe behind each fd of the worker
    pipe,           \* kernel: contents, and whether a write end is open
    proc,           \* kernel: the process table
    code,           \* exit code of each child, once it is exiting
    asked, kills,   \* history: RUN sent, number of KILLs sent
    written,        \* history: units each child wrote, on each stream
    wrote,          \* history: frames and units forwarded, note included
    fate            \* history: "none", "forked", "failed", "done"; see kid

loopVars == <<recv_buf, out, reqs, fd_map, wpc, todo, waiting>>
kernelVars == <<fdt, pipe, proc, code>>
histVars == <<asked, kills, written, wrote, fate>>
vars == <<socketVars, loopVars, kernelVars, histVars>>

NoPipe == <<0, "STDOUT">>
SIGKILLED == -9

NoWait == [id |-> 0, pid |-> 0]
FreePid == [st |-> "free", id |-> 0]
NoReq == [pid |-> 0, open |-> {}]

\* Zygote.__init__
Init ==
    /\ SocketInit
    /\ recv_buf = <<>> /\ out = <<>>
    /\ reqs = [id \in Ids |-> NoReq]
    /\ fd_map = [fd \in Fds |-> NoPipe] /\ fdt = [fd \in Fds |-> NoPipe]
    /\ wpc = "select" /\ todo = {} /\ waiting = NoWait
    /\ pipe = [id \in Ids |-> [s \in Streams |-> [n |-> 0, w |-> FALSE]]]
    /\ proc = [p \in Pids |-> FreePid]
    /\ code = [id \in Ids |-> 0]
    /\ asked = {} /\ kills = [id \in Ids |-> 0]
    /\ written = [id \in Ids |-> [s \in Streams |-> 0]]
    /\ wrote = [id \in Ids |-> [frames |-> 0, STDOUT |-> 0, STDERR |-> 0]]
    /\ fate = [id \in Ids |-> "none"]

-----------------------------------------------------------------------------
(* The manager's end of the socket *)

ManagerRun(id) ==
    /\ id \notin asked
    /\ \A j \in Ids : j < id => j \in asked
    /\ SendRequest("RUN", id)
    /\ asked' = asked \cup {id}
    /\ UNCHANGED <<loopVars, kernelVars, kills, written, wrote, fate>>

ManagerKill(id) ==
    /\ id \in asked
    /\ kills[id] < MaxKills
    /\ SendRequest("KILL", id)
    /\ kills' = [kills EXCEPT ![id] = @ + 1]
    /\ UNCHANGED <<loopVars, kernelVars, asked, written, wrote, fate>>

ManagerRead ==
    /\ fromWorker # <<>>
    /\ fromWorker' = Tail(fromWorker)
    /\ UNCHANGED <<toWorker, workerOpen, loopVars, kernelVars, histVars>>

-----------------------------------------------------------------------------
(* The children.  An exiting process first gives up its files and only     *)
(* then becomes a zombie that waitpid can see.                             *)

CloseOutput(id) ==
    [pipe EXCEPT ![id] = [s \in Streams |-> [n |-> pipe[id][s].n, w |-> FALSE]]]

ReadEndOpen(id, s) == \E fd \in Fds : fdt[fd] = <<id, s>>

ChildWrite(p, s) ==
    LET id == proc[p].id
    IN  /\ proc[p].st = "running"
        /\ pipe[id][s].w /\ pipe[id][s].n < PipeCap /\ ReadEndOpen(id, s)
        /\ written[id]["STDOUT"] + written[id]["STDERR"] < MaxWrites
        /\ pipe' = [pipe EXCEPT ![id][s].n = @ + 1]
        /\ written' = [written EXCEPT ![id][s] = @ + 1]
        /\ UNCHANGED <<socketVars, loopVars, fdt, proc, code, asked, kills, wrote, fate>>

ChildClose(p, s) ==
    /\ proc[p].st = "running"
    /\ pipe[proc[p].id][s].w
    /\ pipe' = [pipe EXCEPT ![proc[p].id][s].w = FALSE]
    /\ UNCHANGED <<socketVars, loopVars, fdt, proc, code, histVars>>

ChildExit(p) ==
    /\ proc[p].st = "running"
    /\ proc' = [proc EXCEPT ![p].st = "exiting"]
    /\ pipe' = CloseOutput(proc[p].id)
    /\ \E x \in ExitCodes : code' = [code EXCEPT ![proc[p].id] = x]
    /\ UNCHANGED <<socketVars, loopVars, fdt, histVars>>

ChildZombie(p) ==
    /\ proc[p].st = "exiting"
    /\ proc' = [proc EXCEPT ![p].st = "zombie"]
    /\ UNCHANGED <<socketVars, loopVars, fdt, pipe, code, histVars>>

\* os.kill(p, SIGKILL): no effect on a process that is already exiting.
Kill(p) ==
    IF proc[p].st = "running"
    THEN /\ proc' = [proc EXCEPT ![p].st = "exiting"]
         /\ pipe' = CloseOutput(proc[p].id)
         /\ code' = [code EXCEPT ![proc[p].id] = SIGKILLED]
    ELSE UNCHANGED <<proc, pipe, code>>

-----------------------------------------------------------------------------
(* The event loop *)

\* _flush: hand the kernel as much of q as it takes, never waiting.
Transmit(q) ==
    LET k == Min({Len(q), SockOutCap - Len(fromWorker)})
    IN  /\ fromWorker' = fromWorker \o SubSeq(q, 1, k)
        /\ out' = SubSeq(q, k + 1, Len(q))

\* Mutant of Send: the frame overtakes those that wait in the buffer.
SendFirst(t, id, v) == Transmit(<<Reply(t, id, v)>> \o out)

\* _send: queue a frame, then flush.
Send(t, id, v) == Transmit(Append(out, Reply(t, id, v)))

\* The history of a request's output, after a frame of n units on stream s.
Forwarded(w, s, n) ==
    [frames |-> w.frames + 1,
     STDOUT |-> w.STDOUT + IF s = "STDOUT" THEN n ELSE 0,
     STDERR |-> w.STDERR + IF s = "STDERR" THEN n ELSE 0]

\* A read of the fd would not block: there is data, or no writer is left.
Ready(fd) == LET p == pipe[fdt[fd][1]][fdt[fd][2]] IN p.n > 0 \/ ~p.w

\* Mutant of PolledPipes: no back-pressure.
PolledAlways == {fd \in Fds : fd_map[fd] # NoPipe}

\* Children are only polled while the send buffer has headroom.
PolledPipes ==
    IF Len(out) < SendCap THEN {fd \in Fds : fd_map[fd] # NoPipe} ELSE {}

\* Mutant of Readable: every polled pipe is taken for a ready one.
ReadableAll == PolledPipes

\* What select() reports: the pipes and the control socket.
Readable == {fd \in PolledPipes : Ready(fd)}

\* Mutant of CtrlReadable: the back-pressure stops the control socket too.
CtrlReadableIfRoom == toWorker # <<>> /\ Len(out) < SendCap

CtrlReadable == toWorker # <<>>

\* select() returns, and the flush that precedes the handlers.
Select ==
    /\ wpc = "select"
    /\ CtrlReadable \/ Readable # {} \/ (out # <<>> /\ Len(fromWorker) < SockOutCap)
    /\ Transmit(out)
    /\ todo' = Readable
    /\ wpc' = IF CtrlReadable THEN "ctrl" ELSE "pipes"
    /\ UNCHANGED <<toWorker, workerOpen, recv_buf, reqs, fd_map, waiting,
                   kernelVars, histVars>>

\* _read_ctrl_frames: one recv, which ends anywhere in the stream.
Recv ==
    /\ wpc = "ctrl"
    /\ \E k \in 1..Len(toWorker) :
          /\ recv_buf' = recv_buf \o SubSeq(toWorker, 1, k)
          /\ toWorker' = SubSeq(toWorker, k + 1, Len(toWorker))
    /\ wpc' = "frames"
    /\ UNCHANGED <<fromWorker, workerOpen, out, reqs, fd_map, todo, waiting,
                   kernelVars, histVars>>

FreeFds == {fd \in Fds : fdt[fd] = NoPipe}
FreePids == {p \in Pids : proc[p].st = "free"}

TwoFdsFree == \E o, e \in FreeFds : o # e

Lowest(f, S) == f \in S /\ \A g \in S : f <= g

\* _handle_run in the parent: the kernel gives out the lowest fds and any
\* pid that is free.
Fork(id) ==
    \E p \in FreePids, o, e \in FreeFds :
        /\ Lowest(o, FreeFds) /\ Lowest(e, FreeFds \ {o})
        /\ proc' = [proc EXCEPT ![p] = [st |-> "running", id |-> id]]
        /\ pipe' = [pipe EXCEPT ![id] = [s \in Streams |-> [n |-> 0, w |-> TRUE]]]
        /\ fdt' = [fdt EXCEPT ![o] = <<id, "STDOUT">>, ![e] = <<id, "STDERR">>]
        /\ reqs' = [reqs EXCEPT ![id] = [pid |-> p, open |-> {o, e}]]
        /\ fd_map' = [fd_map EXCEPT ![o] = <<id, "STDOUT">>, ![e] = <<id, "STDERR">>]
        /\ fate' = [fate EXCEPT ![id] = "forked"]

\* The fd table after pipe() has given out the read ends in the set S, the
\* first of them for stdout.
PipesMade(id, S) ==
    [fd \in Fds |->
        IF fd \notin S THEN fdt[fd]
        ELSE <<id, IF Lowest(fd, S) THEN "STDOUT" ELSE "STDERR">>]

\* Mutant of CloseAll: only the error of fork() is provided for, when both
\* pipes are there.
CloseBoth(table, S) ==
    [fd \in Fds |-> IF fd \in S /\ Cardinality(S) = 2 THEN NoPipe ELSE table[fd]]

\* The except clause of _handle_run: whatever was opened is closed.
CloseAll(table, S) == [fd \in Fds |-> IF fd \in S THEN NoPipe ELSE table[fd]]

\* The first or the second pipe(), or fork(), raises: none, one or both of
\* the pipes are there to be closed.
ForkRaises(id) ==
    /\ ForkFails \/ FreePids = {} \/ ~TwoFdsFree
    /\ \E S \in SUBSET FreeFds :
          /\ Cardinality(S) <= 2
          /\ \A f \in S, g \in FreeFds \ S : f < g
          /\ fdt' = CloseAll(PipesMade(id, S), S)
    /\ fate' = [fate EXCEPT ![id] = "failed"]
    /\ UNCHANGED <<proc, pipe, reqs, fd_map>>

\* RUN: the exception of a failed attempt leaves the loop over the frames
\* that were received.
HandleRun(id) ==
    /\ wpc = "frames"
    /\ recv_buf # <<>>
    /\ Head(recv_buf) = Request("RUN", id)
    /\ recv_buf' = Tail(recv_buf)
    /\ \/ Fork(id) /\ UNCHANGED wpc
       \/ ForkRaises(id) /\ wpc' = "pipes"
    /\ UNCHANGED <<socketVars, out, todo, waiting, code, asked, kills, written, wrote>>

\* Mutant of HandleKill: the request is forgotten once it is killed.
HandleKillForgets(id) ==
    /\ wpc = "frames"
    /\ recv_buf # <<>>
    /\ Head(recv_buf) = Request("KILL", id)
    /\ recv_buf' = Tail(recv_buf)
    /\ IF reqs[id].pid # 0 THEN Kill(reqs[id].pid) ELSE UNCHANGED <<proc, pipe, code>>
    /\ reqs' = [reqs EXCEPT ![id].pid = 0]
    /\ UNCHANGED <<socketVars, out, fd_map, wpc, todo, waiting, fdt, histVars>>

\* _handle_kill: a request that is not there any more is ignored.
HandleKill(id) ==
    /\ wpc = "frames"
    /\ recv_buf # <<>>
    /\ Head(recv_buf) = Request("KILL", id)
    /\ recv_buf' = Tail(recv_buf)
    /\ IF reqs[id].pid # 0 THEN Kill(reqs[id].pid) ELSE UNCHANGED <<proc, pipe, code>>
    /\ UNCHANGED <<socketVars, out, reqs, fd_map, wpc, todo, waiting, fdt, histVars>>

FramesDone ==
    /\ wpc = "frames"
    /\ recv_buf = <<>>
    /\ wpc' = "pipes"
    /\ UNCHANGED <<socketVars, recv_buf, out, reqs, fd_map, todo, waiting,
                   kernelVars, histVars>>

\* Mutant of CloseFd: the fd is closed but keeps its entry in the map.
CloseFdOnly(fd) ==
    /\ fdt' = [fdt EXCEPT ![fd] = NoPipe]
    /\ UNCHANGED fd_map

\* os.close(fd) and its removal from fd_map.
CloseFd(fd) ==
    /\ fdt' = [fdt EXCEPT ![fd] = NoPipe]
    /\ fd_map' = [fd_map EXCEPT ![fd] = NoPipe]

\* Mutant of Forget: the request stays after its child is reaped.
ForgetOpenOnly(id) == reqs' = [reqs EXCEPT ![id].open = {}]

\* reqs.pop(req_id)
Forget(id) == reqs' = [reqs EXCEPT ![id] = NoReq]

\* _teardown_pipe_fd up to the first waitpid: with both pipes closed the
\* request is over.  WNOHANG reaps a zombie; any other child gets the note
\* on stderr, SIGKILL and a blocking waitpid.
Teardown(fd) ==
    LET id == fd_map[fd][1]
        pid == reqs[id].pid
        open == reqs[id].open \ {fd}
    IN  /\ CloseFd(fd)
        /\ IF open # {}
           THEN /\ reqs' = [reqs EXCEPT ![id].open = open]
                /\ UNCHANGED <<wpc, waiting, proc, pipe, code, wrote, fate, out, fromWorker>>
           ELSE /\ Forget(id)
                /\ IF proc[pid].st = "zombie"
                   THEN /\ proc' = [proc EXCEPT ![pid] = FreePid]
                        /\ Send("DONE", id, code[id])
                        /\ fate' = [fate EXCEPT ![id] = "done"]
                        /\ UNCHANGED <<wpc, waiting, pipe, code, wrote>>
                   ELSE /\ Kill(pid)
                        /\ Send("STDERR", id, 1)
                        /\ wrote' = [wrote EXCEPT ![id] = Forwarded(@, "STDERR", 1)]
                        /\ wpc' = "wait"
                        /\ waiting' = [id |-> id, pid |-> pid]
                        /\ UNCHANGED fate

\* _on_pipe_readable with data: one read, forwarded.
ForwardOutput(fd) ==
    LET id == fdt[fd][1]
        s == fdt[fd][2]
        n == pipe[id][s].n
    IN  /\ n > 0
        /\ pipe' = [pipe EXCEPT ![id][s].n = 0]
        /\ Send(fd_map[fd][2], fd_map[fd][1], n)
        /\ wrote' = [wrote EXCEPT ![fd_map[fd][1]] = Forwarded(@, fd_map[fd][2], n)]
        /\ UNCHANGED <<reqs, fd_map, wpc, waiting, fdt, proc, code, fate>>

\* Mutant of AtEof: a pipe without a writer is taken for an empty one.
AtHangup(fd) == ~pipe[fdt[fd][1]][fdt[fd][2]].w

\* os.read of the fd returns no data.
AtEof(fd) == pipe[fdt[fd][1]][fdt[fd][2]] = [n |-> 0, w |-> FALSE]

\* One ready pipe: data, end of file, or an error that is taken for it.
HandlePipe(fd) ==
    /\ wpc = "pipes"
    /\ fd \in todo
    /\ todo' = todo \ {fd}
    /\ \/ ForwardOutput(fd)
       \/ /\ fdt[fd][1] \in ReadErrors \/ AtEof(fd)
          /\ Teardown(fd)
    /\ UNCHANGED <<toWorker, workerOpen, recv_buf, asked, kills, written>>

\* The blocking waitpid of _teardown_pipe_fd returns.
Reap ==
    /\ wpc = "wait"
    /\ proc[waiting.pid].st = "zombie"
    /\ proc' = [proc EXCEPT ![waiting.pid] = FreePid]
    /\ Send("DONE", waiting.id, code[waiting.id])
    /\ fate' = [fate EXCEPT ![waiting.id] = "done"]
    /\ waiting' = NoWait
    /\ wpc' = "pipes"
    /\ UNCHANGED <<toWorker, workerOpen, recv_buf, reqs, fd_map, todo, fdt, pipe,
                   code, asked, kills, written, wrote>>

PipesDone ==
    /\ wpc = "pipes"
    /\ todo = {}
    /\ wpc' = "select"
    /\ UNCHANGED <<socketVars, recv_buf, out, reqs, fd_map, todo, waiting,
                   kernelVars, histVars>>

Loop ==
    \/ Select \/ Recv \/ FramesDone \/ Reap \/ PipesDone
    \/ \E id \in Ids : HandleRun(id) \/ HandleKill(id)
    \/ \E fd \in Fds : HandlePipe(fd)

Next ==
    \/ Loop
    \/ \E id \in Ids : ManagerRun(id) \/ ManagerKill(id)
    \/ ManagerRead
    \/ \E p \in Pids :
          \/ ChildExit(p) \/ ChildZombie(p)
          \/ \E s \in Streams : ChildWrite(p, s) \/ ChildClose(p, s)

Spec == Init /\ [][Next]_vars

(***************************************************************************)
(* The worker is scheduled, and an exiting process becomes a zombie.       *)
(* Neither the children nor the manager owe the worker anything.           *)
(***************************************************************************)
FairSpec == Spec /\ WF_vars(Loop) /\ \A p \in Pids : WF_vars(ChildZombie(p))

-----------------------------------------------------------------------------
(* Properties *)

\* The pid the worker holds for a request is that request's child, not yet
\* reaped: SIGKILL never reaches a process that has taken over the pid.
PidsAreOwn ==
    /\ \A id \in Ids : reqs[id].pid # 0 =>
          proc[reqs[id].pid].id = id /\ proc[reqs[id].pid].st # "free"
    /\ waiting.pid # 0 =>
          proc[waiting.pid].id = waiting.id /\ proc[waiting.pid].st # "free"

\* fd_map and the open sets agree with the kernel's table: no fd is leaked,
\* and none is taken for the pipe of another request after reuse.
FdsAreOwn ==
    /\ fd_map = fdt
    /\ \A id \in Ids : reqs[id].open = {fd \in Fds : fd_map[fd][1] = id}

\* The loop never calls os.read, which blocks, on a pipe that has neither
\* data nor end of file: what select() reported still holds when it is used.
ReadNeverBlocks == wpc \in {"ctrl", "frames", "pipes", "wait"} => \A fd \in todo : Ready(fd)

\* When DONE is queued everything the child wrote has been forwarded, unless
\* a read of its pipes failed.
OutputComplete ==
    \A id \in Ids : fate[id] = "done" /\ id \notin ReadErrors =>
        /\ wrote[id].STDOUT = written[id]["STDOUT"]
        /\ wrote[id].STDERR - written[id]["STDERR"] \in {0, 1}

\* Every process that is not free belongs to a request the worker still
\* tracks: no zombie is forgotten.
NoForgottenChild ==
    \A p \in Pids : proc[p].st # "free" =>
        reqs[proc[p].id].pid = p \/ waiting.pid = p

\* The send buffer exceeds its cap by at most two frames for a request:
\* what was ready when the cap was reached, and the last words and DONE.
SendBufferBounded == Len(out) <= SendCap - 1 + 2 * IdLimit

Unhandled(t, id) ==
    \E q \in {recv_buf, toWorker} : \E i \in DOMAIN q : q[i] = Request(t, id)

\* The loop sleeps although it has received a complete control frame.
LeftBehind == wpc = "select" /\ recv_buf # <<>>

\* The loop does not go to sleep on a complete control frame.
NoFrameLeftBehind == ~LeftBehind

\* A KILL takes effect even if the manager reads nothing and the send
\* buffer is full, unless a failed fork has left frames behind.
KillTakesEffect ==
    \A id \in Ids : Unhandled("KILL", id) ~>
        \/ LeftBehind
        \/ ~Unhandled("KILL", id) /\ \A p \in Pids : proc[p] # [st |-> "running", id |-> id]

-----------------------------------------------------------------------------
(* The worker keeps its contract. *)

kid == [id \in Ids |->
          IF fate[id] # "forked" THEN fate[id]
          ELSE IF waiting.id = id THEN "noted"
          ELSE IF \E p \in Pids : proc[p] = [st |-> "running", id |-> id] THEN "live"
          ELSE "dead"]

Contract == INSTANCE WorkerContract WITH
    MaxFrame <- PipeCap, Crashes <- FALSE,
    toWorker <- recv_buf \o toWorker, fromWorker <- fromWorker \o out

ManagerEnv == ManagerRead \/ \E id \in Ids : ManagerRun(id) \/ ManagerKill(id)

contractVars ==
    <<kid, code, wrote, recv_buf \o toWorker, fromWorker \o out, workerOpen>>

\* Every step of the worker and of its children is a step of the contract;
\* a step of the manager changes only what is on the socket.
KeepsContract ==
    /\ Contract!ContractInit
    /\ [][ManagerEnv \/ Contract!ContractNext]_contractVars
=============================================================================
