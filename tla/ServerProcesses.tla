--------------------------- MODULE ServerProcesses ---------------------------
(***************************************************************************)
(* Who holds the two ends of each manager's socket pair.  The pair is made *)
(* without close-on-exec: every process the server starts later inherits   *)
(* the server's ends, the worker even the server's end of its own pair.    *)
(* read_loop finds end of file, and with it the death of the worker, only  *)
(* when no process has the worker's end any more: not a sandboxed child    *)
(* that was forked and has not swept its descriptors, and not a pip        *)
(* process that another thread of the server (the dependencies API)        *)
(* started between socketpair and close.                                   *)
(***************************************************************************)
EXTENDS ZygoteRestart

VARIABLES
    server_fd,  \* of each manager, the processes with the server's end
    worker_fd   \* of each manager, the processes with the worker's end

Server == <<"server", 0>>
Pip == <<"pip", 0>>          \* started by the dependencies API, in another thread
Worker(g) == <<"worker", g>>
Child(g) == <<"child", g>>   \* a fork of worker g, before closerange

allVars == <<vars, server_fd, worker_fd>>

FdsInit ==
    /\ Init
    /\ server_fd = [g \in Gens |-> {}]
    /\ worker_fd = [g \in Gens |-> {}]

Spawned == {g \in Gens : worker[g] = "none" /\ worker'[g] # "none"}
Dead == {Worker(g) : g \in {h \in Gens : worker'[h] \in {"zombie", "reaped"}}}
        \cup (IF main' = "down" THEN {Server} ELSE {})

\* The server closes its end: Drop, or the stream of a manager that was not
\* made.
Closed(g) == worker'[g] \in {"reaped", "stray"}

\* A process of the set P has inherited the server's end of manager g.
Inherit(g, P) == server_fd[g] \cup (IF Server \in server_fd[g] THEN P ELSE {})

\* What a step of the server or of a worker does to the descriptors: of the
\* new pair, the worker has both ends, the server its own, and a process of
\* the set late, started in the same instant, has both.
Descriptors(late) ==
    LET new == {Worker(g) : g \in Spawned}
    IN  /\ server_fd' = [g \in Gens |->
              (IF g \in Spawned THEN {Server, Worker(g)} \cup late ELSE Inherit(g, new \cup late))
                 \ (Dead \cup (IF Closed(g) THEN {Server} ELSE {}))]
        /\ worker_fd' = [g \in Gens |->
              (IF g \in Spawned THEN {Worker(g)} \cup late ELSE worker_fd[g]) \ Dead]

PipRuns == \E g \in Gens : Pip \in server_fd[g] \cup worker_fd[g]

\* With a pip process started in between, or without.
FdsStep ==
    \/ Descriptors({})
    \/ Spawned # {} /\ main = "serve" /\ ~PipRuns /\ Descriptors({Pip})

Without(fds, p) == [g \in Gens |-> fds[g] \ {p}]

PipEnds ==
    /\ PipRuns
    /\ server_fd' = Without(server_fd, Pip)
    /\ worker_fd' = Without(worker_fd, Pip)
    /\ UNCHANGED vars

\* fork in _handle_run copies every descriptor of the worker.
ForkChild(g) ==
    /\ worker[g] = "alive"
    /\ Child(g) \notin worker_fd[g]
    /\ server_fd' = [h \in Gens |->
          IF Worker(g) \in server_fd[h] THEN server_fd[h] \cup {Child(g)} ELSE server_fd[h]]
    /\ worker_fd' = [worker_fd EXCEPT ![g] = @ \cup {Child(g)}]
    /\ UNCHANGED vars

\* Mutant of CloseRange: the sweep spares the control socket.
CloseRangeSparing(g) ==
    /\ Child(g) \in worker_fd[g] /\ \E h \in Gens : Child(g) \in server_fd[h]
    /\ server_fd' = Without(server_fd, Child(g))
    /\ UNCHANGED <<vars, worker_fd>>

\* The sweep of _child_exec, or the end of the child before it.
CloseRange(g) ==
    /\ Child(g) \in worker_fd[g]
    /\ server_fd' = Without(server_fd, Child(g))
    /\ worker_fd' = Without(worker_fd, Child(g))
    /\ UNCHANGED vars

FdsNext ==
    \/ Next /\ FdsStep
    \/ PipEnds
    \/ \E g \in Gens : ForkChild(g) \/ CloseRange(g)

\* recv on the server's end returns nothing.
AtEof(g) == worker_fd[g] = {}

(***************************************************************************)
(* Every task that is ready is polled; requests without a preload keep     *)
(* coming and starting an interpreter does not fail forever; a forked      *)
(* child gets to its sweep, pip ends; read_loop sees end of file; a worker *)
(* whose server's end is held by no process exits.                         *)
(***************************************************************************)
FairSpec ==
    /\ FdsInit /\ [][FdsNext]_allVars
    /\ WF_vars(MainStep)
    /\ \A r \in Requests :
          /\ WF_vars(RequestStep(r))
          /\ SF_vars(main = "serve" /\ GetZygote(r) /\ arc'[r] # 0)
          /\ WF_vars(TaskStep(r))
          /\ SF_vars(main = "serve" /\ TaskBuild(r))
    /\ \A g \in Gens :
          /\ WF_vars(AtEof(g) /\ ReaderStops(g))
          /\ WF_vars(server_fd[g] = {} /\ WorkerDies(g))
          /\ WF_allVars(CloseRange(g))
    /\ WF_allVars(PipEnds)

-----------------------------------------------------------------------------

Healthy(g) == g \in running /\ worker[g] = "alive"

\* As long as managers can be built, requests come and the server serves, a
\* zygote whose worker died or whose reader stopped is replaced by a healthy
\* one: no inherited descriptor keeps the death of a worker from being seen
\* for good.
Recovers ==
    (main = "serve" /\ ZYGOTE # 0 /\ ~Healthy(ZYGOTE))
       ~> (Healthy(ZYGOTE) \/ (built = MaxGen /\ ~Healthy(MaxGen)) \/ main = "down")

\* "Control socket closed -> server gone" (zygote_worker.py:212): a worker
\* whose server has closed its end, or is gone, sees it and exits.
WorkerFollowsServer ==
    \A g \in Gens :
       (worker[g] = "alive" /\ Server \notin server_fd[g]) ~> worker[g] # "alive"
=============================================================================
