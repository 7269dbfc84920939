---------------------------- MODULE ZygoteRestart ----------------------------
(***************************************************************************)
(* The life of zygote managers in the server (main.rs) and the choice of a *)
(* path by a Python request (python.rs): ZYGOTE holds the installed        *)
(* manager behind a lock, requests clone the Arc out of it, and a request  *)
(* that finds the manager dead runs on the slow path and asks for a        *)
(* restart, which a compare-and-swap gate makes single-flight.  The last   *)
(* reference to go drops the manager, and Drop kills and reaps its worker. *)
(***************************************************************************)
EXTENDS Startup

CONSTANTS
    Requests,  \* worker tasks of the queue; each serves request after request
    MaxGen     \* bound: managers built in a run of the server

ASSUME RestartAssumption == MaxGen \in Nat \ {0}

VARIABLES
    ZYGOTE,      \* the installed manager, 0 for None
    RESTARTING,  \* ZYGOTE_RESTARTING, the gate
    built,       \* managers built so far: their names are 1..built
    running,     \* the managers whose is_running() is true
    worker,      \* its worker process
    rpc, arc,    \* of each request: its position, the Arc it holds
    tpc, new_z   \* of the restart task a request spawned: position, its manager

Gens == 1..MaxGen

vars == <<startupVars, ZYGOTE, RESTARTING, built, running, worker, rpc, arc, tpc, new_z>>

TypeOK ==
    /\ StartupOK
    /\ ZYGOTE \in 0..MaxGen
    /\ RESTARTING \in BOOLEAN
    /\ built \in 0..MaxGen
    /\ running \in SUBSET Gens
    /\ worker \in [Gens -> {"none", "alive", "zombie", "reaped", "stray"}]
    /\ rpc \in [Requests -> {"idle", "got", "run", "ask", "slow"}]
    /\ arc \in [Requests -> 0..MaxGen]
    /\ tpc \in [Requests -> {"none", "check", "build", "swap", "end"}]
    /\ new_z \in [Requests -> 0..MaxGen]

Init ==
    /\ StartupInit
    /\ ZYGOTE = 0 /\ RESTARTING = FALSE
    /\ built = 0 /\ running = {}
    /\ worker = [g \in Gens |-> "none"]
    /\ rpc = [r \in Requests |-> "idle"]
    /\ arc = [r \in Requests |-> 0]
    /\ tpc = [r \in Requests |-> "none"]
    /\ new_z = [r \in Requests |-> 0]

\* ZygoteManager::new gives a manager with its worker process.
Built(g) ==
    /\ built' = g
    /\ running' = running \cup {g}
    /\ worker' = [worker EXCEPT ![g] = "alive"]

\* ZygoteManager::new fails: no socket pair or no interpreter, and nothing
\* is left of it; or the socket cannot be registered after the worker was
\* spawned, and the worker stays, with no manager to kill or reap it.
BuildFails ==
    /\ UNCHANGED running
    /\ \/ UNCHANGED <<built, worker>>
       \/ /\ built < MaxGen
          /\ built' = built + 1
          /\ worker' = [worker EXCEPT ![built + 1] = "stray"]

Installed(g) == ZYGOTE = g
HeldByRequest(g) == \E r \in Requests : arc[r] = g
HeldByTask(g) == \E r \in Requests : new_z[r] = g

\* Mutant of Drop: the worker is neither killed nor waited for.
DropFlagOnly(g) ==
    /\ running' = running \ {g}
    /\ UNCHANGED worker

\* Drop: mark stopped, kill the worker and wait for it.
Drop(g) ==
    /\ running' = running \ {g}
    /\ worker' = [worker EXCEPT ![g] = "reaped"]

\* Mutant of Release: the other requests' references do not count.
ReleaseAlone(r) ==
    /\ arc' = [arc EXCEPT ![r] = 0]
    /\ IF Installed(arc[r]) THEN UNCHANGED <<running, worker>> ELSE Drop(arc[r])

\* Request r lets go of its Arc; the last reference drops the manager.
Release(r) ==
    /\ arc' = [arc EXCEPT ![r] = 0]
    /\ IF Installed(arc[r]) \/ (\E q \in Requests \ {r} : arc[q] = arc[r])
       THEN UNCHANGED <<running, worker>>
       ELSE Drop(arc[r])

\* Mutant of AlreadyRunning: the installed manager is not looked at.
NeverRunning == FALSE

\* The check of the installed manager before the build and before the swap.
AlreadyRunning == ZYGOTE \in running

-----------------------------------------------------------------------------
(* main(), once the jail is ready: the first manager is built and installed, *)
(* cannot be built, or is not configured.                                    *)

StartZygote ==
    /\ main = "zygote" /\ python_zygote
    /\ \/ Built(1) /\ ZYGOTE' = 1
       \/ BuildFails /\ UNCHANGED ZYGOTE
    /\ main' = "bind"
    /\ UNCHANGED <<python_zygote, left, RESTARTING, rpc, arc, tpc, new_z>>

NoZygote ==
    /\ main = "zygote" /\ ~python_zygote
    /\ main' = "bind"
    /\ UNCHANGED <<python_zygote, left, ZYGOTE, RESTARTING, built, running, worker,
                   rpc, arc, tpc, new_z>>

\* The server ends, in any state: expect() on the configuration, an error of
\* bind, HttpServer::run returning at a signal, or a kill.  Its memory goes,
\* and nothing is dropped in order: the manager is in a static.
Stop ==
    /\ main # "down"
    /\ main' = "down"
    /\ ZYGOTE' = 0 /\ RESTARTING' = FALSE /\ running' = {}
    /\ rpc' = [r \in Requests |-> "idle"]
    /\ arc' = [r \in Requests |-> 0]
    /\ tpc' = [r \in Requests |-> "none"]
    /\ new_z' = [r \in Requests |-> 0]
    /\ UNCHANGED <<python_zygote, left, built, worker>>

MainStep ==
    \/ StartupStep /\ UNCHANGED <<ZYGOTE, RESTARTING, built, running, worker, rpc, arc, tpc, new_z>>
    \/ StartZygote
    \/ NoZygote

-----------------------------------------------------------------------------
(* python::run *)

\* A preload, or no manager, leads to the slow path; get_zygote() clones
\* the Arc under the read lock.
GetZygote(r) ==
    /\ rpc[r] = "idle"
    /\ \/ /\ rpc' = [rpc EXCEPT ![r] = "slow"]
          /\ UNCHANGED arc
       \/ /\ python_zygote /\ ZYGOTE # 0
          /\ arc' = [arc EXCEPT ![r] = ZYGOTE]
          /\ rpc' = [rpc EXCEPT ![r] = "got"]
    /\ UNCHANGED <<startupVars, ZYGOTE, RESTARTING, built, running, worker, tpc, new_z>>

ChoosePath(r) ==
    /\ rpc[r] = "got"
    /\ IF arc[r] \in running
       THEN /\ rpc' = [rpc EXCEPT ![r] = "run"]
            /\ UNCHANGED <<arc, running, worker>>
       ELSE /\ rpc' = [rpc EXCEPT ![r] = "ask"]
            /\ Release(r)
    /\ UNCHANGED <<startupVars, ZYGOTE, RESTARTING, built, tpc, new_z>>

\* zygote.run() returns, whatever it returns.
FastDone(r) ==
    /\ rpc[r] = "run"
    /\ rpc' = [rpc EXCEPT ![r] = "idle"]
    /\ Release(r)
    /\ UNCHANGED <<startupVars, ZYGOTE, RESTARTING, built, tpc, new_z>>

\* Mutant of TryBegin: the gate is not tested.
TryBeginAlways == TRUE

\* try_begin_restart: the compare-and-swap.
TryBegin == ~RESTARTING

\* request_zygote_restart
AskRestart(r) ==
    /\ rpc[r] = "ask"
    /\ rpc' = [rpc EXCEPT ![r] = "slow"]
    /\ IF TryBegin
       THEN /\ RESTARTING' = TRUE
            /\ tpc' = [tpc EXCEPT ![r] = "check"]
       ELSE UNCHANGED <<RESTARTING, tpc>>
    /\ UNCHANGED <<startupVars, ZYGOTE, built, running, worker, arc, new_z>>

SlowDone(r) ==
    /\ rpc[r] = "slow"
    /\ rpc' = [rpc EXCEPT ![r] = "idle"]
    /\ UNCHANGED <<startupVars, ZYGOTE, RESTARTING, built, running, worker, arc, tpc, new_z>>

-----------------------------------------------------------------------------
(* try_restart_zygote, in the task spawned by request r *)

\* Mutant of TaskCheck: the installed manager is looked at only at the swap.
TaskCheckSkipped(r) ==
    /\ tpc[r] = "check"
    /\ tpc' = [tpc EXCEPT ![r] = "build"]
    /\ UNCHANGED <<startupVars, ZYGOTE, RESTARTING, built, running, worker, rpc, arc, new_z>>

TaskCheck(r) ==
    /\ tpc[r] = "check"
    /\ tpc' = [tpc EXCEPT ![r] = IF AlreadyRunning THEN "end" ELSE "build"]
    /\ UNCHANGED <<startupVars, ZYGOTE, RESTARTING, built, running, worker, rpc, arc, new_z>>

TaskBuild(r) ==
    /\ tpc[r] = "build"
    /\ built < MaxGen
    /\ Built(built + 1)
    /\ new_z' = [new_z EXCEPT ![r] = built + 1]
    /\ tpc' = [tpc EXCEPT ![r] = "swap"]
    /\ UNCHANGED <<startupVars, ZYGOTE, RESTARTING, rpc, arc>>

TaskBuildFails(r) ==
    /\ tpc[r] = "build"
    /\ BuildFails
    /\ tpc' = [tpc EXCEPT ![r] = "end"]
    /\ UNCHANGED <<startupVars, ZYGOTE, RESTARTING, rpc, arc, new_z>>

\* Under the write lock: install the new manager and let go of the old one,
\* or drop the new one if a live one is there.
TaskSwap(r) ==
    /\ tpc[r] = "swap"
    /\ tpc' = [tpc EXCEPT ![r] = "end"]
    /\ new_z' = [new_z EXCEPT ![r] = 0]
    /\ IF AlreadyRunning
       THEN Drop(new_z[r]) /\ UNCHANGED ZYGOTE
       ELSE /\ ZYGOTE' = new_z[r]
            /\ IF ZYGOTE = 0 \/ HeldByRequest(ZYGOTE)
               THEN UNCHANGED <<running, worker>>
               ELSE Drop(ZYGOTE)
    /\ UNCHANGED <<startupVars, RESTARTING, built, rpc, arc>>

\* end_restart
TaskEnd(r) ==
    /\ tpc[r] = "end"
    /\ tpc' = [tpc EXCEPT ![r] = "none"]
    /\ RESTARTING' = FALSE
    /\ UNCHANGED <<startupVars, ZYGOTE, built, running, worker, rpc, arc, new_z>>

-----------------------------------------------------------------------------
(* The worker processes and the readers *)

WorkerDies(g) ==
    /\ worker[g] = "alive"
    /\ worker' = [worker EXCEPT ![g] = "zombie"]
    /\ UNCHANGED <<startupVars, ZYGOTE, RESTARTING, built, running, rpc, arc, tpc, new_z>>

\* read_loop ends: at end of file, or at an oversized frame of a live worker.
ReaderStops(g) ==
    /\ g \in running
    /\ running' = running \ {g}
    /\ UNCHANGED <<startupVars, ZYGOTE, RESTARTING, built, worker, rpc, arc, tpc, new_z>>

\* The tasks run as long as the server does.
RequestStep(r) ==
    /\ main = "serve"
    /\ GetZygote(r) \/ ChoosePath(r) \/ FastDone(r) \/ AskRestart(r) \/ SlowDone(r)

TaskStep(r) ==
    /\ main = "serve"
    /\ TaskCheck(r) \/ TaskBuild(r) \/ TaskBuildFails(r) \/ TaskSwap(r) \/ TaskEnd(r)

Next ==
    \/ MainStep
    \/ Stop
    \/ \E r \in Requests : RequestStep(r) \/ TaskStep(r)
    \/ \E g \in Gens : WorkerDies(g) \/ ReaderStops(g)

Spec == Init /\ [][Next]_vars

-----------------------------------------------------------------------------

Referenced(g) == Installed(g) \/ HeldByRequest(g) \/ HeldByTask(g)

\* While the server lives, no worker outlives its manager, as a runaway or
\* as a zombie: a process that is not reaped belongs to a manager someone
\* still holds.  The worker of a manager that was never made is not counted.
NoWorkerLeftOver ==
    main # "down" => \A g \in Gens : worker[g] \in {"alive", "zombie"} => Referenced(g)

\* A manager that anyone can still call has not been dropped under them.
NoUseAfterDrop == \A g \in Gens : Referenced(g) => worker[g] \in {"alive", "zombie"}

\* However many requests see the zygote dead, one restart task is at work,
\* and the gate is closed exactly while it is.
SingleFlight ==
    /\ \A q, r \in Requests : tpc[q] # "none" /\ tpc[r] # "none" => q = r
    /\ RESTARTING <=> \E r \in Requests : tpc[r] # "none"

\* A restart never replaces a manager that is running.
LiveNeverReplaced ==
    [][(ZYGOTE \in running /\ main' # "down") => ZYGOTE' = ZYGOTE]_vars

\* No interpreter is started only to be thrown away: from the check under
\* the read lock to the swap under the write lock, with the slow build in
\* between and no lock held, no running manager gets into the slot, although
\* requests may ask for a restart because of a manager replaced long ago.
NoNeedlessStart ==
    \A r \in Requests : tpc[r] \in {"build", "swap"} => ~AlreadyRunning

\* Nothing starts in the jail before main() has handled every path of it: no
\* worker process and no request.
JailFirst ==
    left > 0 =>
       /\ \A g \in Gens : worker[g] = "none"
       /\ \A r \in Requests : rpc[r] = "idle"
=============================================================================
