# A TLA+ verification of SandBoxRust

SandBoxRust runs untrusted Python and JavaScript for HTTP clients. Its hard
parts are concurrency (a job queue, a pool of sandboxes forked from a warm
Python process, the *zygote worker*, a server task that talks to that worker
over one socket, timeouts and kills, the replacement of a worker that died) and
confinement (a process must have gone through every step of its initialisation
before it runs a line of the client's code). This directory models those parts
in TLA+, checks them with TLC on small instances and proves their safety
invariants with TLAPS for instances of any size.

## The system

| Part | Source | State | Operations |
|---|---|---|---|
| Job queue | `server/src/queue.rs` | channel, `queue_depth`, worker tasks | `start`, `submit`, the task loop |
| Handlers | `server/src/handlers.rs`, `services.rs` | none | `run_code`, `run_python`, `run_nodejs`, classification of exit codes |
| Zygote manager | `server/src/services/zygote.rs` | `pending`, `next_id`, `running`, write lock, oneshot channels | `new`, `run`, `read_loop`, `Drop` |
| Wire protocol | `zygote.rs`, `runtime/pool/protocol.py` | the two directions of a Unix socket | RUN, KILL, STDOUT, STDERR, DONE |
| Zygote worker | `runtime/pool/zygote_worker.py` | `reqs`, `fd_map`, `_recv_buf`, `_out` | the `select` loop and its handlers |
| Start and restart | `server/src/main.rs`, `setup/`, `services/python.rs` | `ZYGOTE`, `ZYGOTE_RESTARTING`, `Arc` counts, inherited descriptors | `main`, `install_python_dependencies`, `prepare_environment`, `get_zygote`, `request_zygote_restart`, `try_restart_zygote` |
| Slow path | `services/python.rs`, `services/nodejs.rs` | one interpreter and three pipes | spawn, write stdin, collect, time out |
| Sandbox initialisation | `lib/sandbox_seccomp`, `runtime/prescript.*`, `_child_exec` | process attributes | `apply_landlock`, `init_seccomp`, the filter's verdicts |
| Encryption | `crypto.rs`, `_xor` | none | XOR with a repeating key |
| Configuration, API key | `config.rs`, `middleware.rs` | none at run time | `load`, `proxy_env_vars`, the comparison |

A request travels like this: `run_code` submits a job; a queue worker runs it;
a Python job without a preload takes the *fast path* if the installed manager
is running (`ZygoteManager::run` sends RUN, the worker forks a child and sends
back its output and DONE), every other job the *slow path* (a fresh
interpreter). A request that finds the manager dead asks for a restart. On
every path the new process first confines itself, with Landlock in
non-privileged mode and with `init_seccomp` in both, and then decrypts and runs
the program.

`#[actix_web::main]` gives a current-thread runtime: queue workers, `run`,
`read_loop` and the restart task interleave at awaits only, while `submit` runs
on the HTTP threads. The models also let tasks interleave between two accesses
to shared state without an await in between. They allow more behaviours than the runtime has, which
is sound for the properties that hold; the counterexamples of the violation
runs use only interleavings that really happen.

## Modules

| Module | Models |
|---|---|
| `ZygoteProtocol` | frames, the socket, blocking and failing writes |
| `ZygoteManager` | `run()` (one instance per element of `Callers`) and `read_loop` |
| `WorkerContract` | abstract: what the worker promises over the socket |
| `ZygotePool` | manager and contract composed; the pool's safety properties |
| `PoolLiveness` | extends `ZygotePool`: when the worker sleeps on frames it has received, fairness, liveness |
| `ZygoteWorker` | the `select` loop on a model of fds, pipes and pids; refines `WorkerContract` |
| `WorkerQueue` | `submit()` and the worker tasks |
| `Startup` | `main()`: configuration, dependencies, jail, bind |
| `ZygoteRestart` | extends `Startup`: installed manager, gate, restart task, reference counts, end of the server |
| `ServerProcesses` | extends `ZygoteRestart`: which process holds which end of a manager's socket pair |
| `ScriptRunner` | slow path and response codes |
| `ServerConfig` | `Config::load`, `proxy_env_vars`: operators over the names that are set |
| `SyscallFilter` | the syscall tables, the rules of `install_seccomp` and the verdict of the loaded filter |
| `SandboxInit` | `apply_landlock` and `init_seccomp`, one call a step, and what the kernel permits |
| `CodeCipher` | `encrypt_code`, `_xor` turn by turn, `decrypt` |
| `FrameStream` | `encode_frame` and `_read_ctrl_frames` on a stream of bytes that is cut anywhere |
| `Launch` | composes the five modules above: a request from the handler to the process that runs it |
| `ZygotePoolProofs`, `ZygoteWorkerProofs`, `WorkerQueueProofs`, `ZygoteRestartProofs`, `ScriptRunnerProofs` | theorems about the module of that name |
| `ZygoteSlotProofs` | extends `ZygotePoolProofs`: the number of sandboxes |
| `WorkerContractProofs` | extends `ZygoteWorkerProofs`: the refinement of `WorkerContract`, the send buffer |
| `LaunchProofs` | theorems about `CodeCipher`, about the way of a program through `Launch`, and about the process that runs it |
| `MC*` | instances for TLC (symmetry sets, inputs) |

Definitions keep the source's names where they can; `PROJECT.json` maps each
one to its lines. The main correspondences:

* **`ZygoteManager`.** `pc[c]` is the position of a call: `CheckRunning`
  (the early return), `Register` (id and map entry), `AcquireWrite`,
  `WriteRun`, then `Receive` or `GiveUp`, `AcquireWrite`, `WriteKill`. `rpc` is
  the position of `read_loop`: `ReadFrame` handles one frame under the map's
  guard, `CutOff`, `CutOffAcquire`, `CutOffKill` are the output limit,
  `MarkStopped`, `FailOne`, `ClearPending` its end. `doomed` is the set of
  entries the final iteration is sure to visit; entries inserted during it may
  be visited or missed. Output is counted, not represented: a
  result carries lengths, and its other kinds stand for the fixed messages.
* **`ZygoteWorker`.** `wpc` is the position in one turn of `serve()`. The
  ready list is a set, so the order of its pipes is arbitrary; the control
  socket comes first, as in `rlist`. `Fork` takes any free pid and the two
  lowest free fds, so both are reused; `ForkRaises` is the first or second
  `pipe()`, or `fork()`, raising, and the `except` clause that closes what was
  opened. `ReadErrors` are the requests whose pipes may fail to be read. An
  exiting process closes its files in one step and becomes a zombie in another,
  as in the kernel.
* **`PoolLiveness`.** In the contract a control frame is either handled or on its
  way; in the worker it may be in `_recv_buf`, where nothing looks at it until
  `select` reports more. `asleep` says that all frames not handled yet are
  there: a RUN that raises may leave the worker so (`Wakefulness`), the next
  frame wakes it.
* **`ZygoteRestart`.** Managers are numbered. `Release` and `TaskSwap` drop the
  last reference inside the step that gives it up, which is where Rust runs
  `Drop`. `main` is the position of `main()`; requests and restart tasks run
  while it is `"serve"`, and `Stop` ends the server in any state. `BuildFails`
  is `ZygoteManager::new` returning an error: before the worker exists, or after
  it was spawned, which leaves a worker without a manager (`"stray"`).
* **`ServerProcesses`.** `server_fd[g]` and `worker_fd[g]` are the processes
  with a copy of either end of manager `g`'s socket pair. `Descriptors` gives
  the effect of any step of `ZygoteRestart` on them; `ForkChild` and
  `CloseRange` are the fork of a sandbox and its sweep, `PipEnds` the end of a
  pip process of the dependencies API, which other threads may start between
  `socketpair` and `close`. End of file is no separate event: it is the absence
  of holders (`AtEof`).
* **`ScriptRunner`.** The interpreter loads its stdin to the end and then runs
  the script; it may write, close its stdin and die at any time. A script that
  cannot be written whole, because the interpreter is dead or has closed its
  stdin, ends the run (`WriteFails`), and a live interpreter is killed with it.
* **`Launch`.** `stage` is how far a request is: `Refuse` and `Route` are the
  handler and the runners up to the write or the spawn, `Transfer` and `Handle`
  the socket and the worker, `Confine` the calls of the bootstrap, `Booted` the
  test of its status, `Decode` the decryption, `UserCall` a system call of the
  client's code, `Timeout` the end of the server's patience. `fault` is one call
  of the initialisation that the kernel refuses in this run. System calls are
  names with the one argument the rules look at; the tables are complete.

Definitions whose comment begins with *Mutant of* are deliberate mistakes (a
dropped guard, an off-by-one, a missing removal). They are not part of any
specification; putting one in the place of its original must break the property
`PROJECT.json` names, which shows that the property depends on that code.

## Runs

`tlc -config <run>.cfg <module>`, two workers, none above three minutes.

| Run | Checks | Result |
|---|---|---|
| `pool_cap` | results are of the right child and complete; buffers bounded; one writer; every cut-off sandbox has its KILL under way | holds |
| `pool_returns` | with worker crashes, failing forks and children that never exit: every call returns, no pending entry leaks, "connection lost" is true | holds |
| `pool_stops` | with output up to and over the cap: the sandbox of a cut-off call stops, unless the worker sleeps on its KILL; at most `max_workers` sandboxes at once, apart from those over the output limit | holds |
| `worker_safety` | pids and fds are the request's own, no blocking read, no lost output, bounded buffer, no forgotten child | holds |
| `worker_errors` | under reuse of the only pid and fds, and failing system calls: the loop refines `WorkerContract`; KILL takes effect with a full send buffer | holds |
| `queue` | `queue_depth` exact, jobs run at most once, `submit` returns, and is refused once no task is left | holds |
| `restart` | nothing starts before the jail is ready; single flight; no leaked or prematurely dropped manager, no running manager replaced, no worker started beside a running one; a dead worker is noticed and replaced whatever inherited its socket | holds |
| `runner` | no interpreter left running, whole output, seccomp kill reported; runs return | holds |
| `launch` | the program arrives intact; it runs only in a confined process, with what configuration and request grant; the order of the initialisation is one the kernel accepts; the filter spares the interpreter itself; frames survive any division of the stream; processes end | holds |
| `server_gone` | `zygote_worker.py:212`: "Control socket closed -> server gone." | **violated** |
| `worker_left_behind` | `zygote_worker.py:451`: "keep serving other in-flight requests" | **violated** |
| `runner_codes` | `README.md:149-153`: 0 means success, 31 killed with SIGSYS, 500 an execution error | **violated** |

What the violations show:

* The socket pair is made without close-on-exec, so the worker inherits the
  server's end of its own socket and never sees it closed. A worker whose server
  was killed, or whose manager was never completed, stays. In normal operation
  `Drop` kills the worker and does not depend on it.
* After a failed `fork()` complete frames stay in `_recv_buf` until the manager
  sends something else.
* A script that fails, or is killed, with an empty stderr is reported as a
  success. (With 159 among `ExitCodes` the same property also fails for a script
  that exits with 159: it is reported as a seccomp violation.)

### Other disagreements met while modelling

No run is spent on these; each can be read off the definition named.

* `README.md:186` says `ALLOWED_SYSCALLS` **replaces** the whitelist. The
  library does read it, but every spawn clears the environment
  (`env_clear`), so no sandboxed process ever has it (`child_env` in `Launch`;
  `MCLaunch` sets it).
* `README.md:142` offers `preload` for every language; `prescript.js` has no
  place for it (`Booted`).
* With `ZYGOTE_MAX_OUTPUT_BYTES` below 64 KiB an ordinary output frame counts as
  a corrupt stream (`zygote.rs:280`): all pending requests fail with "zygote
  connection lost". Below 4 bytes the same holds of every DONE frame.
  `LostIsTrue` therefore assumes `MaxFrame <= MaxOutput` and
  `DoneLen <= MaxOutput`.
* A child that exits normally may get the note "process terminated" on stderr
  (`zygote_worker.py:407`): end of file can be seen before the zombie.
* The fast path's Landlock list lacks `/usr/share/zoneinfo`, which the slow path
  has (`python.rs:47-50`, `98-104`).
* The old name `NODE_MAX_OLD_SPACE_MB` wins over the new one (`NumberVars`);
  `config.rs:113` says "768 MiB" for a default of 256; `prescript.py:40-41`
  says `getcwd` is not allowed, `python_syscalls.rs` allows it.
* A first zygote that cannot be started is never tried again: only a
  request that holds a dead manager asks for a restart (`ChoosePath`).

### Bounds

Two calls are enough for one to be cut off while another is registered,
written or answered; with one queue worker (`pool_stops`) the second call takes
the place that the first leaves. `MaxOutput = 1` with
two output frames, and the worker's own note on top of them, crosses the cap
on one stream or on both, for one request or for both. A frame is at most as
large as the cap in `pool_returns` and `pool_stops`, and up to twice as large
in `pool_cap`, where it closes the reader; that no entry
leaks then is part of the theorem `NoEntryLeaks`. A DONE frame fits into the cap
in all three. In `pool_cap` `SockCap = 1` makes writers block while they hold the
lock. The control socket takes three frames in `pool_stops` and two in
`pool_returns`, so that a RUN that fails is received with frames behind it; three
are enough for the RUN and the KILLs of both requests. `pool_returns` leaves the
children's output to `pool_stops` and adds the crashes.

The worker runs have two requests; with two fds and one pid (`worker_errors`)
every reuse happens and `fork` also fails for want of resources. In
`worker_safety` two pids are interchangeable (symmetry). Reads fail for one of
the two requests in `worker_safety`, so that errors of one meet the output of
the other, and for both in `worker_errors`.
`SendCap = SockOutCap = 1` makes back-pressure the normal case. The contract has
no bounds of its own; where `ZygotePool` explores it, `MayWrite` limits the
output of the children (`MaxWrites` frames in all, `OutCap` queued).
`MaxGen = 3` allows two restarts after the first manager, so that a manager
inherits descriptors of one that is dying while another is in use; `server_gone`
needs one. `LibPaths = 2` has a state between two copies. In `ScriptRunner`
both script and output are longer than a pipe.

`Launch` follows one request; `MCLaunch` varies one side at a time: the gates
(five files, six environments, ten requests, among them a file that is refused),
the failing call (each of ten, or none, in both modes, with and without a zygote
and a memory limit), and the program (four programs, up to seven bytes) with its
key (one to six bytes: a divisor of the chunk of four, none, or longer than it). `Base = 3` makes both digits of the length count
for seven bytes. The stream is cut at every place.

Three properties make an exception where the code does:

* `SandboxesWithinWorkers` does not count a sandbox that broke the output
  limit: its answer precedes its KILL (`zygote.rs:339` and `353`), so in the
  model the queue worker may already serve the next job. In the program only
  the single-threaded runtime and the first-come order of the mutex keep the
  next RUN behind that KILL.
* `KillTakesEffect` does not cover a KILL left in `_recv_buf` after a failed
  fork, the case `worker_left_behind` shows.
* `CutOffSandboxStops` has the same exception for the whole pool. With the batch
  RUN of a second request, KILL of the first, KILL of the second, and a failing
  fork, no further frame need ever come, and the first sandbox runs on.

All calls, jobs or runs come to an end, and the server may be stopped, so no run
checks for deadlock; the liveness properties say what may not be left waiting.

### Fairness

* *Pool.* Tasks that are ready are polled (weak fairness); `tokio`'s mutex is
  FIFO (strong fairness of the lock steps); timers fire; the worker keeps
  handling control frames while it is awake (`TakeFrame`). For KILLs,
  `worker_errors` checks this of the detailed worker (`KillTakesEffect`), with
  the same exception. Children owe nothing.
* *Worker.* The loop is scheduled and exiting processes become zombies. Neither
  manager nor children owe anything.
* *Queue.* Jobs end (they have timeouts), tasks are polled.
* *Restart.* Requests without a preload keep coming, the reader sees end of file
  once no process has the worker's end, forked children reach their sweep, pip
  ends, and starting an interpreter does not fail forever. A worker exits when
  no process has the server's end. Workers need not die, the server need not end.
* *Launch.* Server, socket, worker and bootstrap go on and the timer fires; the
  client's code owes nothing.
* *Slow path.* The task is polled, the timer fires, and the interpreter reads
  its stdin while it loads. The last one is an assumption about the
  interpreter: `write_all` to stdin is outside the timeout.

## Proofs

Checked with `tlapm`, for all values of the constants under the named
assumptions of the modules: bounds are positive, the sets of tasks, fds and pids
are finite, the special values differ, `Xor` undoes itself, every request has a
program (a sequence of bytes) and a key that is not empty. `LostIsTrue` alone
assumes more. Every inductive invariant was model-checked before it was proved.

**`ZygotePoolProofs`, `ZygoteSlotProofs`.** Four invariants, each proved on top of the ones before
it, with one lemma per action or per group of actions that do the same to it.

* `IInv`, for `TypeCorrect`, `NoEntryLeaks`, `WritersExclude`,
  `OutputStaysBounded`, and `LostIsTrue` if every frame fits into the cap. It adds
  to the properties that a call past registration has an id (`Registered`), that
  the reader has an id to cut off while it does so (`CutNamed`), the bound for
  results still in a oneshot channel or in `limit_result` (`Bounded`), and that
  the reader ends only when the worker is gone (`Lost`).
* `WireInv`, for `KillIsOnTheWay`. Each id is one call's (`OwnIds`); RUN is
  written once, ahead of any KILL of its request, and a request whose RUN is
  still queued has no child (`InOrder`); whatever the reader knows of a request
  it knows from a child that was forked (`Heard`); and the promise of
  `NoStraySandbox` holds as soon as the answer is in the channel, before the call
  has taken it (`KillFollows`).
* `AnswerInv`, for `AnswersAreFaithful`. Output is spread over the entry's
  buffer and the frames under way, so the invariant needs a sum over a queue.
  `TakesTo` states it without recursion: there is a function of running totals
  over the queue that starts at what is buffered, grows by what each frame
  carries, and is what the child wrote when it meets DONE and, while the worker
  is up, at the end. A frame read or queued shifts or extends that function
  (`TotalMoves`, `TotalGrows`), a crash cuts it short (`TotalCut`).
* `SlotInv`, in `ZygoteSlotProofs`, for `SandboxesStayWithinWorkers`. The property itself is not
  inductive, because a queued RUN is a sandbox to be. `AliveAfter(n)` are the
  sandboxes that run once the first `n` control frames are handled. At no `n`
  are there more than `MaxWorkers`; at the end of the queue each has a call that
  is in flight, or was told that the connection is lost, and there are at most
  `MaxWorkers` of those, because none begins after one was told so.

**`ZygoteWorkerProofs`.** `WorkerSignalsOwnChildren`, `WorkerFdsAreOwn`,
`WorkerNeverBlocksInRead`, `WorkerForgetsNoChild`, `WorkerOutputComplete`,
all from one invariant (`WorkerInv`) that keeps the
worker's dictionaries in step with the kernel: no two fds are the same pipe
(`OwnPipe`), a request has a child exactly while a pipe of it is open
(`Children`), RUN frames not handled yet are for requests without a child
(`RunsFresh`), what `select` reported is still ready (`StillReady`), every unit
written is forwarded or in its pipe (`Accounted`). That the `except` clause of
`_handle_run` gives back the fd table it found is `RaisedRestores`.

**`WorkerContractProofs`.** Two results on top of `WorkerInv`.

* `WorkerKeepsContract`: the `select` loop implements `WorkerContract`. The
  mapping hides pipes, fds, pids and the two buffers of the worker: a frame is
  still "on the socket" while it is in `_recv_buf` or in `_out`, and the state of
  a child (`kid`) is computed from `fate`, `waiting` and the process table.
  `KidFound` is the step that needs the invariant: the child a request remembers
  by its pid is the one running process of that request. Then one lemma for
  each action says which step of the contract it is (`ContractStep` collects
  them): receiving, flushing and closing fds are none, a read is `Forward`, the
  last pipe is `Finish` or, for a child that is not a zombie yet,
  `NoteAndKill`, the reaping that follows it `Finish`. That a read never takes
  more than a pipe holds is the one further invariant (`Within`). This is
  why `ZygotePool` may put the contract in the worker's place; only the crash of
  the worker, which the contract allows, is no step of the detailed one.
* `WorkerBufferBounded`. `Credit` is the set of frames that the rest of the
  round may still queue: one for each pipe that is ready, one for the other pipe
  of a request whose last pipe is ready, one for a DONE that follows the note.
  Every step that queues a frame gives up a member of it (`SpendsCredit`, proved
  action by action in `ZygoteWorkerProofs`), and a round begins only below the
  cap, so the buffer and the credit together stay bounded (`Headroom`).

**`WorkerQueueProofs`.** `TypeCorrect` (so the `usize` never wraps),
`DepthIsExact`, `JobsRunOnce`. The invariant says that a message is in one
place at a time (`OnePlace`) and that the place determines how far its job
has come (`Progress`).

**`ZygoteRestartProofs`.** `TypeCorrect`, `RestartIsSingleFlight`,
`WorkersAreReaped`, `HeldManagersStay`, `JailBeforeWork`, `RunningManagerStays`,
`RestartsAreNeeded`, for `Spec` of `ZygoteRestart`; the steps of
`ServerProcesses` are steps of it or leave its variables alone. The invariant
says who holds what (`Handles`: the manager of a restart task is known to nobody
else before the swap), that a worker process exists exactly as long as its
manager is referenced (`Owned`), and what `main()` has not done yet (`Setup`).
`NoNeedlessStart` rests on `SingleFlight`: between the check and the swap, when
the task holds no lock, only another task could install a manager.

**`ScriptRunnerProofs`.** `RunnerLeavesNone`, `RunnerOutputWhole`,
`RunnerReportsSeccomp`. The invariant: the interpreter exists exactly from the
spawn to the return (`ChildWhileWaited`), every unit it wrote is in its pipe or
collected (`Conserved`), and a run returns its output only when it is dead and
the pipes are empty (`Answered`).

**`LaunchProofs`**, in this order:

* `XorUndoesEncryption`, for every program, key and chunk size. The invariant
  (`LoopInv`) says that the position is the end of the program or a multiple of
  the key's length; the lemmas are the arithmetic of `div` and `%` that makes
  the keystream of a chunk continue the one before it.
* `FramesArriveInOrder`, `RequestStartsOnce`, `ProgramArrivesIntact`. The bytes
  under way are divided by a list of offsets, and between two offsets lies the
  encoding of one frame (`Divides`), so that reassembly is a step on the offsets
  and needs no recursion. The rest of `DeliveryInv`: RUN is sent first and once
  (`RoutedInv`), and what is decoded of it is the program so far (`DecodeInv`).
* `OnlyConfinedCodeRuns` and `BootstrapInOrder`, for every set of inputs and of
  user calls. The invariant (`ConfinementInv`) says that the calls made so far
  are a prefix of `Bootstrap(opts)`, that each has left its mark on the process,
  and that a process with privileges is root until its `setuid` (`At`); or that
  one call has failed and nothing is left to do. No later call wipes a mark
  (`EffectLeavesMarks`), and the marks of all calls are what the mode promises
  (`AllDoneIsConfined`).
* `GatesDecide` and `InterpreterSurvivesFilter`, from `GatesInv`: the filter was
  built from what the configuration grants, and it spares the calls of the
  interpreter whatever the options are.
* `StreamStaysIntact`. `Bytes` concatenates the encodings of any number of
  frames, so this one takes induction over the frames. The provers cannot use an
  induction theorem with an operator parameter, but they can use a set: `UpTo`
  (a set that has 0, and `k` whenever it has `k - 1`, has all of `0..N`) follows
  from the well-foundedness of the natural numbers. It is used three times:
  there is a function that unrolls the recursion behind `Bytes`
  (`UnrollsToBytes`), two lists of frames have the same bytes as far as they
  agree (`UnrollsOnce`), and the frames under way, cut at the offsets of
  `Divides`, add up to what is not handled yet (`StreamAddsUp`).

Only model-checked: all liveness (`EveryCallReturns`, `CutOffSandboxStops`,
`KillTakesEffect`, `EverySubmitReturns`, `RefusedWhenClosed`, `Recovers`,
`EveryRunReturns`, `LaunchEnds`), because fairness is out of the prover's reach.
Every other property of a run that holds is also a theorem.

## Not modelled

* Text: base64, TOML and JSON syntax, UTF-8 conversion, the text of the scripts
  (`build_script`), the generation of keys.
* Inside the setup: the copying done by `env.sh`, the command line of pip and
  the listing of packages. They are external processes; their place in `main()`,
  their errors and the descriptors they inherit are modelled.
* The access rights of single Landlock paths, and the arguments of system calls
  other than those the filter looks at.
* The worker's start (imports of warm modules, `prctl`), and its exit at an
  oversized control frame, which no request body within the web framework's
  limit produces; `WorkerContract!Crash` stands for that exit.
* `ZygoteManager::stop`, which is dead code, and the two descriptors a failed
  `spawn` leaves open in `new`.
* Wrapping of `next_id` at 2^32, and descriptors above `FD_SETSIZE`.
* The life of sandboxes after their worker died, beyond the fact that they may
  run on (`WorkerContract!Crash`) and hold descriptors until their sweep
  (`ServerProcesses`).
* Queue, pool and restart are composed in pairs only where they share state
  (manager and worker; restart and start-up and descriptors; configuration,
  cipher, stream and initialisation). The queue meets the pool through
  `Dispatched` and `MaxWorkers`; a call in flight while its manager is replaced
  is covered by `NoUseAfterDrop` and by the pool's own lost-connection steps.
