---------------------------- MODULE ZygoteManager ----------------------------
(***************************************************************************)
(* The server's side of the zygote pool (zygote.rs): the calls of          *)
(* ZygoteManager::run() and the background read_loop task.  They share the *)
(* map of pending requests, the running flag and the write half of the     *)
(* control socket, which is behind an async mutex.  A step ends where      *)
(* the code awaits, or where it lets go of the map or of a flag another    *)
(* task reads.                                                             *)
(*                                                                         *)
(* A result (stdout, stderr, exit_code) is a record: "exit" carries what   *)
(* the child wrote, each other kind stands for a fixed stderr message.     *)
(***************************************************************************)
EXTENDS ZygoteProtocol

CONSTANTS
    Callers,    \* the calls of run(); each element is one call
    MaxOutput,  \* max_output, the cap on stdout + stderr of a request
    DoneLen,    \* payload bytes of a DONE frame (4)
    Reader,     \* the read_loop task, as a holder of the write lock
    Nobody      \* the write lock is free

ASSUME ManagerAssumption ==
    /\ MaxOutput \in Nat \ {0}
    /\ DoneLen \in Nat
    /\ Reader \notin Callers
    /\ Nobody \notin Callers \cup {Reader}

VARIABLES
    running,   \* AtomicBool: the connection is up
    next_id,   \* AtomicU32: the next req_id
    pending,   \* keys of the DashMap
    entry,     \* its values: the buffered lengths, and whether tx is still there
    rx,        \* the oneshot channel of each request
    lock,      \* holder of the write_half mutex
    pc, rid, res,  \* of each call: its position, its req_id, what it returned
    rpc,       \* position of read_loop
    cut,       \* read_loop's kill_req and limit_result
    doomed     \* the entries read_loop's last iteration is sure to visit

callVars == <<next_id, pc, rid, res>>
readerVars == <<running, rpc, cut, doomed>>
managerVars == <<callVars, readerVars, pending, entry, rx, lock>>

Kinds == {"empty", "closed", "exit", "limit", "lost", "notRunning",
          "writeFailed", "timeout"}

Results == [kind : Kinds, out : Nat, err : Nat, code : Int]

Entries == [out : Nat, err : Nat, tx : BOOLEAN]

\* A result whose stderr is a fixed message and whose exit code is -1.
Failure(k) == [kind |-> k, out |-> 0, err |-> 0, code |-> -1]

Empty == Failure("empty")    \* nothing sent yet
Closed == Failure("closed")  \* the sender was dropped without sending

NoEntry == [out |-> 0, err |-> 0, tx |-> FALSE]
NoCut == [id |-> 0, out |-> 0, tx |-> FALSE]

ManagerTypeOK ==
    /\ running \in BOOLEAN
    /\ next_id \in 1..(IdLimit + 1)
    /\ pending \in SUBSET Ids
    /\ entry \in [Ids -> Entries]
    /\ rx \in [Ids -> Results]
    /\ lock \in Callers \cup {Reader, Nobody}
    /\ pc \in [Callers -> {"start", "register", "lockRun", "writeRun", "wait",
                           "lockKill", "writeKill", "done"}]
    /\ rid \in [Callers -> Ids \cup {0}]
    /\ res \in [Callers -> Results]
    /\ rpc \in {"read", "limit", "lockKill", "writeKill", "stop", "fail", "closed"}
    /\ cut \in [id : Ids \cup {0}, out : Nat, tx : BOOLEAN]
    /\ doomed \in SUBSET Ids

\* ZygoteManager::new(), from the spawned worker on.
ManagerInit ==
    /\ running = TRUE
    /\ next_id = 1
    /\ pending = {}
    /\ entry = [id \in Ids |-> NoEntry]
    /\ rx = [id \in Ids |-> Empty]
    /\ lock = Nobody
    /\ pc = [c \in Callers |-> "start"]
    /\ rid = [c \in Callers |-> 0]
    /\ res = [c \in Callers |-> Empty]
    /\ rpc = "read"
    /\ cut = NoCut
    /\ doomed = {}

-----------------------------------------------------------------------------
(* run() *)

\* pending.remove(id)
Remove(id) ==
    /\ pending' = pending \ {id}
    /\ entry' = [entry EXCEPT ![id] = NoEntry]

Goto(c, l) == pc' = [pc EXCEPT ![c] = l]

Return(c, r) ==
    /\ Goto(c, "done")
    /\ res' = [res EXCEPT ![c] = r]

\* The first look at the running flag.
CheckRunning(c) ==
    /\ pc[c] = "start"
    /\ IF running
       THEN Goto(c, "register") /\ UNCHANGED res
       ELSE Return(c, Failure("notRunning"))
    /\ UNCHANGED <<next_id, rid, readerVars, pending, entry, rx, lock, socketVars>>

\* Mutant of NextId: the counter is read but not advanced.
NextIdStuck(n) == n

\* next_id.fetch_add(1); the code wraps around at 2^32.
NextId(n) == n + 1

\* Take a fresh req_id and enter it into the map with its sender.
Register(c) ==
    /\ pc[c] = "register"
    /\ next_id <= IdLimit
    /\ Goto(c, "lockRun")
    /\ rid' = [rid EXCEPT ![c] = next_id]
    /\ next_id' = NextId(next_id)
    /\ pending' = pending \cup {next_id}
    /\ entry' = [entry EXCEPT ![next_id] = [out |-> 0, err |-> 0, tx |-> TRUE]]
    /\ rx' = [rx EXCEPT ![next_id] = Empty]
    /\ UNCHANGED <<res, readerVars, lock, socketVars>>

\* Mutant of LockFree: the write half is not behind a mutex.
LockIgnored == TRUE

LockFree == lock = Nobody

\* write_half.lock().await before the RUN or the KILL frame.
AcquireWrite(c) ==
    /\ LockFree
    /\ lock' = c
    /\ \/ pc[c] = "lockRun" /\ Goto(c, "writeRun")
       \/ pc[c] = "lockKill" /\ Goto(c, "writeKill")
    /\ UNCHANGED <<next_id, rid, res, readerVars, pending, entry, rx, socketVars>>

\* Write the RUN frame; a write error removes the entry and ends the call.
WriteRun(c) ==
    /\ pc[c] = "writeRun"
    /\ \/ /\ SendRequest("RUN", rid[c])
          /\ Goto(c, "wait")
          /\ UNCHANGED <<res, pending, entry>>
       \/ /\ SendFails
          /\ Remove(rid[c])
          /\ Return(c, Failure("writeFailed"))
    /\ lock' = Nobody
    /\ UNCHANGED <<next_id, rid, readerVars, rx>>

\* timeout(rx).await yields the value that was sent.
Receive(c) ==
    /\ pc[c] = "wait"
    /\ rx[rid[c]] \notin {Empty, Closed}
    /\ Remove(rid[c])
    /\ Return(c, rx[rid[c]])
    /\ UNCHANGED <<next_id, rid, readerVars, rx, lock, socketVars>>

\* Mutant of GiveUp: rx is awaited without a timeout.
GiveUpOnClosed(c) ==
    /\ pc[c] = "wait"
    /\ rx[rid[c]] = Closed
    /\ Goto(c, "lockKill")
    /\ UNCHANGED <<next_id, rid, res, readerVars, pending, entry, rx, lock, socketVars>>

\* The timer fires before a value is there, or the sender was dropped.
GiveUp(c) ==
    /\ pc[c] = "wait"
    /\ rx[rid[c]] \in {Empty, Closed}
    /\ Goto(c, "lockKill")
    /\ UNCHANGED <<next_id, rid, res, readerVars, pending, entry, rx, lock, socketVars>>

\* Mutant of WriteKill: the timeout is reported without a KILL.
TimeoutWithoutKill(c) ==
    /\ pc[c] = "writeKill"
    /\ Remove(rid[c])
    /\ Return(c, Failure("timeout"))
    /\ lock' = Nobody
    /\ UNCHANGED <<next_id, rid, readerVars, rx, socketVars>>

\* Mutant of WriteKill: the entry is not removed.
TimeoutWithoutRemove(c) ==
    /\ pc[c] = "writeKill"
    /\ SendRequest("KILL", rid[c]) \/ SendFails
    /\ Return(c, Failure("timeout"))
    /\ lock' = Nobody
    /\ UNCHANGED <<next_id, rid, readerVars, pending, entry, rx>>

\* Write the KILL frame, whatever comes of it, and report the timeout.
WriteKill(c) ==
    /\ pc[c] = "writeKill"
    /\ SendRequest("KILL", rid[c]) \/ SendFails
    /\ Remove(rid[c])
    /\ Return(c, Failure("timeout"))
    /\ lock' = Nobody
    /\ UNCHANGED <<next_id, rid, readerVars, rx>>

-----------------------------------------------------------------------------
(* read_loop *)

\* plen, from the header of a frame of any type.
PayloadLen(f) == IF f.type = "DONE" THEN DoneLen ELSE f.val

\* Mutant of Oversized: off by one.
OversizedAtCap(f) == PayloadLen(f) >= MaxOutput

\* A payload longer than max_output closes the reader.
Oversized(f) == PayloadLen(f) > MaxOutput

\* Mutant of OverLimit: only stdout counts.
StdoutOverLimit(out, err) == out > MaxOutput

\* stdout and stderr of a request together exceed the cap.
OverLimit(out, err) == out + err > MaxOutput

\* A frame for a request that is no longer pending is dropped.
Deliver(f) ==
    LET e == entry[f.id]
        out == e.out + IF f.type = "STDOUT" THEN f.val ELSE 0
        err == e.err + IF f.type = "STDERR" THEN f.val ELSE 0
    IN  IF f.id \notin pending
        THEN UNCHANGED <<entry, rx, rpc, cut>>
        ELSE IF f.type = "DONE"
        THEN /\ entry' = [entry EXCEPT ![f.id].tx = FALSE]
             /\ rx' = IF e.tx
                      THEN [rx EXCEPT ![f.id] = [kind |-> "exit", out |-> e.out,
                                                 err |-> e.err, code |-> f.val]]
                      ELSE rx
             /\ UNCHANGED <<rpc, cut>>
        ELSE IF OverLimit(out, err)
        THEN /\ entry' = [entry EXCEPT ![f.id] = [out |-> 0, err |-> err, tx |-> FALSE]]
             /\ cut' = [id |-> f.id, out |-> out, tx |-> e.tx]
             /\ rpc' = "limit"
             /\ UNCHANGED rx
        ELSE /\ entry' = [entry EXCEPT ![f.id] = [out |-> out, err |-> err, tx |-> e.tx]]
             /\ UNCHANGED <<rx, rpc, cut>>

\* One frame of the inner loop, while the guard of the map's shard is held.
ReadFrame ==
    /\ rpc = "read"
    /\ fromWorker # <<>>
    /\ LET f == Head(fromWorker)
       IN  \/ /\ Oversized(f)
              /\ rpc' = "stop"
              /\ UNCHANGED <<cut, entry, rx, fromWorker>>
           \/ /\ ~Oversized(f)
              /\ fromWorker' = Tail(fromWorker)
              /\ Deliver(f)
    /\ UNCHANGED <<callVars, running, doomed, pending, lock, toWorker, workerOpen>>

\* End of file, or a read error, on the control socket.
ReadEof ==
    /\ rpc = "read"
    /\ fromWorker = <<>>
    /\ ~workerOpen
    /\ rpc' = "stop"
    /\ UNCHANGED <<callVars, running, cut, doomed, pending, entry, rx, lock, socketVars>>

\* After the guard: remove the entry and answer "output limit exceeded".
CutOff ==
    /\ rpc = "limit"
    /\ rpc' = "lockKill"
    /\ Remove(cut.id)
    /\ rx' = IF cut.tx
             THEN [rx EXCEPT ![cut.id] = [Failure("limit") EXCEPT !.out = cut.out]]
             ELSE rx
    /\ UNCHANGED <<callVars, running, cut, doomed, lock, socketVars>>

CutOffAcquire ==
    /\ rpc = "lockKill"
    /\ LockFree
    /\ lock' = Reader
    /\ rpc' = "writeKill"
    /\ UNCHANGED <<callVars, running, cut, doomed, pending, entry, rx, socketVars>>

\* Mutant of CutOffKill: no KILL is sent.
CutOffWithoutKill ==
    /\ rpc = "writeKill"
    /\ lock' = Nobody
    /\ rpc' = "read"
    /\ cut' = NoCut
    /\ UNCHANGED <<callVars, running, doomed, pending, entry, rx, socketVars>>

CutOffKill ==
    /\ rpc = "writeKill"
    /\ SendRequest("KILL", cut.id) \/ SendFails
    /\ lock' = Nobody
    /\ rpc' = "read"
    /\ cut' = NoCut
    /\ UNCHANGED <<callVars, running, doomed, pending, entry, rx>>

\* The loop is over: running.store(false).
MarkStopped ==
    /\ rpc = "stop"
    /\ running' = FALSE
    /\ rpc' = "fail"
    /\ doomed' = pending
    /\ UNCHANGED <<callVars, cut, pending, entry, rx, lock, socketVars>>

\* pending.iter_mut(): answer "zygote connection lost" to one entry.
FailOne(id) ==
    /\ rpc = "fail"
    /\ id \in pending
    /\ entry[id].tx
    /\ entry' = [entry EXCEPT ![id].tx = FALSE]
    /\ rx' = [rx EXCEPT ![id] = Failure("lost")]
    /\ UNCHANGED <<callVars, readerVars, pending, lock, socketVars>>

\* pending.clear(), once the iteration is through: entries that came in
\* behind it are dropped with their senders.
ClearPending ==
    /\ rpc = "fail"
    /\ \A id \in doomed \cap pending : ~entry[id].tx
    /\ rpc' = "closed"
    /\ doomed' = {}
    /\ pending' = {}
    /\ entry' = [id \in Ids |-> NoEntry]
    /\ rx' = [id \in Ids |-> IF id \in pending /\ entry[id].tx THEN Closed ELSE rx[id]]
    /\ UNCHANGED <<callVars, running, cut, lock, socketVars>>

-----------------------------------------------------------------------------

CallStep(c) ==
    \/ CheckRunning(c) \/ Register(c) \/ AcquireWrite(c) \/ WriteRun(c)
    \/ Receive(c) \/ GiveUp(c) \/ WriteKill(c)

ReadLoopStep ==
    \/ ReadFrame \/ ReadEof \/ CutOff \/ CutOffAcquire \/ CutOffKill
    \/ MarkStopped \/ (\E id \in Ids : FailOne(id)) \/ ClearPending
=============================================================================
