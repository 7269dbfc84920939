---------------------------- MODULE ScriptRunner ----------------------------
(***************************************************************************)
(* One request on the slow path (python.rs, nodejs.rs) and its answer      *)
(* (handlers.rs): a fresh interpreter gets the script over stdin, the      *)
(* server then collects its output and its exit status under a timeout.    *)
(* The three pipes have room for PipeCap units each.  An interpreter       *)
(* first loads the whole script, to the end of its stdin, then runs it;    *)
(* it may close its stdin, or die, before it has the script.               *)
(***************************************************************************)
EXTENDS Integers

CONSTANTS
    ScriptLen,  \* bound: length of the script
    PipeCap,    \* bound: units a pipe holds
    MaxWrites,  \* bound: units the child writes
    ExitCodes,  \* codes a child may exit with
    Signals     \* signals it may die of

ASSUME RunnerAssumption ==
    /\ {ScriptLen, PipeCap} \subseteq Nat \ {0}
    /\ MaxWrites \in Nat
    /\ ExitCodes \subseteq Nat /\ Signals \subseteq Nat \ {0}

Languages == {"python3", "javascript", "other"}
Streams == {"STDOUT", "STDERR"}
Statuses == [by : {"exit"}, n : ExitCodes] \cup [by : {"signal"}, n : Signals \cup {9}]
SIGKILLED == [by |-> "signal", n |-> 9]

VARIABLES
    language,    \* of the request
    pc,          \* position of run()
    left, inp,   \* script units not yet written, and in the stdin pipe
    inOpen,      \* the server's end of stdin is open
    inRead,      \* the interpreter's end of stdin is open
    child,       \* the interpreter
    status,      \* its exit status, once it is dead
    pipe,        \* of each output stream: contents, and whether it is open
    got,         \* what wait_with_output has collected
    wrote,       \* history: what the child wrote
    result,      \* what run() returned: "ok", an error, or none yet
    code         \* code of the ApiResponse, -1 before it is there

serverVars == <<language, pc, left, inOpen, got, result, code>>
childVars == <<inp, inRead, child, status, pipe, wrote>>
vars == <<serverVars, childVars>>

Init ==
    /\ language \in Languages
    /\ pc = "start" /\ left = ScriptLen /\ inp = 0 /\ inOpen = FALSE
    /\ inRead = FALSE
    /\ child = "none" /\ status = SIGKILLED
    /\ pipe = [s \in Streams |-> [n |-> 0, w |-> FALSE]]
    /\ got = [s \in Streams |-> 0] /\ wrote = [s \in Streams |-> 0]
    /\ result = "none" /\ code = -1

-----------------------------------------------------------------------------
(* The answer *)

\* Mutant of exit_code_from_status: signals are not looked at.
exit_code_or_minus_one(st) == IF st.by = "signal" THEN -1 ELSE st.n

exit_code_from_status(st) == IF st.by = "signal" THEN -st.n ELSE st.n

is_seccomp_violation(exit_code) == exit_code \in {159, -31}

\* run_python and run_nodejs: the response to a result.
ResponseCode(exit_code, err) ==
    IF is_seccomp_violation(exit_code) THEN 31
    ELSE IF err > 0 /\ exit_code # 0 THEN 500
    ELSE 0

\* run() returns an error, which is answered by 500.
Fail(kind) ==
    /\ pc' = "done"
    /\ result' = kind
    /\ code' = 500

\* Mutant of DropChild: kill_on_drop(false).
DropOnly == UNCHANGED <<inRead, child, status, pipe>>

\* kill_on_drop: a child that is dropped before it was waited for is killed.
DropChild ==
    /\ child' = "dead"
    /\ inRead' = FALSE
    /\ status' = IF child = "dead" THEN status ELSE SIGKILLED
    /\ pipe' = [s \in Streams |-> [pipe[s] EXCEPT !.w = FALSE]]

-----------------------------------------------------------------------------
(* run() *)

Unsupported ==
    /\ pc = "start"
    /\ language = "other"
    /\ pc' = "done" /\ code' = 400
    /\ UNCHANGED <<language, left, inOpen, got, result, childVars>>

\* The interpreter is spawned with three pipes, or cannot be.
Spawn ==
    \/ /\ child' = "loading"
       /\ pipe' = [s \in Streams |-> [n |-> 0, w |-> TRUE]]
       /\ inOpen' = TRUE /\ inRead' = TRUE
       /\ pc' = "write"
       /\ UNCHANGED <<result, code>>
    \/ Fail("spawn") /\ UNCHANGED <<child, pipe, inOpen, inRead>>

\* python::run on the slow path: the code is decoded, the script built.
RunPython ==
    /\ pc = "start"
    /\ language = "python3"
    /\ Spawn \/ (Fail("badRequest") /\ UNCHANGED <<child, pipe, inOpen, inRead>>)
    /\ UNCHANGED <<language, left, got, inp, status, wrote>>

\* nodejs::run: the code is validated, the script built.
RunNodejs ==
    /\ pc = "start"
    /\ language = "javascript"
    /\ Spawn \/ (Fail("badRequest") /\ UNCHANGED <<child, pipe, inOpen, inRead>>)
    /\ UNCHANGED <<language, left, got, inp, status, wrote>>

\* stdin.write_all: it waits for room, without a timeout.
WriteStdin ==
    /\ pc = "write"
    /\ left > 0 /\ inRead /\ inp < PipeCap
    /\ left' = left - 1
    /\ inp' = inp + 1
    /\ UNCHANGED <<language, pc, inOpen, got, result, code, inRead, child, status, pipe, wrote>>

\* The interpreter died or closed its stdin before it had the script: EPIPE.
\* If it still runs it is dropped, and killed with that.
WriteFails ==
    /\ pc = "write"
    /\ left > 0 /\ ~inRead
    /\ Fail("stdin")
    /\ inOpen' = FALSE
    /\ DropChild
    /\ UNCHANGED <<language, left, got, inp, wrote>>

\* Dropping stdin closes it.
CloseStdin ==
    /\ pc = "write"
    /\ left = 0
    /\ inOpen' = FALSE
    /\ pc' = "wait"
    /\ UNCHANGED <<language, left, got, result, code, childVars>>

\* wait_with_output reads both pipes as they fill.
Collect(s) ==
    /\ pc = "wait"
    /\ pipe[s].n > 0
    /\ got' = [got EXCEPT ![s] = @ + pipe[s].n]
    /\ pipe' = [pipe EXCEPT ![s].n = 0]
    /\ UNCHANGED <<language, pc, left, inOpen, result, code, inp, inRead, child, status, wrote>>

\* Mutant of Collected: the exit status is enough.
CollectedAtExit == child = "dead"

\* wait_with_output is through: end of file on both pipes, and the status.
Collected ==
    /\ child = "dead"
    /\ \A s \in Streams : pipe[s] = [n |-> 0, w |-> FALSE]

WaitDone ==
    /\ pc = "wait"
    /\ Collected
    /\ pc' = "done"
    /\ result' = "ok"
    /\ code' = ResponseCode(exit_code_from_status(status), got["STDERR"])
    /\ UNCHANGED <<language, left, inOpen, got, childVars>>

\* Mutant of Timeout: the wait has no timeout.
TimeoutNever == FALSE /\ UNCHANGED vars

\* The timer drops the wait, and the child with it.
Timeout ==
    /\ pc = "wait"
    /\ Fail("timeout")
    /\ DropChild
    /\ UNCHANGED <<language, left, inOpen, got, inp, wrote>>

\* Reading a pipe or waiting for the child fails.
WaitFails ==
    /\ pc = "wait"
    /\ Fail("process")
    /\ DropChild
    /\ UNCHANGED <<language, left, inOpen, got, inp, wrote>>

-----------------------------------------------------------------------------
(* The interpreter *)

ReadStdin ==
    /\ child = "loading"
    /\ inRead /\ inp > 0
    /\ inp' = inp - 1
    /\ UNCHANGED <<serverVars, inRead, child, status, pipe, wrote>>

\* End of file on stdin: the script is complete and starts.
Loaded ==
    /\ child = "loading"
    /\ inRead /\ inp = 0 /\ ~inOpen
    /\ child' = "running"
    /\ UNCHANGED <<serverVars, inp, inRead, status, pipe, wrote>>

\* A live interpreter closes its stdin; what was in the pipe is gone.
ChildClosesStdin ==
    /\ child \in {"loading", "running"}
    /\ inRead
    /\ inRead' = FALSE
    /\ inp' = 0
    /\ UNCHANGED <<serverVars, child, status, pipe, wrote>>

ChildWrite(s) ==
    /\ child \in {"loading", "running"}
    /\ wrote["STDOUT"] + wrote["STDERR"] < MaxWrites
    /\ pipe[s].n < PipeCap
    /\ pipe' = [pipe EXCEPT ![s].n = @ + 1]
    /\ wrote' = [wrote EXCEPT ![s] = @ + 1]
    /\ UNCHANGED <<serverVars, inp, inRead, child, status>>

ChildDies(st) ==
    /\ child \in {"loading", "running"}
    /\ child' = "dead"
    /\ inRead' = FALSE
    /\ status' = st
    /\ pipe' = [s \in Streams |-> [pipe[s] EXCEPT !.w = FALSE]]
    /\ UNCHANGED <<serverVars, inp, wrote>>

Server ==
    \/ Unsupported \/ RunPython \/ RunNodejs
    \/ WriteStdin \/ WriteFails \/ CloseStdin
    \/ (\E s \in Streams : Collect(s)) \/ WaitDone \/ Timeout

Interpreter ==
    \/ ReadStdin \/ Loaded \/ ChildClosesStdin
    \/ \E s \in Streams : ChildWrite(s)
    \/ \E st \in Statuses : ChildDies(st)

Next == Server \/ WaitFails \/ Interpreter

Spec == Init /\ [][Next]_vars

(***************************************************************************)
(* The server's task is polled and the timer fires.  The interpreter reads *)
(* its stdin while it loads: nothing bounds write_all in time, so this is  *)
(* needed of the interpreter.  The script that then runs owes nothing.     *)
(***************************************************************************)
FairSpec ==
    /\ Spec
    /\ WF_vars(Server)
    /\ WF_vars(Timeout)
    /\ WF_vars(ReadStdin)

-----------------------------------------------------------------------------

\* However run() ends, the interpreter does not run on after it.
NoneLeftRunning == pc = "done" => child \in {"none", "dead"}

\* A run that is not cut off returns all the child wrote on either stream,
\* although the child may die with output still in its pipes.
OutputWhole == result = "ok" => got = wrote

\* A child killed by seccomp is answered by 31, never as a success or as an
\* ordinary error, whatever it had written.
SeccompReported ==
    result = "ok" /\ status = [by |-> "signal", n |-> 31] => code = 31

\* The table of response codes in the README: 31 for a process killed with
\* SIGSYS, 0 for success, 500 for an execution error.
DocumentedCode(st) ==
    CASE st = [by |-> "signal", n |-> 31] -> 31
      [] st = [by |-> "exit", n |-> 0] -> 0
      [] OTHER -> 500

\* A run that is not cut off is answered by the code the README gives for
\* the way its child ended.
CodesAsDocumented == result = "ok" => code = DocumentedCode(status)

\* A run that has its interpreter returns, even if the script never ends or
\* blocks on a full pipe.
EveryRunReturns == (pc = "write") ~> (pc = "done")
=============================================================================
