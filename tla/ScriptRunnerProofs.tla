------------------------- MODULE ScriptRunnerProofs -------------------------
(***************************************************************************)
(* Proofs about one request on the slow path (ScriptRunner), for scripts   *)
(* and pipes of every size, any output of the child, and every exit code   *)
(* and signal it may end with.                                             *)
(***************************************************************************)
EXTENDS ScriptRunner, TLAPS

Channel == [n : Nat, w : BOOLEAN]
Results == {"none", "ok", "spawn", "badRequest", "stdin", "timeout", "process"}

\* What the proofs need of the types.
TypeInv ==
    /\ pc \in {"start", "write", "wait", "done"}
    /\ child \in {"none", "loading", "running", "dead"}
    /\ status \in Statuses
    /\ pipe \in [Streams -> Channel]
    /\ got \in [Streams -> Nat]
    /\ wrote \in [Streams -> Nat]
    /\ result \in Results

\* The interpreter is there from the spawn until run() returns, and only then.
ChildWhileWaited ==
    /\ pc = "start" => child = "none" /\ \A s \in Streams : pipe[s].n = 0
    /\ pc \in {"write", "wait"} => child # "none"
    /\ pc = "done" => child \in {"none", "dead"}

\* Every unit the child wrote is in its pipe or collected: none is lost.
Conserved == \A s \in Streams : got[s] + pipe[s].n = wrote[s]

\* What is known once run() has returned the child's output.
Answered ==
    /\ pc # "done" => result = "none"
    /\ result = "ok" =>
          /\ child = "dead"
          /\ \A s \in Streams : pipe[s].n = 0
          /\ code = ResponseCode(exit_code_from_status(status), got["STDERR"])

RunnerInv == TypeInv /\ ChildWhileWaited /\ Conserved /\ Answered

-----------------------------------------------------------------------------

\* SIGKILL is among the ways a child may end: the status kill_on_drop leaves.
LEMMA KilledStatus == SIGKILLED \in Statuses
BY DEF SIGKILLED, Statuses

\* exit_code_from_status and handlers.rs: a child that seccomp killed is
\* answered by 31, whatever is on its stderr.
LEMMA SeccompCode ==
    ASSUME NEW st, st = [by |-> "signal", n |-> 31], NEW err
    PROVE  ResponseCode(exit_code_from_status(st), err) = 31
<1>1. exit_code_from_status(st) = -31
  BY DEF exit_code_from_status
<1> QED
  BY <1>1 DEF ResponseCode, is_seccomp_violation

\* A request begins without an interpreter and without an answer.
LEMMA InitRunner == Init => RunnerInv
<1> SUFFICES ASSUME Init PROVE RunnerInv
  OBVIOUS
<1>1. TypeInv
  BY KilledStatus DEF Init, TypeInv, Channel, Results
<1>2. ChildWhileWaited /\ Answered
  BY DEF Init, ChildWhileWaited, Answered
<1>3. Conserved
  BY DEF Init, Conserved, Streams
<1> QED
  BY <1>1, <1>2, <1>3 DEF RunnerInv

\* kill_on_drop leaves a dead child; what is in its pipes stays there.
LEMMA Dropped ==
    ASSUME TypeInv, DropChild
    PROVE  /\ child' = "dead"
           /\ status' \in Statuses
           /\ pipe' \in [Streams -> Channel]
           /\ \A s \in Streams : pipe'[s].n = pipe[s].n
BY KilledStatus, ZenonT(30) DEF TypeInv, DropChild, Channel

\* run() until the interpreter is there: an unsupported language, a bad
\* request and a failed spawn leave none behind.
LEMMA StartRunner ==
    ASSUME RunnerInv, Unsupported \/ RunPython \/ RunNodejs
    PROVE  RunnerInv'
<1> USE DEF RunnerInv
<1>1. CASE Unsupported
  BY <1>1 DEF Unsupported, childVars, TypeInv, ChildWhileWaited, Conserved, Answered
<1>2. ASSUME NEW kind \in {"spawn", "badRequest"}, pc = "start", Fail(kind),
             UNCHANGED <<child, pipe, got, status, wrote>>
      PROVE  RunnerInv'
  BY <1>2 DEF Fail, TypeInv, Results, ChildWhileWaited, Conserved, Answered
<1>3. ASSUME pc = "start", child' = "loading", pc' = "write",
             pipe' = [s \in Streams |-> [n |-> 0, w |-> TRUE]],
             UNCHANGED <<result, code, got, status, wrote>>
      PROVE  RunnerInv'
  <2>1. TypeInv' /\ ChildWhileWaited' /\ Answered'
    BY <1>3 DEF TypeInv, Channel, ChildWhileWaited, Answered
  <2>2. Conserved'
    BY <1>3 DEF Conserved, ChildWhileWaited
  <2> QED
    BY <2>1, <2>2
<1> QED
  BY <1>1, <1>2, <1>3 DEF RunPython, RunNodejs, Spawn

\* write_all moves the script into the pipe, dropping stdin closes it; the
\* interpreter is not touched.
LEMMA WriteRunner ==
    ASSUME RunnerInv, WriteStdin \/ CloseStdin
    PROVE  RunnerInv'
BY DEF RunnerInv, WriteStdin, CloseStdin, childVars, TypeInv, ChildWhileWaited,
       Conserved, Answered

\* Every error after the spawn drops the child and kills it with that.
LEMMA FailRunner ==
    ASSUME RunnerInv, WriteFails \/ Timeout \/ WaitFails
    PROVE  RunnerInv'
<1>1. /\ DropChild /\ UNCHANGED <<got, wrote>>
      /\ pc' = "done" /\ result' \in Results \ {"ok"}
  BY DEF WriteFails, Timeout, WaitFails, Fail, Results
<1>2. /\ child' = "dead" /\ status' \in Statuses
      /\ pipe' \in [Streams -> Channel]
      /\ \A s \in Streams : pipe'[s].n = pipe[s].n
  BY <1>1, Dropped DEF RunnerInv
<1>3. TypeInv' /\ ChildWhileWaited' /\ Answered'
  BY <1>1, <1>2 DEF RunnerInv, TypeInv, ChildWhileWaited, Answered
<1>4. Conserved'
  BY <1>1, <1>2 DEF RunnerInv, Conserved
<1> QED
  BY <1>3, <1>4 DEF RunnerInv

\* wait_with_output moves what is in a pipe to what is collected.
LEMMA CollectRunner ==
    ASSUME RunnerInv, NEW t \in Streams, Collect(t)
    PROVE  RunnerInv'
<1>1. /\ pc = "wait" /\ UNCHANGED <<pc, result, code, child, status, wrote>>
      /\ got' = [got EXCEPT ![t] = @ + pipe[t].n]
      /\ pipe' = [pipe EXCEPT ![t].n = 0]
  BY DEF Collect
<1>2. \A s \in Streams : /\ pipe[s] \in Channel /\ got[s] \in Nat
                         /\ pipe[s].n \in Nat
  BY DEF RunnerInv, TypeInv, Channel
<1>3. TypeInv'
  <2>1. pipe' \in [Streams -> Channel]
    BY <1>1, <1>2 DEF RunnerInv, TypeInv, Channel
  <2>2. got' \in [Streams -> Nat]
    BY <1>1, <1>2 DEF RunnerInv, TypeInv
  <2> QED
    BY <1>1, <2>1, <2>2 DEF RunnerInv, TypeInv
<1>4. ChildWhileWaited' /\ Answered'
  BY <1>1 DEF RunnerInv, ChildWhileWaited, Answered
<1>5. Conserved'
  <2> SUFFICES ASSUME NEW s \in Streams PROVE got'[s] + pipe'[s].n = wrote[s]
    BY <1>1 DEF Conserved
  <2>1. CASE s = t
    BY <1>1, <1>2, <2>1 DEF RunnerInv, TypeInv, Conserved
  <2>2. CASE s # t
    BY <1>1, <2>2 DEF RunnerInv, TypeInv, Conserved
  <2> QED
    BY <2>1, <2>2
<1> QED
  BY <1>3, <1>4, <1>5 DEF RunnerInv

\* wait_with_output returns once the child is dead and its pipes are empty.
LEMMA DoneRunner ==
    ASSUME RunnerInv, WaitDone
    PROVE  RunnerInv'
BY DEF RunnerInv, WaitDone, Collected, childVars, TypeInv, Results, ChildWhileWaited,
       Conserved, Answered

\* A write of the child puts one unit into its pipe.
LEMMA ChildWriteRunner ==
    ASSUME RunnerInv, NEW t \in Streams, ChildWrite(t)
    PROVE  RunnerInv'
<1>1. /\ child \in {"loading", "running"}
      /\ UNCHANGED <<pc, result, code, got, child, status>>
      /\ wrote' = [wrote EXCEPT ![t] = @ + 1]
      /\ pipe' = [pipe EXCEPT ![t].n = pipe[t].n + 1]
  BY DEF ChildWrite, serverVars
<1>2. \A s \in Streams : /\ pipe[s] \in Channel /\ got[s] \in Nat
                         /\ pipe[s].n \in Nat /\ wrote[s] \in Nat
  BY DEF RunnerInv, TypeInv, Channel
<1>3. TypeInv'
  <2>1. pipe' \in [Streams -> Channel]
    BY <1>1, <1>2 DEF RunnerInv, TypeInv, Channel
  <2>2. wrote' \in [Streams -> Nat]
    BY <1>1, <1>2 DEF RunnerInv, TypeInv
  <2> QED
    BY <1>1, <2>1, <2>2 DEF RunnerInv, TypeInv
<1>4. ChildWhileWaited' /\ Answered'
  BY <1>1 DEF RunnerInv, ChildWhileWaited, Answered, TypeInv
<1>5. Conserved'
  <2> SUFFICES ASSUME NEW s \in Streams PROVE got[s] + pipe'[s].n = wrote'[s]
    BY <1>1 DEF Conserved
  <2>1. CASE s = t
    BY <1>1, <1>2, <2>1 DEF RunnerInv, TypeInv, Conserved
  <2>2. CASE s # t
    BY <1>1, <2>2 DEF RunnerInv, TypeInv, Conserved
  <2> QED
    BY <2>1, <2>2
<1> QED
  BY <1>3, <1>4, <1>5 DEF RunnerInv

\* A child that ends by itself leaves its output in the pipes.
LEMMA ChildDiesRunner ==
    ASSUME RunnerInv, NEW st \in Statuses, ChildDies(st)
    PROVE  RunnerInv'
<1>1. /\ child \in {"loading", "running"} /\ child' = "dead" /\ status' = st
      /\ UNCHANGED <<pc, result, code, got, wrote>>
      /\ pipe' \in [Streams -> Channel]
      /\ \A s \in Streams : pipe'[s].n = pipe[s].n
  BY ZenonT(30) DEF ChildDies, serverVars, RunnerInv, TypeInv, Channel
<1>2. TypeInv' /\ ChildWhileWaited' /\ Answered'
  BY <1>1 DEF RunnerInv, TypeInv, ChildWhileWaited, Answered
<1>3. Conserved'
  BY <1>1 DEF RunnerInv, Conserved
<1> QED
  BY <1>2, <1>3 DEF RunnerInv

\* The interpreter loads its script and starts it, or closes its stdin.
LEMMA LoadRunner ==
    ASSUME RunnerInv, ReadStdin \/ Loaded \/ ChildClosesStdin
    PROVE  RunnerInv'
BY DEF RunnerInv, ReadStdin, Loaded, ChildClosesStdin, serverVars, TypeInv, ChildWhileWaited, Conserved,
       Answered

\* The invariant of one request: where the interpreter is while run() is at
\* each of its positions, and where its output is.
THEOREM RunnerInvariant == Spec => []RunnerInv
<1>1. RunnerInv /\ [Next]_vars => RunnerInv'
  <2> SUFFICES ASSUME RunnerInv, [Next]_vars PROVE RunnerInv'
    OBVIOUS
  <2>1. CASE Server
    BY <2>1, StartRunner, WriteRunner, FailRunner, CollectRunner, DoneRunner DEF Server
  <2>2. CASE WaitFails
    BY <2>2, FailRunner
  <2>3. CASE Interpreter
    BY <2>3, LoadRunner, ChildWriteRunner, ChildDiesRunner DEF Interpreter
  <2>4. CASE UNCHANGED vars
    BY <2>4 DEF vars, serverVars, childVars, RunnerInv, TypeInv, ChildWhileWaited,
                Conserved, Answered
  <2> QED
    BY <2>1, <2>2, <2>3, <2>4 DEF Next
<1> QED
  BY InitRunner, <1>1, PTL DEF Spec

\* However run() ends (an answer, a timeout, a failed write or wait), the
\* interpreter does not run on after it.
THEOREM RunnerLeavesNone == Spec => []NoneLeftRunning
<1>1. RunnerInv => NoneLeftRunning
  BY DEF RunnerInv, ChildWhileWaited, NoneLeftRunning
<1> QED
  BY <1>1, RunnerInvariant, PTL

\* A run that is not cut off returns all its child wrote on both streams,
\* whatever was still in the pipes when the child died.
THEOREM RunnerOutputWhole == Spec => []OutputWhole
<1>1. RunnerInv => OutputWhole
  <2> SUFFICES ASSUME RunnerInv, result = "ok" PROVE got = wrote
    BY DEF OutputWhole
  <2>1. \A s \in Streams : got[s] = wrote[s]
    BY DEF RunnerInv, TypeInv, Conserved, Answered
  <2> QED
    BY <2>1 DEF RunnerInv, TypeInv
<1> QED
  BY <1>1, RunnerInvariant, PTL

\* A child killed by seccomp is answered by 31, whatever it had written and
\* whatever other signals and codes a child may end with.
THEOREM RunnerReportsSeccomp == Spec => []SeccompReported
<1>1. RunnerInv => SeccompReported
  BY SeccompCode DEF RunnerInv, Answered, SeccompReported
<1> QED
  BY <1>1, RunnerInvariant, PTL
=============================================================================
