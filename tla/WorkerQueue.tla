----------------------------- MODULE WorkerQueue -----------------------------
(***************************************************************************)
(* The job queue (queue.rs): submit() counts a job, sends it into an       *)
(* unbounded multi-consumer channel and awaits the answer; max_workers     *)
(* tasks take jobs out, discount them, run them and answer.  Submitters    *)
(* run on the threads of the HTTP server, the tasks on the main thread.    *)
(* queue_depth is a usize: falling below zero would wrap it around.        *)
(***************************************************************************)
EXTENDS Integers, Sequences, FiniteSets

CONSTANTS
    Submitters,  \* calls of submit(); each element is one call
    Workers,     \* the worker tasks, max_workers of them; may be empty
    NoJob,       \* a worker task that holds no message
    Panics,      \* a job may panic, which ends its task
    Leaves       \* a client may go away while it waits

ASSUME QueueAssumption ==
    /\ IsFiniteSet(Submitters) /\ IsFiniteSet(Workers)
    /\ NoJob \notin Submitters
    /\ {Panics, Leaves} \subseteq BOOLEAN

VARIABLES
    queue_depth,  \* QueueStats.queue_depth
    chan,         \* messages in the channel, named by their submitters
    spc,          \* position of each submit()
    reply,        \* the oneshot channel of each message
    answer,       \* what each submit() returned
    wpc, msg,     \* of each task: its position and the message it holds
    runs          \* history: how often each job was started

vars == <<queue_depth, chan, spc, reply, answer, wpc, msg, runs>>

TypeOK ==
    /\ queue_depth \in Nat
    /\ chan \in Seq(Submitters)
    /\ spc \in [Submitters -> {"start", "counted", "refused", "waiting", "left", "done"}]
    /\ reply \in [Submitters -> {"empty", "sent", "dropped"}]
    /\ answer \in [Submitters -> {"none", "result", "unavailable", "shutDown"}]
    /\ wpc \in [Workers -> {"recv", "taken", "job", "gone"}]
    /\ msg \in [Workers -> Submitters \cup {NoJob}]
    /\ runs \in [Submitters -> Nat]

\* QueueController::start
Init ==
    /\ queue_depth = 0
    /\ chan = <<>>
    /\ spc = [s \in Submitters |-> "start"]
    /\ reply = [s \in Submitters |-> "empty"]
    /\ answer = [s \in Submitters |-> "none"]
    /\ wpc = [w \in Workers |-> "recv"]
    /\ msg = [w \in Workers |-> NoJob]
    /\ runs = [s \in Submitters |-> 0]

\* Mutant of Open: start() keeps a receiver of its own.
OpenForever == TRUE

\* The channel is closed when the last receiver is dropped; every task owns
\* one, and start() drops its own.
Open == \E w \in Workers : wpc[w] # "gone"

-----------------------------------------------------------------------------
(* submit() *)

Count(s) ==
    /\ spc[s] = "start"
    /\ spc' = [spc EXCEPT ![s] = "counted"]
    /\ queue_depth' = queue_depth + 1
    /\ UNCHANGED <<chan, reply, answer, wpc, msg, runs>>

TrySend(s) ==
    /\ spc[s] = "counted"
    /\ IF Open
       THEN /\ chan' = Append(chan, s)
            /\ spc' = [spc EXCEPT ![s] = "waiting"]
       ELSE /\ spc' = [spc EXCEPT ![s] = "refused"]
            /\ UNCHANGED chan
    /\ UNCHANGED <<queue_depth, reply, answer, wpc, msg, runs>>

Uncount(s) ==
    /\ spc[s] = "refused"
    /\ spc' = [spc EXCEPT ![s] = "done"]
    /\ answer' = [answer EXCEPT ![s] = "unavailable"]
    /\ queue_depth' = queue_depth - 1
    /\ UNCHANGED <<chan, reply, wpc, msg, runs>>

Answer(s) ==
    /\ spc[s] = "waiting"
    /\ reply[s] # "empty"
    /\ spc' = [spc EXCEPT ![s] = "done"]
    /\ answer' = [answer EXCEPT ![s] = IF reply[s] = "sent" THEN "result" ELSE "shutDown"]
    /\ UNCHANGED <<queue_depth, chan, reply, wpc, msg, runs>>

\* The HTTP server drops the handler of a client that has disconnected; its
\* message stays in the channel.
Leave(s) ==
    /\ Leaves
    /\ spc[s] = "waiting"
    /\ spc' = [spc EXCEPT ![s] = "left"]
    /\ UNCHANGED <<queue_depth, chan, reply, answer, wpc, msg, runs>>

-----------------------------------------------------------------------------
(* A worker task *)

\* Mutant of Recv: the message is read but stays in the channel.
RecvPeek(w) ==
    /\ wpc[w] = "recv"
    /\ chan # <<>>
    /\ msg' = [msg EXCEPT ![w] = Head(chan)]
    /\ wpc' = [wpc EXCEPT ![w] = "taken"]
    /\ UNCHANGED <<queue_depth, chan, spc, reply, answer, runs>>

Recv(w) ==
    /\ wpc[w] = "recv"
    /\ chan # <<>>
    /\ msg' = [msg EXCEPT ![w] = Head(chan)]
    /\ chan' = Tail(chan)
    /\ wpc' = [wpc EXCEPT ![w] = "taken"]
    /\ UNCHANGED <<queue_depth, spc, reply, answer, runs>>

\* Mutant of Discount: the task does not discount the job.
DiscountNothing(w) ==
    /\ wpc[w] = "taken"
    /\ wpc' = [wpc EXCEPT ![w] = "job"]
    /\ runs' = [runs EXCEPT ![msg[w]] = @ + 1]
    /\ UNCHANGED <<queue_depth, chan, spc, reply, answer, msg>>

Discount(w) ==
    /\ wpc[w] = "taken"
    /\ queue_depth' = queue_depth - 1
    /\ wpc' = [wpc EXCEPT ![w] = "job"]
    /\ runs' = [runs EXCEPT ![msg[w]] = @ + 1]
    /\ UNCHANGED <<chan, spc, reply, answer, msg>>

Respond(w) ==
    /\ wpc[w] = "job"
    /\ reply' = [reply EXCEPT ![msg[w]] = "sent"]
    /\ msg' = [msg EXCEPT ![w] = NoJob]
    /\ wpc' = [wpc EXCEPT ![w] = "recv"]
    /\ UNCHANGED <<queue_depth, chan, spc, answer, runs>>

\* Mutant of Panic: the responder outlives the task.
PanicKeepsResponder(w) ==
    /\ Panics
    /\ wpc[w] = "job"
    /\ msg' = [msg EXCEPT ![w] = NoJob]
    /\ wpc' = [wpc EXCEPT ![w] = "gone"]
    /\ UNCHANGED <<queue_depth, chan, spc, reply, answer, runs>>

\* The panic unwinds the task: its receiver and the responder are dropped.
Panic(w) ==
    /\ Panics
    /\ wpc[w] = "job"
    /\ reply' = [reply EXCEPT ![msg[w]] = "dropped"]
    /\ msg' = [msg EXCEPT ![w] = NoJob]
    /\ wpc' = [wpc EXCEPT ![w] = "gone"]
    /\ UNCHANGED <<queue_depth, chan, spc, answer, runs>>

SubmitStep(s) == Count(s) \/ TrySend(s) \/ Uncount(s) \/ Answer(s) \/ Leave(s)

WorkerStep(w) == Recv(w) \/ Discount(w) \/ Respond(w) \/ Panic(w)

Next == (\E s \in Submitters : SubmitStep(s)) \/ (\E w \in Workers : WorkerStep(w))

Spec == Init /\ [][Next]_vars

(***************************************************************************)
(* Every job ends, because run() of each language has a timeout; a task    *)
(* that is ready is polled; a submit() that has begun goes on.             *)
(***************************************************************************)
FairSpec ==
    /\ Spec
    /\ \A s \in Submitters : WF_vars(TrySend(s) \/ Uncount(s) \/ Answer(s))
    /\ \A w \in Workers : WF_vars(Recv(w) \/ Discount(w) \/ Respond(w))

-----------------------------------------------------------------------------

\* Messages counted in but not in the channel, and taken out but not yet
\* discounted.
Entering == {s \in Submitters : spc[s] \in {"counted", "refused"}}
Leaving == {w \in Workers : wpc[w] = "taken"}

\* queue_depth is the channel's length up to the jobs that are just being
\* moved, whatever the threads do between the counter and the channel; so
\* the counter never wraps below zero.
DepthExact ==
    queue_depth = Len(chan) + Cardinality(Entering) + Cardinality(Leaving)

\* A job is started at most once, and a submit() that returns a result
\* returns that of its own job, which has run; one that was refused has
\* not run and never will.
RunsOnce ==
    \A s \in Submitters :
        /\ runs[s] <= 1
        /\ answer[s] = "result" => runs[s] = 1 /\ reply[s] = "sent"
        /\ answer[s] = "unavailable" =>
              /\ runs[s] = 0
              /\ \A i \in DOMAIN chan : chan[i] # s
              /\ \A w \in Workers : msg[w] # s

\* Every submit() returns as long as one task survives; if the last task
\* dies, the messages still in the channel keep their submitters waiting.
EverySubmitReturns ==
    \A s \in Submitters :
        (spc[s] = "counted") ~> (spc[s] \in {"done", "left"} \/ ~Open)

\* Once every task is gone, or if there never was one (max_workers = 0), the
\* channel is closed: a submit() that has only been counted is told so, and
\* does not wait for a task that does not exist.
RefusedWhenClosed ==
    \A s \in Submitters :
        (spc[s] = "counted" /\ \A w \in Workers : wpc[w] = "gone")
            ~> (answer[s] = "unavailable")
=============================================================================
