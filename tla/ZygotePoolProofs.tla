-------------------------- MODULE ZygotePoolProofs --------------------------
(***************************************************************************)
(* Proofs about ZygotePool: for any set of calls, any number of worker     *)
(* tasks, any output cap and any buffer sizes.  Three invariants, each on  *)
(* top of the ones before it: types, locks and bounds (IInv), the order of *)
(* the control frames (WireInv) and the output that is under way           *)
(* (AnswerInv).                                                            *)
(***************************************************************************)
EXTENDS ZygotePool, TLAPS

InCall == {"lockRun", "writeRun", "wait", "lockKill", "writeKill"}

\* A call past its registration has a req_id.
Registered == \A c \in Callers : pc[c] \in InCall => rid[c] \in Ids

\* read_loop has a request to cut off while it is at it.
CutNamed == rpc \in {"limit", "lockKill", "writeKill"} => cut.id \in Ids

\* OutputBounded, and the same of results that are on their way.
Bounded ==
    /\ OutputBounded
    /\ cut.out <= 2 * MaxOutput
    /\ \A id \in Ids : rx[id].out + rx[id].err <= 2 * MaxOutput

\* If frames fit into the cap, read_loop ends only when the worker is gone.
Lost ==
    MaxFrame <= MaxOutput /\ DoneLen <= MaxOutput =>
        /\ rpc \in {"stop", "fail", "closed"} => ~workerOpen
        /\ \A id \in Ids : rx[id].kind = "lost" => ~workerOpen
        /\ LostMeansWorkerGone

IInv == TypeOK /\ Registered /\ CutNamed /\ OneWriter /\ PendingNoLeak /\ Bounded /\ Lost

-----------------------------------------------------------------------------
(* What is on the wire *)

\* Each req_id is one call's; a call has none until it is registered.
OwnIds ==
    /\ \A c \in Callers :
          /\ rid[c] < next_id
          /\ pc[c] \in {"start", "register"} => rid[c] = 0
          /\ pc[c] = "done" /\ rid[c] = 0 => res[c].kind = "notRunning"
          /\ pc[c] # "done" => res[c].kind = "empty"
    /\ \A c, d \in Callers : rid[c] = rid[d] /\ rid[c] # 0 => c = d

\* RUN has not been written for this req_id.
Unsent(id) ==
    id >= next_id \/ \E c \in Callers : rid[c] = id /\ pc[c] \in {"lockRun", "writeRun"}

\* RUN is written once, before any KILL of the request, and taken once.
InOrder ==
    /\ \A id \in Ids : Unsent(id) => kid[id] = "none" /\ ~Queued("RUN", id) /\ ~Queued("KILL", id)
    /\ \A id \in Ids : Queued("RUN", id) => kid[id] = "none"
    /\ \A id \in Ids : \A i, j \in DOMAIN toWorker : toWorker[i] = Request("RUN", id) =>
          /\ toWorker[j] = Request("RUN", id) => i = j
          /\ toWorker[j] = Request("KILL", id) => i < j
    /\ ~workerOpen => toWorker = <<>>

\* What read_loop knows of a request, it knows from a child that was forked.
Heard ==
    /\ \A i \in DOMAIN fromWorker : kid[fromWorker[i].id] # "none"
    /\ rpc \in {"limit", "lockKill", "writeKill"} => kid[cut.id] # "none"
    /\ \A id \in Ids : rx[id].kind = "limit" => kid[id] # "none"
    /\ \A id \in Ids : \/ rx[id] \in {Empty, Closed}
                       \/ rx[id].kind \in {"exit", "limit", "lost"}

\* The request was, or is about to be, reported as timed out or over the
\* limit.
WasCut(id) ==
    \/ rx[id].kind = "limit"
    \/ \E c \in Callers : rid[c] = id /\ res[c].kind \in {"timeout", "limit"}

\* NoStraySandbox, from the moment the answer is on its way.
KillFollows ==
    workerOpen => \A id \in Ids :
        WasCut(id) /\ (kid[id] = "live" \/ Queued("RUN", id)) =>
            Queued("KILL", id) \/ ReaderOwesKill(id)

WireInv == OwnIds /\ InOrder /\ Heard /\ KillFollows

-----------------------------------------------------------------------------
(* What the answers say *)

\* The bytes of stream s a frame carries for the request.
Carried(f, id, s) == IF f.id = id /\ f.type = s THEN f.val ELSE 0

\* The frames of q take the count of stream s from one value to the other:
\* b is the count after each frame.  DONE comes when it is complete; so is
\* the whole queue, unless it was cut short by the end of the worker.
TakesTo(q, whole, id, s, from, to) ==
    \E b \in [0..Len(q) -> Nat] :
        /\ b[0] = from
        /\ \A i \in 1..Len(q) : b[i] = b[i - 1] + Carried(q[i], id, s)
        /\ \A i \in 1..Len(q) : q[i].id = id /\ q[i].type = "DONE" => b[i] = to
        /\ whole => b[Len(q)] = to

\* What is buffered and what is under way add up to what the child wrote.
Tallied ==
    \A id \in pending : entry[id].tx =>
        /\ TakesTo(fromWorker, workerOpen, id, "STDOUT", entry[id].out, wrote[id].STDOUT)
        /\ TakesTo(fromWorker, workerOpen, id, "STDERR", entry[id].err, wrote[id].STDERR)

\* A DONE frame carries the code of a reaped child, which writes no more; a
\* child that was not forked wrote nothing.
DoneReaped ==
    /\ \A i \in DOMAIN fromWorker : fromWorker[i].type = "DONE" =>
          /\ kid[fromWorker[i].id] = "done"
          /\ fromWorker[i].val = code[fromWorker[i].id]
    /\ \A id \in Ids : kid[id] = "none" => wrote[id].STDOUT = 0 /\ wrote[id].STDERR = 0

\* The result is the whole output and the exit code of the request's child.
Tells(r, id) ==
    /\ kid[id] = "done"
    /\ r.code = code[id] /\ r.out = wrote[id].STDOUT /\ r.err = wrote[id].STDERR

Faithful ==
    /\ \A id \in Ids : rx[id].kind = "exit" => Tells(rx[id], id)
    /\ \A c \in Callers : res[c].kind = "exit" => rid[c] \in Ids /\ Tells(res[c], rid[c])

AnswerInv == Tallied /\ DoneReaped /\ Faithful

-----------------------------------------------------------------------------
(* Types, locks and bounds *)

\* A frame of the other stream, or of another request, adds no byte to a total.
LEMMA PlusZero == \A n \in Nat : n + 0 = n
  OBVIOUS

\* A call that is registered has a req_id other than the initial 0.
LEMMA HasId == ASSUME Registered, NEW c \in Callers, pc[c] \in InCall
               PROVE  rid[c] \in Ids /\ rid[c] # 0
<1>1. rid[c] \in Ids
  BY Zenon DEF Registered
<1> QED
  BY ONLY <1>1 DEF Ids

\* The values the actions build are of their types.
LEMMA Values ==
    /\ \A k \in Kinds : /\ Failure(k) \in Results
                        /\ Failure(k).kind = k
                        /\ Failure(k).out = 0 /\ Failure(k).err = 0
    /\ NoEntry \in Entries /\ NoEntry.out = 0 /\ NoEntry.err = 0
    /\ \A t \in {"RUN", "KILL"}, id \in Ids : Request(t, id) \in RequestFrame
    /\ \A r \in Results : r.kind \in Kinds /\ r.out \in Nat /\ r.err \in Nat
    /\ \A e \in Entries : e.out \in Nat /\ e.err \in Nat /\ e.tx \in BOOLEAN
  BY DEF Failure, Kinds, Results, NoEntry, Entries, Request, RequestFrame

-----------------------------------------------------------------------------

\* A frame written under the lock, or the failure to write it, keeps the
\* socket's type and does not close it.
LEMMA Sending ==
    ASSUME SocketTypeOK, NEW t \in {"RUN", "KILL"}, NEW id \in Ids,
           SendRequest(t, id) \/ SendFails
    PROVE  SocketTypeOK' /\ workerOpen' = workerOpen
  BY Values, SMTT(30) DEF SocketTypeOK, SendRequest, SendFails, socketVars

\* The early return of run() keeps the invariant.
LEMMA CheckRunningIInv ==
    ASSUME IInv, NEW c \in Callers, CheckRunning(c), UNCHANGED workerVars PROVE IInv'
<1> USE ProtocolAssumption, ManagerAssumption, Values DEF CheckRunning, Goto, Return, callVars, readerVars, socketVars
<1>1. SocketTypeOK'
  BY Zenon DEF IInv, TypeOK, SocketTypeOK, socketVars
<1>2. ManagerTypeOK'
  BY SMTT(30) DEF IInv, TypeOK, ManagerTypeOK, Registered, InCall, Kinds
<1>3. ContractTypeOK'
  BY Zenon DEF IInv, TypeOK, ContractTypeOK, workerVars
<1>4. Registered' /\ CutNamed'
  BY DEF IInv, TypeOK, ManagerTypeOK, Registered, CutNamed, InCall
<1>5. OneWriter'
  BY DEF IInv, TypeOK, ManagerTypeOK, OneWriter
<1>6. PendingNoLeak'
  BY DEF IInv, TypeOK, ManagerTypeOK, Registered, PendingNoLeak, InCall
<1>7. Bounded'
  BY SMTT(30) DEF IInv, TypeOK, ManagerTypeOK, Registered, Bounded, OutputBounded, InCall, Kinds
<1>8. Lost'
  BY DEF IInv, TypeOK, ManagerTypeOK, Registered, Lost, LostMeansWorkerGone, InCall, Kinds
<1> QED
  BY <1>1, <1>2, <1>3, <1>4, <1>5, <1>6, <1>7, <1>8, Zenon DEF IInv, TypeOK

\* Entering a fresh req_id into the map keeps the invariant: the id is the
\* caller's, and its buffers are empty.
LEMMA RegisterIInv ==
    ASSUME IInv, NEW c \in Callers, Register(c), UNCHANGED workerVars PROVE IInv'
<1> USE ProtocolAssumption, ManagerAssumption, Values DEF Register, NextId, Goto, Empty, callVars, readerVars, socketVars
<1> DEFINE fresh == [out |-> 0, err |-> 0, tx |-> TRUE]
<1>0. /\ next_id \in Ids /\ next_id + 1 \in 1..(IdLimit + 1)
      /\ fresh \in Entries /\ fresh.out = 0 /\ fresh.err = 0
      /\ entry' = [entry EXCEPT ![next_id] = fresh]
  BY DEF IInv, TypeOK, ManagerTypeOK, Ids, Entries
<1> HIDE DEF fresh
<1>1. SocketTypeOK'
  BY Zenon DEF IInv, TypeOK, SocketTypeOK, socketVars
<1>2. ManagerTypeOK'
  <2>1. pending' \in SUBSET Ids /\ next_id' \in 1..(IdLimit + 1)
    BY <1>0, ZenonT(30) DEF IInv, TypeOK, ManagerTypeOK
  <2>4. entry' \in [Ids -> Entries]
    BY <1>0, ZenonT(30) DEF IInv, TypeOK, ManagerTypeOK
  <2>2. rx' \in [Ids -> Results]
    BY <1>0, Zenon DEF IInv, TypeOK, ManagerTypeOK, Kinds
  <2>3. /\ pc' \in [Callers -> {"start", "register", "lockRun", "writeRun", "wait",
                             "lockKill", "writeKill", "done"}]
        /\ rid' \in [Callers -> Ids \cup {0}]
    BY <1>0, Zenon DEF IInv, TypeOK, ManagerTypeOK
  <2> QED
    BY <2>1, <2>2, <2>3, <2>4, Zenon DEF IInv, TypeOK, ManagerTypeOK
<1>3. ContractTypeOK'
  BY Zenon DEF IInv, TypeOK, ContractTypeOK, workerVars
<1>4. Registered' /\ CutNamed'
  BY <1>0 DEF IInv, TypeOK, ManagerTypeOK, Registered, CutNamed, InCall
<1>5. OneWriter'
  BY Zenon DEF IInv, TypeOK, ManagerTypeOK, OneWriter
<1>6. PendingNoLeak'
  BY SMTT(30) DEF IInv, TypeOK, ManagerTypeOK, Registered, PendingNoLeak, InCall
<1>7. Bounded'
  BY <1>0 DEF IInv, TypeOK, ManagerTypeOK, Bounded, OutputBounded, CutNamed, Kinds
<1>8. Lost'
  BY <1>0, Zenon DEF IInv, TypeOK, ManagerTypeOK, Registered, Lost, LostMeansWorkerGone, InCall, Kinds
<1> QED
  BY <1>1, <1>2, <1>3, <1>4, <1>5, <1>6, <1>7, <1>8, Zenon DEF IInv, TypeOK

\* Taking the write lock keeps the invariant: it was free.
LEMMA AcquireWriteIInv ==
    ASSUME IInv, NEW c \in Callers, AcquireWrite(c), UNCHANGED workerVars PROVE IInv'
<1> USE ProtocolAssumption, ManagerAssumption, Values DEF AcquireWrite, LockFree, Goto, callVars, readerVars, socketVars
<1>1. SocketTypeOK'
  BY Zenon DEF IInv, TypeOK, SocketTypeOK, socketVars
<1>2. ManagerTypeOK'
  BY ZenonT(30) DEF IInv, TypeOK, ManagerTypeOK, Registered, InCall, Kinds
<1>3. ContractTypeOK'
  BY Zenon DEF IInv, TypeOK, ContractTypeOK, workerVars
<1>4. Registered' /\ CutNamed'
  BY DEF IInv, TypeOK, ManagerTypeOK, Registered, CutNamed, InCall
<1>5. OneWriter'
  BY DEF IInv, TypeOK, ManagerTypeOK, OneWriter
<1>6. PendingNoLeak'
  BY DEF IInv, TypeOK, ManagerTypeOK, Registered, PendingNoLeak, InCall
<1>7. Bounded'
  BY Zenon DEF IInv, TypeOK, ManagerTypeOK, Registered, Bounded, OutputBounded, InCall, Kinds
<1>8. Lost'
  BY Zenon DEF IInv, TypeOK, ManagerTypeOK, Registered, Lost, LostMeansWorkerGone, InCall, Kinds
<1> QED
  BY <1>1, <1>2, <1>3, <1>4, <1>5, <1>6, <1>7, <1>8, Zenon DEF IInv, TypeOK

\* Writing RUN, or failing to and removing the entry, keeps the invariant.
LEMMA WriteRunIInv ==
    ASSUME IInv, NEW c \in Callers, WriteRun(c), UNCHANGED workerVars PROVE IInv'
<1> USE ProtocolAssumption, ManagerAssumption, Values DEF WriteRun, Goto, Return, Remove, callVars, readerVars
<1>0. rid[c] \in Ids
  BY Zenon DEF IInv, Registered, InCall
<1>1. SocketTypeOK' /\ workerOpen' = workerOpen
  BY <1>0, Sending, Zenon DEF IInv, TypeOK
<1>2. ManagerTypeOK'
  <2>1. CASE SendRequest("RUN", rid[c]) /\ Goto(c, "wait") /\ UNCHANGED <<res, pending, entry>>
    BY <2>1, Zenon DEF IInv, TypeOK, ManagerTypeOK
  <2>2. CASE SendFails /\ Remove(rid[c]) /\ Return(c, Failure("writeFailed"))
    BY <1>0, <2>2, Zenon DEF IInv, TypeOK, ManagerTypeOK, Kinds
  <2> QED
    BY <2>1, <2>2, Zenon
<1>3. ContractTypeOK'
  BY Zenon DEF IInv, TypeOK, ContractTypeOK, workerVars
<1>4. Registered' /\ CutNamed'
  BY DEF IInv, TypeOK, ManagerTypeOK, Registered, CutNamed, InCall
<1>5. OneWriter'
  BY DEF IInv, TypeOK, ManagerTypeOK, OneWriter
<1>6. PendingNoLeak'
  <2>1. \A d \in Callers : d # c => pc'[d] = pc[d] /\ rid'[d] = rid[d]
    BY DEF IInv, TypeOK, ManagerTypeOK
  <2>2. CASE pc'[c] = "wait" /\ pending' = pending
    BY <2>1, <2>2 DEF IInv, TypeOK, ManagerTypeOK, PendingNoLeak
  <2>3. CASE pending' = pending \ {rid[c]}
    BY <2>1, <2>3 DEF IInv, TypeOK, ManagerTypeOK, PendingNoLeak
  <2> QED
    BY <2>2, <2>3, ZenonT(30) DEF IInv, TypeOK, ManagerTypeOK
<1>7. Bounded'
  <2>1. CASE UNCHANGED <<res, pending, entry>>
    BY <2>1, ZenonT(30) DEF IInv, Bounded, OutputBounded
  <2>2. CASE Remove(rid[c]) /\ Return(c, Failure("writeFailed"))
    BY <1>0, <2>2 DEF IInv, TypeOK, ManagerTypeOK, Bounded, OutputBounded, Kinds
  <2> QED
    BY <2>1, <2>2, SMTT(30)
<1>8. Lost'
  BY <1>1 DEF IInv, TypeOK, ManagerTypeOK, Registered, Lost, LostMeansWorkerGone, InCall, Kinds
<1> QED
  BY <1>1, <1>2, <1>3, <1>4, <1>5, <1>6, <1>7, <1>8, Zenon DEF IInv, TypeOK

\* Returning what came through the channel keeps the invariant: the value is
\* within the bounds of rx.
LEMMA ReceiveIInv ==
    ASSUME IInv, NEW c \in Callers, Receive(c), UNCHANGED workerVars PROVE IInv'
<1> USE ProtocolAssumption, ManagerAssumption, Values DEF Receive, Goto, Return, Remove, Empty, Closed, callVars, readerVars, socketVars
<1>1. SocketTypeOK'
  BY Zenon DEF IInv, TypeOK, SocketTypeOK, socketVars
<1>2. ManagerTypeOK'
  BY ZenonT(30) DEF IInv, TypeOK, ManagerTypeOK, Registered, InCall, Kinds
<1>3. ContractTypeOK'
  BY Zenon DEF IInv, TypeOK, ContractTypeOK, workerVars
<1>4. Registered' /\ CutNamed'
  BY DEF IInv, TypeOK, ManagerTypeOK, Registered, CutNamed, InCall
<1>5. OneWriter'
  BY ZenonT(30) DEF IInv, TypeOK, ManagerTypeOK, OneWriter
<1>6. PendingNoLeak'
  BY DEF IInv, TypeOK, ManagerTypeOK, Registered, PendingNoLeak, InCall
<1>7. Bounded'
  BY ZenonT(30) DEF IInv, TypeOK, ManagerTypeOK, Registered, Bounded, OutputBounded, InCall, Kinds
<1>8. Lost'
  BY ZenonT(30) DEF IInv, TypeOK, ManagerTypeOK, Registered, Lost, LostMeansWorkerGone, InCall, Kinds
<1> QED
  BY <1>1, <1>2, <1>3, <1>4, <1>5, <1>6, <1>7, <1>8, Zenon DEF IInv, TypeOK

\* The timeout keeps the invariant: the entry stays until KILL is written.
LEMMA GiveUpIInv ==
    ASSUME IInv, NEW c \in Callers, GiveUp(c), UNCHANGED workerVars PROVE IInv'
<1> USE ProtocolAssumption, ManagerAssumption, Values DEF GiveUp, Goto, callVars, readerVars, socketVars
<1>1. SocketTypeOK'
  BY Zenon DEF IInv, TypeOK, SocketTypeOK, socketVars
<1>2. ManagerTypeOK'
  BY SMTT(30) DEF IInv, TypeOK, ManagerTypeOK, Registered, InCall, Kinds
<1>3. ContractTypeOK'
  BY Zenon DEF IInv, TypeOK, ContractTypeOK, workerVars
<1>4. Registered' /\ CutNamed'
  BY DEF IInv, TypeOK, ManagerTypeOK, Registered, CutNamed, InCall
<1>5. OneWriter'
  BY ZenonT(30) DEF IInv, TypeOK, ManagerTypeOK, OneWriter
<1>6. PendingNoLeak'
  BY DEF IInv, TypeOK, ManagerTypeOK, Registered, PendingNoLeak, InCall
<1>7. Bounded'
  BY Zenon DEF IInv, TypeOK, ManagerTypeOK, Registered, Bounded, OutputBounded, InCall, Kinds
<1>8. Lost'
  BY Zenon DEF IInv, TypeOK, ManagerTypeOK, Registered, Lost, LostMeansWorkerGone, InCall, Kinds
<1> QED
  BY <1>1, <1>2, <1>3, <1>4, <1>5, <1>6, <1>7, <1>8, Zenon DEF IInv, TypeOK

\* Writing KILL and removing the entry keeps the invariant.
LEMMA WriteKillIInv ==
    ASSUME IInv, NEW c \in Callers, WriteKill(c), UNCHANGED workerVars PROVE IInv'
<1> USE ProtocolAssumption, ManagerAssumption, Values DEF WriteKill, Goto, Return, Remove, callVars, readerVars
<1>0. rid[c] \in Ids
  BY Zenon DEF IInv, Registered, InCall
<1>1. SocketTypeOK' /\ workerOpen' = workerOpen
  BY <1>0, Sending, Zenon DEF IInv, TypeOK
<1>2. ManagerTypeOK'
  BY <1>0, Zenon DEF IInv, TypeOK, ManagerTypeOK, Kinds
<1>3. ContractTypeOK'
  BY Zenon DEF IInv, TypeOK, ContractTypeOK, workerVars
<1>4. Registered' /\ CutNamed'
  BY DEF IInv, TypeOK, ManagerTypeOK, Registered, CutNamed, InCall
<1>5. OneWriter'
  BY DEF IInv, TypeOK, ManagerTypeOK, OneWriter
<1>6. PendingNoLeak'
  BY DEF IInv, TypeOK, ManagerTypeOK, Registered, PendingNoLeak, InCall
<1>7. Bounded'
  BY DEF IInv, TypeOK, ManagerTypeOK, Registered, Bounded, OutputBounded, InCall, Kinds
<1>8. Lost'
  BY <1>1, SMTT(30) DEF IInv, TypeOK, ManagerTypeOK, Registered, Lost, LostMeansWorkerGone, InCall, Kinds
<1> QED
  BY <1>1, <1>2, <1>3, <1>4, <1>5, <1>6, <1>7, <1>8, Zenon DEF IInv, TypeOK

\* What read_loop does with one frame that fits into the cap: the entry, the
\* channel and the cut-off keep their types and bounds.
LEMMA DeliverKeeps ==
    ASSUME ManagerTypeOK, NEW f \in ReplyFrame, ~Oversized(f), rpc = "read",
           Deliver(f), Bounded, UNCHANGED <<pending, res>>
    PROVE  /\ entry' \in [Ids -> Entries] /\ rx' \in [Ids -> Results]
           /\ cut' \in [id : Ids \cup {0}, out : Nat, tx : BOOLEAN]
           /\ rpc' \in {"read", "limit"} /\ CutNamed'
           /\ Bounded'
           /\ \A id \in Ids : rx'[id].kind = "lost" => rx[id].kind = "lost"
<1> USE ProtocolAssumption, ManagerAssumption, Values
<1> DEFINE e == entry[f.id]
           out == e.out + IF f.type = "STDOUT" THEN f.val ELSE 0
           err == e.err + IF f.type = "STDERR" THEN f.val ELSE 0
           exit == [kind |-> "exit", out |-> e.out, err |-> e.err, code |-> f.val]
           sent == [e EXCEPT !.tx = FALSE]
           broke == [out |-> 0, err |-> err, tx |-> FALSE]
           more == [out |-> out, err |-> err, tx |-> e.tx]
           kill == [id |-> f.id, out |-> out, tx |-> e.tx]
<1>1. /\ f.id \in Ids /\ e \in Entries /\ f.val \in Int
      /\ f.type \in Streams => f.val \in Nat /\ f.val <= MaxOutput
      /\ f.type \in Streams \cup {"DONE"}
  BY DEF ReplyFrame, OutputFrame, DoneFrame, Streams, Oversized, PayloadLen, ManagerTypeOK
<1>2. /\ out \in Nat /\ err \in Nat
      /\ f.type # "DONE" => out + err <= e.out + e.err + MaxOutput
  BY <1>1 DEF Streams
<1>3. /\ exit \in Results /\ exit.kind = "exit"
      /\ exit.out = e.out /\ exit.err = e.err
      /\ sent \in Entries /\ sent.out = e.out /\ sent.err = e.err
      /\ broke \in Entries
      /\ more \in Entries /\ more.out = out /\ more.err = err
      /\ kill \in [id : Ids \cup {0}, out : Nat, tx : BOOLEAN]
      /\ kill.id = f.id /\ kill.out = out
  <2>1. e.tx \in BOOLEAN /\ e.out \in Nat /\ e.err \in Nat
    BY <1>1, Zenon
  <2> HIDE DEF e, out, err
  <2>2. exit \in Results /\ exit.kind = "exit" /\ exit.out = e.out /\ exit.err = e.err
    BY <1>1, <2>1, Zenon DEF Results, Kinds
  <2>3. sent \in Entries /\ sent.out = e.out /\ sent.err = e.err
    BY <1>1, ZenonT(30) DEF Entries
  <2>4. broke \in Entries /\ more \in Entries /\ more.out = out /\ more.err = err
    BY <1>2, <2>1, SMTT(30) DEF Entries
  <2> QED
    BY <1>1, <1>2, <2>1, <2>2, <2>3, <2>4, Zenon
<1>4. f.id \in pending => e.out + e.err <= MaxOutput
  BY ZenonT(30) DEF Bounded, OutputBounded
<1>5. \/ UNCHANGED <<entry, rx, rpc, cut>>
      \/ /\ f.id \in pending
         /\ entry' = [entry EXCEPT ![f.id] = sent]
         /\ rx' = (IF e.tx THEN [rx EXCEPT ![f.id] = exit] ELSE rx)
         /\ UNCHANGED <<rpc, cut>>
      \/ /\ f.id \in pending /\ f.type # "DONE"
         /\ entry' = [entry EXCEPT ![f.id] = broke]
         /\ cut' = kill /\ rpc' = "limit" /\ UNCHANGED rx
      \/ /\ f.id \in pending /\ out + err <= MaxOutput
         /\ entry' = [entry EXCEPT ![f.id] = more]
         /\ UNCHANGED <<rx, rpc, cut>>
  BY <1>1, <1>2 DEF Deliver, OverLimit, ManagerTypeOK
<1> HIDE DEF e, out, err, exit, sent, broke, more, kill
<1>6. CASE UNCHANGED <<entry, rx, rpc, cut>>
  BY <1>6, SMTT(30) DEF ManagerTypeOK, Bounded, OutputBounded, CutNamed
<1>7. CASE /\ f.id \in pending
           /\ entry' = [entry EXCEPT ![f.id] = sent]
           /\ rx' = (IF e.tx THEN [rx EXCEPT ![f.id] = exit] ELSE rx)
           /\ UNCHANGED <<rpc, cut>>
  <2>1. e.out + e.err <= 2 * MaxOutput
    BY <1>1, <1>4, <1>7
  <2>2. \A id \in Ids : rx'[id] = rx[id] \/ rx'[id] = exit
    BY <1>7, ZenonT(30) DEF ManagerTypeOK
  <2>3. \A id \in pending : entry'[id] = entry[id] \/ (id = f.id /\ entry'[id] = sent)
    BY <1>7, ZenonT(30) DEF ManagerTypeOK
  <2>4. entry' \in [Ids -> Entries] /\ rx' \in [Ids -> Results]
    BY <1>1, <1>3, <1>7, SMTT(30) DEF ManagerTypeOK
  <2>5. Bounded'
    BY <1>3, <1>4, <1>7, <2>1, <2>2, <2>3 DEF Bounded, OutputBounded
  <2> QED
    BY <1>3, <1>7, <2>2, <2>4, <2>5, Zenon DEF ManagerTypeOK, CutNamed
<1>8. CASE /\ f.id \in pending /\ f.type # "DONE"
           /\ entry' = [entry EXCEPT ![f.id] = broke]
           /\ cut' = kill /\ rpc' = "limit" /\ UNCHANGED rx
  <2>1. kill.out <= 2 * MaxOutput
    BY <1>1, <1>2, <1>3, <1>4, <1>8, SMTT(30)
  <2>2. Bounded'
    BY <1>1, <1>3, <1>8, <2>1, SMTT(30) DEF Bounded, OutputBounded, ManagerTypeOK
  <2> QED
    BY <1>1, <1>3, <1>8, <2>2, Zenon DEF ManagerTypeOK, CutNamed
<1>9. CASE /\ f.id \in pending /\ out + err <= MaxOutput
           /\ entry' = [entry EXCEPT ![f.id] = more]
           /\ UNCHANGED <<rx, rpc, cut>>
  BY <1>1, <1>3, <1>9, ZenonT(30) DEF ManagerTypeOK, Bounded, OutputBounded, CutNamed
<1> QED
  BY <1>5, <1>6, <1>7, <1>8, <1>9, Zenon

\* One frame handled by read_loop keeps the invariant.
LEMMA ReadFrameIInv ==
    ASSUME IInv, ReadFrame, UNCHANGED workerVars PROVE IInv'
<1> DEFINE f == Head(fromWorker)
<1> USE ProtocolAssumption, ManagerAssumption
<1>1. f \in ReplyFrame
  BY DEF ReadFrame, IInv, TypeOK, SocketTypeOK
<1>2. CASE Oversized(f) /\ rpc' = "stop" /\ UNCHANGED <<cut, entry, rx, fromWorker>>
  <2>1. UNCHANGED <<socketVars, running, doomed, callVars, pending, lock, workerVars, cut, entry, rx>>
    BY <1>2, Zenon DEF ReadFrame, socketVars
  <2>2. rpc = "read" /\ rpc' = "stop"
    BY <1>2, Zenon DEF ReadFrame
  <2>3. ~(MaxFrame <= MaxOutput /\ DoneLen <= MaxOutput)
    BY <1>1, <1>2 DEF Oversized, PayloadLen, ReplyFrame, OutputFrame, DoneFrame, Streams
  <2> USE <2>1, <2>2 DEF socketVars, callVars, workerVars, IInv
  <2>4. TypeOK'
    BY DEF TypeOK, SocketTypeOK, ManagerTypeOK, ContractTypeOK
  <2>5. Registered' /\ CutNamed' /\ OneWriter'
    BY Zenon DEF Registered, CutNamed, OneWriter
  <2>6. PendingNoLeak' /\ Bounded'
    BY Zenon DEF PendingNoLeak, Bounded, OutputBounded
  <2>7. Lost'
    BY <2>3, Zenon DEF Lost
  <2> QED
    BY <2>4, <2>5, <2>6, <2>7, Zenon
<1>3. CASE ~Oversized(f) /\ fromWorker' = Tail(fromWorker) /\ Deliver(f)
  <2>1. UNCHANGED <<toWorker, workerOpen, running, doomed, callVars, pending, lock, workerVars>>
    BY SMTT(30) DEF ReadFrame
  <2>2. /\ entry' \in [Ids -> Entries] /\ rx' \in [Ids -> Results]
        /\ cut' \in [id : Ids \cup {0}, out : Nat, tx : BOOLEAN]
        /\ rpc' \in {"read", "limit"} /\ CutNamed'
        /\ Bounded'
        /\ \A id \in Ids : rx'[id].kind = "lost" => rx[id].kind = "lost"
    <3>1. rpc = "read" /\ UNCHANGED <<pending, res>>
      BY Zenon DEF ReadFrame, callVars
    <3> QED
      BY <1>1, <1>3, <3>1, DeliverKeeps, Zenon DEF IInv, TypeOK
  <2> USE <2>1, <2>2 DEF callVars, workerVars, IInv
  <2>3. SocketTypeOK'
    BY <1>3 DEF ReadFrame, TypeOK, SocketTypeOK
  <2>4. ManagerTypeOK' /\ ContractTypeOK'
    BY SMTT(30) DEF TypeOK, ManagerTypeOK, ContractTypeOK
  <2>5. Registered' /\ OneWriter' /\ PendingNoLeak'
    BY SMTT(30) DEF ReadFrame, Registered, OneWriter, PendingNoLeak
  <2>6. Lost'
    BY Zenon DEF Lost, LostMeansWorkerGone
  <2> QED
    BY <2>3, <2>4, <2>5, <2>6, Zenon DEF TypeOK
<1> QED
  BY <1>2, <1>3, Zenon DEF ReadFrame

\* The end of the stream keeps the invariant: the worker is gone.
LEMMA ReadEofIInv ==
    ASSUME IInv, ReadEof, UNCHANGED workerVars PROVE IInv'
<1> USE ProtocolAssumption, ManagerAssumption, Values DEF ReadEof, callVars, readerVars, socketVars
<1>1. SocketTypeOK'
  BY Zenon DEF IInv, TypeOK, SocketTypeOK, socketVars
<1>2. ManagerTypeOK'
  BY Zenon DEF IInv, TypeOK, ManagerTypeOK, Registered, InCall, Kinds
<1>3. ContractTypeOK'
  BY Zenon DEF IInv, TypeOK, ContractTypeOK, workerVars
<1>4. Registered' /\ CutNamed'
  BY Zenon DEF IInv, TypeOK, ManagerTypeOK, Registered, CutNamed, InCall
<1>5. OneWriter'
  BY ZenonT(30) DEF IInv, TypeOK, ManagerTypeOK, OneWriter
<1>6. PendingNoLeak'
  BY SMTT(30) DEF IInv, TypeOK, ManagerTypeOK, Registered, PendingNoLeak, InCall
<1>7. Bounded'
  BY Zenon DEF IInv, TypeOK, ManagerTypeOK, Registered, Bounded, OutputBounded, InCall, Kinds
<1>8. Lost'
  BY Zenon DEF IInv, TypeOK, ManagerTypeOK, Registered, Lost, LostMeansWorkerGone, InCall, Kinds
<1> QED
  BY <1>1, <1>2, <1>3, <1>4, <1>5, <1>6, <1>7, <1>8, Zenon DEF IInv, TypeOK

\* Answering "output limit exceeded" keeps the invariant: what is handed out
\* is what the cut-off frame left in the buffer.
LEMMA CutOffIInv ==
    ASSUME IInv, CutOff, UNCHANGED workerVars PROVE IInv'
<1> USE ProtocolAssumption, ManagerAssumption, Values DEF CutOff, Remove, callVars, readerVars, socketVars
<1> DEFINE told == [Failure("limit") EXCEPT !.out = cut.out]
<1>0. /\ cut.id \in Ids
      /\ told \in Results /\ told.out = cut.out /\ told.err = 0 /\ told.kind = "limit"
      /\ rx' = IF cut.tx THEN [rx EXCEPT ![cut.id] = told] ELSE rx
  BY Zenon DEF IInv, TypeOK, ManagerTypeOK, CutNamed, Results, Failure, Kinds
<1> HIDE DEF told
<1>1. SocketTypeOK'
  BY Zenon DEF IInv, TypeOK, SocketTypeOK, socketVars
<1>2. ManagerTypeOK'
  BY <1>0, SMTT(30) DEF IInv, TypeOK, ManagerTypeOK
<1>3. ContractTypeOK'
  BY Zenon DEF IInv, TypeOK, ContractTypeOK, workerVars
<1>4. Registered' /\ CutNamed'
  BY Zenon DEF IInv, TypeOK, ManagerTypeOK, Registered, CutNamed, InCall
<1>5. OneWriter'
  BY Zenon DEF IInv, TypeOK, ManagerTypeOK, OneWriter
<1>6. PendingNoLeak'
  BY Zenon DEF IInv, TypeOK, ManagerTypeOK, Registered, PendingNoLeak, InCall
<1>7. Bounded'
  BY <1>0 DEF IInv, TypeOK, ManagerTypeOK, Registered, Bounded, OutputBounded, InCall, Kinds
<1>8. Lost'
  BY <1>0 DEF IInv, TypeOK, ManagerTypeOK, Registered, Lost, LostMeansWorkerGone, InCall, Kinds
<1> QED
  BY <1>1, <1>2, <1>3, <1>4, <1>5, <1>6, <1>7, <1>8, Zenon DEF IInv, TypeOK

\* read_loop's taking of the write lock keeps the invariant.
LEMMA CutOffAcquireIInv ==
    ASSUME IInv, CutOffAcquire, UNCHANGED workerVars PROVE IInv'
<1> USE ProtocolAssumption, ManagerAssumption, Values DEF CutOffAcquire, LockFree, callVars, readerVars, socketVars
<1>1. SocketTypeOK'
  BY SMTT(30) DEF IInv, TypeOK, SocketTypeOK, socketVars
<1>2. ManagerTypeOK'
  BY Zenon DEF IInv, TypeOK, ManagerTypeOK, Registered, InCall, Kinds
<1>3. ContractTypeOK'
  BY Zenon DEF IInv, TypeOK, ContractTypeOK, workerVars
<1>4. Registered' /\ CutNamed'
  BY Zenon DEF IInv, TypeOK, ManagerTypeOK, Registered, CutNamed, InCall
<1>5. OneWriter'
  BY ZenonT(30) DEF IInv, TypeOK, ManagerTypeOK, OneWriter
<1>6. PendingNoLeak'
  BY SMTT(30) DEF IInv, TypeOK, ManagerTypeOK, Registered, PendingNoLeak, InCall
<1>7. Bounded'
  BY SMTT(30) DEF IInv, TypeOK, ManagerTypeOK, Registered, Bounded, OutputBounded, InCall, Kinds
<1>8. Lost'
  BY ZenonT(30) DEF IInv, TypeOK, ManagerTypeOK, Registered, Lost, LostMeansWorkerGone, InCall, Kinds
<1> QED
  BY <1>1, <1>2, <1>3, <1>4, <1>5, <1>6, <1>7, <1>8, ZenonT(30) DEF IInv, TypeOK

\* read_loop's KILL keeps the invariant.
LEMMA CutOffKillIInv ==
    ASSUME IInv, CutOffKill, UNCHANGED workerVars PROVE IInv'
<1> USE ProtocolAssumption, ManagerAssumption, Values DEF CutOffKill, NoCut, callVars, readerVars
<1>1. SocketTypeOK' /\ workerOpen' = workerOpen
  BY Sending, SMTT(30) DEF IInv, TypeOK, CutNamed
<1>2. ManagerTypeOK'
  BY Zenon DEF IInv, TypeOK, ManagerTypeOK
<1>3. ContractTypeOK'
  BY Zenon DEF IInv, TypeOK, ContractTypeOK, workerVars
<1>4. Registered' /\ CutNamed'
  BY ZenonT(30) DEF IInv, TypeOK, ManagerTypeOK, Registered, CutNamed, InCall
<1>5. OneWriter'
  BY SMTT(30) DEF IInv, TypeOK, ManagerTypeOK, OneWriter
<1>6. PendingNoLeak'
  BY SMTT(30) DEF IInv, TypeOK, ManagerTypeOK, Registered, PendingNoLeak, InCall
<1>7. Bounded'
  BY SMTT(30) DEF IInv, TypeOK, ManagerTypeOK, Registered, Bounded, OutputBounded, InCall, Kinds
<1>8. Lost'
  BY <1>1, ZenonT(30) DEF IInv, TypeOK, ManagerTypeOK, Registered, Lost, LostMeansWorkerGone, InCall, Kinds
<1> QED
  BY <1>1, <1>2, <1>3, <1>4, <1>5, <1>6, <1>7, <1>8, Zenon DEF IInv, TypeOK

\* Clearing the running flag keeps the invariant.
LEMMA MarkStoppedIInv ==
    ASSUME IInv, MarkStopped, UNCHANGED workerVars PROVE IInv'
<1> USE ProtocolAssumption, ManagerAssumption, Values DEF MarkStopped, callVars, readerVars, socketVars
<1>1. SocketTypeOK'
  BY Zenon DEF IInv, TypeOK, SocketTypeOK, socketVars
<1>2. ManagerTypeOK'
  BY ZenonT(30) DEF IInv, TypeOK, ManagerTypeOK, Registered, InCall, Kinds
<1>3. ContractTypeOK'
  BY Zenon DEF IInv, TypeOK, ContractTypeOK, workerVars
<1>4. Registered' /\ CutNamed'
  BY Zenon DEF IInv, TypeOK, ManagerTypeOK, Registered, CutNamed, InCall
<1>5. OneWriter'
  BY ZenonT(30) DEF IInv, TypeOK, ManagerTypeOK, OneWriter
<1>6. PendingNoLeak'
  BY SMTT(30) DEF IInv, TypeOK, ManagerTypeOK, Registered, PendingNoLeak, InCall
<1>7. Bounded'
  BY SMTT(30) DEF IInv, TypeOK, ManagerTypeOK, Registered, Bounded, OutputBounded, InCall, Kinds
<1>8. Lost'
  BY Zenon DEF IInv, TypeOK, ManagerTypeOK, Registered, Lost, LostMeansWorkerGone, InCall, Kinds
<1> QED
  BY <1>1, <1>2, <1>3, <1>4, <1>5, <1>6, <1>7, <1>8, Zenon DEF IInv, TypeOK

\* Telling one pending call that the connection is lost keeps the invariant.
LEMMA FailOneIInv ==
    ASSUME IInv, NEW id \in Ids, FailOne(id), UNCHANGED workerVars PROVE IInv'
<1> USE ProtocolAssumption, ManagerAssumption, Values DEF FailOne, callVars, readerVars, socketVars
<1> DEFINE told == [entry[id] EXCEPT !.tx = FALSE]
<1>0. /\ told \in Entries /\ told.out = entry[id].out /\ told.err = entry[id].err
      /\ entry' = [entry EXCEPT ![id] = told]
  BY ZenonT(30) DEF IInv, TypeOK, ManagerTypeOK, Entries
<1> HIDE DEF told
<1>1. SocketTypeOK'
  BY Zenon DEF IInv, TypeOK, SocketTypeOK, socketVars
<1>2. ManagerTypeOK'
  <2>1. rx' \in [Ids -> Results]
    BY Zenon DEF IInv, TypeOK, ManagerTypeOK, Kinds
  <2>2. entry' \in [Ids -> Entries]
    BY <1>0, ZenonT(30) DEF IInv, TypeOK, ManagerTypeOK
  <2> QED
    BY <2>1, <2>2, Zenon DEF IInv, TypeOK, ManagerTypeOK
<1>3. ContractTypeOK'
  BY Zenon DEF IInv, TypeOK, ContractTypeOK, workerVars
<1>4. Registered' /\ CutNamed'
  BY Zenon DEF IInv, TypeOK, ManagerTypeOK, Registered, CutNamed, InCall
<1>5. OneWriter'
  BY Zenon DEF IInv, TypeOK, ManagerTypeOK, OneWriter
<1>6. PendingNoLeak'
  BY ZenonT(30) DEF IInv, TypeOK, ManagerTypeOK, Registered, PendingNoLeak, InCall
<1>7. Bounded'
  BY <1>0, SMTT(30) DEF IInv, TypeOK, ManagerTypeOK, Registered, Bounded, OutputBounded, InCall, Kinds
<1>8. Lost'
  BY SMTT(30) DEF IInv, TypeOK, ManagerTypeOK, Registered, Lost, LostMeansWorkerGone, InCall, Kinds
<1> QED
  BY <1>1, <1>2, <1>3, <1>4, <1>5, <1>6, <1>7, <1>8, ZenonT(30) DEF IInv, TypeOK

\* Clearing the map keeps the invariant.
LEMMA ClearPendingIInv ==
    ASSUME IInv, ClearPending, UNCHANGED workerVars PROVE IInv'
<1> USE ProtocolAssumption, ManagerAssumption, Values DEF ClearPending, Closed, callVars, readerVars, socketVars
<1>1. SocketTypeOK'
  BY SMTT(30) DEF IInv, TypeOK, SocketTypeOK, socketVars
<1>2. ManagerTypeOK'
  BY SMTT(30) DEF IInv, TypeOK, ManagerTypeOK, Registered, InCall, Kinds
<1>3. ContractTypeOK'
  BY ZenonT(30) DEF IInv, TypeOK, ContractTypeOK, workerVars
<1>4. Registered' /\ CutNamed'
  BY SMTT(30) DEF IInv, TypeOK, ManagerTypeOK, Registered, CutNamed, InCall
<1>5. OneWriter'
  BY SMTT(30) DEF IInv, TypeOK, ManagerTypeOK, OneWriter
<1>6. PendingNoLeak'
  BY SMTT(30) DEF IInv, TypeOK, ManagerTypeOK, Registered, PendingNoLeak, InCall
<1>7. Bounded'
  BY SMTT(30) DEF IInv, TypeOK, ManagerTypeOK, Registered, Bounded, OutputBounded, InCall, Kinds
<1>8. Lost'
  BY Zenon DEF IInv, TypeOK, ManagerTypeOK, Registered, Lost, LostMeansWorkerGone, InCall, Kinds
<1> QED
  BY <1>1, <1>2, <1>3, <1>4, <1>5, <1>6, <1>7, <1>8, SMTT(30) DEF IInv, TypeOK

\* Counting output keeps the counts natural numbers.
LEMMA WrittenType ==
    \A w \in Outputs, s \in Streams, n \in Nat : Written(w, s, n) \in Outputs
<1> SUFFICES ASSUME NEW w \in Outputs, NEW s \in Streams, NEW n \in Nat
             PROVE  Written(w, s, n) \in Outputs
  OBVIOUS
<1> QED
  BY DEF Written, Outputs

\* A step of the worker, whatever it is, keeps the invariant: it only reads
\* requests, queues well-formed replies and may close the socket.
LEMMA WorkerIInv ==
    ASSUME IInv, WorkerStep, UNCHANGED managerVars PROVE IInv'
<1> USE ProtocolAssumption, ContractAssumption
<1>0. SIGKILLED \in Int
  BY DEF SIGKILLED
<1>1. SocketTypeOK' /\ ContractTypeOK' /\ workerOpen' \in {workerOpen, FALSE}
  <2> SUFFICES ASSUME SocketTypeOK, ContractTypeOK
               PROVE  SocketTypeOK' /\ ContractTypeOK' /\ workerOpen' \in {workerOpen, FALSE}
    BY ZenonT(30) DEF IInv, TypeOK
  <2>1. ASSUME NEW id \in Ids, TakeRun(id)
        PROVE  SocketTypeOK' /\ ContractTypeOK' /\ workerOpen' \in {workerOpen, FALSE}
    BY <2>1 DEF TakeRun, Takes, SocketTypeOK, ContractTypeOK
  <2>2. ASSUME NEW id \in Ids, TakeKill(id)
        PROVE  SocketTypeOK' /\ ContractTypeOK' /\ workerOpen' \in {workerOpen, FALSE}
    <3>1. SocketTypeOK' /\ workerOpen' = workerOpen
      BY <2>2 DEF TakeKill, Takes, SocketTypeOK
    <3>2. ContractTypeOK'
      BY <1>0, <2>2, ZenonT(30) DEF TakeKill, ContractTypeOK
    <3> QED
      BY <3>1, <3>2, Zenon
  <2>3. ASSUME NEW id \in Ids, Exit(id)
        PROVE  SocketTypeOK' /\ ContractTypeOK' /\ workerOpen' \in {workerOpen, FALSE}
    BY <2>3, Zenon DEF Exit, socketVars, SocketTypeOK, ContractTypeOK
  <2>4. ASSUME NEW id \in Ids, NoteAndKill(id)
        PROVE  SocketTypeOK' /\ ContractTypeOK' /\ workerOpen' \in {workerOpen, FALSE}
    <3>1. Reply("STDERR", id, 1) \in ReplyFrame
      BY DEF Reply, ReplyFrame, OutputFrame, Streams
    <3>2. wrote' \in [Ids -> Outputs]
      BY <2>4, WrittenType, Zenon DEF NoteAndKill, ContractTypeOK, Streams
    <3>3. code' \in [Ids -> Int]
      BY <1>0, <2>4, Zenon DEF NoteAndKill, ContractTypeOK
    <3>4. kid' \in [Ids -> {"none", "live", "dead", "noted", "done", "failed"}]
      BY <2>4, Zenon DEF NoteAndKill, ContractTypeOK
    <3> QED
      BY <2>4, <3>1, <3>2, <3>3, <3>4 DEF NoteAndKill, SocketTypeOK, ContractTypeOK
  <2>5. ASSUME NEW id \in Ids, Finish(id)
        PROVE  SocketTypeOK' /\ ContractTypeOK' /\ workerOpen' \in {workerOpen, FALSE}
    <3>1. Reply("DONE", id, code[id]) \in ReplyFrame
      BY ZenonT(30) DEF Reply, ReplyFrame, DoneFrame, ContractTypeOK
    <3> QED
      BY <2>5, <3>1 DEF Finish, SocketTypeOK, ContractTypeOK
  <2>6. ASSUME NEW id \in Ids, NEW s \in Streams, NEW n \in 1..MaxFrame, Forward(id, s, n)
        PROVE  SocketTypeOK' /\ ContractTypeOK' /\ workerOpen' \in {workerOpen, FALSE}
    <3>1. Reply(s, id, n) \in ReplyFrame
      BY Zenon DEF Reply, ReplyFrame, OutputFrame
    <3>2. wrote' \in [Ids -> Outputs]
      BY <2>6, WrittenType DEF Forward, ContractTypeOK
    <3> QED
      BY <2>6, <3>1, <3>2 DEF Forward, SocketTypeOK, ContractTypeOK
  <2>7. ASSUME Crash
        PROVE  SocketTypeOK' /\ ContractTypeOK' /\ workerOpen' \in {workerOpen, FALSE}
    <3>1. PICK k \in 0..Len(fromWorker) : fromWorker' = SubSeq(fromWorker, 1, k)
      BY <2>7, Zenon DEF Crash
    <3>2. fromWorker' \in Seq(ReplyFrame)
      <4>1. \A i \in 1..k : fromWorker[i] \in ReplyFrame
        BY DEF SocketTypeOK
      <4> QED
        BY <3>1, <4>1 DEF SocketTypeOK
    <3>3. toWorker' = <<>> /\ workerOpen' = FALSE /\ UNCHANGED workerVars
      BY <2>7, SMTT(30) DEF Crash
    <3> QED
      <4>1. SocketTypeOK'
        <5>1. toWorker' \in Seq(RequestFrame)
          BY <3>3
        <5>2. workerOpen' \in BOOLEAN
          BY <3>3, ZenonT(30)
        <5> QED
          BY <3>2, <5>1, <5>2, Zenon DEF SocketTypeOK
      <4>2. ContractTypeOK'
        BY <3>3, Zenon DEF workerVars, ContractTypeOK
      <4> QED
        BY <3>3, <4>1, <4>2, ZenonT(30)
  <2> QED
    BY <2>1, <2>2, <2>3, <2>4, <2>5, <2>6, <2>7, ZenonT(30) DEF WorkerStep, Events, ForwardSome
<1> USE DEF managerVars, callVars, readerVars, IInv
<1>2. ManagerTypeOK'
  BY SMTT(30) DEF TypeOK, ManagerTypeOK
<1>3. Registered' /\ CutNamed' /\ OneWriter'
  BY SMTT(30) DEF Registered, CutNamed, OneWriter
<1>4. PendingNoLeak' /\ Bounded'
  BY ZenonT(30) DEF PendingNoLeak, Bounded, OutputBounded
<1>5. Lost'
  BY <1>1, ZenonT(30) DEF Lost, LostMeansWorkerGone, TypeOK, SocketTypeOK
<1> QED
  BY <1>1, <1>2, <1>3, <1>4, <1>5, Zenon DEF TypeOK

\* The invariant holds when the manager has just spawned its worker.
LEMMA InitIInv == Init => IInv
<1> SUFFICES ASSUME Init PROVE IInv
  OBVIOUS
<1> USE ProtocolAssumption, ManagerAssumption, Values DEF Init, ManagerInit, Empty
<1>1. SocketTypeOK
  BY SMTT(30) DEF SocketInit, SocketTypeOK
<1>2. ManagerTypeOK
  BY SMTT(30) DEF ManagerTypeOK, NoCut, Kinds
<1>3. ContractTypeOK
  BY DEF ContractInit, ContractTypeOK, Outputs
<1>4. Registered /\ CutNamed /\ OneWriter /\ PendingNoLeak
  BY SMTT(30) DEF Registered, CutNamed, OneWriter, PendingNoLeak, InCall
<1>5. Bounded
  BY DEF Bounded, OutputBounded, NoCut, Kinds
<1>6. Lost
  BY Zenon DEF Lost, LostMeansWorkerGone, Kinds
<1> QED
  BY <1>1, <1>2, <1>3, <1>4, <1>5, <1>6, Zenon DEF IInv, TypeOK

\* Every step keeps the invariant.
LEMMA NextIInv == IInv /\ [Next]_vars => IInv'
<1> SUFFICES ASSUME IInv, [Next]_vars PROVE IInv'
  OBVIOUS
<1>1. ASSUME NEW c \in Callers, CallStep(c), UNCHANGED workerVars PROVE IInv'
  BY <1>1, CheckRunningIInv, RegisterIInv, AcquireWriteIInv, WriteRunIInv, ReceiveIInv,
     GiveUpIInv, WriteKillIInv, Zenon DEF CallStep
<1>2. ASSUME ReadLoopStep, UNCHANGED workerVars PROVE IInv'
  BY <1>2, ReadFrameIInv, ReadEofIInv, CutOffIInv, CutOffAcquireIInv, CutOffKillIInv,
     MarkStoppedIInv, FailOneIInv, ClearPendingIInv, ZenonT(30) DEF ReadLoopStep
<1>3. CASE UNCHANGED vars
  <2> USE <1>3 DEF vars, managerVars, callVars, readerVars, workerVars, socketVars, IInv
  <2>1. TypeOK'
    <3>1. SocketTypeOK' /\ ContractTypeOK'
      BY SMTT(30) DEF TypeOK, SocketTypeOK, ContractTypeOK
    <3>2. ManagerTypeOK'
      BY SMTT(30) DEF TypeOK, ManagerTypeOK
    <3> QED
      BY <3>1, <3>2, Zenon DEF TypeOK
  <2>2. Registered' /\ CutNamed' /\ OneWriter' /\ PendingNoLeak'
    BY ZenonT(30) DEF Registered, CutNamed, OneWriter, PendingNoLeak
  <2>3. Bounded' /\ Lost'
    BY ZenonT(30) DEF Bounded, OutputBounded, Lost, LostMeansWorkerGone
  <2> QED
    BY <2>1, <2>2, <2>3, ZenonT(30)
<1> QED
  BY <1>1, <1>2, <1>3, WorkerIInv, Zenon DEF Next

\* The invariant holds in every state of every behaviour of the pool.
LEMMA PoolIInv == Spec => []IInv
  BY InitIInv, NextIInv, PTL DEF Spec

-----------------------------------------------------------------------------

\* Every variable of manager, worker and socket stays in its type.
THEOREM TypeCorrect == Spec => []TypeOK
<1>1. IInv => TypeOK
  BY Zenon DEF IInv
<1> QED
  BY PoolIInv, <1>1, PTL

\* No entry of the pending map outlives the run() call that made it, on
\* whichever of its paths the call ends and wherever the connection is lost.
THEOREM NoEntryLeaks == Spec => []PendingNoLeak
<1>1. IInv => PendingNoLeak
  BY Zenon DEF IInv
<1> QED
  BY PoolIInv, <1>1, PTL

\* The writers of the socket exclude each other, and whoever holds the write
\* lock is about to write and release it.
THEOREM WritersExclude == Spec => []OneWriter
<1>1. IInv => OneWriter
  BY Zenon DEF IInv
<1> QED
  BY PoolIInv, <1>1, PTL

\* The output buffered for a request, and the output handed out, is bounded
\* by max_output whatever the frame size of the worker.
THEOREM OutputStaysBounded == Spec => []OutputBounded
<1>1. IInv => OutputBounded
  BY Zenon DEF IInv, Bounded
<1> QED
  BY PoolIInv, <1>1, PTL

\* If every frame of the worker fits into max_output, a call is told that the
\* connection is lost only when the worker is really gone.
THEOREM LostIsTrue ==
    ASSUME MaxFrame <= MaxOutput, DoneLen <= MaxOutput PROVE Spec => []LostMeansWorkerGone
<1>1. IInv => LostMeansWorkerGone
  BY Zenon DEF IInv, Lost
<1> QED
  BY PoolIInv, <1>1, PTL

-----------------------------------------------------------------------------
(* The calls and their req_ids *)

\* A call that does not return keeps the req_ids apart.
LEMMA IdsMove ==
    ASSUME IInv, OwnIds, NEW c \in Callers, NEW l, Goto(c, l),
           UNCHANGED <<rid, next_id, res>>, pc[c] # "done", l # "done",
           l \in {"start", "register"} => rid[c] = 0
    PROVE  OwnIds'
<1>1. \A d \in Callers : pc'[d] = IF d = c THEN l ELSE pc[d]
  BY Zenon DEF Goto, IInv, TypeOK, ManagerTypeOK
<1> QED
  BY <1>1, ZenonT(30) DEF OwnIds

\* A call that returns has a req_id, unless it was not running.
LEMMA IdsEnd ==
    ASSUME IInv, OwnIds, NEW c \in Callers, NEW r, Return(c, r),
           UNCHANGED <<rid, next_id>>, pc[c] # "done",
           r.kind = "notRunning" \/ rid[c] # 0
    PROVE  OwnIds'
<1>1. /\ pc'[c] = "done" /\ res'[c] = r
      /\ \A d \in Callers : d # c => pc'[d] = pc[d] /\ res'[d] = res[d]
  BY Zenon DEF Return, Goto, IInv, TypeOK, ManagerTypeOK
<1> QED
  BY <1>1, ZenonT(30) DEF OwnIds

\* RUN is unsent for fewer requests when a call moves on.
LEMMA SameUnsent ==
    ASSUME IInv, NEW c \in Callers, NEW l, UNCHANGED <<rid, next_id>>, Goto(c, l),
           l \in {"lockRun", "writeRun"} => pc[c] \in {"lockRun", "writeRun"}
    PROVE  \A id \in Ids : Unsent(id)' => Unsent(id)
<1>1. ManagerTypeOK
  BY Zenon DEF IInv, TypeOK
<1>2. \A d \in Callers : pc'[d] \in {"lockRun", "writeRun"} => pc[d] \in {"lockRun", "writeRun"}
  BY <1>1, Zenon DEF Goto, ManagerTypeOK
<1> QED
  BY <1>2, Zenon DEF Unsent

\* The control frames stay as they are.
LEMMA SameOrder ==
    ASSUME InOrder, UNCHANGED <<toWorker, workerOpen>>,
           \A id \in Ids : kid'[id] = "none" <=> kid[id] = "none",
           \A id \in Ids : Unsent(id)' => Unsent(id)
    PROVE  InOrder'
<1>1. \A t, id : Queued(t, id)' <=> Queued(t, id)
  BY Zenon DEF Queued, Request
<1>2. /\ \A id \in Ids : Unsent(id)' => kid'[id] = "none" /\ ~Queued("RUN", id)' /\ ~Queued("KILL", id)'
      /\ \A id \in Ids : Queued("RUN", id)' => kid'[id] = "none"
  BY <1>1, ZenonT(30) DEF InOrder
<1>3. \A id \in Ids : \A i, j \in DOMAIN toWorker' : toWorker'[i] = Request("RUN", id) =>
          /\ toWorker'[j] = Request("RUN", id) => i = j
          /\ toWorker'[j] = Request("KILL", id) => i < j
  BY Zenon DEF InOrder
<1> QED
  BY <1>2, <1>3, Zenon DEF InOrder, Ids, Request

\* read_loop and its channels stay as they are.
LEMMA SameHeard ==
    ASSUME Heard, UNCHANGED <<fromWorker, rpc, cut, rx, kid>>
    PROVE  Heard'
BY Zenon DEF Heard, Ids, Empty, Closed, Failure

\* What holds of the control frames is not lost if no request is newly cut
\* off and read_loop still sends what it owes.
LEMMA SameKills ==
    ASSUME KillFollows, UNCHANGED <<toWorker, workerOpen>>,
           \A id \in Ids : kid'[id] = "live" => kid[id] = "live",
           \A id \in Ids : WasCut(id)' => WasCut(id) \/ ReaderOwesKill(id)',
           \A id \in Ids : ReaderOwesKill(id) => ReaderOwesKill(id)'
    PROVE  KillFollows'
<1>1. \A t, id : Queued(t, id)' <=> Queued(t, id)
  BY Zenon DEF Queued, Request
<1> QED
  BY <1>1, Zenon DEF KillFollows, Ids

\* A step of a call that leaves the socket and the channels alone, and does
\* not return.
LEMMA CallMovesWire ==
    ASSUME IInv, WireInv, NEW c \in Callers, NEW l,
           UNCHANGED <<rid, next_id, res, toWorker, fromWorker, workerOpen, rpc, cut, rx, kid>>,
           pc[c] # "done", Goto(c, l), l # "done",
           l \in {"start", "register"} => rid[c] = 0,
           l \in {"lockRun", "writeRun"} => pc[c] \in {"lockRun", "writeRun"}
    PROVE  WireInv'
<1>1. OwnIds /\ InOrder /\ Heard /\ KillFollows
  BY Zenon DEF WireInv
<1>2. OwnIds'
  BY <1>1, IdsMove, Zenon
<1>3. InOrder'
  <2>1. \A id \in Ids : Unsent(id)' => Unsent(id)
    BY <1>1, SameUnsent, Zenon
  <2> QED
    BY <1>1, <2>1, SameOrder, Zenon
<1>4. Heard'
  BY <1>1, SameHeard, Zenon
<1>5. KillFollows'
  <2>1. \A id \in Ids : WasCut(id)' => WasCut(id)
    BY Zenon DEF WasCut
  <2>2. \A id \in Ids : ReaderOwesKill(id) <=> ReaderOwesKill(id)'
    BY Zenon DEF ReaderOwesKill
  <2> QED
    BY <1>1, <2>1, <2>2, SameKills, Zenon
<1> QED
  BY <1>2, <1>3, <1>4, <1>5, Zenon DEF WireInv

\* A return without a last word to the worker: a timeout or a cut-off is
\* reported only if the answer of read_loop says so, or the worker is gone.
LEMMA CallEndsWire ==
    ASSUME IInv, WireInv, NEW c \in Callers, NEW r,
           UNCHANGED <<rid, next_id, toWorker, fromWorker, workerOpen, rpc, cut, rx, kid>>,
           pc[c] # "done", Return(c, r),
           r.kind = "notRunning" \/ rid[c] # 0,
           r.kind \in {"timeout", "limit"} => rx[rid[c]].kind = "limit" \/ ~workerOpen
    PROVE  WireInv'
<1>1. /\ OwnIds /\ InOrder /\ Heard /\ KillFollows
      /\ Goto(c, "done") /\ res' = [res EXCEPT ![c] = r]
  BY Zenon DEF WireInv, Return
<1>2. OwnIds'
  BY <1>1, IdsEnd, Zenon
<1>3. InOrder'
  <2>1. \A id \in Ids : Unsent(id)' => Unsent(id)
    BY <1>1, SameUnsent, Zenon
  <2> QED
    BY <1>1, <2>1, SameOrder, ZenonT(30)
<1>4. Heard'
  BY <1>1, SameHeard, Zenon
<1>5. KillFollows'
  <2>1. CASE ~workerOpen
    BY <2>1, Zenon DEF KillFollows
  <2>2. CASE workerOpen
    <3>1. \A d \in Callers : res'[d] = res[d] \/ (d = c /\ res'[d] = r)
      BY <1>1, Zenon DEF IInv, TypeOK, ManagerTypeOK
    <3>2. \A id \in Ids : WasCut(id)' => WasCut(id)
      BY <2>2, <3>1, Zenon DEF WasCut
    <3>3. \A id \in Ids : ReaderOwesKill(id) <=> ReaderOwesKill(id)'
      BY Zenon DEF ReaderOwesKill
    <3> QED
      BY <1>1, <3>2, <3>3, SameKills, Zenon
  <2> QED
    BY <2>1, <2>2, Zenon
<1> QED
  BY <1>2, <1>3, <1>4, <1>5, Zenon DEF WireInv

\* The early return of run(), the lock and the timeout write nothing.
LEMMA CheckRunningWire ==
    ASSUME IInv, WireInv, NEW c \in Callers, CheckRunning(c), UNCHANGED workerVars
    PROVE  WireInv'
<1>1. /\ UNCHANGED <<rid, next_id, toWorker, fromWorker, workerOpen, rpc, cut, rx, kid>>
      /\ pc[c] = "start"
  BY Zenon DEF CheckRunning, readerVars, socketVars, workerVars
<1>2. rid[c] = 0
  BY <1>1, Zenon DEF WireInv, OwnIds
<1>3. CASE Goto(c, "register") /\ UNCHANGED res
  BY <1>1, <1>2, <1>3, CallMovesWire, ZenonT(30)
<1>4. CASE Return(c, Failure("notRunning"))
  <2>1. Failure("notRunning").kind = "notRunning"
    BY Zenon DEF Failure
  <2> QED
    BY <1>1, <1>4, <2>1, CallEndsWire, Zenon
<1> QED
  BY <1>3, <1>4, Zenon DEF CheckRunning

\* Waiting for the write lock, and taking it.
LEMMA AcquireWriteWire ==
    ASSUME IInv, WireInv, NEW c \in Callers, AcquireWrite(c), UNCHANGED workerVars
    PROVE  WireInv'
<1>1. UNCHANGED <<rid, next_id, res, toWorker, fromWorker, workerOpen, rpc, cut, rx, kid>>
  BY Zenon DEF AcquireWrite, readerVars, socketVars, workerVars
<1>2. CASE pc[c] = "lockRun" /\ Goto(c, "writeRun")
  BY <1>1, <1>2, CallMovesWire, Zenon
<1>3. CASE pc[c] = "lockKill" /\ Goto(c, "writeKill")
  BY <1>1, <1>3, CallMovesWire, Zenon
<1> QED
  BY <1>2, <1>3, Zenon DEF AcquireWrite

\* The timer fires.
LEMMA GiveUpWire ==
    ASSUME IInv, WireInv, NEW c \in Callers, GiveUp(c), UNCHANGED workerVars
    PROVE  WireInv'
<1>1. /\ UNCHANGED <<rid, next_id, res, toWorker, fromWorker, workerOpen, rpc, cut, rx, kid>>
      /\ pc[c] = "wait" /\ Goto(c, "lockKill")
  BY Zenon DEF GiveUp, readerVars, socketVars, workerVars
<1> QED
  BY <1>1, CallMovesWire, Zenon

\* The answer of read_loop is returned: its KILL is on the way if it is a
\* cut-off.
LEMMA ReceiveWire ==
    ASSUME IInv, WireInv, NEW c \in Callers, Receive(c), UNCHANGED workerVars
    PROVE  WireInv'
<1>1. /\ UNCHANGED <<rid, next_id, toWorker, fromWorker, workerOpen, rpc, cut, rx, kid>>
      /\ pc[c] = "wait" /\ Return(c, rx[rid[c]])
      /\ rx[rid[c]] \notin {Empty, Closed}
  BY ZenonT(30) DEF Receive, readerVars, socketVars, workerVars
<1>2. rid[c] \in Ids /\ rid[c] # 0
  BY <1>1, HasId, Zenon DEF IInv, InCall
<1>3. rx[rid[c]].kind \in {"exit", "limit", "lost"}
  BY <1>1, <1>2, Zenon DEF WireInv, Heard
<1> QED
  BY <1>1, <1>2, <1>3, CallEndsWire, Zenon

\* A fresh req_id: nothing is known of it anywhere.
LEMMA RegisterWire ==
    ASSUME IInv, WireInv, NEW c \in Callers, Register(c), UNCHANGED workerVars
    PROVE  WireInv'
<1>1. OwnIds /\ InOrder /\ Heard /\ KillFollows /\ ManagerTypeOK
  BY Zenon DEF WireInv, IInv, TypeOK
<1>2. /\ UNCHANGED <<res, toWorker, fromWorker, workerOpen, rpc, cut, kid>>
      /\ pc[c] = "register" /\ pc' = [pc EXCEPT ![c] = "lockRun"]
      /\ rid' = [rid EXCEPT ![c] = next_id] /\ next_id' = next_id + 1
      /\ rx' = [rx EXCEPT ![next_id] = Empty] /\ next_id <= IdLimit
  BY Zenon DEF Register, Goto, NextId, readerVars, socketVars, workerVars
<1>3. next_id \in Ids /\ next_id \in Nat /\ next_id # 0
  BY <1>1, <1>2, ProtocolAssumption DEF ManagerTypeOK, Ids
<1>4. /\ rid'[c] = next_id /\ pc'[c] = "lockRun"
      /\ \A d \in Callers : d # c => rid'[d] = rid[d] /\ pc'[d] = pc[d]
      /\ rx'[next_id] = Empty /\ \A id \in Ids : id # next_id => rx'[id] = rx[id]
  BY <1>1, <1>2, <1>3, ZenonT(30) DEF ManagerTypeOK
<1>5. ASSUME NEW d \in Callers
      PROVE  rid[d] \in Nat /\ rid[d] < next_id
  BY <1>1 DEF OwnIds, ManagerTypeOK, Ids
<1>6. OwnIds'
  <2>1. ASSUME NEW d \in Callers
        PROVE  /\ rid'[d] < next_id'
               /\ pc'[d] \in {"start", "register"} => rid'[d] = 0
               /\ pc'[d] = "done" /\ rid'[d] = 0 => res'[d].kind = "notRunning"
               /\ pc'[d] # "done" => res'[d].kind = "empty"
    BY <1>1, <1>2, <1>3, <1>4, <1>5, SMTT(30) DEF OwnIds
  <2>2. ASSUME NEW d \in Callers, NEW g \in Callers, rid'[d] = rid'[g], rid'[d] # 0
        PROVE  d = g
    BY <1>1, <1>3, <1>4, <1>5, <2>2 DEF OwnIds
  <2> QED
    BY <2>1, <2>2, ZenonT(30) DEF OwnIds
<1>7. InOrder'
  <2>1. ASSUME NEW id \in Ids, Unsent(id)'
        PROVE  Unsent(id)
    <3>1. CASE id >= next_id'
      BY <1>2, <1>3, <3>1, SMTT(30) DEF Unsent, Ids
    <3>2. ASSUME NEW d \in Callers, rid'[d] = id, pc'[d] \in {"lockRun", "writeRun"}
          PROVE  Unsent(id)
      BY <1>3, <1>4, <3>2 DEF Unsent, Ids
    <3> QED
      BY <2>1, <3>1, <3>2, ZenonT(30) DEF Unsent
  <2> QED
    BY <1>1, <1>2, <2>1, SameOrder, Zenon
<1>8. Heard'
  <2>1. Empty.kind = "empty"
    BY Zenon DEF Empty, Failure
  <2>2. ASSUME NEW id \in Ids
        PROVE  /\ rx'[id].kind = "limit" => kid[id] # "none"
               /\ \/ rx'[id] \in {Empty, Closed}
                  \/ rx'[id].kind \in {"exit", "limit", "lost"}
    BY <1>1, <1>4, <2>1, ZenonT(30) DEF Heard
  <2> QED
    BY <1>1, <1>2, <2>2, Zenon DEF Heard, Ids, Empty, Closed, Failure
<1>9. KillFollows'
  <2>1. Empty.kind = "empty"
    BY Zenon DEF Empty, Failure
  <2>2. ASSUME NEW id \in Ids, WasCut(id)'
        PROVE  WasCut(id)
    <3>1. CASE rx'[id].kind = "limit"
      BY <1>4, <2>1, <3>1, Zenon DEF WasCut
    <3>2. ASSUME NEW d \in Callers, rid'[d] = id, res'[d].kind \in {"timeout", "limit"}
          PROVE  WasCut(id)
      <4>1. d # c
        BY <1>1, <1>2, <3>2, Zenon DEF OwnIds
      <4> QED
        BY <1>2, <1>4, <3>2, <4>1, Zenon DEF WasCut
    <3> QED
      BY <2>2, <3>1, <3>2, Zenon DEF WasCut
  <2>3. \A id \in Ids : ReaderOwesKill(id) <=> ReaderOwesKill(id)'
    BY <1>2, Zenon DEF ReaderOwesKill
  <2> QED
    BY <1>1, <1>2, <2>2, <2>3, SameKills, Zenon
<1> QED
  BY <1>6, <1>7, <1>8, <1>9, Zenon DEF WireInv

-----------------------------------------------------------------------------
(* Control frames written and taken *)

\* write_all of a whole frame, under the lock.
LEMMA FrameSent ==
    ASSUME TypeOK, NEW t \in {"RUN", "KILL"}, NEW id \in Ids, SendRequest(t, id)
    PROVE  /\ workerOpen /\ UNCHANGED <<fromWorker, workerOpen>>
           /\ Len(toWorker) \in Nat /\ Len(toWorker') = Len(toWorker) + 1
           /\ DOMAIN toWorker = 1..Len(toWorker)
           /\ DOMAIN toWorker' = 1..(Len(toWorker) + 1)
           /\ toWorker'[Len(toWorker) + 1] = Request(t, id)
           /\ \A i \in 1..Len(toWorker) : toWorker'[i] = toWorker[i]
           /\ \A u, j : Queued(u, j)' <=> Queued(u, j) \/ Request(u, j) = Request(t, id)
<1>1. /\ workerOpen /\ UNCHANGED <<fromWorker, workerOpen>>
      /\ toWorker' = Append(toWorker, Request(t, id))
  BY Zenon DEF SendRequest
<1>2. toWorker \in Seq(RequestFrame) /\ Request(t, id) \in RequestFrame
  BY Values, Zenon DEF TypeOK, SocketTypeOK
<1>3. /\ Len(toWorker) \in Nat /\ Len(toWorker') = Len(toWorker) + 1
      /\ DOMAIN toWorker = 1..Len(toWorker)
      /\ DOMAIN toWorker' = 1..(Len(toWorker) + 1)
      /\ toWorker'[Len(toWorker) + 1] = Request(t, id)
      /\ \A i \in 1..Len(toWorker) : toWorker'[i] = toWorker[i]
  BY <1>1, <1>2
<1>4. ASSUME NEW u, NEW j
      PROVE  Queued(u, j)' <=> Queued(u, j) \/ Request(u, j) = Request(t, id)
  <2>1. Request(u, j)' = Request(u, j)
    BY Zenon DEF Request
  <2>2. ASSUME Queued(u, j)'
        PROVE  Queued(u, j) \/ Request(u, j) = Request(t, id)
    <3>1. PICK i \in DOMAIN toWorker' : toWorker'[i] = Request(u, j)
      BY <2>2, ZenonT(30) DEF Queued, Request
    <3>2. i \in 1..Len(toWorker) \/ i = Len(toWorker) + 1
      BY <1>3, <3>1
    <3> QED
      BY <1>3, <3>1, <3>2, Zenon DEF Queued
  <2>3. ASSUME Queued(u, j)
        PROVE  Queued(u, j)'
    <3>1. PICK i \in 1..Len(toWorker) : toWorker[i] = Request(u, j)
      BY <1>3, <2>3, Zenon DEF Queued
    <3>2. i \in DOMAIN toWorker' /\ toWorker'[i] = Request(u, j)
      BY <1>3, <3>1
    <3> QED
      BY <3>2, Zenon DEF Queued, Request
  <2>4. ASSUME Request(u, j) = Request(t, id)
        PROVE  Queued(u, j)'
    <3>1. Len(toWorker) + 1 \in DOMAIN toWorker'
      BY <1>3
    <3> QED
      BY <1>3, <2>4, <3>1, Zenon DEF Queued, Request
  <2> QED
    BY <2>2, <2>3, <2>4, Zenon
<1> QED
  BY <1>1, <1>3, <1>4, ZenonT(30)

\* Requests are the same only if their type and id are.
LEMMA RequestsDiffer ==
    ASSUME NEW t, NEW u, NEW i, NEW j
    PROVE  Request(t, i) = Request(u, j) <=> t = u /\ i = j
BY Zenon DEF Request

\* A KILL behind everything else, for a request whose RUN was sent.
LEMMA KillSent ==
    ASSUME IInv, InOrder, NEW id \in Ids, SendRequest("KILL", id), ~Unsent(id), kid' = kid,
           \A j \in Ids : Unsent(j)' => Unsent(j)
    PROVE  InOrder'
<1>1. TypeOK
  BY Zenon DEF IInv
<1>2. /\ workerOpen /\ UNCHANGED <<fromWorker, workerOpen>>
      /\ Len(toWorker) \in Nat /\ Len(toWorker') = Len(toWorker) + 1
      /\ DOMAIN toWorker = 1..Len(toWorker)
      /\ DOMAIN toWorker' = 1..(Len(toWorker) + 1)
      /\ toWorker'[Len(toWorker) + 1] = Request("KILL", id)
      /\ \A i \in 1..Len(toWorker) : toWorker'[i] = toWorker[i]
  BY <1>1, FrameSent, ZenonT(30)
<1>3. \A u, j : Queued(u, j)' <=> Queued(u, j) \/ (u = "KILL" /\ j = id)
  <2>1. \A u, j : Queued(u, j)' <=> Queued(u, j) \/ Request(u, j) = Request("KILL", id)
    BY <1>1, FrameSent, ZenonT(30)
  <2> QED
    BY <2>1, RequestsDiffer
<1>4. ASSUME NEW k \in Ids
      PROVE  /\ Unsent(k)' => kid[k] = "none" /\ ~Queued("RUN", k)' /\ ~Queued("KILL", k)'
             /\ Queued("RUN", k)' => kid[k] = "none"
  BY <1>3, ZenonT(30) DEF InOrder
<1>5. ASSUME NEW k \in Ids, NEW i \in DOMAIN toWorker', NEW j \in DOMAIN toWorker',
             toWorker'[i] = Request("RUN", k)
      PROVE  /\ toWorker'[j] = Request("RUN", k) => i = j
             /\ toWorker'[j] = Request("KILL", k) => i < j
  <2>1. i \in 1..Len(toWorker) /\ toWorker[i] = Request("RUN", k)
    <3>1. i # Len(toWorker) + 1
      BY <1>2, <1>5, RequestsDiffer
    <3> QED
      BY <1>2, <1>5, <3>1, SMTT(30)
  <2>2. CASE j \in 1..Len(toWorker)
    BY <1>2, <2>1, <2>2, ZenonT(30) DEF InOrder
  <2>3. CASE j = Len(toWorker) + 1
    BY <1>2, <2>1, <2>3, RequestsDiffer
  <2> QED
    BY <1>2, <2>2, <2>3, SMTT(30)
<1> QED
  BY <1>2, <1>4, <1>5, Zenon DEF InOrder, Ids, Request

\* The KILL of a timeout, and of a cut-off, is on the way from now on.
LEMMA KillQueued ==
    ASSUME IInv, KillFollows, NEW id \in Ids, SendRequest("KILL", id), kid' = kid,
           \A j \in Ids : WasCut(j)' => WasCut(j) \/ j = id,
           \A j \in Ids : ReaderOwesKill(j) => ReaderOwesKill(j)' \/ j = id
    PROVE  KillFollows'
<1>1. TypeOK
  BY Zenon DEF IInv
<1>2. \A u, j : Queued(u, j)' <=> Queued(u, j) \/ (u = "KILL" /\ j = id)
  <2>1. \A u, j : Queued(u, j)' <=> Queued(u, j) \/ Request(u, j) = Request("KILL", id)
    BY <1>1, FrameSent, ZenonT(30)
  <2> QED
    BY <2>1, RequestsDiffer
<1>3. workerOpen
  BY <1>1, FrameSent, ZenonT(30)
<1> QED
  BY <1>2, <1>3, Zenon DEF KillFollows, Ids

\* RUN is written, behind nothing of its own request; or the worker is gone.
LEMMA WriteRunWire ==
    ASSUME IInv, WireInv, NEW c \in Callers, WriteRun(c), UNCHANGED workerVars
    PROVE  WireInv'
<1>1. /\ OwnIds /\ InOrder /\ Heard /\ KillFollows /\ TypeOK /\ ManagerTypeOK
      /\ UNCHANGED <<rid, next_id, rpc, cut, rx, kid>> /\ pc[c] = "writeRun"
  BY ZenonT(30) DEF WireInv, IInv, TypeOK, WriteRun, readerVars, workerVars
<1>2. rid[c] \in Ids /\ rid[c] # 0 /\ Unsent(rid[c])
  BY <1>1 DEF IInv, Registered, InCall, Ids, Unsent
<1>3. CASE SendRequest("RUN", rid[c]) /\ Goto(c, "wait") /\ UNCHANGED res
  <2>1. /\ workerOpen /\ UNCHANGED <<fromWorker, workerOpen>>
        /\ Len(toWorker) \in Nat /\ Len(toWorker') = Len(toWorker) + 1
        /\ DOMAIN toWorker = 1..Len(toWorker)
        /\ DOMAIN toWorker' = 1..(Len(toWorker) + 1)
        /\ toWorker'[Len(toWorker) + 1] = Request("RUN", rid[c])
        /\ \A i \in 1..Len(toWorker) : toWorker'[i] = toWorker[i]
    BY <1>1, <1>2, <1>3, FrameSent, ZenonT(30)
  <2>2. \A u, j : Queued(u, j)' <=> Queued(u, j) \/ (u = "RUN" /\ j = rid[c])
    <3>1. \A u, j : Queued(u, j)' <=> Queued(u, j) \/ Request(u, j) = Request("RUN", rid[c])
      BY <1>1, <1>2, <1>3, FrameSent, ZenonT(30)
    <3> QED
      BY <3>1, RequestsDiffer
  <2>3. OwnIds'
    BY <1>1, <1>3, IdsMove, ZenonT(30)
  <2>4. ASSUME NEW k \in Ids, Unsent(k)'
        PROVE  Unsent(k) /\ k # rid[c]
    <3>1. /\ pc'[c] = "wait" /\ \A d \in Callers : d # c => pc'[d] = pc[d]
          /\ rid[c] < next_id
      BY <1>1, <1>3, ZenonT(30) DEF Goto, ManagerTypeOK, OwnIds
    <3>2. CASE k >= next_id
      BY <1>1, <1>2, <3>1, <3>2 DEF Unsent, Ids, ManagerTypeOK
    <3>3. ASSUME NEW d \in Callers, rid[d] = k, pc'[d] \in {"lockRun", "writeRun"}
          PROVE  Unsent(k) /\ k # rid[c]
      <4>1. d # c /\ pc[d] \in {"lockRun", "writeRun"}
        BY <3>1, <3>3, Zenon
      <4> QED
        BY <1>1, <1>2, <3>3, <4>1, Zenon DEF Unsent, OwnIds
    <3> QED
      BY <1>1, <2>4, <3>2, <3>3, Zenon DEF Unsent
  <2>5. ASSUME NEW k \in Ids
        PROVE  /\ Unsent(k)' => kid[k] = "none" /\ ~Queued("RUN", k)' /\ ~Queued("KILL", k)'
               /\ Queued("RUN", k)' => kid[k] = "none"
    BY <1>1, <1>2, <2>2, <2>4, ZenonT(30) DEF InOrder
  <2>6. ASSUME NEW k \in Ids, NEW i \in DOMAIN toWorker', NEW j \in DOMAIN toWorker',
               toWorker'[i] = Request("RUN", k)
        PROVE  /\ toWorker'[j] = Request("RUN", k) => i = j
               /\ toWorker'[j] = Request("KILL", k) => i < j
    <3>1. CASE k = rid[c]
      <4>1. \A m \in 1..Len(toWorker) :
               toWorker[m] # Request("RUN", k) /\ toWorker[m] # Request("KILL", k)
        BY <1>1, <1>2, <2>1, <3>1, ZenonT(30) DEF InOrder, Queued
      <4>2. i = Len(toWorker) + 1
        BY <2>1, <2>6, <4>1, SMTT(30)
      <4> QED
        BY <2>1, <2>6, <3>1, <4>1, <4>2, RequestsDiffer
    <3>2. CASE k # rid[c]
      <4>1. toWorker'[Len(toWorker) + 1] # Request("RUN", k)
            /\ toWorker'[Len(toWorker) + 1] # Request("KILL", k)
        BY <2>1, <3>2, RequestsDiffer
      <4> QED
        BY <1>1, <2>1, <2>6, <4>1, SMTT(30) DEF InOrder
    <3> QED
      BY <3>1, <3>2, ZenonT(30)
  <2>7. InOrder'
    BY <1>1, <2>1, <2>5, <2>6, ZenonT(30) DEF InOrder, Ids, Request
  <2>8. Heard'
    BY <1>1, <2>1, SameHeard, ZenonT(30)
  <2>9. KillFollows'
    <3>1. ~WasCut(rid[c])
      <4>1. rx[rid[c]].kind # "limit"
        BY <1>1, <1>2, ZenonT(30) DEF InOrder, Heard
      <4>2. ASSUME NEW d \in Callers, rid[d] = rid[c]
            PROVE  res[d].kind \notin {"timeout", "limit"}
        <5>1. d = c
          BY <1>1, <1>2, <4>2, Zenon DEF OwnIds
        <5> QED
          BY <1>1, <5>1, Zenon DEF OwnIds
      <4> QED
        BY <4>1, <4>2, Zenon DEF WasCut
    <3>2. \A k \in Ids : WasCut(k)' <=> WasCut(k)
      BY <1>1, <1>3, ZenonT(30) DEF WasCut
    <3>3. \A k \in Ids : ReaderOwesKill(k)' <=> ReaderOwesKill(k)
      BY <1>1, Zenon DEF ReaderOwesKill
    <3> QED
      BY <1>1, <2>1, <2>2, <3>1, <3>2, <3>3, Zenon DEF KillFollows, Ids
  <2> QED
    BY <2>3, <2>7, <2>8, <2>9, Zenon DEF WireInv
<1>4. CASE SendFails /\ Return(c, Failure("writeFailed"))
  <2>1. Failure("writeFailed").kind = "writeFailed"
    BY Zenon DEF Failure
  <2>2. UNCHANGED <<toWorker, fromWorker, workerOpen>>
    BY <1>4, Zenon DEF SendFails, socketVars
  <2> QED
    BY <1>1, <1>2, <1>4, <2>1, <2>2, CallEndsWire, Zenon
<1> QED
  BY <1>3, <1>4, ZenonT(30) DEF WriteRun

\* A timeout is reported once its KILL is written, or the worker is gone.
LEMMA WriteKillWire ==
    ASSUME IInv, WireInv, NEW c \in Callers, WriteKill(c), UNCHANGED workerVars
    PROVE  WireInv'
<1>1. /\ OwnIds /\ InOrder /\ Heard /\ KillFollows /\ TypeOK /\ ManagerTypeOK
      /\ UNCHANGED <<rid, next_id, rpc, cut, rx, kid>> /\ pc[c] = "writeKill"
      /\ Return(c, Failure("timeout"))
      /\ SendRequest("KILL", rid[c]) \/ SendFails
  BY Zenon DEF WireInv, IInv, TypeOK, WriteKill, readerVars, workerVars
<1>2. rid[c] \in Ids /\ rid[c] # 0 /\ ~Unsent(rid[c])
  <2>1. rid[c] \in Ids /\ rid[c] # 0
    BY <1>1, HasId, Zenon DEF IInv, InCall
  <2>2. ~(rid[c] >= next_id)
    BY <1>1, <2>1 DEF OwnIds, Ids, ManagerTypeOK
  <2>3. ASSUME NEW d \in Callers, rid[d] = rid[c]
        PROVE  pc[d] \notin {"lockRun", "writeRun"}
    BY <1>1, <2>1, <2>3, ZenonT(30) DEF OwnIds
  <2> QED
    BY <2>1, <2>2, <2>3, ZenonT(30) DEF Unsent
<1>3. CASE SendRequest("KILL", rid[c])
  <2>1. UNCHANGED fromWorker
    BY <1>1, <1>2, <1>3, FrameSent, ZenonT(30)
  <2>2. OwnIds'
    BY <1>1, <1>2, IdsEnd, ZenonT(30)
  <2>3. \A j \in Ids : Unsent(j)' => Unsent(j)
    <3>1. Goto(c, "done")
      BY <1>1, ZenonT(30) DEF Return
    <3> QED
      BY <1>1, <3>1, SameUnsent, ZenonT(30)
  <2>4. InOrder'
    BY <1>1, <1>2, <1>3, <2>3, KillSent, Zenon
  <2>5. Heard'
    BY <1>1, <2>1, SameHeard, Zenon
  <2>6. KillFollows'
    <3>1. \A d \in Callers : d # c => res'[d] = res[d]
      BY <1>1, Zenon DEF Return, ManagerTypeOK
    <3>2. \A j \in Ids : WasCut(j)' => WasCut(j) \/ j = rid[c]
      BY <1>1, <3>1, ZenonT(30) DEF WasCut
    <3>3. \A j \in Ids : ReaderOwesKill(j)' <=> ReaderOwesKill(j)
      BY <1>1, ZenonT(30) DEF ReaderOwesKill
    <3> QED
      BY <1>1, <1>2, <1>3, <3>2, <3>3, KillQueued, ZenonT(30)
  <2> QED
    BY <2>2, <2>4, <2>5, <2>6, Zenon DEF WireInv
<1>4. CASE SendFails
  <2>1. UNCHANGED <<toWorker, fromWorker, workerOpen>> /\ ~workerOpen
    BY <1>4, Zenon DEF SendFails, socketVars
  <2> QED
    BY <1>1, <1>2, <2>1, CallEndsWire, ZenonT(30)
<1> QED
  BY <1>1, <1>3, <1>4, Zenon

-----------------------------------------------------------------------------
(* read_loop and the control frames *)

\* A step of read_loop that writes nothing: "limit" is answered only to the
\* request it is about to kill.
LEMMA ReaderWire ==
    ASSUME IInv, WireInv, UNCHANGED <<callVars, toWorker, workerOpen, workerVars>>,
           fromWorker' = fromWorker \/ (fromWorker # <<>> /\ fromWorker' = Tail(fromWorker)),
           rpc' \in {"limit", "lockKill", "writeKill"} => cut'.id \in Ids /\ kid[cut'.id] # "none",
           \A id \in Ids : \/ rx'[id] = rx[id]
                           \/ rx'[id] = Closed
                           \/ rx'[id].kind \in {"exit", "lost"}
                           \/ rx'[id].kind = "limit" /\ ReaderOwesKill(id)',
           \A id \in Ids : ReaderOwesKill(id) => ReaderOwesKill(id)'
    PROVE  WireInv'
<1>1. /\ OwnIds /\ InOrder /\ Heard /\ KillFollows
      /\ UNCHANGED <<next_id, pc, rid, res, kid>>
  BY Zenon DEF WireInv, callVars, workerVars
<1>2. OwnIds'
  BY <1>1, Zenon DEF OwnIds
<1>3. InOrder'
  <2>1. \A id \in Ids : Unsent(id)' => Unsent(id)
    BY <1>1, Zenon DEF Unsent
  <2> QED
    BY <1>1, <2>1, SameOrder, ZenonT(30)
<1>4. \A id \in Ids : ReaderOwesKill(id)' => kid[id] # "none"
  BY Zenon DEF ReaderOwesKill
<1>5. Closed.kind = "closed"
  BY Zenon DEF Closed, Failure
<1>6. Heard'
  <2>1. \A i \in DOMAIN fromWorker' : kid[fromWorker'[i].id] # "none"
    <3>1. CASE fromWorker' = fromWorker
      BY <1>1, <3>1, ZenonT(30) DEF Heard
    <3>2. CASE fromWorker # <<>> /\ fromWorker' = Tail(fromWorker)
      <4>1. fromWorker \in Seq(ReplyFrame)
        BY Zenon DEF IInv, TypeOK, SocketTypeOK
      <4>2. \A i \in DOMAIN fromWorker' :
               i + 1 \in DOMAIN fromWorker /\ fromWorker'[i] = fromWorker[i + 1]
        BY <3>2, <4>1
      <4> QED
        BY <1>1, <4>2, ZenonT(30) DEF Heard
    <3> QED
      BY <3>1, <3>2, Zenon
  <2>2. ASSUME NEW id \in Ids
        PROVE  /\ rx'[id].kind = "limit" => kid[id] # "none"
               /\ \/ rx'[id] \in {Empty, Closed}
                  \/ rx'[id].kind \in {"exit", "limit", "lost"}
    BY <1>1, <1>4, <1>5, ZenonT(30) DEF Heard
  <2> QED
    BY <1>1, <2>1, <2>2, ZenonT(30) DEF Heard, Ids, Empty, Closed, Failure
<1>7. KillFollows'
  <2>1. \A id \in Ids : WasCut(id)' => WasCut(id) \/ ReaderOwesKill(id)'
    BY <1>1, <1>5, Zenon DEF WasCut
  <2> QED
    BY <1>1, <2>1, SameKills, ZenonT(30)
<1> QED
  BY <1>2, <1>3, <1>6, <1>7, ZenonT(30) DEF WireInv

\* One frame handled by read_loop.
LEMMA ReadFrameWire ==
    ASSUME IInv, WireInv, ReadFrame, UNCHANGED workerVars
    PROVE  WireInv'
<1> DEFINE f == Head(fromWorker)
<1>1. /\ rpc = "read" /\ fromWorker # <<>> /\ UNCHANGED <<callVars, toWorker, workerOpen>>
      /\ \/ rpc' = "stop" /\ UNCHANGED <<cut, entry, rx, fromWorker>>
         \/ fromWorker' = Tail(fromWorker) /\ Deliver(f)
  BY Zenon DEF ReadFrame
<1>2. f.id \in Ids /\ kid[f.id] # "none"
  <2>1. fromWorker \in Seq(ReplyFrame)
    BY Zenon DEF IInv, TypeOK, SocketTypeOK
  <2>2. 1 \in DOMAIN fromWorker /\ f = fromWorker[1] /\ f \in ReplyFrame
    BY <1>1, <2>1
  <2> QED
    BY <2>2, Zenon DEF WireInv, Heard, ReplyFrame, OutputFrame, DoneFrame
<1>3. \A id \in Ids : ~ReaderOwesKill(id)
  BY <1>1, Zenon DEF ReaderOwesKill
<1>4. CASE rpc' = "stop" /\ UNCHANGED <<cut, entry, rx, fromWorker>>
  BY <1>1, <1>3, <1>4, ReaderWire, ZenonT(30)
<1>5. CASE fromWorker' = Tail(fromWorker) /\ Deliver(f)
  <2> HIDE DEF f
  <2>1. rpc' = "read" \/ (rpc' = "limit" /\ cut'.id = f.id)
    BY <1>1, <1>5 DEF Deliver
  <2>2. \A id \in Ids : rx'[id] = rx[id] \/ rx'[id].kind = "exit"
    <3> DEFINE x == [kind |-> "exit", out |-> entry[f.id].out, err |-> entry[f.id].err,
                     code |-> f.val]
    <3>1. x.kind = "exit"
      OBVIOUS
    <3>2. rx' = rx \/ rx' = [rx EXCEPT ![f.id] = x]
      BY <1>5, Zenon DEF Deliver
    <3> HIDE DEF x
    <3> QED
      BY <3>1, <3>2, ZenonT(30) DEF IInv, TypeOK, ManagerTypeOK
  <2> QED
    BY <1>1, <1>2, <1>3, <1>5, <2>1, <2>2, ReaderWire, ZenonT(30)
<1> QED
  BY <1>1, <1>4, <1>5, Zenon

\* The answer "output limit exceeded", before its KILL.
LEMMA CutOffWire ==
    ASSUME IInv, WireInv, CutOff, UNCHANGED workerVars
    PROVE  WireInv'
<1> DEFINE x == [Failure("limit") EXCEPT !.out = cut.out]
<1>1. /\ rpc = "limit" /\ rpc' = "lockKill"
      /\ UNCHANGED <<callVars, cut, toWorker, fromWorker, workerOpen>>
      /\ rx' = rx \/ rx' = [rx EXCEPT ![cut.id] = x]
  BY Zenon DEF CutOff, socketVars
<1>2. x.kind = "limit"
  BY Zenon DEF Failure
<1> HIDE DEF x
<1>3. cut.id \in Ids /\ kid[cut.id] # "none"
  BY <1>1, ZenonT(30) DEF IInv, CutNamed, WireInv, Heard
<1>4. \A id \in Ids : rx'[id] = rx[id] \/ (id = cut.id /\ rx'[id].kind = "limit")
  BY <1>1, <1>2, Zenon DEF IInv, TypeOK, ManagerTypeOK
<1>5. \A id \in Ids : ReaderOwesKill(id)' <=> id = cut.id
  BY <1>1, Zenon DEF ReaderOwesKill
<1>6. \A id \in Ids : ReaderOwesKill(id) => id = cut.id
  BY Zenon DEF ReaderOwesKill
<1> QED
  BY <1>1, <1>3, <1>4, <1>5, <1>6, ReaderWire, ZenonT(30)

\* read_loop takes the write lock.
LEMMA CutOffAcquireWire ==
    ASSUME IInv, WireInv, CutOffAcquire, UNCHANGED workerVars
    PROVE  WireInv'
<1>1. /\ rpc = "lockKill" /\ rpc' = "writeKill"
      /\ UNCHANGED <<callVars, cut, rx, toWorker, fromWorker, workerOpen>>
  BY Zenon DEF CutOffAcquire, socketVars
<1>2. cut.id \in Ids /\ kid[cut.id] # "none"
  BY <1>1, ZenonT(30) DEF IInv, CutNamed, WireInv, Heard
<1>3. \A id \in Ids : ReaderOwesKill(id)' <=> ReaderOwesKill(id)
  BY <1>1, Zenon DEF ReaderOwesKill
<1> QED
  BY <1>1, <1>2, <1>3, ReaderWire, ZenonT(30)

\* The end of read_loop: nobody is cut off any more.
LEMMA ReaderEndsWire ==
    ASSUME IInv, WireInv, UNCHANGED workerVars,
           ReadEof \/ MarkStopped \/ ClearPending \/ \E id \in Ids : FailOne(id)
    PROVE  WireInv'
<1>1. /\ rpc \in {"read", "stop", "fail"} /\ rpc' \in {"stop", "fail", "closed"}
      /\ UNCHANGED <<callVars, toWorker, fromWorker, workerOpen>>
  BY Zenon DEF ReadEof, MarkStopped, ClearPending, FailOne, socketVars, readerVars
<1>2. \A id \in Ids : ~ReaderOwesKill(id)
  BY <1>1, Zenon DEF ReaderOwesKill
<1>3. \A id \in Ids : rx'[id] = rx[id] \/ rx'[id] = Closed \/ rx'[id].kind = "lost"
  <2>1. CASE ReadEof \/ MarkStopped
    BY <2>1, Zenon DEF ReadEof, MarkStopped
  <2>2. CASE ClearPending
    BY <2>2, ZenonT(30) DEF ClearPending
  <2>3. ASSUME NEW k \in Ids, FailOne(k)
        PROVE  \A id \in Ids : rx'[id] = rx[id] \/ rx'[id].kind = "lost"
    <3>1. rx' = [rx EXCEPT ![k] = Failure("lost")] /\ Failure("lost").kind = "lost"
      BY <2>3, Zenon DEF FailOne, Failure
    <3> QED
      BY <3>1, Zenon DEF IInv, TypeOK, ManagerTypeOK
  <2> QED
    BY <2>1, <2>2, <2>3, Zenon
<1> QED
  BY <1>1, <1>2, <1>3, ReaderWire, Zenon

\* read_loop's KILL, for a request whose child it has heard of.
LEMMA CutOffKillWire ==
    ASSUME IInv, WireInv, CutOffKill, UNCHANGED workerVars
    PROVE  WireInv'
<1>1. /\ rpc = "writeKill" /\ rpc' = "read" /\ UNCHANGED <<callVars, rx, kid>>
      /\ SendRequest("KILL", cut.id) \/ SendFails
      /\ OwnIds /\ InOrder /\ Heard /\ KillFollows /\ TypeOK
  BY Zenon DEF CutOffKill, workerVars, WireInv, IInv
<1>2. cut.id \in Ids /\ kid[cut.id] # "none" /\ ~Unsent(cut.id)
  BY <1>1, ZenonT(30) DEF IInv, CutNamed, Heard, InOrder
<1>3. OwnIds'
  BY <1>1, ZenonT(30) DEF OwnIds, callVars
<1>4. \A id \in Ids : Unsent(id)' => Unsent(id)
  BY <1>1, ZenonT(30) DEF Unsent, callVars
<1>5. fromWorker' = fromWorker
  BY <1>1, Zenon DEF SendRequest, SendFails, socketVars
<1>6. Heard'
  BY <1>1, <1>5, ZenonT(30) DEF Heard, Ids, Empty, Closed, Failure
<1>7. CASE SendRequest("KILL", cut.id)
  <2>1. InOrder'
    BY <1>1, <1>2, <1>4, <1>7, KillSent, ZenonT(30)
  <2>2. \A id \in Ids : WasCut(id)' <=> WasCut(id)
    BY <1>1, ZenonT(30) DEF WasCut, callVars
  <2>3. \A id \in Ids : ReaderOwesKill(id) => id = cut.id
    BY Zenon DEF ReaderOwesKill
  <2>4. KillFollows'
    BY <1>1, <1>2, <1>7, <2>2, <2>3, KillQueued, ZenonT(30)
  <2> QED
    BY <1>3, <1>6, <2>1, <2>4, Zenon DEF WireInv
<1>8. CASE SendFails
  <2>1. UNCHANGED <<toWorker, workerOpen>> /\ ~workerOpen
    BY <1>8, Zenon DEF SendFails, socketVars
  <2>2. InOrder'
    BY <1>1, <1>4, <2>1, SameOrder, Zenon
  <2>3. KillFollows'
    BY <2>1, Zenon DEF KillFollows
  <2> QED
    BY <1>3, <1>6, <2>2, <2>3, Zenon DEF WireInv
<1> QED
  BY <1>1, <1>7, <1>8, Zenon

-----------------------------------------------------------------------------
(* The worker and the control frames *)

\* The worker takes the first control frame.
LEMMA FrameTaken ==
    ASSUME TypeOK, NEW t, NEW id, Takes(t, id)
    PROVE  /\ workerOpen /\ Len(toWorker) \in Nat /\ Len(toWorker) > 0
           /\ Len(toWorker') = Len(toWorker) - 1
           /\ DOMAIN toWorker = 1..Len(toWorker)
           /\ DOMAIN toWorker' = 1..(Len(toWorker) - 1)
           /\ toWorker[1] = Request(t, id)
           /\ \A i \in DOMAIN toWorker' : toWorker'[i] = toWorker[i + 1]
           /\ \A u, j : Queued(u, j)' => Queued(u, j)
           /\ \A u, j : Queued(u, j) => Queued(u, j)' \/ Request(u, j) = Request(t, id)
<1>1. toWorker \in Seq(RequestFrame) /\ toWorker # <<>>
  BY Zenon DEF TypeOK, SocketTypeOK, Takes
<1>2. toWorker' = Tail(toWorker) /\ Head(toWorker) = Request(t, id) /\ workerOpen
  BY Zenon DEF Takes
<1>3. /\ Len(toWorker) \in Nat /\ Len(toWorker) > 0
      /\ Len(toWorker') = Len(toWorker) - 1
      /\ DOMAIN toWorker = 1..Len(toWorker)
      /\ DOMAIN toWorker' = 1..(Len(toWorker) - 1)
      /\ toWorker[1] = Request(t, id)
      /\ \A i \in DOMAIN toWorker' : toWorker'[i] = toWorker[i + 1]
  BY <1>1, <1>2
<1>4. ASSUME NEW u, NEW j, Queued(u, j)'
      PROVE  Queued(u, j)
  <2>1. PICK i \in DOMAIN toWorker' : toWorker'[i] = Request(u, j)
    BY <1>4, ZenonT(30) DEF Queued, Request
  <2>2. i + 1 \in DOMAIN toWorker /\ toWorker[i + 1] = Request(u, j)
    BY <1>3, <2>1
  <2> QED
    BY <2>2, Zenon DEF Queued
<1>5. ASSUME NEW u, NEW j, Queued(u, j), Request(u, j) # Request(t, id)
      PROVE  Queued(u, j)'
  <2>1. PICK i \in DOMAIN toWorker : toWorker[i] = Request(u, j)
    BY <1>5, Zenon DEF Queued
  <2>2. i # 1
    BY <1>3, <1>5, <2>1, ZenonT(30)
  <2>3. i - 1 \in DOMAIN toWorker' /\ toWorker'[i - 1] = Request(u, j)
    BY <1>3, <2>1, <2>2
  <2> QED
    BY <2>3, ZenonT(30) DEF Queued, Request
<1> QED
  BY <1>2, <1>3, <1>4, <1>5, ZenonT(30)

\* What a step of the worker leaves alone in the manager.
LEMMA ManagerStill ==
    ASSUME UNCHANGED managerVars
    PROVE  /\ UNCHANGED <<running, next_id, pending, entry, rx, lock, pc, rid, res, rpc, cut, doomed>>
           /\ OwnIds => OwnIds'
           /\ \A id \in Ids : Unsent(id)' <=> Unsent(id)
           /\ \A id \in Ids : WasCut(id)' <=> WasCut(id)
           /\ \A id \in Ids : ReaderOwesKill(id)' <=> ReaderOwesKill(id)
<1>1. UNCHANGED <<running, next_id, pending, entry, rx, lock, pc, rid, res, rpc, cut, doomed>>
  BY Zenon DEF managerVars, callVars, readerVars
<1>2. OwnIds => OwnIds'
  BY <1>1, ZenonT(30) DEF OwnIds
<1>3. \A id \in Ids : Unsent(id)' <=> Unsent(id)
  BY <1>1, Zenon DEF Unsent
<1>4. \A id \in Ids : WasCut(id)' <=> WasCut(id)
  BY <1>1, ZenonT(30) DEF WasCut
<1>5. \A id \in Ids : ReaderOwesKill(id)' <=> ReaderOwesKill(id)
  BY <1>1, Zenon DEF ReaderOwesKill
<1> QED
  BY <1>1, <1>2, <1>3, <1>4, <1>5, Zenon

\* Taking a frame does not change the order of the others.
LEMMA TakenOrder ==
    ASSUME IInv, InOrder, NEW t, NEW id, Takes(t, id), workerOpen' = workerOpen
    PROVE  /\ \A k \in Ids : \A i, j \in DOMAIN toWorker' : toWorker'[i] = Request("RUN", k) =>
                 /\ toWorker'[j] = Request("RUN", k) => i = j
                 /\ toWorker'[j] = Request("KILL", k) => i < j
           /\ ~workerOpen' => toWorker' = <<>>
<1>1. TypeOK
  BY Zenon DEF IInv
<1>2. /\ workerOpen /\ Len(toWorker) \in Nat /\ Len(toWorker) > 0
      /\ DOMAIN toWorker = 1..Len(toWorker)
      /\ DOMAIN toWorker' = 1..(Len(toWorker) - 1)
      /\ \A i \in DOMAIN toWorker' : toWorker'[i] = toWorker[i + 1]
  BY <1>1, FrameTaken, ZenonT(30)
<1>3. ASSUME NEW k \in Ids, NEW i \in DOMAIN toWorker', NEW j \in DOMAIN toWorker',
             toWorker'[i] = Request("RUN", k)
      PROVE  /\ toWorker'[j] = Request("RUN", k) => i = j
             /\ toWorker'[j] = Request("KILL", k) => i < j
  <2>1. /\ i \in Int /\ j \in Int
        /\ i + 1 \in DOMAIN toWorker /\ j + 1 \in DOMAIN toWorker
        /\ toWorker'[i] = toWorker[i + 1] /\ toWorker'[j] = toWorker[j + 1]
    BY <1>2
  <2>2. /\ toWorker[j + 1] = Request("RUN", k) => i + 1 = j + 1
        /\ toWorker[j + 1] = Request("KILL", k) => i + 1 < j + 1
    BY <1>3, <2>1, Zenon DEF InOrder
  <2> QED
    BY <2>1, <2>2, SMTT(30)
<1> QED
  BY <1>2, <1>3, Zenon

\* RUN is taken: it was the only one, and its KILL, if any, is behind it.
LEMMA TakeRunWire ==
    ASSUME IInv, WireInv, NEW id \in Ids, TakeRun(id), UNCHANGED managerVars
    PROVE  WireInv'
<1>1. /\ OwnIds /\ InOrder /\ Heard /\ KillFollows /\ TypeOK
      /\ Takes("RUN", id) /\ UNCHANGED <<fromWorker, workerOpen>>
      /\ \E k \in {"live", "failed"} : kid' = [kid EXCEPT ![id] = k]
  BY Zenon DEF WireInv, IInv, TakeRun
<1>2. /\ kid'[id] \in {"live", "failed"}
      /\ \A j \in Ids : j # id => kid'[j] = kid[j]
  BY <1>1, Zenon DEF TypeOK, ContractTypeOK
<1>3. /\ UNCHANGED <<rx, rpc, cut>> /\ OwnIds'
      /\ \A j \in Ids : Unsent(j)' <=> Unsent(j)
      /\ \A j \in Ids : WasCut(j)' <=> WasCut(j)
      /\ \A j \in Ids : ReaderOwesKill(j)' <=> ReaderOwesKill(j)
  BY <1>1, ManagerStill, ZenonT(30)
<1>4. /\ \A u, j : Queued(u, j)' => Queued(u, j)
      /\ \A u, j : Queued(u, j) => Queued(u, j)' \/ (u = "RUN" /\ j = id)
  <2>1. /\ \A u, j : Queued(u, j)' => Queued(u, j)
        /\ \A u, j : Queued(u, j) => Queued(u, j)' \/ Request(u, j) = Request("RUN", id)
    BY <1>1, FrameTaken, ZenonT(30)
  <2> QED
    BY <2>1, RequestsDiffer
<1>5. Queued("RUN", id) /\ ~Queued("RUN", id)'
  <2>1. /\ 1 \in DOMAIN toWorker /\ toWorker[1] = Request("RUN", id)
        /\ \A i \in DOMAIN toWorker' : /\ i \in Int /\ i >= 1 /\ i + 1 \in DOMAIN toWorker
                                       /\ toWorker'[i] = toWorker[i + 1]
    BY <1>1, FrameTaken
  <2>2. Queued("RUN", id)
    BY <2>1, ZenonT(30) DEF Queued
  <2>3. ASSUME NEW i \in DOMAIN toWorker', toWorker'[i] = Request("RUN", id)
        PROVE  FALSE
    <3>1. i + 1 = 1
      BY <1>1, <2>1, <2>3 DEF InOrder
    <3> QED
      BY <2>1, <3>1, SMTT(30)
  <2> QED
    BY <2>2, <2>3, ZenonT(30) DEF Queued, Request
<1>6. InOrder'
  <2>1. ASSUME NEW j \in Ids
        PROVE  /\ Unsent(j)' => kid'[j] = "none" /\ ~Queued("RUN", j)' /\ ~Queued("KILL", j)'
               /\ Queued("RUN", j)' => kid'[j] = "none"
    BY <1>1, <1>2, <1>3, <1>4, <1>5, ZenonT(30) DEF InOrder
  <2>2. /\ \A k \in Ids : \A i, j \in DOMAIN toWorker' : toWorker'[i] = Request("RUN", k) =>
              /\ toWorker'[j] = Request("RUN", k) => i = j
              /\ toWorker'[j] = Request("KILL", k) => i < j
        /\ ~workerOpen' => toWorker' = <<>>
    BY <1>1, TakenOrder, Zenon
  <2> QED
    BY <2>1, <2>2, Zenon DEF InOrder, Ids, Request
<1>7. ASSUME NEW j \in Ids, kid[j] # "none"
      PROVE  kid'[j] # "none"
  BY <1>2, <1>7, Zenon
<1>8. Heard'
  <2>1. \A i \in DOMAIN fromWorker : fromWorker[i].id \in Ids
    BY <1>1 DEF TypeOK, SocketTypeOK, ReplyFrame, OutputFrame, DoneFrame
  <2>2. rpc \in {"limit", "lockKill", "writeKill"} => cut.id \in Ids
    BY Zenon DEF IInv, CutNamed
  <2> QED
    BY <1>1, <1>3, <1>7, <2>1, <2>2, ZenonT(30) DEF Heard, Ids, Empty, Closed, Failure
<1>9. KillFollows'
  <2>1. ASSUME NEW j \in Ids, kid'[j] = "live" \/ Queued("RUN", j)'
        PROVE  kid[j] = "live" \/ Queued("RUN", j)
    BY <1>2, <1>4, <1>5, <2>1, ZenonT(30)
  <2>2. ASSUME NEW j \in Ids, Queued("KILL", j)
        PROVE  Queued("KILL", j)'
    BY <1>4, <2>2
  <2> QED
    BY <1>1, <1>3, <2>1, <2>2, Zenon DEF KillFollows, Ids
<1> QED
  BY <1>3, <1>6, <1>8, <1>9, Zenon DEF WireInv

\* KILL is taken: the child is no longer running, and no RUN of the request
\* is behind its KILL.
LEMMA TakeKillWire ==
    ASSUME IInv, WireInv, NEW id \in Ids, TakeKill(id), UNCHANGED managerVars
    PROVE  WireInv'
<1>1. /\ OwnIds /\ InOrder /\ Heard /\ KillFollows /\ TypeOK
      /\ Takes("KILL", id) /\ UNCHANGED <<fromWorker, workerOpen>>
      /\ kid' = IF kid[id] = "live" THEN [kid EXCEPT ![id] = "dead"] ELSE kid
  BY Zenon DEF WireInv, IInv, TakeKill
<1>2. /\ kid'[id] # "live" /\ (kid'[id] = "none" <=> kid[id] = "none")
      /\ \A j \in Ids : j # id => kid'[j] = kid[j]
  BY <1>1, Zenon DEF TypeOK, ContractTypeOK
<1>3. /\ UNCHANGED <<rx, rpc, cut>> /\ OwnIds'
      /\ \A j \in Ids : Unsent(j)' <=> Unsent(j)
      /\ \A j \in Ids : WasCut(j)' <=> WasCut(j)
      /\ \A j \in Ids : ReaderOwesKill(j)' <=> ReaderOwesKill(j)
  BY <1>1, ManagerStill, ZenonT(30)
<1>4. /\ \A u, j : Queued(u, j)' => Queued(u, j)
      /\ \A u, j : Queued(u, j) => Queued(u, j)' \/ (u = "KILL" /\ j = id)
  <2>1. /\ \A u, j : Queued(u, j)' => Queued(u, j)
        /\ \A u, j : Queued(u, j) => Queued(u, j)' \/ Request(u, j) = Request("KILL", id)
    BY <1>1, FrameTaken, ZenonT(30)
  <2> QED
    BY <2>1, RequestsDiffer
<1>5. ~Queued("RUN", id)'
  <2>1. /\ 1 \in DOMAIN toWorker /\ toWorker[1] = Request("KILL", id)
        /\ DOMAIN toWorker = 1..Len(toWorker)
    BY <1>1, FrameTaken
  <2>2. ASSUME NEW i \in DOMAIN toWorker, toWorker[i] = Request("RUN", id)
        PROVE  FALSE
    <3>1. i < 1
      BY <1>1, <2>1, <2>2, Zenon DEF InOrder
    <3> QED
      BY <2>1, <3>1
  <2>3. ~Queued("RUN", id)
    BY <2>2, Zenon DEF Queued
  <2> QED
    BY <1>4, <2>3, ZenonT(30)
<1>6. InOrder'
  <2>1. ASSUME NEW j \in Ids
        PROVE  /\ Unsent(j)' => kid'[j] = "none" /\ ~Queued("RUN", j)' /\ ~Queued("KILL", j)'
               /\ Queued("RUN", j)' => kid'[j] = "none"
    BY <1>1, <1>2, <1>3, <1>4, ZenonT(30) DEF InOrder
  <2>2. /\ \A k \in Ids : \A i, j \in DOMAIN toWorker' : toWorker'[i] = Request("RUN", k) =>
              /\ toWorker'[j] = Request("RUN", k) => i = j
              /\ toWorker'[j] = Request("KILL", k) => i < j
        /\ ~workerOpen' => toWorker' = <<>>
    BY <1>1, TakenOrder, ZenonT(30)
  <2> QED
    BY <2>1, <2>2, Zenon DEF InOrder, Ids, Request
<1>7. ASSUME NEW j \in Ids, kid[j] # "none"
      PROVE  kid'[j] # "none"
  BY <1>2, <1>7, ZenonT(30)
<1>8. Heard'
  <2>1. \A i \in DOMAIN fromWorker : fromWorker[i].id \in Ids
    BY <1>1 DEF TypeOK, SocketTypeOK, ReplyFrame, OutputFrame, DoneFrame
  <2>2. rpc \in {"limit", "lockKill", "writeKill"} => cut.id \in Ids
    BY Zenon DEF IInv, CutNamed
  <2> QED
    BY <1>1, <1>3, <1>7, <2>1, <2>2, ZenonT(30) DEF Heard, Ids, Empty, Closed, Failure
<1>9. KillFollows'
  <2>1. ASSUME NEW j \in Ids, kid'[j] = "live" \/ Queued("RUN", j)'
        PROVE  j # id /\ (kid[j] = "live" \/ Queued("RUN", j))
    BY <1>2, <1>4, <1>5, <2>1, ZenonT(30)
  <2>2. ASSUME NEW j \in Ids, Queued("KILL", j), j # id
        PROVE  Queued("KILL", j)'
    BY <1>4, <2>2, Zenon
  <2> QED
    BY <1>1, <1>3, <2>1, <2>2, Zenon DEF KillFollows, Ids
<1> QED
  BY <1>3, <1>6, <1>8, <1>9, Zenon DEF WireInv

\* A step of a forked child, or of the worker on its behalf: it takes no
\* control frame and queues at most one frame of the request.
ChildStep(id) ==
    \/ Exit(id) \/ NoteAndKill(id) \/ Finish(id)
    \/ \E s \in Streams, n \in 1..MaxFrame : Forward(id, s, n)

\* What all these steps have in common.
LEMMA ChildMoves ==
    ASSUME TypeOK, NEW id \in Ids, ChildStep(id)
    PROVE  /\ UNCHANGED <<toWorker, workerOpen>>
           /\ kid[id] \in {"live", "dead", "noted"}
           /\ kid'[id] \in {"live", "dead", "noted", "done"}
           /\ kid'[id] = "live" => kid[id] = "live"
           /\ \A j \in Ids : j # id => kid'[j] = kid[j]
           /\ \/ fromWorker' = fromWorker
              \/ \E f \in ReplyFrame : f.id = id /\ fromWorker' = Append(fromWorker, f)
<1>1. CASE Exit(id)
  BY <1>1, Zenon DEF Exit, socketVars, TypeOK, ContractTypeOK
<1>2. CASE NoteAndKill(id)
  <2>1. Reply("STDERR", id, 1) \in ReplyFrame /\ Reply("STDERR", id, 1).id = id
    BY ProtocolAssumption DEF Reply, ReplyFrame, OutputFrame, Streams
  <2> QED
    BY <1>2, <2>1, ZenonT(30) DEF NoteAndKill, TypeOK, ContractTypeOK
<1>3. CASE Finish(id)
  <2>1. Reply("DONE", id, code[id]) \in ReplyFrame /\ Reply("DONE", id, code[id]).id = id
    BY Zenon DEF Reply, ReplyFrame, DoneFrame, TypeOK, ContractTypeOK
  <2> QED
    BY <1>3, <2>1, Zenon DEF Finish, TypeOK, ContractTypeOK
<1>4. ASSUME NEW s \in Streams, NEW n \in 1..MaxFrame, Forward(id, s, n)
      PROVE  /\ UNCHANGED <<toWorker, workerOpen, kid>>
             /\ kid[id] \in {"live", "dead"}
             /\ \E f \in ReplyFrame : f.id = id /\ fromWorker' = Append(fromWorker, f)
  <2>1. Reply(s, id, n) \in ReplyFrame /\ Reply(s, id, n).id = id
    BY Zenon DEF Reply, ReplyFrame, OutputFrame
  <2> QED
    BY <1>4, <2>1, ZenonT(30) DEF Forward
<1> QED
  BY <1>1, <1>2, <1>3, <1>4, ZenonT(30) DEF ChildStep

\* None of them concerns the control frames.
LEMMA ChildWire ==
    ASSUME IInv, WireInv, NEW id \in Ids, ChildStep(id), UNCHANGED managerVars
    PROVE  WireInv'
<1>1. OwnIds /\ InOrder /\ Heard /\ KillFollows /\ TypeOK
  BY Zenon DEF WireInv, IInv
<1>2. /\ UNCHANGED <<toWorker, workerOpen>>
      /\ kid[id] \in {"live", "dead", "noted"}
      /\ kid'[id] \in {"live", "dead", "noted", "done"}
      /\ kid'[id] = "live" => kid[id] = "live"
      /\ \A j \in Ids : j # id => kid'[j] = kid[j]
      /\ \/ fromWorker' = fromWorker
         \/ \E f \in ReplyFrame : f.id = id /\ fromWorker' = Append(fromWorker, f)
  BY <1>1, ChildMoves, Zenon
<1>3. /\ UNCHANGED <<rx, rpc, cut>> /\ OwnIds'
      /\ \A j \in Ids : Unsent(j)' <=> Unsent(j)
      /\ \A j \in Ids : WasCut(j)' <=> WasCut(j)
      /\ \A j \in Ids : ReaderOwesKill(j)' <=> ReaderOwesKill(j)
  BY <1>1, ManagerStill, Zenon
<1>4. \A j \in Ids : kid'[j] = "none" <=> kid[j] = "none"
  BY <1>2, Zenon
<1>5. InOrder'
  BY <1>1, <1>2, <1>3, <1>4, SameOrder, ZenonT(30)
<1>6. Heard'
  <2>1. ASSUME NEW i \in DOMAIN fromWorker'
        PROVE  kid'[fromWorker'[i].id] # "none"
    <3>1. fromWorker \in Seq(ReplyFrame)
      BY <1>1, Zenon DEF TypeOK, SocketTypeOK
    <3>2. \A f \in ReplyFrame : f.id \in Ids
      BY ZenonT(30) DEF ReplyFrame, OutputFrame, DoneFrame
    <3>3. CASE fromWorker' = fromWorker
      BY <1>1, <1>4, <2>1, <3>1, <3>2, <3>3, SMTT(30) DEF Heard
    <3>4. ASSUME NEW f \in ReplyFrame, f.id = id, fromWorker' = Append(fromWorker, f)
          PROVE  kid'[fromWorker'[i].id] # "none"
      <4>1. (i \in DOMAIN fromWorker /\ fromWorker'[i] = fromWorker[i]) \/ fromWorker'[i] = f
        BY <2>1, <3>1, <3>4
      <4> QED
        BY <1>1, <1>2, <1>4, <3>1, <3>2, <3>4, <4>1, SMTT(30) DEF Heard
    <3> QED
      BY <1>2, <3>3, <3>4, Zenon
  <2>2. rpc \in {"limit", "lockKill", "writeKill"} => cut.id \in Ids
    BY Zenon DEF IInv, CutNamed
  <2> QED
    BY <1>1, <1>3, <1>4, <2>1, <2>2, ZenonT(30) DEF Heard, Ids, Empty, Closed, Failure
<1>7. KillFollows'
  <2>1. \A j \in Ids : kid'[j] = "live" => kid[j] = "live"
    BY <1>2, Zenon
  <2> QED
    BY <1>1, <1>2, <1>3, <2>1, SameKills, Zenon
<1> QED
  BY <1>3, <1>5, <1>6, <1>7, Zenon DEF WireInv

\* The worker dies: what was on the way to it is gone.
LEMMA CrashWire ==
    ASSUME IInv, WireInv, Crash, UNCHANGED managerVars
    PROVE  WireInv'
<1>1. /\ OwnIds /\ InOrder /\ Heard /\ TypeOK
      /\ workerOpen' = FALSE /\ toWorker' = <<>> /\ kid' = kid
      /\ \E k \in 0..Len(fromWorker) : fromWorker' = SubSeq(fromWorker, 1, k)
  BY Zenon DEF WireInv, IInv, Crash, workerVars
<1>2. /\ UNCHANGED <<rx, rpc, cut>> /\ OwnIds'
      /\ \A j \in Ids : Unsent(j)' <=> Unsent(j)
  BY <1>1, ManagerStill, ZenonT(30)
<1>3. DOMAIN toWorker' = {}
  BY <1>1
<1>4. \A u, j : ~Queued(u, j)'
  BY <1>3, Zenon DEF Queued
<1>5. InOrder'
  BY <1>1, <1>2, <1>3, <1>4, ZenonT(30) DEF InOrder, Ids
<1>6. Heard'
  <2>1. PICK k \in 0..Len(fromWorker) : fromWorker' = SubSeq(fromWorker, 1, k)
    BY <1>1, Zenon
  <2>2. fromWorker \in Seq(ReplyFrame)
    BY <1>1, ZenonT(30) DEF TypeOK, SocketTypeOK
  <2>3. \A i \in DOMAIN fromWorker' : i \in DOMAIN fromWorker /\ fromWorker'[i] = fromWorker[i]
    BY <2>1, <2>2
  <2> QED
    BY <1>1, <1>2, <2>3, Zenon DEF Heard, Ids, Empty, Closed, Failure
<1>7. KillFollows'
  BY <1>1, Zenon DEF KillFollows
<1> QED
  BY <1>2, <1>5, <1>6, <1>7, Zenon DEF WireInv

-----------------------------------------------------------------------------
(* The wire invariant *)

\* Nothing has been sent.
LEMMA InitWire == Init => WireInv
<1> SUFFICES ASSUME Init PROVE WireInv
  OBVIOUS
<1>1. /\ next_id = 1 /\ rid = [c \in Callers |-> 0] /\ pc = [c \in Callers |-> "start"]
      /\ res = [c \in Callers |-> Empty] /\ rx = [id \in Ids |-> Empty] /\ rpc = "read"
      /\ kid = [id \in Ids |-> "none"] /\ toWorker = <<>> /\ fromWorker = <<>>
      /\ workerOpen = TRUE
  BY Zenon DEF Init, ManagerInit, ContractInit, SocketInit
<1>2. Empty.kind = "empty"
  BY Zenon DEF Empty, Failure
<1>3. OwnIds
  BY <1>1, <1>2, SMTT(30) DEF OwnIds
<1>4. DOMAIN toWorker = {} /\ DOMAIN fromWorker = {}
  BY <1>1
<1>5. \A u, j : ~Queued(u, j)
  BY <1>4, Zenon DEF Queued
<1>6. InOrder
  BY <1>1, <1>4, <1>5, ZenonT(30) DEF InOrder
<1>7. Heard
  BY <1>1, <1>2, <1>4, Zenon DEF Heard
<1>8. KillFollows
  BY <1>1, <1>5, Zenon DEF KillFollows
<1> QED
  BY <1>3, <1>6, <1>7, <1>8, Zenon DEF WireInv

\* Nothing changes.
LEMMA StutterWire ==
    ASSUME IInv, WireInv, UNCHANGED vars
    PROVE  WireInv'
<1>1. /\ UNCHANGED <<callVars, toWorker, fromWorker, workerOpen, workerVars, rpc, cut, rx>>
      /\ rpc \in {"limit", "lockKill", "writeKill"} => cut.id \in Ids /\ kid[cut.id] # "none"
  BY Zenon DEF vars, managerVars, readerVars, socketVars, IInv, CutNamed, WireInv, Heard
<1>2. \A id \in Ids : ReaderOwesKill(id)' <=> ReaderOwesKill(id)
  BY <1>1, Zenon DEF ReaderOwesKill
<1> QED
  BY <1>1, <1>2, ReaderWire, Zenon

\* Every step of the worker.
LEMMA WorkerWire ==
    ASSUME IInv, WireInv, WorkerStep, UNCHANGED managerVars
    PROVE  WireInv'
BY TakeRunWire, TakeKillWire, ChildWire, CrashWire, Zenon DEF WorkerStep, Events, ForwardSome, ChildStep

\* Every step of the pool.
LEMMA NextWire ==
    ASSUME IInv, WireInv, [Next]_vars
    PROVE  WireInv'
<1>1. ASSUME NEW c \in Callers, CallStep(c), UNCHANGED workerVars PROVE WireInv'
  BY <1>1, CheckRunningWire, RegisterWire, AcquireWriteWire, WriteRunWire, ReceiveWire,
     GiveUpWire, WriteKillWire, ZenonT(30) DEF CallStep
<1>2. ASSUME ReadLoopStep, UNCHANGED workerVars PROVE WireInv'
  BY <1>2, ReadFrameWire, CutOffWire, CutOffAcquireWire, CutOffKillWire,
     ReaderEndsWire, Zenon DEF ReadLoopStep
<1> QED
  BY <1>1, <1>2, WorkerWire, StutterWire, Zenon DEF Next

\* RUN and KILL are in order and no KILL is forgotten, in every state.
LEMMA PoolWire == Spec => [](IInv /\ WireInv)
<1>1. Init => IInv /\ WireInv
  BY InitIInv, InitWire, Zenon
<1>2. IInv /\ WireInv /\ [Next]_vars => IInv' /\ WireInv'
  BY NextIInv, NextWire, Zenon
<1> QED
  BY <1>1, <1>2, PTL DEF Spec

\* While the worker is up, every sandbox of a call that reported a timeout or
\* the output limit has its KILL on the way, behind its RUN.
THEOREM KillIsOnTheWay == Spec => []NoStraySandbox
<1>1. ASSUME IInv, WireInv, workerOpen, NEW c \in Callers, pc[c] = "done",
             res[c].kind \in {"timeout", "limit"},
             kid[rid[c]] = "live" \/ Queued("RUN", rid[c])
      PROVE  Queued("KILL", rid[c]) \/ ReaderOwesKill(rid[c])
  <2>1. rid[c] \in Ids
    BY <1>1, Zenon DEF IInv, TypeOK, ManagerTypeOK, WireInv, OwnIds
  <2>2. WasCut(rid[c])
    BY <1>1, Zenon DEF WasCut
  <2> QED
    BY <1>1, <2>1, <2>2, Zenon DEF WireInv, KillFollows
<1>2. ASSUME IInv, WireInv, NEW i \in DOMAIN toWorker, NEW j \in DOMAIN toWorker,
             toWorker[i].type = "RUN", toWorker[j].type = "KILL",
             toWorker[i].id = toWorker[j].id
      PROVE  i < j
  <2>1. toWorker[i] \in RequestFrame /\ toWorker[j] \in RequestFrame
    BY <1>2 DEF IInv, TypeOK, SocketTypeOK
  <2>2. PICK k \in Ids : k = toWorker[i].id
    BY <2>1, Zenon DEF RequestFrame
  <2>3. toWorker[i] = Request("RUN", k) /\ toWorker[j] = Request("KILL", k)
    BY <1>2, <2>1, <2>2, Zenon DEF RequestFrame, Request
  <2> QED
    BY <1>2, <2>3, ZenonT(30) DEF WireInv, InOrder
<1>3. IInv /\ WireInv => NoStraySandbox
  BY <1>1, <1>2, Zenon DEF NoStraySandbox
<1> QED
  BY PoolWire, <1>3, PTL

-----------------------------------------------------------------------------
(* Running totals of the output under way *)

\* A frame carries a number of bytes.
LEMMA CarriedType ==
    ASSUME NEW f \in ReplyFrame, NEW id \in Ids, NEW s \in Streams
    PROVE  Carried(f, id, s) \in Nat
<1>1. f.type = s => f.val \in Nat
  BY ProtocolAssumption, SMTT(30) DEF ReplyFrame, OutputFrame, DoneFrame, Streams
<1> QED
  BY <1>1, Zenon DEF Carried

\* Nothing of the request is under way.
LEMMA TotalStarts ==
    ASSUME NEW q \in Seq(ReplyFrame), NEW whole, NEW id \in Ids, NEW s \in Streams,
           \A i \in 1..Len(q) : q[i].id # id
    PROVE  TakesTo(q, whole, id, s, 0, 0)
<1> DEFINE b == [i \in 0..Len(q) |-> 0]
<1>1. b \in [0..Len(q) -> Nat] /\ \A i \in 0..Len(q) : b[i] = 0
  OBVIOUS
<1>2. Len(q) \in Nat
  OBVIOUS
<1>3. \A i \in 1..Len(q) : Carried(q[i], id, s) = 0 /\ i \in 0..Len(q) /\ i - 1 \in 0..Len(q)
  BY <1>2 DEF Carried
<1> HIDE DEF b
<1> QED
  BY <1>1, <1>2, <1>3 DEF TakesTo

\* A frame more, with the bytes it carries.
LEMMA TotalGrows ==
    ASSUME NEW q \in Seq(ReplyFrame), NEW id \in Ids, NEW s \in Streams,
           NEW from \in Nat, NEW to \in Nat, NEW f \in ReplyFrame,
           TakesTo(q, TRUE, id, s, from, to),
           f.id = id => \A i \in 1..Len(q) : ~(q[i].id = id /\ q[i].type = "DONE")
    PROVE  TakesTo(Append(q, f), TRUE, id, s, from, to + Carried(f, id, s))
<1> DEFINE n == Len(q)
           p == Append(q, f)
           x == Carried(f, id, s)
<1>1. PICK b \in [0..n -> Nat] :
         /\ b[0] = from
         /\ \A i \in 1..n : b[i] = b[i - 1] + Carried(q[i], id, s)
         /\ \A i \in 1..n : q[i].id = id /\ q[i].type = "DONE" => b[i] = to
         /\ b[n] = to
  BY ZenonT(30) DEF TakesTo
<1>2. /\ n \in Nat /\ Len(p) = n + 1 /\ x \in Nat
      /\ p[n + 1] = f /\ \A i \in 1..n : p[i] = q[i]
  <2>1. n \in Nat /\ Len(p) = n + 1 /\ p[n + 1] = f
    OBVIOUS
  <2>2. \A i \in 1..n : p[i] = q[i]
    BY SMTT(30)
  <2> QED
    BY <2>1, <2>2, CarriedType, ZenonT(30)
<1>3. x # 0 => f.id = id
  BY Zenon DEF Carried
<1>4. f.type = "DONE" => x = 0
  BY ZenonT(30) DEF Carried, Streams
<1> DEFINE d == [i \in 0..(n + 1) |-> IF i = n + 1 THEN to + x ELSE b[i]]
<1> HIDE DEF n, p, x
<1>5. /\ d \in [0..(n + 1) -> Nat] /\ d[n + 1] = to + x
      /\ \A i \in 0..n : d[i] = b[i]
  BY <1>1, <1>2, SMTT(30)
<1> HIDE DEF d
<1>6. d[0] = from
  BY <1>1, <1>2, <1>5, SMTT(30)
<1>7. ASSUME NEW i \in 1..(n + 1)
      PROVE  d[i] = d[i - 1] + Carried(p[i], id, s)
  <2>1. CASE i = n + 1
    BY <1>1, <1>2, <1>5, <2>1, SMTT(30) DEF x
  <2>2. CASE i \in 1..n
    BY <1>1, <1>2, <1>5, <2>2, SMTT(30)
  <2> QED
    BY <1>2, <2>1, <2>2, SMTT(30)
<1>8. ASSUME NEW i \in 1..(n + 1), p[i].id = id, p[i].type = "DONE"
      PROVE  d[i] = to + x
  <2>1. CASE i = n + 1
    BY <1>5, <2>1, ZenonT(30)
  <2>2. CASE i \in 1..n
    <3>1. f.id # id
      BY <1>2, <1>8, <2>2, ZenonT(30) DEF n
    <3>2. x = 0 /\ p[i] = q[i] /\ i \in 0..n
      BY <1>2, <1>3, <2>2, <3>1
    <3>3. d[i] = b[i] /\ b[i] = to
      BY <1>1, <1>5, <1>8, <2>2, <3>2, Zenon
    <3> QED
      BY <3>2, <3>3
  <2> QED
    BY <1>2, <2>1, <2>2
<1> QED
  BY <1>2, <1>5, <1>6, <1>7, <1>8, ZenonT(30) DEF TakesTo, p, x

\* The first frame is taken, and its bytes counted.
LEMMA TotalMoves ==
    ASSUME NEW q \in Seq(ReplyFrame), NEW whole, NEW id \in Ids, NEW s \in Streams,
           NEW from \in Nat, NEW to \in Nat, q # <<>>,
           TakesTo(q, whole, id, s, from, to)
    PROVE  TakesTo(Tail(q), whole, id, s, from + Carried(Head(q), id, s), to)
<1> DEFINE n == Len(q)
           p == Tail(q)
<1>1. PICK b \in [0..n -> Nat] :
         /\ b[0] = from
         /\ \A i \in 1..n : b[i] = b[i - 1] + Carried(q[i], id, s)
         /\ \A i \in 1..n : q[i].id = id /\ q[i].type = "DONE" => b[i] = to
         /\ whole => b[n] = to
  BY Zenon DEF TakesTo
<1>2. /\ n \in Nat /\ n > 0 /\ Len(p) = n - 1
      /\ Head(q) = q[1] /\ \A i \in 1..(n - 1) : p[i] = q[i + 1]
  OBVIOUS
<1> DEFINE d == [i \in 0..(n - 1) |-> b[i + 1]]
<1> HIDE DEF n, p
<1>3. d \in [0..(n - 1) -> Nat] /\ \A i \in 0..(n - 1) : d[i] = b[i + 1]
  BY <1>1, <1>2, SMTT(30)
<1> HIDE DEF d
<1>4. d[0] = from + Carried(Head(q), id, s)
  <2>1. b[1] = b[0] + Carried(q[1], id, s)
    BY <1>1, <1>2
  <2> QED
    BY <1>1, <1>2, <1>3, <2>1, SMTT(30)
<1>5. ASSUME NEW i \in 1..(n - 1)
      PROVE  /\ d[i] = d[i - 1] + Carried(p[i], id, s)
             /\ p[i].id = id /\ p[i].type = "DONE" => d[i] = to
  <2>1. /\ i \in Int /\ i + 1 \in 1..n /\ (i + 1) - 1 = i /\ (i - 1) + 1 = i
        /\ i \in 0..(n - 1) /\ i - 1 \in 0..(n - 1)
    BY <1>2
  <2>2. d[i] = b[i + 1] /\ d[i - 1] = b[i] /\ p[i] = q[i + 1]
    BY <1>2, <1>3, <2>1, Zenon
  <2>3. b[i + 1] = b[i] + Carried(q[i + 1], id, s)
    BY <1>1, <2>1, ZenonT(30)
  <2> QED
    BY <1>1, <2>1, <2>2, <2>3, ZenonT(30)
<1>6. whole => d[n - 1] = to
  BY <1>1, <1>2, <1>3
<1> QED
  BY <1>2, <1>3, <1>4, <1>5, <1>6, ZenonT(30) DEF TakesTo, p

\* Only a part of the frames is left, and no more will come.
LEMMA TotalCut ==
    ASSUME NEW q \in Seq(ReplyFrame), NEW whole, NEW id \in Ids, NEW s \in Streams,
           NEW from \in Nat, NEW to \in Nat, NEW k \in 0..Len(q),
           TakesTo(q, whole, id, s, from, to)
    PROVE  TakesTo(SubSeq(q, 1, k), FALSE, id, s, from, to)
<1> DEFINE n == Len(q)
           p == SubSeq(q, 1, k)
<1>1. PICK b \in [0..n -> Nat] :
         /\ b[0] = from
         /\ \A i \in 1..n : b[i] = b[i - 1] + Carried(q[i], id, s)
         /\ \A i \in 1..n : q[i].id = id /\ q[i].type = "DONE" => b[i] = to
  BY ZenonT(30) DEF TakesTo
<1>2. /\ n \in Nat /\ k \in 0..n /\ Len(p) = k /\ \A i \in 1..k : p[i] = q[i]
  OBVIOUS
<1> DEFINE d == [i \in 0..k |-> b[i]]
<1> HIDE DEF n, p
<1>3. d \in [0..k -> Nat] /\ \A i \in 0..k : d[i] = b[i]
  BY <1>1, <1>2
<1> HIDE DEF d
<1>4. ASSUME NEW i \in 1..k
      PROVE  /\ d[i] = d[i - 1] + Carried(p[i], id, s)
             /\ p[i].id = id /\ p[i].type = "DONE" => d[i] = to
  <2>1. i \in 1..n /\ i \in 0..k /\ i - 1 \in 0..k
    BY <1>2, SMTT(30)
  <2> QED
    BY <1>1, <1>2, <1>3, <2>1, ZenonT(30)
<1>5. d[0] = from
  BY <1>1, <1>2, <1>3, SMTT(30)
<1> QED
  BY <1>2, <1>3, <1>4, <1>5, ZenonT(30) DEF TakesTo, p

\* When DONE is next, everything has been counted.
LEMMA TotalAtDone ==
    ASSUME NEW q \in Seq(ReplyFrame), NEW whole, NEW id \in Ids, NEW s \in Streams,
           NEW from \in Nat, NEW to \in Nat, q # <<>>,
           TakesTo(q, whole, id, s, from, to), Head(q).id = id, Head(q).type = "DONE"
    PROVE  from = to
<1>1. /\ Len(q) \in Nat /\ 1 \in 1..Len(q) /\ 0 \in 0..Len(q) /\ Head(q) = q[1]
  OBVIOUS
<1>2. PICK b \in [0..Len(q) -> Nat] :
         /\ b[0] = from
         /\ \A i \in 1..Len(q) : b[i] = b[i - 1] + Carried(q[i], id, s)
         /\ \A i \in 1..Len(q) : q[i].id = id /\ q[i].type = "DONE" => b[i] = to
  BY Zenon DEF TakesTo
<1>3. Carried(q[1], id, s) = 0
  BY <1>1, ZenonT(30) DEF Carried, Streams
<1>4. b[1] = b[0] + 0 /\ b[1] = to
  BY <1>1, <1>2, <1>3
<1> QED
  BY <1>1, <1>2, <1>4

-----------------------------------------------------------------------------
(* The answers *)

\* A step that neither reads nor queues a frame of output, and passes on only
\* what is in a channel.
LEMMA QuietAnswers ==
    ASSUME AnswerInv, UNCHANGED <<fromWorker, workerOpen, workerVars>>,
           \A id \in pending' : /\ id \in pending
                                /\ entry'[id].tx =>
                                      /\ entry[id].tx
                                      /\ entry'[id].out = entry[id].out
                                      /\ entry'[id].err = entry[id].err,
           \A id \in Ids : rx'[id] = rx[id] \/ rx'[id].kind # "exit",
           \A c \in Callers : res'[c].kind = "exit" =>
              \/ res'[c] = res[c] /\ rid'[c] = rid[c]
              \/ rid'[c] \in Ids /\ res'[c] = rx[rid'[c]]
    PROVE  AnswerInv'
<1>1. Tallied /\ DoneReaped /\ Faithful /\ UNCHANGED <<kid, code, wrote>>
  BY Zenon DEF AnswerInv, workerVars
<1>2. ASSUME NEW id \in pending', entry'[id].tx
      PROVE  /\ TakesTo(fromWorker, workerOpen, id, "STDOUT", entry'[id].out, wrote[id].STDOUT)
             /\ TakesTo(fromWorker, workerOpen, id, "STDERR", entry'[id].err, wrote[id].STDERR)
  <2>1. /\ id \in pending /\ entry[id].tx
        /\ entry'[id].out = entry[id].out /\ entry'[id].err = entry[id].err
    BY <1>2, Zenon
  <2> QED
    BY <1>1, <2>1, Zenon DEF Tallied
<1>3. Tallied'
  BY <1>1, <1>2, Zenon DEF Tallied
<1>4. DoneReaped'
  BY <1>1, Zenon DEF DoneReaped, Ids
<1>5. Faithful'
  <2>1. ASSUME NEW id \in Ids, rx'[id].kind = "exit"
        PROVE  Tells(rx'[id], id)
    BY <1>1, <2>1, Zenon DEF Faithful
  <2>2. ASSUME NEW c \in Callers, res'[c].kind = "exit"
        PROVE  rid'[c] \in Ids /\ Tells(res'[c], rid'[c])
    BY <1>1, <2>2, Zenon DEF Faithful
  <2> QED
    BY <1>1, <2>1, <2>2, Zenon DEF Faithful, Tells, Ids
<1> QED
  BY <1>3, <1>4, <1>5, Zenon DEF AnswerInv

\* pending.remove(id) leaves the other entries as they are.
LEMMA EntryRemoved ==
    ASSUME ManagerTypeOK, NEW k \in Ids, Remove(k)
    PROVE  \A id \in pending' : id \in pending /\ entry'[id] = entry[id]
BY Zenon DEF Remove, ManagerTypeOK

\* A call returns what is not "exit", or what its channel holds.
LEMMA ReturnedAnswer ==
    ASSUME ManagerTypeOK, NEW c \in Callers, NEW r, Return(c, r), UNCHANGED rid,
           r.kind # "exit" \/ (rid[c] \in Ids /\ r = rx[rid[c]])
    PROVE  \A d \in Callers : res'[d].kind = "exit" =>
              \/ res'[d] = res[d] /\ rid'[d] = rid[d]
              \/ rid'[d] \in Ids /\ res'[d] = rx[rid'[d]]
BY Zenon DEF Return, ManagerTypeOK

\* The steps of a call other than its registration.
LEMMA CallAnswers ==
    ASSUME IInv, AnswerInv, NEW c \in Callers, UNCHANGED workerVars,
           \/ CheckRunning(c) \/ AcquireWrite(c) \/ WriteRun(c)
           \/ Receive(c) \/ GiveUp(c) \/ WriteKill(c)
    PROVE  AnswerInv'
<1>1. ManagerTypeOK /\ TypeOK
  BY Zenon DEF IInv, TypeOK
<1>2. \A k \in Kinds : Failure(k).kind = k
  BY Values, Zenon
<1>3. CASE CheckRunning(c) \/ AcquireWrite(c) \/ GiveUp(c)
  <2>1. UNCHANGED <<fromWorker, workerOpen, pending, entry, rx, rid>>
    BY <1>3, Zenon DEF CheckRunning, AcquireWrite, GiveUp, socketVars
  <2>2. res' = res \/ Return(c, Failure("notRunning"))
    BY <1>3, ZenonT(30) DEF CheckRunning, AcquireWrite, GiveUp
  <2>3. \A d \in Callers : res'[d].kind = "exit" =>
              \/ res'[d] = res[d] /\ rid'[d] = rid[d]
              \/ rid'[d] \in Ids /\ res'[d] = rx[rid'[d]]
    <3>1. CASE res' = res
      BY <2>1, <3>1, Zenon
    <3>2. CASE Return(c, Failure("notRunning"))
      <4>1. Failure("notRunning").kind # "exit"
        BY <1>2, Zenon DEF Kinds
      <4> QED
        BY <1>1, <2>1, <3>2, <4>1, ReturnedAnswer, Zenon
    <3> QED
      BY <2>2, <3>1, <3>2, ZenonT(30)
  <2> QED
    BY <2>1, <2>3, QuietAnswers, Zenon
<1>4. CASE WriteRun(c)
  <2>1. rid[c] \in Ids
    BY <1>4, Zenon DEF WriteRun, IInv, Registered, InCall
  <2>2. UNCHANGED <<fromWorker, workerOpen, rx, rid>>
    BY <1>4, Zenon DEF WriteRun, SendRequest, SendFails, socketVars
  <2>3. CASE UNCHANGED <<res, pending, entry>>
    BY <2>2, <2>3, QuietAnswers, Zenon
  <2>4. CASE Remove(rid[c]) /\ Return(c, Failure("writeFailed"))
    <3>1. Failure("writeFailed").kind # "exit"
      BY <1>2, Zenon DEF Kinds
    <3>2. \A d \in Callers : res'[d].kind = "exit" =>
              \/ res'[d] = res[d] /\ rid'[d] = rid[d]
              \/ rid'[d] \in Ids /\ res'[d] = rx[rid'[d]]
      BY <1>1, <2>2, <2>4, <3>1, ReturnedAnswer, Zenon
    <3>3. \A id \in pending' : id \in pending /\ entry'[id] = entry[id]
      BY <1>1, <2>1, <2>4, EntryRemoved, ZenonT(30)
    <3> QED
      BY <2>2, <3>2, <3>3, QuietAnswers, ZenonT(30)
  <2> QED
    BY <1>4, <2>3, <2>4, Zenon DEF WriteRun
<1>5. CASE Receive(c)
  <2>1. rid[c] \in Ids
    BY <1>5, Zenon DEF Receive, IInv, Registered, InCall
  <2>2. /\ UNCHANGED <<fromWorker, workerOpen, rx, rid>>
        /\ Remove(rid[c]) /\ Return(c, rx[rid[c]])
    BY <1>5, Zenon DEF Receive, socketVars
  <2>3. \A d \in Callers : res'[d].kind = "exit" =>
              \/ res'[d] = res[d] /\ rid'[d] = rid[d]
              \/ rid'[d] \in Ids /\ res'[d] = rx[rid'[d]]
    BY <1>1, <2>1, <2>2, ReturnedAnswer, Zenon
  <2>4. \A id \in pending' : id \in pending /\ entry'[id] = entry[id]
    BY <1>1, <2>1, <2>2, EntryRemoved, Zenon
  <2> QED
    BY <2>2, <2>3, <2>4, QuietAnswers, ZenonT(30)
<1>6. CASE WriteKill(c)
  <2>1. rid[c] \in Ids
    BY <1>6, Zenon DEF WriteKill, IInv, Registered, InCall
  <2>2. /\ UNCHANGED <<fromWorker, workerOpen, rx, rid>>
        /\ Remove(rid[c]) /\ Return(c, Failure("timeout"))
    BY <1>6, Zenon DEF WriteKill, SendRequest, SendFails, socketVars
  <2>3. Failure("timeout").kind # "exit"
    BY <1>2, Zenon DEF Kinds
  <2>4. \A d \in Callers : res'[d].kind = "exit" =>
              \/ res'[d] = res[d] /\ rid'[d] = rid[d]
              \/ rid'[d] \in Ids /\ res'[d] = rx[rid'[d]]
    BY <1>1, <2>2, <2>3, ReturnedAnswer, Zenon
  <2>5. \A id \in pending' : id \in pending /\ entry'[id] = entry[id]
    BY <1>1, <2>1, <2>2, EntryRemoved, Zenon
  <2> QED
    BY <2>2, <2>4, <2>5, QuietAnswers, Zenon
<1> QED
  BY <1>3, <1>4, <1>5, <1>6, Zenon

\* The steps of read_loop other than the reading of a frame.
LEMMA ReaderAnswers ==
    ASSUME IInv, AnswerInv, UNCHANGED workerVars,
           \/ ReadEof \/ CutOff \/ CutOffAcquire \/ CutOffKill \/ MarkStopped
           \/ (\E id \in Ids : FailOne(id)) \/ ClearPending
    PROVE  AnswerInv'
<1>1. ManagerTypeOK
  BY Zenon DEF IInv, TypeOK
<1>2. \A k \in Kinds : Failure(k).kind = k
  BY Values, Zenon
<1>3. UNCHANGED <<fromWorker, workerOpen, rid, res>>
  BY Zenon DEF ReadEof, CutOff, CutOffAcquire, CutOffKill, MarkStopped, FailOne,
     ClearPending, SendRequest, SendFails, socketVars, callVars
<1>4. CASE ReadEof \/ CutOffAcquire \/ CutOffKill \/ MarkStopped
  <2>1. UNCHANGED <<pending, entry, rx>>
    BY <1>4, Zenon DEF ReadEof, CutOffAcquire, CutOffKill, MarkStopped
  <2> QED
    BY <1>3, <2>1, QuietAnswers, Zenon
<1>5. CASE CutOff
  <2> DEFINE r == [Failure("limit") EXCEPT !.out = cut.out]
  <2>1. r.kind = "limit"
    BY Zenon DEF Failure
  <2>2. cut.id \in Ids
    BY <1>5, Zenon DEF CutOff, IInv, CutNamed
  <2>3. Remove(cut.id) /\ (rx' = [rx EXCEPT ![cut.id] = r] \/ rx' = rx)
    BY <1>5, Zenon DEF CutOff
  <2> HIDE DEF r
  <2>4. \A id \in Ids : rx'[id] = rx[id] \/ rx'[id].kind # "exit"
    BY <1>1, <2>1, <2>3, Zenon DEF ManagerTypeOK
  <2>5. \A id \in pending' : id \in pending /\ entry'[id] = entry[id]
    BY <1>1, <2>2, <2>3, EntryRemoved, Zenon
  <2> QED
    BY <1>3, <2>4, <2>5, QuietAnswers, ZenonT(30)
<1>6. ASSUME NEW k \in Ids, FailOne(k)
      PROVE  AnswerInv'
  <2>1. Failure("lost").kind = "lost"
    BY <1>2, Zenon DEF Kinds
  <2>2. /\ pending' = pending /\ entry' = [entry EXCEPT ![k] = [entry[k] EXCEPT !.tx = FALSE]]
        /\ rx' = [rx EXCEPT ![k] = Failure("lost")]
    BY <1>6, Zenon DEF FailOne
  <2>3. \A id \in Ids : rx'[id] = rx[id] \/ rx'[id].kind # "exit"
    BY <1>1, <2>1, <2>2, Zenon DEF ManagerTypeOK
  <2>4. \A id \in Ids : id # k => entry'[id] = entry[id]
    BY <1>1, <2>2, Zenon DEF ManagerTypeOK
  <2>5. ~entry'[k].tx
    <3>1. entry'[k] = [entry[k] EXCEPT !.tx = FALSE] /\ entry[k] \in Entries
      BY <1>1, <2>2, Zenon DEF ManagerTypeOK
    <3> QED
      BY <3>1, Zenon DEF Entries
  <2>6. \A id \in pending' : /\ id \in pending
                             /\ entry'[id].tx => entry'[id] = entry[id]
    BY <1>1, <2>2, <2>4, <2>5, Zenon DEF ManagerTypeOK
  <2> QED
    BY <1>3, <2>3, <2>6, QuietAnswers, Zenon
<1>7. CASE ClearPending
  <2>1. Closed.kind # "exit"
    BY <1>2, Zenon DEF Kinds, Closed
  <2>2. /\ pending' = {}
        /\ rx' = [id \in Ids |-> IF id \in pending /\ entry[id].tx THEN Closed ELSE rx[id]]
    BY <1>7, Zenon DEF ClearPending
  <2>3. \A id \in Ids : rx'[id] = rx[id] \/ rx'[id].kind # "exit"
    BY <2>1, <2>2, Zenon
  <2> QED
    BY <1>3, <2>2, <2>3, QuietAnswers, ZenonT(30)
<1> QED
  BY <1>4, <1>5, <1>6, <1>7, Zenon

\* A fresh request: nothing of it is under way, and nothing was written.
LEMMA RegisterAnswers ==
    ASSUME IInv, WireInv, AnswerInv, NEW c \in Callers, Register(c), UNCHANGED workerVars
    PROVE  AnswerInv'
<1> DEFINE k == next_id
           fresh == [out |-> 0, err |-> 0, tx |-> TRUE]
<1>1. /\ ManagerTypeOK /\ Tallied /\ DoneReaped /\ Faithful
      /\ fromWorker \in Seq(ReplyFrame)
      /\ UNCHANGED <<fromWorker, workerOpen, kid, code, wrote, res>>
  BY ZenonT(30) DEF IInv, TypeOK, SocketTypeOK, AnswerInv, workerVars, Register, socketVars
<1>2. /\ k \in Ids /\ pc[c] = "register"
      /\ rid' = [rid EXCEPT ![c] = k] /\ pending' = pending \cup {k}
      /\ entry' = [entry EXCEPT ![k] = fresh] /\ rx' = [rx EXCEPT ![k] = Empty]
  BY <1>1 DEF Register, ManagerTypeOK, Ids
<1>3. fresh.out = 0 /\ fresh.err = 0
  OBVIOUS
<1>4. kid[k] = "none"
  BY <1>1, <1>2, SMTT(30) DEF WireInv, InOrder, Unsent, ManagerTypeOK
<1> HIDE DEF k, fresh
<1>5. \A i \in 1..Len(fromWorker) : fromWorker[i].id # k
  BY <1>1, <1>4 DEF WireInv, Heard
<1>6. wrote[k].STDOUT = 0 /\ wrote[k].STDERR = 0
  BY <1>1, <1>2, <1>4, Zenon DEF DoneReaped
<1>7. \A s \in Streams : TakesTo(fromWorker, workerOpen, k, s, 0, 0)
  BY <1>1, <1>2, <1>5, TotalStarts, Zenon
<1>8. ASSUME NEW id \in pending', entry'[id].tx
      PROVE  /\ TakesTo(fromWorker, workerOpen, id, "STDOUT", entry'[id].out, wrote[id].STDOUT)
             /\ TakesTo(fromWorker, workerOpen, id, "STDERR", entry'[id].err, wrote[id].STDERR)
  <2>1. CASE id = k
    <3>1. entry'[id] = fresh
      BY <1>1, <1>2, <2>1, Zenon DEF ManagerTypeOK
    <3>2. entry'[id].out = 0 /\ entry'[id].err = 0
      BY <1>3, <3>1, Zenon
    <3> QED
      BY <1>6, <1>7, <2>1, <3>2, ZenonT(30) DEF Streams
  <2>2. CASE id # k
    <3>1. id \in pending /\ entry'[id] = entry[id]
      BY <1>1, <1>2, <1>8, <2>2, ZenonT(30) DEF ManagerTypeOK
    <3> QED
      BY <1>1, <1>8, <3>1, Zenon DEF Tallied
  <2> QED
    BY <2>1, <2>2, Zenon
<1>9. Tallied'
  BY <1>1, <1>8, Zenon DEF Tallied
<1>10. DoneReaped'
  BY <1>1, Zenon DEF DoneReaped, Ids
<1>11. Faithful'
  <2>1. Empty.kind = "empty"
    BY Zenon DEF Empty, Failure
  <2>2. \A id \in Ids : rx'[id] = rx[id] \/ rx'[id].kind = "empty"
    BY <1>1, <1>2, <2>1, Zenon DEF ManagerTypeOK
  <2>3. res[c].kind = "empty"
    BY <1>2, Zenon DEF WireInv, OwnIds
  <2>4. \A d \in Callers : d # c => rid'[d] = rid[d]
    BY <1>1, <1>2, Zenon DEF ManagerTypeOK
  <2>5. ASSUME NEW id \in Ids, rx'[id].kind = "exit"
        PROVE  Tells(rx'[id], id)
    BY <1>1, <2>2, <2>5, Zenon DEF Faithful
  <2>6. ASSUME NEW d \in Callers, res[d].kind = "exit"
        PROVE  rid'[d] \in Ids /\ Tells(res[d], rid'[d])
    BY <1>1, <2>3, <2>4, <2>6, Zenon DEF Faithful
  <2> QED
    BY <1>1, <2>5, <2>6, Zenon DEF Faithful, Tells, Ids
<1> QED
  BY <1>9, <1>10, <1>11, Zenon DEF AnswerInv

\* An entry that still has its sender has counted the bytes of the frame.
LEMMA DeliverCounts ==
    ASSUME ManagerTypeOK, NEW f \in ReplyFrame, Deliver(f),
           NEW id \in pending, entry'[id].tx
    PROVE  /\ entry[id].tx
           /\ entry'[id].out = entry[id].out + Carried(f, id, "STDOUT")
           /\ entry'[id].err = entry[id].err + Carried(f, id, "STDERR")
<1> DEFINE e == entry[f.id]
           out == e.out + IF f.type = "STDOUT" THEN f.val ELSE 0
           err == e.err + IF f.type = "STDERR" THEN f.val ELSE 0
           sent == [e EXCEPT !.tx = FALSE]
           broke == [out |-> 0, err |-> err, tx |-> FALSE]
           more == [out |-> out, err |-> err, tx |-> e.tx]
<1>1. f.id \in Ids /\ id \in Ids /\ e \in Entries /\ entry[id] \in Entries
  BY Zenon DEF ReplyFrame, OutputFrame, DoneFrame, ManagerTypeOK
<1>2. \/ entry' = entry /\ f.id \notin pending
      \/ entry' = [entry EXCEPT ![f.id] = sent]
      \/ entry' = [entry EXCEPT ![f.id] = broke]
      \/ entry' = [entry EXCEPT ![f.id] = more]
  BY Zenon DEF Deliver, OverLimit
<1>3. ~sent.tx /\ ~broke.tx
  BY <1>1, ZenonT(30) DEF Entries
<1>4. more.out = out /\ more.err = err /\ more.tx = e.tx
  OBVIOUS
<1>5. CASE id # f.id
  <2>1. entry'[id] = entry[id]
    BY <1>1, <1>2, <1>5, Zenon DEF ManagerTypeOK
  <2>2. Carried(f, id, "STDOUT") = 0 /\ Carried(f, id, "STDERR") = 0
    BY <1>5, Zenon DEF Carried
  <2> QED
    BY <1>1, <2>1, <2>2, PlusZero, Values, ZenonT(30)
<1>6. CASE id = f.id
  <2> HIDE DEF sent, broke, more
  <2>1. entry'[id] \in {sent, broke, more}
    BY <1>1, <1>2, <1>6, Zenon DEF ManagerTypeOK
  <2>2. entry'[id] = more
    BY <1>3, <2>1, Zenon
  <2>3. /\ out = entry[id].out + Carried(f, id, "STDOUT")
        /\ err = entry[id].err + Carried(f, id, "STDERR")
    BY <1>6, Zenon DEF Carried
  <2> QED
    BY <1>4, <1>6, <2>2, <2>3, Zenon
<1> QED
  BY <1>5, <1>6, Zenon

\* DONE answers the call with what was counted.
LEMMA DeliverAnswers ==
    ASSUME ManagerTypeOK, NEW f \in ReplyFrame, Deliver(f), NEW id \in Ids,
           rx'[id] # rx[id]
    PROVE  /\ f.id = id /\ f.type = "DONE" /\ id \in pending /\ entry[id].tx
           /\ rx'[id].kind = "exit" /\ rx'[id].code = f.val
           /\ rx'[id].out = entry[id].out /\ rx'[id].err = entry[id].err
<1> DEFINE x == [kind |-> "exit", out |-> entry[f.id].out, err |-> entry[f.id].err,
                 code |-> f.val]
<1>1. /\ x.kind = "exit" /\ x.code = f.val
      /\ x.out = entry[f.id].out /\ x.err = entry[f.id].err
  BY Zenon
<1>2. /\ f.id \in pending /\ f.type = "DONE" /\ entry[f.id].tx
      /\ rx' = [rx EXCEPT ![f.id] = x]
  BY Zenon DEF Deliver
<1> HIDE DEF x
<1>3. id = f.id /\ rx'[id] = x
  BY <1>2, Zenon DEF ManagerTypeOK
<1> QED
  BY <1>1, <1>2, <1>3, ZenonT(30)

\* One frame handled by read_loop.
LEMMA ReadFrameAnswers ==
    ASSUME IInv, AnswerInv, ReadFrame, UNCHANGED workerVars
    PROVE  AnswerInv'
<1> DEFINE f == Head(fromWorker)
           q == fromWorker
<1>1. /\ ManagerTypeOK /\ ContractTypeOK /\ Tallied /\ DoneReaped /\ Faithful
      /\ q \in Seq(ReplyFrame) /\ q # <<>>
      /\ UNCHANGED <<workerOpen, pending, kid, code, wrote, rid, res>>
      /\ \/ UNCHANGED <<entry, rx, fromWorker>>
         \/ fromWorker' = Tail(fromWorker) /\ Deliver(f)
  BY Zenon DEF IInv, TypeOK, SocketTypeOK, AnswerInv, ReadFrame, callVars, workerVars
<1>2. CASE UNCHANGED <<entry, rx, fromWorker>>
  BY <1>1, <1>2, QuietAnswers, Zenon
<1>3. CASE fromWorker' = Tail(q) /\ Deliver(f)
  <2>1. f \in ReplyFrame /\ 1 \in DOMAIN q /\ f = q[1]
    BY <1>1, SMTT(30)
  <2>2. /\ \A i \in DOMAIN Tail(q) : i + 1 \in DOMAIN q /\ Tail(q)[i] = q[i + 1]
    BY <1>1
  <2>3. \A id \in Ids : wrote[id].STDOUT \in Nat /\ wrote[id].STDERR \in Nat
    BY <1>1, Zenon DEF ContractTypeOK, Outputs
  <2>4. \A id \in Ids : entry[id].out \in Nat /\ entry[id].err \in Nat
    BY <1>1, Zenon DEF ManagerTypeOK, Entries
  <2> HIDE DEF f, q
  <2>5. ASSUME NEW id \in pending, entry[id].tx
        PROVE  /\ TakesTo(q, workerOpen, id, "STDOUT", entry[id].out, wrote[id].STDOUT)
               /\ TakesTo(q, workerOpen, id, "STDERR", entry[id].err, wrote[id].STDERR)
    BY <1>1, <2>5, Zenon DEF Tallied, q
  <2>6. ASSUME NEW id \in pending, entry'[id].tx
        PROVE  /\ TakesTo(Tail(q), workerOpen, id, "STDOUT", entry'[id].out, wrote[id].STDOUT)
               /\ TakesTo(Tail(q), workerOpen, id, "STDERR", entry'[id].err, wrote[id].STDERR)
    <3>1. /\ entry[id].tx /\ id \in Ids
          /\ entry'[id].out = entry[id].out + Carried(f, id, "STDOUT")
          /\ entry'[id].err = entry[id].err + Carried(f, id, "STDERR")
      BY <1>1, <1>3, <2>1, <2>6, DeliverCounts, ZenonT(30) DEF ManagerTypeOK
    <3>2. f = Head(q)
      BY Zenon DEF f, q
    <3>3. TakesTo(Tail(q), workerOpen, id, "STDOUT", entry'[id].out, wrote[id].STDOUT)
      BY <1>1, <2>3, <2>4, <2>5, <3>1, <3>2, TotalMoves, ZenonT(30) DEF Streams
    <3>4. TakesTo(Tail(q), workerOpen, id, "STDERR", entry'[id].err, wrote[id].STDERR)
      BY <1>1, <2>3, <2>4, <2>5, <3>1, <3>2, TotalMoves, ZenonT(30) DEF Streams
    <3> QED
      BY <3>3, <3>4, Zenon
  <2>7. Tallied'
    BY <1>1, <1>3, <2>6, Zenon DEF Tallied
  <2>8. DoneReaped'
    <3>1. \A i \in DOMAIN q : q[i].type = "DONE" => kid[q[i].id] = "done" /\ q[i].val = code[q[i].id]
      BY <1>1, ZenonT(30) DEF DoneReaped, q
    <3>2. \A i \in DOMAIN Tail(q) : Tail(q)[i].type = "DONE" =>
             kid[Tail(q)[i].id] = "done" /\ Tail(q)[i].val = code[Tail(q)[i].id]
      BY <2>2, <3>1
    <3> QED
      BY <1>1, <1>3, <3>2, Zenon DEF DoneReaped, Ids
  <2>9. ASSUME NEW id \in Ids, rx'[id].kind = "exit"
        PROVE  Tells(rx'[id], id)
    <3>1. CASE rx'[id] = rx[id]
      BY <1>1, <2>9, <3>1, Zenon DEF Faithful
    <3>2. CASE rx'[id] # rx[id]
      <4>1. /\ f.id = id /\ f.type = "DONE" /\ id \in pending /\ entry[id].tx
            /\ rx'[id].code = f.val
            /\ rx'[id].out = entry[id].out /\ rx'[id].err = entry[id].err
        BY <1>1, <1>3, <2>1, <3>2, DeliverAnswers, ZenonT(30)
      <4>2. kid[id] = "done" /\ f.val = code[id]
        BY <1>1, <2>1, <4>1, Zenon DEF DoneReaped, q
      <4>3. f = Head(q)
        BY Zenon DEF f, q
      <4>4. entry[id].out = wrote[id].STDOUT
        BY <1>1, <2>3, <2>4, <2>5, <4>1, <4>3, TotalAtDone, ZenonT(30) DEF Streams
      <4>5. entry[id].err = wrote[id].STDERR
        BY <1>1, <2>3, <2>4, <2>5, <4>1, <4>3, TotalAtDone, ZenonT(30) DEF Streams
      <4> QED
        BY <4>1, <4>2, <4>4, <4>5, ZenonT(30) DEF Tells
    <3> QED
      BY <3>1, <3>2, Zenon
  <2>10. Faithful'
    BY <1>1, <2>9, ZenonT(30) DEF Faithful, Tells, Ids
  <2> QED
    BY <2>7, <2>8, <2>10, ZenonT(30) DEF AnswerInv
<1> QED
  BY <1>1, <1>2, <1>3, Zenon

\* The worker changes a child whose DONE is not sent yet, and queues nothing.
LEMMA KidAnswers ==
    ASSUME AnswerInv, UNCHANGED <<managerVars, fromWorker, workerOpen, wrote>>,
           \A j \in Ids : /\ kid[j] = "done" => kid'[j] = "done" /\ code'[j] = code[j]
                          /\ kid'[j] = "none" => kid[j] = "none",
           fromWorker \in Seq(ReplyFrame)
    PROVE  AnswerInv'
<1>1. /\ Tallied /\ DoneReaped /\ Faithful
      /\ UNCHANGED <<pending, entry, rx, rid, res, fromWorker, workerOpen, wrote>>
  BY ZenonT(30) DEF AnswerInv, managerVars, callVars
<1>2. Tallied'
  BY <1>1, ZenonT(30) DEF Tallied
<1>3. DoneReaped'
  <2>1. \A i \in DOMAIN fromWorker : fromWorker[i].id \in Ids
    BY DEF ReplyFrame, OutputFrame, DoneFrame
  <2>2. \A i \in DOMAIN fromWorker : fromWorker[i].type = "DONE" =>
           kid'[fromWorker[i].id] = "done" /\ fromWorker[i].val = code'[fromWorker[i].id]
    BY <1>1, <2>1, ZenonT(30) DEF DoneReaped
  <2>3. \A j \in Ids : kid'[j] = "none" => wrote[j].STDOUT = 0 /\ wrote[j].STDERR = 0
    BY <1>1, Zenon DEF DoneReaped
  <2> QED
    BY <1>1, <2>2, <2>3, ZenonT(30) DEF DoneReaped, Ids
<1>4. \A r, j : j \in Ids /\ Tells(r, j) => kid'[j] = "done" /\ r.code = code'[j]
                              /\ r.out = wrote[j].STDOUT /\ r.err = wrote[j].STDERR
  BY Zenon DEF Tells
<1>5. Faithful'
  <2>1. ASSUME NEW j \in Ids, rx[j].kind = "exit"
        PROVE  Tells(rx[j], j)'
    <3>1. j \in Ids /\ Tells(rx[j], j)
      BY <1>1, <2>1, Zenon DEF Faithful
    <3>2. /\ kid'[j] = "done" /\ rx[j].code = code'[j]
          /\ rx[j].out = wrote[j].STDOUT /\ rx[j].err = wrote[j].STDERR
      BY ONLY <1>4, <3>1, ZenonT(30)
    <3>3. rx' = rx /\ wrote' = wrote
      BY <1>1, Zenon
    <3> QED
      BY <3>1, <3>2, <3>3, Zenon DEF Tells
  <2>2. ASSUME NEW c \in Callers, res[c].kind = "exit"
        PROVE  rid[c] \in Ids /\ Tells(res[c], rid[c])'
    <3>1. rid[c] \in Ids /\ Tells(res[c], rid[c])
      BY <1>1, <2>2, Zenon DEF Faithful
    <3>2. /\ kid'[rid[c]] = "done" /\ res[c].code = code'[rid[c]]
          /\ res[c].out = wrote[rid[c]].STDOUT /\ res[c].err = wrote[rid[c]].STDERR
      BY ONLY <1>4, <3>1, ZenonT(30)
    <3>3. res' = res /\ rid' = rid /\ wrote' = wrote
      BY <1>1, Zenon
    <3> QED
      BY <3>1, <3>2, <3>3, Zenon DEF Tells
  <2> QED
    BY <1>1, <2>1, <2>2, Zenon DEF Faithful, Ids
<1> QED
  BY <1>2, <1>3, <1>5, Zenon DEF AnswerInv

\* The worker queues a frame of a child whose DONE is not sent yet.
LEMMA FrameAnswers ==
    ASSUME TypeOK, AnswerInv, UNCHANGED <<managerVars, workerOpen>>, workerOpen,
           NEW id \in Ids, NEW f \in ReplyFrame, f.id = id,
           fromWorker' = Append(fromWorker, f),
           kid[id] # "done", kid'[id] # "none",
           \A j \in Ids : j # id => kid'[j] = kid[j] /\ code'[j] = code[j],
           \A j \in Ids : /\ wrote'[j].STDOUT = wrote[j].STDOUT + Carried(f, j, "STDOUT")
                          /\ wrote'[j].STDERR = wrote[j].STDERR + Carried(f, j, "STDERR"),
           f.type = "DONE" => kid'[id] = "done" /\ f.val = code'[id]
    PROVE  AnswerInv'
<1> DEFINE q == fromWorker
<1>1. /\ Tallied /\ DoneReaped /\ Faithful
      /\ ManagerTypeOK /\ ContractTypeOK /\ q \in Seq(ReplyFrame)
      /\ UNCHANGED <<pending, entry, rx, rid, res>> /\ workerOpen = TRUE /\ workerOpen' = TRUE
  BY Zenon DEF AnswerInv, managerVars, callVars, TypeOK, SocketTypeOK
<1>2. \A j \in Ids : wrote[j].STDOUT \in Nat /\ wrote[j].STDERR \in Nat
  BY <1>1, Zenon DEF ContractTypeOK, Outputs
<1>3. \A j \in Ids : entry[j].out \in Nat /\ entry[j].err \in Nat
  BY <1>1, ZenonT(30) DEF ManagerTypeOK, Entries
<1>4. \A j \in Ids : j # id =>
         /\ wrote'[j].STDOUT = wrote[j].STDOUT /\ wrote'[j].STDERR = wrote[j].STDERR
  <2>1. \A j \in Ids : j # id => Carried(f, j, "STDOUT") = 0 /\ Carried(f, j, "STDERR") = 0
    BY Zenon DEF Carried
  <2>2. ASSUME NEW j \in Ids, j # id
        PROVE  /\ wrote'[j].STDOUT = wrote[j].STDOUT + 0
               /\ wrote'[j].STDERR = wrote[j].STDERR + 0
    BY <2>1, <2>2, ZenonT(30)
  <2> QED
    BY ONLY <1>2, <2>2, PlusZero, ZenonT(30)
<1>5. \A i \in DOMAIN q : q[i].type = "DONE" =>
         kid[q[i].id] = "done" /\ q[i].val = code[q[i].id]
  BY <1>1, ZenonT(30) DEF DoneReaped
<1>6. \A i \in DOMAIN q : q[i].id \in Ids
  BY <1>1 DEF ReplyFrame, OutputFrame, DoneFrame
<1> HIDE DEF q
<1>7. ASSUME NEW j \in pending, entry[j].tx
      PROVE  /\ TakesTo(Append(q, f), TRUE, j, "STDOUT", entry[j].out, wrote'[j].STDOUT)
             /\ TakesTo(Append(q, f), TRUE, j, "STDERR", entry[j].err, wrote'[j].STDERR)
  <2>1. /\ j \in Ids
        /\ TakesTo(q, TRUE, j, "STDOUT", entry[j].out, wrote[j].STDOUT)
        /\ TakesTo(q, TRUE, j, "STDERR", entry[j].err, wrote[j].STDERR)
    BY <1>1, <1>7, ZenonT(30) DEF Tallied, q, ManagerTypeOK
  <2>2. f.id = j => \A i \in 1..Len(q) : ~(q[i].id = j /\ q[i].type = "DONE")
    BY <1>1, <1>5
  <2>3. TakesTo(Append(q, f), TRUE, j, "STDOUT", entry[j].out, wrote'[j].STDOUT)
    <3>1. TakesTo(Append(q, f), TRUE, j, "STDOUT", entry[j].out,
                  wrote[j].STDOUT + Carried(f, j, "STDOUT"))
      BY <1>1, <1>2, <1>3, <2>1, <2>2, TotalGrows, ZenonT(30) DEF Streams
    <3> QED
      BY <2>1, <3>1, ZenonT(30)
  <2>4. TakesTo(Append(q, f), TRUE, j, "STDERR", entry[j].err, wrote'[j].STDERR)
    <3>1. TakesTo(Append(q, f), TRUE, j, "STDERR", entry[j].err,
                  wrote[j].STDERR + Carried(f, j, "STDERR"))
      BY <1>1, <1>2, <1>3, <2>1, <2>2, TotalGrows, ZenonT(30) DEF Streams
    <3> QED
      BY <2>1, <3>1, ZenonT(30)
  <2> QED
    BY <2>3, <2>4, ZenonT(30)
<1>8. Tallied'
  BY <1>1, <1>7, ZenonT(30) DEF Tallied, q
<1>9. DoneReaped'
  <2>1. ASSUME NEW i \in DOMAIN Append(q, f), Append(q, f)[i].type = "DONE"
        PROVE  kid'[Append(q, f)[i].id] = "done" /\ Append(q, f)[i].val = code'[Append(q, f)[i].id]
    <3>1. CASE Append(q, f)[i] = f
      BY <2>1, <3>1, ZenonT(30)
    <3>2. CASE i \in DOMAIN q /\ Append(q, f)[i] = q[i]
      <4>1. kid[q[i].id] = "done" /\ q[i].val = code[q[i].id] /\ q[i].id \in Ids
        BY <1>5, <1>6, <2>1, <3>2, ZenonT(30)
      <4> QED
        BY <3>2, <4>1, Zenon
    <3> QED
      BY <1>1, <2>1, <3>1, <3>2
  <2>2. ASSUME NEW j \in Ids, kid'[j] = "none"
        PROVE  wrote'[j].STDOUT = 0 /\ wrote'[j].STDERR = 0
    BY <1>1, <1>4, <2>2, ZenonT(30) DEF DoneReaped
  <2> QED
    BY <2>1, <2>2, ZenonT(30) DEF DoneReaped, q, Ids
<1>10. \A r, j : j \in Ids /\ Tells(r, j) => kid'[j] = "done" /\ r.code = code'[j]
                              /\ r.out = wrote'[j].STDOUT /\ r.err = wrote'[j].STDERR
  BY <1>4, ZenonT(30) DEF Tells
<1>11. Faithful'
  <2>1. ASSUME NEW j \in Ids, rx[j].kind = "exit"
        PROVE  Tells(rx[j], j)'
    <3>1. j \in Ids /\ Tells(rx[j], j)
      BY <1>1, <2>1, ZenonT(30) DEF Faithful
    <3>2. /\ kid'[j] = "done" /\ rx[j].code = code'[j]
          /\ rx[j].out = wrote'[j].STDOUT /\ rx[j].err = wrote'[j].STDERR
      BY ONLY <1>10, <3>1, ZenonT(30)
    <3>3. rx' = rx
      BY <1>1, Zenon
    <3> QED
      BY <3>1, <3>2, <3>3, Zenon DEF Tells
  <2>2. ASSUME NEW c \in Callers, res[c].kind = "exit"
        PROVE  rid[c] \in Ids /\ Tells(res[c], rid[c])'
    <3>1. rid[c] \in Ids /\ Tells(res[c], rid[c])
      BY <1>1, <2>2, ZenonT(30) DEF Faithful
    <3>2. /\ kid'[rid[c]] = "done" /\ res[c].code = code'[rid[c]]
          /\ res[c].out = wrote'[rid[c]].STDOUT /\ res[c].err = wrote'[rid[c]].STDERR
      BY ONLY <1>10, <3>1, ZenonT(30)
    <3>3. res' = res /\ rid' = rid
      BY <1>1, Zenon
    <3> QED
      BY <3>1, <3>2, <3>3, Zenon DEF Tells
  <2> QED
    BY <1>1, <2>1, <2>2, Zenon DEF Faithful, Ids
<1> QED
  BY <1>8, <1>9, <1>11, Zenon DEF AnswerInv

\* The count of a child's output grows by what the frame carries.
LEMMA WrittenCarries ==
    ASSUME ContractTypeOK, NEW id \in Ids, NEW s \in Streams, NEW n \in Nat,
           wrote' = [wrote EXCEPT ![id] = Written(wrote[id], s, n)]
    PROVE  \A j \in Ids :
              /\ wrote'[j].STDOUT = wrote[j].STDOUT + Carried(Reply(s, id, n), j, "STDOUT")
              /\ wrote'[j].STDERR = wrote[j].STDERR + Carried(Reply(s, id, n), j, "STDERR")
<1> DEFINE f == Reply(s, id, n)
<1>1. f.id = id /\ f.type = s /\ f.val = n
  BY Zenon DEF Reply
<1>2. \A j \in Ids : wrote[j].STDOUT \in Nat /\ wrote[j].STDERR \in Nat
  BY Zenon DEF ContractTypeOK, Outputs
<1> HIDE DEF f
<1>3. ASSUME NEW j \in Ids, j # id
      PROVE  /\ wrote'[j].STDOUT = wrote[j].STDOUT + Carried(f, j, "STDOUT")
             /\ wrote'[j].STDERR = wrote[j].STDERR + Carried(f, j, "STDERR")
  <2>1. wrote'[j] = wrote[j]
    BY <1>3, Zenon DEF ContractTypeOK
  <2>2. Carried(f, j, "STDOUT") = 0 /\ Carried(f, j, "STDERR") = 0
    BY <1>1, <1>3, Zenon DEF Carried
  <2> QED
    BY <1>2, <2>1, <2>2
<1>4. /\ wrote'[id].STDOUT = wrote[id].STDOUT + Carried(f, id, "STDOUT")
      /\ wrote'[id].STDERR = wrote[id].STDERR + Carried(f, id, "STDERR")
  <2>1. wrote'[id] = Written(wrote[id], s, n)
    BY ZenonT(30) DEF ContractTypeOK
  <2>2. /\ wrote'[id].STDOUT = wrote[id].STDOUT + (IF s = "STDOUT" THEN n ELSE 0)
        /\ wrote'[id].STDERR = wrote[id].STDERR + (IF s = "STDERR" THEN n ELSE 0)
    BY <2>1 DEF Written
  <2> QED
    BY <1>1, <2>2, Zenon DEF Carried
<1> QED
  BY <1>3, <1>4, Zenon DEF f

\* The steps of the worker.
LEMMA WorkerAnswers ==
    ASSUME IInv, WireInv, AnswerInv, WorkerStep, UNCHANGED managerVars
    PROVE  AnswerInv'
<1>1. /\ TypeOK /\ ContractTypeOK /\ fromWorker \in Seq(ReplyFrame)
      /\ toWorker \in Seq(RequestFrame) /\ InOrder
  BY Zenon DEF IInv, TypeOK, SocketTypeOK, WireInv
<1>2. ASSUME NEW id \in Ids, TakeRun(id) PROVE AnswerInv'
  <2>1. kid[id] = "none"
    <3>1. toWorker # <<>> /\ Head(toWorker) = Request("RUN", id)
      BY <1>2, Zenon DEF TakeRun, Takes
    <3>2. 1 \in DOMAIN toWorker /\ toWorker[1] = Request("RUN", id)
      BY <1>1, <3>1
    <3> QED
      BY <1>1, <3>2, Zenon DEF InOrder, Queued
  <2>2. \E k \in {"live", "failed"} : kid' = [kid EXCEPT ![id] = k]
    BY <1>2, ZenonT(30) DEF TakeRun
  <2>3. UNCHANGED <<fromWorker, workerOpen, wrote, code>>
    BY <1>2, Zenon DEF TakeRun
  <2>4. \A j \in Ids : /\ kid[j] = "done" => kid'[j] = "done" /\ code'[j] = code[j]
                       /\ kid'[j] = "none" => kid[j] = "none"
    BY <1>1, <2>1, <2>2, <2>3, Zenon DEF ContractTypeOK
  <2> QED
    BY <1>1, <2>3, <2>4, KidAnswers, ZenonT(30)
<1>3. ASSUME NEW id \in Ids, TakeKill(id) \/ Exit(id) PROVE AnswerInv'
  <2>1. UNCHANGED <<fromWorker, workerOpen, wrote>>
    BY <1>3, Zenon DEF TakeKill, Exit, socketVars
  <2>2. \/ UNCHANGED <<kid, code>>
        \/ /\ kid[id] = "live" /\ kid' = [kid EXCEPT ![id] = "dead"]
           /\ \E x : code' = [code EXCEPT ![id] = x]
    BY <1>3, Zenon DEF TakeKill, Exit
  <2>3. \A j \in Ids : /\ kid[j] = "done" => kid'[j] = "done" /\ code'[j] = code[j]
                       /\ kid'[j] = "none" => kid[j] = "none"
    BY <1>1, <2>2, Zenon DEF ContractTypeOK
  <2> QED
    BY <1>1, <2>1, <2>3, KidAnswers, Zenon
<1>4. ASSUME NEW id \in Ids, NoteAndKill(id) PROVE AnswerInv'
  <2> DEFINE f == Reply("STDERR", id, 1)
  <2>1. f \in ReplyFrame /\ f.id = id /\ f.type # "DONE"
    BY ProtocolAssumption DEF Reply, ReplyFrame, OutputFrame, Streams
  <2>2. /\ workerOpen /\ UNCHANGED workerOpen /\ fromWorker' = Append(fromWorker, f)
        /\ kid[id] # "done" /\ kid' = [kid EXCEPT ![id] = "noted"]
        /\ code' = [code EXCEPT ![id] = SIGKILLED] \/ code' = code
        /\ wrote' = [wrote EXCEPT ![id] = Written(wrote[id], "STDERR", 1)]
    BY <1>4, Zenon DEF NoteAndKill
  <2>3. /\ \A j \in Ids : j # id => kid'[j] = kid[j] /\ code'[j] = code[j]
        /\ kid'[id] # "none"
    BY <1>1, <2>2, Zenon DEF ContractTypeOK
  <2>4. \A j \in Ids : /\ wrote'[j].STDOUT = wrote[j].STDOUT + Carried(f, j, "STDOUT")
                       /\ wrote'[j].STDERR = wrote[j].STDERR + Carried(f, j, "STDERR")
    BY <1>1, <2>2, WrittenCarries, ZenonT(30) DEF Streams
  <2> HIDE DEF f
  <2> QED
    BY <1>1, <2>1, <2>2, <2>3, <2>4, FrameAnswers, ZenonT(30)
<1>5. ASSUME NEW id \in Ids, Finish(id) PROVE AnswerInv'
  <2> DEFINE f == Reply("DONE", id, code[id])
  <2>1. f \in ReplyFrame /\ f.id = id /\ f.type = "DONE" /\ f.val = code[id]
    BY <1>1, Zenon DEF Reply, ReplyFrame, DoneFrame, ContractTypeOK
  <2>2. /\ workerOpen /\ UNCHANGED <<workerOpen, code, wrote>>
        /\ fromWorker' = Append(fromWorker, f)
        /\ kid[id] # "done" /\ kid' = [kid EXCEPT ![id] = "done"]
    BY <1>5, Zenon DEF Finish
  <2>3. /\ \A j \in Ids : j # id => kid'[j] = kid[j] /\ code'[j] = code[j]
        /\ kid'[id] = "done"
    BY <1>1, <2>2, ZenonT(30) DEF ContractTypeOK
  <2>4. \A j \in Ids : /\ wrote'[j].STDOUT = wrote[j].STDOUT + Carried(f, j, "STDOUT")
                       /\ wrote'[j].STDERR = wrote[j].STDERR + Carried(f, j, "STDERR")
    <3>1. \A j \in Ids : wrote[j].STDOUT \in Nat /\ wrote[j].STDERR \in Nat
      BY <1>1, Zenon DEF ContractTypeOK, Outputs
    <3>2. \A j : Carried(f, j, "STDOUT") = 0 /\ Carried(f, j, "STDERR") = 0
      BY <2>1, Zenon DEF Carried
    <3> QED
      BY <2>2, <3>1, <3>2, PlusZero, ZenonT(30)
  <2> HIDE DEF f
  <2> QED
    BY <1>1, <2>1, <2>2, <2>3, <2>4, FrameAnswers, ZenonT(30)
<1>6. ASSUME NEW id \in Ids, NEW s \in Streams, NEW n \in 1..MaxFrame, Forward(id, s, n)
      PROVE  AnswerInv'
  <2> DEFINE f == Reply(s, id, n)
  <2>1. f \in ReplyFrame /\ f.id = id /\ f.type # "DONE"
    BY Zenon DEF Reply, ReplyFrame, OutputFrame, Streams
  <2>2. /\ workerOpen /\ UNCHANGED <<workerOpen, kid, code>>
        /\ fromWorker' = Append(fromWorker, f)
        /\ kid[id] # "done" /\ kid[id] # "none"
        /\ wrote' = [wrote EXCEPT ![id] = Written(wrote[id], s, n)]
    BY <1>6, Zenon DEF Forward
  <2>3. n \in Nat
    BY ProtocolAssumption
  <2>4. \A j \in Ids : /\ wrote'[j].STDOUT = wrote[j].STDOUT + Carried(f, j, "STDOUT")
                       /\ wrote'[j].STDERR = wrote[j].STDERR + Carried(f, j, "STDERR")
    BY <1>1, <2>2, <2>3, WrittenCarries, ZenonT(30)
  <2> HIDE DEF f
  <2> QED
    BY <1>1, <2>1, <2>2, <2>4, FrameAnswers, ZenonT(30)
<1>7. CASE Crash
  <2>1. /\ Tallied /\ DoneReaped /\ Faithful /\ ManagerTypeOK
        /\ UNCHANGED <<pending, entry, rx, rid, res, kid, code, wrote>> /\ workerOpen' = FALSE
    BY <1>1, <1>7, Zenon DEF AnswerInv, Crash, managerVars, callVars, workerVars, TypeOK
  <2>2. PICK k \in 0..Len(fromWorker) : fromWorker' = SubSeq(fromWorker, 1, k)
    BY <1>7, ZenonT(30) DEF Crash
  <2>3. \A i \in DOMAIN fromWorker' : i \in DOMAIN fromWorker /\ fromWorker'[i] = fromWorker[i]
    BY <1>1, <2>2
  <2>4. \A j \in Ids : wrote[j].STDOUT \in Nat /\ wrote[j].STDERR \in Nat
    BY <1>1, Zenon DEF ContractTypeOK, Outputs
  <2>5. \A j \in Ids : entry[j].out \in Nat /\ entry[j].err \in Nat
    BY <2>1, Zenon DEF ManagerTypeOK, Entries
  <2>6. ASSUME NEW j \in pending, entry[j].tx
        PROVE  /\ TakesTo(fromWorker', FALSE, j, "STDOUT", entry[j].out, wrote[j].STDOUT)
               /\ TakesTo(fromWorker', FALSE, j, "STDERR", entry[j].err, wrote[j].STDERR)
    <3>1. /\ j \in Ids
          /\ TakesTo(fromWorker, workerOpen, j, "STDOUT", entry[j].out, wrote[j].STDOUT)
          /\ TakesTo(fromWorker, workerOpen, j, "STDERR", entry[j].err, wrote[j].STDERR)
      BY <2>1, <2>6, ZenonT(30) DEF Tallied, ManagerTypeOK
    <3>2. TakesTo(fromWorker', FALSE, j, "STDOUT", entry[j].out, wrote[j].STDOUT)
      BY <1>1, <2>2, <2>4, <2>5, <3>1, TotalCut, ZenonT(30) DEF Streams
    <3>3. TakesTo(fromWorker', FALSE, j, "STDERR", entry[j].err, wrote[j].STDERR)
      BY <1>1, <2>2, <2>4, <2>5, <3>1, TotalCut, ZenonT(30) DEF Streams
    <3> QED
      BY <3>2, <3>3, ZenonT(30)
  <2>7. Tallied'
    BY <2>1, <2>6, ZenonT(30) DEF Tallied
  <2>8. DoneReaped'
    BY <2>1, <2>3 DEF DoneReaped, Ids
  <2>9. Faithful'
    BY <2>1, Zenon DEF Faithful, Tells, Ids
  <2> QED
    BY <2>7, <2>8, <2>9, Zenon DEF AnswerInv
<1> QED
  BY <1>2, <1>3, <1>4, <1>5, <1>6, <1>7, ZenonT(30) DEF WorkerStep, Events, ForwardSome

\* Nothing is under way at the start.
LEMMA InitAnswers == Init => AnswerInv
<1> SUFFICES ASSUME Init PROVE AnswerInv
  OBVIOUS
<1>1. /\ pending = {} /\ fromWorker = <<>>
      /\ rx = [id \in Ids |-> Empty] /\ res = [c \in Callers |-> Empty]
      /\ wrote = [id \in Ids |-> [frames |-> 0, STDOUT |-> 0, STDERR |-> 0]]
  BY ZenonT(30) DEF Init, ManagerInit, ContractInit, SocketInit
<1>2. Empty.kind = "empty"
  BY Zenon DEF Empty, Failure
<1>3. Tallied /\ DoneReaped
  BY <1>1 DEF Tallied, DoneReaped
<1>4. Faithful
  BY <1>1, <1>2, Zenon DEF Faithful
<1> QED
  BY <1>3, <1>4, Zenon DEF AnswerInv

\* Every step of the pool.
LEMMA NextAnswers ==
    ASSUME IInv, WireInv, AnswerInv, [Next]_vars
    PROVE  AnswerInv'
<1>1. ASSUME NEW c \in Callers, CallStep(c), UNCHANGED workerVars PROVE AnswerInv'
  BY <1>1, CallAnswers, RegisterAnswers, Zenon DEF CallStep
<1>2. ASSUME ReadLoopStep, UNCHANGED workerVars PROVE AnswerInv'
  BY <1>2, ReadFrameAnswers, ReaderAnswers, Zenon DEF ReadLoopStep
<1>3. CASE UNCHANGED vars
  <2>1. UNCHANGED <<fromWorker, workerOpen, workerVars, pending, entry, rx, rid, res>>
    BY <1>3, Zenon DEF vars, managerVars, callVars, socketVars
  <2> QED
    BY <2>1, QuietAnswers, Zenon
<1> QED
  BY <1>1, <1>2, <1>3, WorkerAnswers, ZenonT(30) DEF Next

\* What is buffered and what is under way is what the children wrote, in
\* every state.
LEMMA PoolAnswers == Spec => [](IInv /\ WireInv /\ AnswerInv)
<1>1. Init => AnswerInv
  BY InitAnswers, Zenon
<1>2. IInv /\ WireInv /\ AnswerInv /\ [Next]_vars => AnswerInv'
  BY NextAnswers, Zenon
<1> QED
  BY <1>1, <1>2, PoolWire, PTL DEF Spec

\* A call that reports an exit reports the code and the whole output of its
\* own child, which is reaped: whatever the order in which frames, timeouts,
\* cut-offs and the end of the worker come.
THEOREM AnswersAreFaithful == Spec => []OutputFaithful
<1>1. AnswerInv => OutputFaithful
  BY Zenon DEF AnswerInv, Faithful, Tells, OutputFaithful
<1> QED
  BY PoolAnswers, <1>1, PTL
=============================================================================
