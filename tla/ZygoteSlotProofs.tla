-------------------------- MODULE ZygoteSlotProofs --------------------------
(***************************************************************************)
(* The number of sandboxes of ZygotePool that run at once.  The invariant  *)
(* (SlotInv) counts the sandboxes that run now or will run once the        *)
(* control frames under way are handled.                                   *)
(***************************************************************************)
EXTENDS ZygotePoolProofs, FiniteSetTheorems

\* The calls that may have a sandbox: those in flight, and those told that
\* the connection is lost.
Holders == InFlight \cup {c \in Callers : res[c].kind = "lost"}

\* Once a call is told so, no other call begins.
Slots ==
    /\ IsFiniteSet(Holders) /\ Cardinality(Holders) <= MaxWorkers
    /\ rpc \in {"fail", "closed"} => ~running
    /\ running => /\ \A id \in Ids : rx[id].kind # "lost"
                  /\ \A c \in Callers : res[c].kind # "lost"

\* The sandboxes that run once the first n control frames are handled,
\* without those reported to be over the limit.
AliveAfter(n) ==
    {id \in Ids :
        /\ kid[id] = "live" \/ \E i \in 1..n : toWorker[i] = Request("RUN", id)
        /\ \A i \in 1..n : toWorker[i] # Request("KILL", id)
        /\ \A c \in Callers : rid[c] = id => res[c].kind # "limit"}

\* At no point of the queue too many of them run; at its end each of them
\* has its call.
FewAlive ==
    /\ \A n \in 0..Len(toWorker) : Cardinality(AliveAfter(n)) <= MaxWorkers
    /\ workerOpen => \A id \in AliveAfter(Len(toWorker)) : \E c \in Holders : rid[c] = id

SlotInv == Slots /\ FewAlive

-----------------------------------------------------------------------------
(* How many sandboxes run *)

\* A smaller set of requests is a smaller number of them.
LEMMA FewerAlive ==
    ASSUME NEW n, NEW m, AliveAfter(n)' \subseteq AliveAfter(m),
           Cardinality(AliveAfter(m)) <= MaxWorkers
    PROVE  Cardinality(AliveAfter(n)') <= MaxWorkers
<1>1. IsFiniteSet(Ids)
  BY ProtocolAssumption, FS_Interval DEF Ids
<1>2. AliveAfter(m) \in SUBSET Ids
  BY Zenon DEF AliveAfter
<1>3. IsFiniteSet(AliveAfter(m))
  BY <1>1, <1>2, FS_Subset, ZenonT(30)
<1>4. IsFiniteSet(AliveAfter(n)') /\ Cardinality(AliveAfter(n)') <= Cardinality(AliveAfter(m))
  BY <1>3, FS_Subset, ZenonT(30)
<1> QED
  BY <1>3, <1>4, FS_CardinalityType, PoolAssumption, SMTT(30)

\* A step that lets no sandbox in, and takes no call from one that runs.
LEMMA AliveKept ==
    ASSUME FewAlive,
           \A n \in 0..Len(toWorker') : \E m \in 0..Len(toWorker) :
              AliveAfter(n)' \subseteq AliveAfter(m),
           workerOpen' =>
              /\ workerOpen
              /\ \A id \in AliveAfter(Len(toWorker))' :
                    /\ id \in AliveAfter(Len(toWorker))
                    /\ \A d \in Holders : rid[d] = id => d \in Holders' /\ rid'[d] = id
    PROVE  FewAlive'
<1>1. ASSUME NEW n \in 0..Len(toWorker')
      PROVE  Cardinality(AliveAfter(n)') <= MaxWorkers
  <2>1. PICK m \in 0..Len(toWorker) : AliveAfter(n)' \subseteq AliveAfter(m)
    OBVIOUS
  <2>2. Cardinality(AliveAfter(m)) <= MaxWorkers
    BY Zenon DEF FewAlive
  <2> QED
    BY <2>1, <2>2, FewerAlive, ZenonT(30)
<1>2. ASSUME workerOpen', NEW id \in AliveAfter(Len(toWorker))'
      PROVE  \E c \in Holders' : rid'[c] = id
  BY <1>2, Zenon DEF FewAlive
<1> QED
  BY <1>1, <1>2, ZenonT(30) DEF FewAlive

\* The calls that may have a sandbox do not become more.
LEMMA SlotsKept ==
    ASSUME Slots, Holders' \subseteq Holders,
           running' => running, rpc' \in {"fail", "closed"} => ~running',
           \A id \in Ids : rx'[id].kind = "lost" => rx[id].kind = "lost" \/ ~running',
           \A c \in Callers : res'[c].kind = "lost" =>
              res[c].kind = "lost" \/ \E id \in Ids : rx[id].kind = "lost"
    PROVE  Slots'
<1>1. IsFiniteSet(Holders) /\ Cardinality(Holders) <= MaxWorkers
  BY Zenon DEF Slots
<1>2. IsFiniteSet(Holders') /\ Cardinality(Holders') <= MaxWorkers
  <2>1. IsFiniteSet(Holders') /\ Cardinality(Holders') <= Cardinality(Holders)
    BY <1>1, FS_Subset, ZenonT(30)
  <2> QED
    BY <1>1, <2>1, FS_CardinalityType, PoolAssumption, SMTT(30)
<1> QED
  BY <1>2, ZenonT(30) DEF Slots, Ids

\* Nothing changes for the calls.
LEMMA SameHolders ==
    ASSUME UNCHANGED <<pc, res>>
    PROVE  Holders' = Holders
BY Zenon DEF Holders, InFlight

\* A step that leaves the control frames alone: the sandboxes that run, and
\* are not reported over the limit, do not become more.
LEMMA SameAlive ==
    ASSUME toWorker' = toWorker,
           \A id \in Ids : kid'[id] = "live" => kid[id] = "live",
           \A d \in Callers : res[d].kind = "limit" => res'[d].kind = "limit" /\ rid'[d] = rid[d]
    PROVE  /\ \A n : AliveAfter(n)' \subseteq AliveAfter(n)
           /\ AliveAfter(Len(toWorker))' \subseteq AliveAfter(Len(toWorker))
<1>1. ASSUME NEW n, NEW id \in Ids, id \in AliveAfter(n)'
      PROVE  id \in AliveAfter(n)
  <2>1. /\ kid'[id] = "live" \/ \E i \in 1..n : toWorker'[i] = Request("RUN", id)
        /\ \A i \in 1..n : toWorker'[i] # Request("KILL", id)
        /\ \A c \in Callers : rid'[c] = id => res'[c].kind # "limit"
    BY <1>1, ZenonT(30) DEF AliveAfter, Request
  <2>2. /\ kid[id] = "live" \/ \E i \in 1..n : toWorker[i] = Request("RUN", id)
        /\ \A i \in 1..n : toWorker[i] # Request("KILL", id)
        /\ \A c \in Callers : rid[c] = id => res[c].kind # "limit"
    BY <2>1, ZenonT(30)
  <2> QED
    BY <2>2, ZenonT(30) DEF AliveAfter
<1>2. \A n : AliveAfter(n)' \subseteq Ids
  BY Zenon DEF AliveAfter, Ids
<1>3. \A n : AliveAfter(n)' \subseteq AliveAfter(n)
  BY <1>1, <1>2, ZenonT(30)
<1>4. \A n : n = Len(toWorker') => AliveAfter(Len(toWorker))' = AliveAfter(n)'
  BY Zenon DEF AliveAfter
<1> QED
  BY <1>3, <1>4, ZenonT(30)

\* A step that leaves the control frames alone.
LEMMA QuietSlots ==
    ASSUME SlotInv, Slots', UNCHANGED <<toWorker, workerOpen>>,
           \A id \in Ids : kid'[id] = "live" => kid[id] = "live",
           \A d \in Callers : res[d].kind = "limit" => res'[d].kind = "limit" /\ rid'[d] = rid[d],
           workerOpen => \A d \in Holders : rid[d] \in Ids =>
              \/ d \in Holders' /\ rid'[d] = rid[d]
              \/ rid[d] \notin AliveAfter(Len(toWorker))'
    PROVE  SlotInv'
<1>1. FewAlive
  BY Zenon DEF SlotInv
<1>2. /\ \A n : AliveAfter(n)' \subseteq AliveAfter(n)
      /\ AliveAfter(Len(toWorker))' \subseteq AliveAfter(Len(toWorker))
  BY SameAlive, ZenonT(30)
<1>3. AliveAfter(Len(toWorker)) \subseteq Ids
  BY Zenon DEF AliveAfter
<1>4. \A n \in 0..Len(toWorker') : \E m \in 0..Len(toWorker) :
         AliveAfter(n)' \subseteq AliveAfter(m)
  BY <1>2, ZenonT(30)
<1>5. workerOpen' =>
         /\ workerOpen
         /\ \A id \in AliveAfter(Len(toWorker))' :
               /\ id \in AliveAfter(Len(toWorker))
               /\ \A d \in Holders : rid[d] = id => d \in Holders' /\ rid'[d] = id
  BY <1>2, <1>3, ZenonT(30)
<1>6. FewAlive'
  BY <1>1, <1>4, <1>5, AliveKept, ZenonT(30)
<1> QED
  BY <1>6, ZenonT(30) DEF SlotInv

\* A call that goes on holds what it held.
LEMMA HoldersMove ==
    ASSUME ManagerTypeOK, NEW c \in Callers, NEW l, Goto(c, l), l \notin {"start", "done"},
           pc[c] \notin {"start", "done"}, UNCHANGED res
    PROVE  Holders' = Holders
<1>1. \A d \in Callers : pc'[d] \notin {"start", "done"} <=> pc[d] \notin {"start", "done"}
  BY Zenon DEF Goto, ManagerTypeOK
<1> QED
  BY <1>1, ZenonT(30) DEF Holders, InFlight

\* A call that returns leaves the others as they are.
LEMMA HoldersEnd ==
    ASSUME ManagerTypeOK, OwnIds, NEW c \in Callers, NEW r, Return(c, r), pc[c] # "done",
           r.kind = "lost" => pc[c] # "start"
    PROVE  /\ Holders' \subseteq Holders
           /\ \A d \in Holders : d # c => d \in Holders'
           /\ r.kind = "lost" => c \in Holders'
           /\ \A d \in Callers : d # c => res'[d] = res[d]
           /\ res'[c] = r /\ res[c].kind = "empty"
<1>1. /\ \A d \in Callers : d # c => res'[d] = res[d] /\ pc'[d] = pc[d]
      /\ res'[c] = r /\ pc'[c] = "done" /\ res[c].kind = "empty"
  BY Zenon DEF Return, Goto, ManagerTypeOK, OwnIds
<1> QED
  BY <1>1, ZenonT(30) DEF Holders, InFlight

\* run() goes on only if a worker task of the queue is free, and only while
\* the connection is up.
LEMMA CheckRunningSlots ==
    ASSUME IInv, WireInv, SlotInv, NEW c \in Callers, CheckRunning(c), Dispatched(c),
           UNCHANGED workerVars
    PROVE  SlotInv'
<1>1. /\ ManagerTypeOK /\ OwnIds /\ Slots /\ pc[c] = "start" /\ res[c].kind = "empty"
      /\ UNCHANGED <<rid, running, rpc, rx, toWorker, workerOpen, kid>>
  BY ZenonT(30) DEF IInv, TypeOK, WireInv, OwnIds, SlotInv, CheckRunning, readerVars, socketVars, workerVars
<1>2. CASE running /\ Goto(c, "register") /\ UNCHANGED res
  <2>1. Holders = InFlight /\ c \notin Holders
    BY <1>1, <1>2, ZenonT(30) DEF Slots, Holders, InFlight
  <2>2. Holders' = Holders \cup {c}
    <3>1. \A d \in Callers : pc'[d] \notin {"start", "done"} <=> d = c \/ pc[d] \notin {"start", "done"}
      BY <1>1, <1>2, ZenonT(30) DEF Goto, ManagerTypeOK
    <3> QED
      BY <1>2, <3>1, ZenonT(30) DEF Holders, InFlight
  <2>3. IsFiniteSet(Holders) /\ Cardinality(Holders) < MaxWorkers
    <3>1. IsFiniteSet(Holders)
      BY <1>1, ZenonT(30) DEF Slots
    <3>2. Cardinality(InFlight) < MaxWorkers
      BY <1>1, ZenonT(30) DEF Dispatched
    <3> QED
      BY <2>1, <3>1, <3>2, ZenonT(30)
  <2>4. IsFiniteSet(Holders') /\ Cardinality(Holders') <= MaxWorkers
    <3>1. /\ IsFiniteSet(Holders \cup {c})
          /\ Cardinality(Holders \cup {c}) = Cardinality(Holders) + 1
      BY <2>1, <2>3, FS_AddElement, ZenonT(30)
    <3>2. Cardinality(Holders) \in Nat
      BY <2>3, FS_CardinalityType, ZenonT(30)
    <3> QED
      BY <2>2, <2>3, <3>1, <3>2, PoolAssumption, SMTT(30)
  <2>5. Slots'
    BY <1>1, <1>2, <2>4, ZenonT(30) DEF Slots, Ids
  <2> QED
    BY <1>1, <1>2, <2>2, <2>5, QuietSlots, ZenonT(30)
<1>3. CASE Return(c, Failure("notRunning"))
  <2>1. Failure("notRunning").kind = "notRunning"
    BY Values, Zenon DEF Kinds
  <2>2. /\ Holders' \subseteq Holders
        /\ \A d \in Holders : d # c => d \in Holders'
        /\ \A d \in Callers : d # c => res'[d] = res[d]
        /\ res'[c].kind = "notRunning"
    BY <1>1, <1>3, <2>1, HoldersEnd, ZenonT(30)
  <2>3. c \notin Holders
    BY <1>1, ZenonT(30) DEF Holders, InFlight
  <2>4. Slots'
    <3>1. rpc' \in {"fail", "closed"} => ~running'
      BY <1>1, ZenonT(30) DEF Slots
    <3> QED
      BY <1>1, <2>2, <3>1, SlotsKept, ZenonT(30)
  <2>5. \A d \in Callers : res[d].kind = "limit" => res'[d].kind = "limit" /\ rid'[d] = rid[d]
    BY <1>1, <2>2, ZenonT(30)
  <2> QED
    BY <1>1, <2>2, <2>3, <2>4, <2>5, QuietSlots, ZenonT(30)
<1> QED
  BY <1>2, <1>3, ZenonT(30) DEF CheckRunning

\* The steps of a call that goes on and writes nothing.
LEMMA CallMovesSlots ==
    ASSUME IInv, WireInv, SlotInv, NEW c \in Callers, UNCHANGED workerVars,
           Register(c) \/ AcquireWrite(c) \/ GiveUp(c)
    PROVE  SlotInv'
<1>1. /\ ManagerTypeOK /\ OwnIds /\ Slots
      /\ UNCHANGED <<running, rpc, res, toWorker, workerOpen, kid>>
  BY Zenon DEF IInv, TypeOK, WireInv, SlotInv, Register, AcquireWrite, GiveUp, readerVars,
     socketVars, workerVars
<1>2. Holders' = Holders
  <2>1. PICK l \in {"lockRun", "writeRun", "writeKill", "lockKill"} : Goto(c, l)
    BY Zenon DEF Register, AcquireWrite, GiveUp
  <2>2. pc[c] \notin {"start", "done"}
    BY Zenon DEF Register, AcquireWrite, GiveUp
  <2> QED
    BY <1>1, <2>1, <2>2, HoldersMove, ZenonT(30)
<1>3. \A id \in Ids : rx'[id].kind = "lost" => rx[id].kind = "lost"
  <2>1. Empty.kind = "empty"
    BY Zenon DEF Empty, Failure
  <2>2. rx' = rx \/ rx' = [rx EXCEPT ![next_id] = Empty]
    BY Zenon DEF Register, AcquireWrite, GiveUp
  <2> QED
    BY <1>1, <2>1, <2>2, ZenonT(30) DEF ManagerTypeOK
<1>4. Slots'
  <2>1. rpc' \in {"fail", "closed"} => ~running'
    BY <1>1, ZenonT(30) DEF Slots
  <2> QED
    BY <1>1, <1>2, <1>3, <2>1, SlotsKept, ZenonT(30)
<1>5. \A d \in Callers : rid'[d] = rid[d] \/ (res[d].kind = "empty" /\ rid[d] = 0)
  <2>1. rid' = rid \/ (pc[c] = "register" /\ rid' = [rid EXCEPT ![c] = next_id])
    BY Zenon DEF Register, AcquireWrite, GiveUp
  <2> QED
    BY <1>1, <2>1, ZenonT(30) DEF OwnIds, ManagerTypeOK
<1>6. 0 \notin Ids
  BY ProtocolAssumption DEF Ids
<1>7. Holders \subseteq Callers
  BY Zenon DEF Holders, InFlight
<1> QED
  BY <1>1, <1>2, <1>4, <1>5, <1>6, <1>7, QuietSlots, ZenonT(30)

\* An answered call leaves no sandbox running but one that is reported over
\* the limit, unless the connection is lost.
LEMMA ReceiveSlots ==
    ASSUME IInv, WireInv, AnswerInv, SlotInv, NEW c \in Callers, Receive(c),
           UNCHANGED workerVars
    PROVE  SlotInv'
<1> DEFINE k == rid[c]
           r == rx[k]
<1>1. /\ ManagerTypeOK /\ TypeOK /\ OwnIds /\ Slots /\ Heard /\ InOrder /\ Faithful
      /\ pc[c] = "wait" /\ k \in Ids
      /\ UNCHANGED <<rid, running, rpc, rx, toWorker, workerOpen, kid>>
      /\ r \notin {Empty, Closed} /\ Return(c, r)
  BY Zenon DEF IInv, TypeOK, WireInv, AnswerInv, SlotInv, Registered, InCall, Receive, readerVars,
     socketVars, workerVars
<1>2. r.kind \in {"exit", "limit", "lost"}
  BY <1>1, ZenonT(30) DEF Heard
<1>3. /\ Holders' \subseteq Holders
      /\ \A d \in Holders : d # c => d \in Holders'
      /\ r.kind = "lost" => c \in Holders'
      /\ \A d \in Callers : d # c => res'[d] = res[d]
      /\ res'[c] = r /\ res[c].kind = "empty"
  BY <1>1, HoldersEnd, ZenonT(30)
<1>4. Slots'
  <2>1. rpc' \in {"fail", "closed"} => ~running'
    BY <1>1, Zenon DEF Slots
  <2>2. \A d \in Callers : res'[d].kind = "lost" =>
           res[d].kind = "lost" \/ \E id \in Ids : rx[id].kind = "lost"
    BY <1>1, <1>3, ZenonT(30)
  <2> QED
    BY <1>1, <1>3, <2>1, <2>2, SlotsKept, ZenonT(30)
<1>5. r.kind = "limit" => k \notin AliveAfter(Len(toWorker))'
  BY <1>1, <1>3, ZenonT(30) DEF AliveAfter
<1>6. r.kind = "exit" => k \notin AliveAfter(Len(toWorker))'
  <2>1. SUFFICES ASSUME r.kind = "exit"
                 PROVE  k \notin AliveAfter(Len(toWorker))'
    OBVIOUS
  <2>2. kid[k] = "done"
    BY <1>1, <2>1, ZenonT(30) DEF Faithful, Tells
  <2>3. ~Queued("RUN", k)
    BY <1>1, <2>2, ZenonT(30) DEF InOrder
  <2>4. DOMAIN toWorker = 1..Len(toWorker)
    BY <1>1 DEF TypeOK, SocketTypeOK
  <2>5. \A i \in 1..Len(toWorker) : toWorker[i] # Request("RUN", k)
    BY <2>3, <2>4, ZenonT(30) DEF Queued
  <2> QED
    BY <1>1, <2>2, <2>5, ZenonT(30) DEF AliveAfter, Request
<1>7. \A d \in Callers : res[d].kind = "limit" => res'[d].kind = "limit" /\ rid'[d] = rid[d]
  BY <1>1, <1>3, ZenonT(30)
<1> HIDE DEF k, r
<1>8. \A d \in Holders : d \in Holders' \/ rid[d] \notin AliveAfter(Len(toWorker))'
  BY <1>2, <1>3, <1>5, <1>6, ZenonT(30) DEF k
<1> QED
  BY <1>1, <1>4, <1>7, <1>8, QuietSlots, ZenonT(30)

\* The first frames of the queue stay when one is written behind them.
LEMMA SentAlive ==
    ASSUME TypeOK, NEW t \in {"RUN", "KILL"}, NEW k \in Ids, SendRequest(t, k), kid' = kid,
           \A d \in Callers : res[d].kind = "limit" => res'[d].kind = "limit" /\ rid'[d] = rid[d]
    PROVE  /\ Len(toWorker) \in Nat /\ Len(toWorker') = Len(toWorker) + 1
           /\ \A n \in 0..Len(toWorker) : AliveAfter(n)' \subseteq AliveAfter(n)
           /\ \A id \in AliveAfter(Len(toWorker))' :
                 \/ id \in AliveAfter(Len(toWorker)) /\ (t = "KILL" => id # k)
                 \/ t = "RUN" /\ id = k
           /\ \A n : n = Len(toWorker') => AliveAfter(n)' = AliveAfter(Len(toWorker))'
<1>1. /\ Len(toWorker) \in Nat /\ Len(toWorker') = Len(toWorker) + 1
      /\ toWorker'[Len(toWorker) + 1] = Request(t, k)
      /\ \A i \in 1..Len(toWorker) : toWorker'[i] = toWorker[i]
  BY FrameSent, ZenonT(30)
<1> DEFINE m == Len(toWorker)
<1>2. ASSUME NEW n \in 0..m, NEW id \in AliveAfter(n)'
      PROVE  id \in AliveAfter(n)
  <2>1. /\ id \in Ids
        /\ kid[id] = "live" \/ \E i \in 1..n : toWorker'[i] = Request("RUN", id)
        /\ \A i \in 1..n : toWorker'[i] # Request("KILL", id)
        /\ \A c \in Callers : rid'[c] = id => res'[c].kind # "limit"
    BY <1>2, ZenonT(30) DEF AliveAfter, Request, Ids
  <2>2. \A i \in 1..n : toWorker'[i] = toWorker[i]
    BY <1>1
  <2>3. /\ kid[id] = "live" \/ \E i \in 1..n : toWorker[i] = Request("RUN", id)
        /\ \A i \in 1..n : toWorker[i] # Request("KILL", id)
        /\ \A c \in Callers : rid[c] = id => res[c].kind # "limit"
    BY <2>1, <2>2, ZenonT(30)
  <2> QED
    BY <2>1, <2>3, ZenonT(30) DEF AliveAfter
<1>3. ASSUME NEW id \in AliveAfter(Len(toWorker))'
      PROVE  \/ id \in AliveAfter(m) /\ (t = "KILL" => id # k)
             \/ t = "RUN" /\ id = k
  <2>1. /\ id \in Ids
        /\ kid[id] = "live" \/ \E i \in 1..(m + 1) : toWorker'[i] = Request("RUN", id)
        /\ \A i \in 1..(m + 1) : toWorker'[i] # Request("KILL", id)
        /\ \A c \in Callers : rid'[c] = id => res'[c].kind # "limit"
    BY <1>1, <1>3, ZenonT(30) DEF AliveAfter, Request, Ids
  <2>2. t = "KILL" => id # k
    BY <1>1, <2>1, SMTT(30)
  <2>3. CASE t = "RUN" /\ id = k
    BY <2>3, ZenonT(30)
  <2>4. CASE ~(t = "RUN" /\ id = k)
    <3>1. toWorker'[m + 1] # Request("RUN", id)
      BY <1>1, <2>4, RequestsDiffer, SMTT(30)
    <3>2. /\ kid[id] = "live" \/ \E i \in 1..m : toWorker[i] = Request("RUN", id)
          /\ \A i \in 1..m : toWorker[i] # Request("KILL", id)
          /\ \A c \in Callers : rid[c] = id => res[c].kind # "limit"
      BY <1>1, <2>1, <3>1, SMTT(30)
    <3> QED
      BY <2>1, <2>2, <3>2, ZenonT(30) DEF AliveAfter
  <2> QED
    BY <2>3, <2>4, ZenonT(30)
<1>4. \A n : n = Len(toWorker') => AliveAfter(n)' = AliveAfter(Len(toWorker))'
  BY ZenonT(30) DEF AliveAfter
<1> QED
  BY <1>1, <1>2, <1>3, <1>4, ZenonT(30)

\* RUN is written: its request has a call, and so have the others.
LEMMA WriteRunSlots ==
    ASSUME IInv, WireInv, SlotInv, NEW c \in Callers, WriteRun(c), UNCHANGED workerVars
    PROVE  SlotInv'
<1> DEFINE k == rid[c]
<1>1. /\ ManagerTypeOK /\ TypeOK /\ OwnIds /\ Slots /\ FewAlive
      /\ pc[c] = "writeRun" /\ k \in Ids
      /\ UNCHANGED <<rid, running, rpc, rx, kid>>
  BY ZenonT(30) DEF IInv, TypeOK, WireInv, SlotInv, Registered, InCall, WriteRun, readerVars, workerVars
<1>2. rpc' \in {"fail", "closed"} => ~running'
  BY <1>1, ZenonT(30) DEF Slots
<1> HIDE DEF k
<1>3. CASE SendRequest("RUN", k) /\ Goto(c, "wait") /\ UNCHANGED res
  <2>1. Holders' = Holders /\ c \in Holders /\ Holders \subseteq Callers
    <3>1. Holders' = Holders
      BY <1>1, <1>3, HoldersMove, ZenonT(30)
    <3> QED
      BY <1>1, <3>1, ZenonT(30) DEF Holders, InFlight
  <2>2. Slots'
    BY <1>1, <1>2, <1>3, <2>1, SlotsKept, ZenonT(30)
  <2>3. workerOpen
    BY <1>3, ZenonT(30) DEF SendRequest
  <2> DEFINE T == {rid[d] : d \in Holders}
  <2>4. IsFiniteSet(T) /\ Cardinality(T) <= MaxWorkers
    <3> DEFINE f == [d \in Holders |-> rid[d]]
    <3>1. f \in Surjection(Holders, T)
      BY ZenonT(30) DEF Surjection
    <3>2. IsFiniteSet(Holders) /\ Cardinality(Holders) <= MaxWorkers
      BY <1>1, ZenonT(30) DEF Slots
    <3> HIDE DEF f, T
    <3>3. IsFiniteSet(T) /\ Cardinality(T) <= Cardinality(Holders)
      BY <3>1, <3>2, FS_Surjection, ZenonT(30)
    <3> QED
      BY <3>2, <3>3, FS_CardinalityType, PoolAssumption, SMTT(30)
  <2>5. /\ Len(toWorker) \in Nat /\ Len(toWorker') = Len(toWorker) + 1
        /\ \A n \in 0..Len(toWorker) : AliveAfter(n)' \subseteq AliveAfter(n)
        /\ \A id \in AliveAfter(Len(toWorker))' : id \in AliveAfter(Len(toWorker)) \/ id = k
        /\ \A n : n = Len(toWorker') => AliveAfter(n)' = AliveAfter(Len(toWorker))'
    BY <1>1, <1>3, SentAlive, ZenonT(30)
  <2>6. \A id \in AliveAfter(Len(toWorker))' : \E d \in Holders : rid[d] = id
    BY <1>1, <2>1, <2>3, <2>5, ZenonT(30) DEF FewAlive, k
  <2>7. ASSUME NEW n \in 0..Len(toWorker')
        PROVE  Cardinality(AliveAfter(n)') <= MaxWorkers
    <3>1. CASE n \in 0..Len(toWorker)
      <4>1. Cardinality(AliveAfter(n)) <= MaxWorkers
        BY <1>1, <3>1, ZenonT(30) DEF FewAlive
      <4> QED
        BY <2>5, <3>1, <4>1, FewerAlive, ZenonT(30)
    <3>2. CASE n = Len(toWorker')
      <4>1. AliveAfter(n)' \in SUBSET T
        BY <2>5, <2>6, <3>2, ZenonT(30)
      <4> HIDE DEF T
      <4>2. IsFiniteSet(AliveAfter(n)') /\ Cardinality(AliveAfter(n)') <= Cardinality(T)
        BY <2>4, <4>1, FS_Subset, ZenonT(30)
      <4> QED
        BY <2>4, <4>2, FS_CardinalityType, PoolAssumption, SMTT(30)
    <3> QED
      BY <2>5, <3>1, <3>2, SMTT(30)
  <2>8. FewAlive'
    BY <1>1, <2>1, <2>6, <2>7, ZenonT(30) DEF FewAlive
  <2> QED
    BY <2>2, <2>8, ZenonT(30) DEF SlotInv
<1>4. CASE SendFails /\ Return(c, Failure("writeFailed"))
  <2>1. Failure("writeFailed").kind = "writeFailed"
    BY Values, ZenonT(30) DEF Kinds
  <2>2. /\ Holders' \subseteq Holders
        /\ \A d \in Callers : d # c => res'[d] = res[d]
        /\ res'[c].kind = "writeFailed" /\ res[c].kind = "empty"
    BY <1>1, <1>4, <2>1, HoldersEnd, ZenonT(30)
  <2>3. Slots'
    BY <1>1, <1>2, <2>2, SlotsKept, ZenonT(30)
  <2>4. ~workerOpen /\ UNCHANGED <<toWorker, workerOpen>>
    BY <1>4, ZenonT(30) DEF SendFails, socketVars
  <2>5. \A d \in Callers : res[d].kind = "limit" => res'[d].kind = "limit" /\ rid'[d] = rid[d]
    BY <1>1, <2>2, ZenonT(30)
  <2> QED
    BY <1>1, <2>3, <2>4, <2>5, QuietSlots, ZenonT(30)
<1> QED
  BY <1>3, <1>4, ZenonT(30) DEF WriteRun, k

\* KILL is written: behind it, the sandbox of its request does not run.
LEMMA KillSlots ==
    ASSUME IInv, SlotInv, Slots', NEW k \in Ids, SendRequest("KILL", k),
           UNCHANGED <<rid, kid>>,
           \A d \in Callers : res[d].kind = "limit" => res'[d].kind = "limit",
           \A d \in Holders : d \in Holders' \/ rid[d] = k
    PROVE  SlotInv'
<1>1. TypeOK /\ FewAlive /\ workerOpen
  BY ZenonT(30) DEF IInv, SlotInv, SendRequest
<1>2. /\ Len(toWorker) \in Nat /\ Len(toWorker') = Len(toWorker) + 1
      /\ \A n \in 0..Len(toWorker) : AliveAfter(n)' \subseteq AliveAfter(n)
      /\ \A id \in AliveAfter(Len(toWorker))' : id \in AliveAfter(Len(toWorker)) /\ id # k
      /\ \A n : n = Len(toWorker') => AliveAfter(n)' = AliveAfter(Len(toWorker))'
  BY <1>1, SentAlive, ZenonT(30)
<1>3. ASSUME NEW n \in 0..Len(toWorker')
      PROVE  \E m \in 0..Len(toWorker) : AliveAfter(n)' \subseteq AliveAfter(m)
  <2>1. CASE n \in 0..Len(toWorker)
    BY <1>2, <2>1, ZenonT(30)
  <2>2. CASE n = Len(toWorker')
    <3>1. Len(toWorker) \in 0..Len(toWorker)
      BY <1>2
    <3>2. AliveAfter(n)' \subseteq AliveAfter(Len(toWorker))
      BY <1>2, <2>2, ZenonT(30)
    <3> QED
      BY <3>1, <3>2, ZenonT(30)
  <2> QED
    BY <1>2, <2>1, <2>2, SMTT(30)
<1>4. FewAlive'
  BY <1>1, <1>2, <1>3, AliveKept, ZenonT(30)
<1> QED
  BY <1>4, ZenonT(30) DEF SlotInv

\* A timeout gives its place away only behind its KILL.
LEMMA WriteKillSlots ==
    ASSUME IInv, WireInv, SlotInv, NEW c \in Callers, WriteKill(c), UNCHANGED workerVars
    PROVE  SlotInv'
<1> DEFINE k == rid[c]
<1>1. /\ ManagerTypeOK /\ OwnIds /\ Slots
      /\ pc[c] = "writeKill" /\ k \in Ids /\ Return(c, Failure("timeout"))
      /\ UNCHANGED <<rid, running, rpc, rx, kid>>
      /\ SendRequest("KILL", k) \/ SendFails
  BY ZenonT(30) DEF IInv, TypeOK, WireInv, SlotInv, Registered, InCall, WriteKill, readerVars, workerVars
<1>2. Failure("timeout").kind = "timeout"
  BY Values, ZenonT(30) DEF Kinds
<1>3. /\ Holders' \subseteq Holders
      /\ \A d \in Holders : d # c => d \in Holders'
      /\ \A d \in Callers : d # c => res'[d] = res[d]
      /\ res'[c].kind = "timeout" /\ res[c].kind = "empty"
  BY <1>1, <1>2, HoldersEnd, ZenonT(30)
<1>4. Slots'
  <2>1. rpc' \in {"fail", "closed"} => ~running'
    BY <1>1, ZenonT(30) DEF Slots
  <2> QED
    BY <1>1, <1>3, <2>1, SlotsKept, ZenonT(30)
<1>5. \A d \in Callers : res[d].kind = "limit" => res'[d].kind = "limit" /\ rid'[d] = rid[d]
  BY <1>1, <1>3, ZenonT(30)
<1>6. CASE SendRequest("KILL", k)
  BY <1>1, <1>3, <1>4, <1>5, <1>6, KillSlots, ZenonT(30)
<1>7. CASE SendFails
  <2>1. ~workerOpen /\ UNCHANGED <<toWorker, workerOpen>>
    BY <1>7, ZenonT(30) DEF SendFails, socketVars
  <2> QED
    BY <1>1, <1>4, <1>5, <2>1, QuietSlots, ZenonT(30)
<1> QED
  BY <1>1, <1>6, <1>7, ZenonT(30)

\* read_loop gives no call a place; it tells a call that the connection is
\* lost only once it has taken down the running flag.
LEMMA ReaderSlots ==
    ASSUME IInv, WireInv, SlotInv, ReadLoopStep, UNCHANGED workerVars
    PROVE  SlotInv'
<1>1. /\ ManagerTypeOK /\ Slots /\ fromWorker \in Seq(ReplyFrame)
      /\ UNCHANGED <<pc, rid, res, kid>>
  BY ZenonT(30) DEF IInv, TypeOK, SocketTypeOK, SlotInv, ReadLoopStep, ReadFrame, ReadEof, CutOff,
     CutOffAcquire, CutOffKill, MarkStopped, FailOne, ClearPending, callVars, workerVars
<1>2. Holders' = Holders
  BY <1>1, SameHolders, ZenonT(30)
<1>3. \A k \in Kinds : Failure(k).kind = k
  BY Values, ZenonT(30)
<1>4. /\ running' => running
      /\ rpc' \in {"fail", "closed"} => ~running'
      /\ \A id \in Ids : rx'[id].kind = "lost" => rx[id].kind = "lost" \/ ~running'
  <2>1. CASE ReadFrame
    <3> DEFINE f == Head(fromWorker)
    <3>1. /\ running' = running /\ rpc = "read" /\ fromWorker # <<>>
          /\ (rpc' = "stop" /\ rx' = rx) \/ Deliver(f)
      BY <2>1, ZenonT(30) DEF ReadFrame
    <3>2. f \in ReplyFrame
      BY <1>1, <3>1, SMTT(30)
    <3> HIDE DEF f
    <3>3. \A id \in Ids : rx'[id] = rx[id] \/ rx'[id].kind = "exit"
      BY <1>1, <3>1, <3>2, DeliverAnswers, ZenonT(30)
    <3>4. rpc' \in {"read", "limit", "stop"}
      BY <3>1, ZenonT(30) DEF Deliver
    <3> QED
      BY <3>1, <3>3, <3>4, ZenonT(30)
  <2>2. CASE ReadEof \/ CutOffAcquire \/ CutOffKill
    BY <2>2, SMTT(30) DEF ReadEof, CutOffAcquire, CutOffKill
  <2>3. CASE CutOff
    <3> DEFINE r == [Failure("limit") EXCEPT !.out = cut.out]
    <3>1. r.kind = "limit"
      BY Zenon DEF Failure
    <3>2. /\ running' = running /\ rpc' = "lockKill"
          /\ rx' = rx \/ rx' = [rx EXCEPT ![cut.id] = r]
      BY <2>3, ZenonT(30) DEF CutOff
    <3> HIDE DEF r
    <3> QED
      BY <1>1, <3>1, <3>2, ZenonT(30) DEF ManagerTypeOK
  <2>4. CASE MarkStopped
    BY <2>4, ZenonT(30) DEF MarkStopped
  <2>5. CASE \E id \in Ids : FailOne(id)
    <3>1. rpc = "fail" /\ UNCHANGED <<running, rpc>>
      BY <2>5, ZenonT(30) DEF FailOne, readerVars
    <3>2. ~running
      BY <1>1, <3>1, ZenonT(30) DEF Slots
    <3> QED
      BY <3>1, <3>2, ZenonT(30)
  <2>6. CASE ClearPending
    <3>1. Closed.kind = "closed"
      BY <1>3, ZenonT(30) DEF Kinds, Closed
    <3>2. /\ rpc = "fail" /\ UNCHANGED running
          /\ rx' = [id \in Ids |-> IF id \in pending /\ entry[id].tx THEN Closed ELSE rx[id]]
      BY <2>6, ZenonT(30) DEF ClearPending
    <3>3. ~running
      BY <1>1, <3>2, ZenonT(30) DEF Slots
    <3> QED
      BY <3>1, <3>2, <3>3, ZenonT(30)
  <2> QED
    BY <2>1, <2>2, <2>3, <2>4, <2>5, <2>6, ZenonT(30) DEF ReadLoopStep
<1>5. Slots'
  BY <1>1, <1>2, <1>4, SlotsKept, ZenonT(30)
<1>6. CASE UNCHANGED <<toWorker, workerOpen>>
  BY <1>1, <1>2, <1>5, <1>6, QuietSlots, ZenonT(30)
<1>7. CASE CutOffKill /\ SendRequest("KILL", cut.id)
  <2>1. cut.id \in Ids
    BY <1>7, ZenonT(30) DEF CutOffKill, IInv, CutNamed
  <2> QED
    BY <1>1, <1>2, <1>5, <1>7, <2>1, KillSlots, ZenonT(30)
<1> QED
  BY <1>6, <1>7, ZenonT(30) DEF ReadLoopStep, ReadFrame, ReadEof, CutOff, CutOffAcquire, CutOffKill,
     MarkStopped, FailOne, ClearPending, SendFails, socketVars

\* The worker takes a control frame: what runs behind the first n of the
\* remaining frames ran behind the first n + 1.
LEMMA TakenSlots ==
    ASSUME IInv, SlotInv, UNCHANGED <<managerVars, workerOpen>>,
           NEW t \in {"RUN", "KILL"}, NEW k \in Ids, Takes(t, k),
           \A j \in Ids : kid'[j] = "live" => kid[j] = "live" \/ (t = "RUN" /\ j = k),
           t = "KILL" => kid'[k] # "live" /\ ~Queued("RUN", k)'
    PROVE  SlotInv'
<1>1. /\ TypeOK /\ FewAlive /\ Slots
      /\ UNCHANGED <<running, rx, pc, rid, res, rpc>>
  BY ManagerStill, ZenonT(30) DEF IInv, SlotInv
<1>2. Holders' = Holders
  BY <1>1, SameHolders, ZenonT(30)
<1>3. Slots'
  <2>1. rpc' \in {"fail", "closed"} => ~running'
    BY <1>1, ZenonT(30) DEF Slots
  <2> QED
    BY <1>1, <1>2, <2>1, SlotsKept, ZenonT(30)
<1>4. /\ Len(toWorker) \in Nat /\ Len(toWorker) > 0 /\ Len(toWorker') = Len(toWorker) - 1
      /\ DOMAIN toWorker' = 1..(Len(toWorker) - 1)
      /\ toWorker[1] = Request(t, k)
      /\ \A i \in DOMAIN toWorker' : toWorker'[i] = toWorker[i + 1]
  BY <1>1, FrameTaken, ZenonT(30)
<1> DEFINE m == Len(toWorker')
<1>5. ASSUME NEW n \in 0..m, NEW id \in AliveAfter(n)'
      PROVE  id \in AliveAfter(n + 1)
  <2>1. /\ id \in Ids
        /\ kid'[id] = "live" \/ \E i \in 1..n : toWorker'[i] = Request("RUN", id)
        /\ \A i \in 1..n : toWorker'[i] # Request("KILL", id)
        /\ \A c \in Callers : rid[c] = id => res[c].kind # "limit"
    BY <1>1, <1>5, ZenonT(30) DEF AliveAfter, Request, Ids
  <2>2. \A i \in 1..n : i \in DOMAIN toWorker' /\ toWorker'[i] = toWorker[i + 1] /\ i + 1 \in 1..(n + 1)
    BY <1>4, SMTT(30)
  <2>3. kid[id] = "live" \/ \E i \in 1..(n + 1) : toWorker[i] = Request("RUN", id)
    <3>1. CASE kid'[id] = "live"
      <4>1. 1 \in 1..(n + 1)
        BY <1>4, SMTT(30)
      <4> QED
        BY <1>4, <2>1, <3>1, <4>1, ZenonT(30)
    <3>2. CASE \E i \in 1..n : toWorker'[i] = Request("RUN", id)
      BY <2>2, <3>2, ZenonT(30)
    <3> QED
      BY <2>1, <3>1, <3>2, ZenonT(30)
  <2>4. ASSUME NEW i \in 1..(n + 1)
        PROVE  toWorker[i] # Request("KILL", id)
    <3>1. CASE i = 1
      <4>1. ASSUME t = "KILL", id = k PROVE FALSE
        <5>1. \E j \in 1..n : toWorker'[j] = Request("RUN", k)
          BY <2>1, <4>1, ZenonT(30)
        <5>2. Queued("RUN", k)'
          BY <2>2, <5>1, ZenonT(30) DEF Queued, Request
        <5> QED
          BY <4>1, <5>2, ZenonT(30)
      <4> QED
        BY <1>4, <3>1, <4>1, RequestsDiffer, SMTT(30)
    <3>2. CASE i # 1
      <4>1. i - 1 \in 1..n /\ (i - 1) + 1 = i
        BY <1>4, <3>2, SMTT(30)
      <4> QED
        BY <2>1, <2>2, <4>1, ZenonT(30)
    <3> QED
      BY <3>1, <3>2, ZenonT(30)
  <2> QED
    BY <2>1, <2>3, <2>4, ZenonT(30) DEF AliveAfter
<1>6. \A n \in 0..m : n + 1 \in 0..Len(toWorker) /\ AliveAfter(n)' \subseteq AliveAfter(n + 1)
  BY <1>4, <1>5, SMTT(30)
<1>7. \A id \in AliveAfter(Len(toWorker))' : id \in AliveAfter(Len(toWorker))
  <2>1. m \in 0..m /\ m + 1 = Len(toWorker)
    BY <1>4, SMTT(30)
  <2>2. \A n : n = m => AliveAfter(Len(toWorker))' = AliveAfter(n)'
    BY ZenonT(30) DEF AliveAfter
  <2> QED
    BY <1>6, <2>1, <2>2, ZenonT(30)
<1>8. FewAlive'
  <2>1. workerOpen' => workerOpen
    OBVIOUS
  <2>2. \A n \in 0..Len(toWorker') : \E i \in 0..Len(toWorker) : AliveAfter(n)' \subseteq AliveAfter(i)
    BY <1>6, ZenonT(30)
  <2> QED
    BY <1>1, <1>2, <1>7, <2>1, <2>2, AliveKept, ZenonT(30)
<1> QED
  BY <1>3, <1>8, ZenonT(30) DEF SlotInv

\* The steps of the worker.
LEMMA WorkerSlots ==
    ASSUME IInv, WireInv, SlotInv, WorkerStep, UNCHANGED managerVars
    PROVE  SlotInv'
<1>1. /\ TypeOK /\ ContractTypeOK /\ Slots /\ FewAlive /\ InOrder
      /\ UNCHANGED <<running, rx, pc, rid, res, rpc>>
  BY ManagerStill, ZenonT(30) DEF IInv, TypeOK, SlotInv, WireInv
<1>2. Holders' = Holders
  BY <1>1, SameHolders, ZenonT(30)
<1>3. Slots'
  <2>1. rpc' \in {"fail", "closed"} => ~running'
    BY <1>1, ZenonT(30) DEF Slots
  <2> QED
    BY <1>1, <1>2, <2>1, SlotsKept, ZenonT(30)
<1>4. ASSUME NEW id \in Ids, TakeRun(id) PROVE SlotInv'
  <2>1. Takes("RUN", id) /\ UNCHANGED workerOpen
    BY <1>4, ZenonT(30) DEF TakeRun
  <2>2. \E k \in {"live", "failed"} : kid' = [kid EXCEPT ![id] = k]
    BY <1>4, ZenonT(30) DEF TakeRun
  <2>3. \A j \in Ids : kid'[j] = "live" => kid[j] = "live" \/ j = id
    BY <1>1, <2>2, ZenonT(30) DEF ContractTypeOK
  <2> QED
    BY <2>1, <2>3, TakenSlots, ZenonT(30)
<1>5. ASSUME NEW id \in Ids, TakeKill(id) PROVE SlotInv'
  <2>1. Takes("KILL", id) /\ UNCHANGED workerOpen
    BY <1>5, ZenonT(30) DEF TakeKill
  <2>2. /\ kid[id] # "live" => kid' = kid
        /\ kid[id] = "live" => kid' = [kid EXCEPT ![id] = "dead"]
    BY <1>5, ZenonT(30) DEF TakeKill
  <2>3. kid'[id] # "live" /\ \A j \in Ids : kid'[j] = "live" => kid[j] = "live"
    BY <1>1, <2>2, ZenonT(30) DEF ContractTypeOK
  <2>4. ~Queued("RUN", id)'
    <3>1. SUFFICES ASSUME Queued("RUN", id)' PROVE FALSE
      OBVIOUS
    <3>2. /\ Len(toWorker) \in Nat /\ Len(toWorker) > 0
          /\ DOMAIN toWorker = 1..Len(toWorker)
          /\ DOMAIN toWorker' = 1..(Len(toWorker) - 1)
          /\ toWorker[1] = Request("KILL", id)
          /\ \A i \in DOMAIN toWorker' : toWorker'[i] = toWorker[i + 1]
      BY <1>1, <2>1, FrameTaken, ZenonT(30)
    <3>3. PICK i \in DOMAIN toWorker' : toWorker'[i] = Request("RUN", id)
      BY <3>1, ZenonT(30) DEF Queued, Request
    <3>4. /\ i + 1 \in DOMAIN toWorker /\ toWorker[i + 1] = Request("RUN", id)
          /\ 1 \in DOMAIN toWorker /\ ~(i + 1 < 1)
      BY <3>2, <3>3, SMTT(30)
    <3> QED
      BY <1>1, <3>2, <3>4, ZenonT(30) DEF InOrder
  <2> QED
    BY <2>1, <2>3, <2>4, TakenSlots, ZenonT(30)
<1>6. ASSUME NEW id \in Ids, ChildStep(id) PROVE SlotInv'
  <2>1. UNCHANGED <<toWorker, workerOpen>> /\ \A j \in Ids : kid'[j] = "live" => kid[j] = "live"
    BY <1>1, <1>6, ChildMoves, ZenonT(30)
  <2> QED
    BY <1>1, <1>2, <1>3, <2>1, QuietSlots, ZenonT(30)
<1>7. CASE Crash
  <2>1. toWorker' = <<>> /\ workerOpen' = FALSE /\ kid' = kid
    BY <1>7, ZenonT(30) DEF Crash, workerVars
  <2>2. Len(toWorker') = 0 /\ 0 \in 0..Len(toWorker)
    BY <1>1, <2>1, SMTT(30) DEF TypeOK, SocketTypeOK
  <2>3. AliveAfter(0)' \subseteq AliveAfter(0)
    BY <1>1, <2>1, SMTT(30) DEF AliveAfter, Ids
  <2>4. \A n \in 0..Len(toWorker') : \E m \in 0..Len(toWorker) :
           AliveAfter(n)' \subseteq AliveAfter(m)
    <3>1. \A n \in 0..Len(toWorker') : n = 0
      BY <2>2, SMTT(30)
    <3> QED
      BY <2>2, <2>3, <3>1, ZenonT(30)
  <2>5. FewAlive'
    BY <1>1, <2>1, <2>4, AliveKept, ZenonT(30)
  <2> QED
    BY <1>3, <2>5, ZenonT(30) DEF SlotInv
<1> QED
  BY <1>4, <1>5, <1>6, <1>7, ZenonT(30) DEF WorkerStep, Events, ForwardSome, ChildStep

\* Nobody is served at the start.
LEMMA InitSlots == Init => SlotInv
<1> SUFFICES ASSUME Init PROVE SlotInv
  OBVIOUS
<1>1. /\ pc = [c \in Callers |-> "start"] /\ res = [c \in Callers |-> Empty]
      /\ rx = [id \in Ids |-> Empty] /\ rpc = "read"
      /\ kid = [id \in Ids |-> "none"] /\ toWorker = <<>>
  BY ZenonT(30) DEF Init, ManagerInit, ContractInit, SocketInit
<1>2. Empty.kind = "empty"
  BY Zenon DEF Empty, Failure
<1>3. Holders = {}
  BY <1>1, <1>2, ZenonT(30) DEF Holders, InFlight
<1>4. Slots
  BY <1>1, <1>2, <1>3, FS_EmptySet, PoolAssumption, SMTT(30) DEF Slots
<1>5. Len(toWorker) = 0
  BY <1>1, ZenonT(30)
<1>6. AliveAfter(0) = {}
  BY <1>1 DEF AliveAfter
<1>7. FewAlive
  <2>1. \A n \in 0..Len(toWorker) : n = 0
    BY <1>5
  <2>2. Cardinality(AliveAfter(0)) <= MaxWorkers
    BY <1>6, FS_EmptySet, PoolAssumption, SMTT(30)
  <2> QED
    BY <1>5, <1>6, <2>1, <2>2, ZenonT(30) DEF FewAlive
<1> QED
  BY <1>4, <1>7, ZenonT(30) DEF SlotInv

\* Every step of the pool.
LEMMA NextSlots ==
    ASSUME IInv, WireInv, AnswerInv, SlotInv, [Next]_vars
    PROVE  SlotInv'
<1>1. ASSUME NEW c \in Callers, Dispatched(c), CallStep(c), UNCHANGED workerVars PROVE SlotInv'
  BY <1>1, CheckRunningSlots, CallMovesSlots, WriteRunSlots, ReceiveSlots, WriteKillSlots, ZenonT(30)
     DEF CallStep
<1>2. CASE UNCHANGED vars
  <2>1. UNCHANGED <<running, rx, pc, rid, res, rpc, kid, toWorker, workerOpen>>
    BY <1>2, ZenonT(30) DEF vars, managerVars, callVars, readerVars, workerVars, socketVars
  <2>2. Holders' = Holders
    BY <2>1, SameHolders, ZenonT(30)
  <2>3. Slots'
    BY <2>1, <2>2, SlotsKept, ZenonT(30) DEF SlotInv, Slots
  <2> QED
    BY <2>1, <2>2, <2>3, QuietSlots, ZenonT(30)
<1> QED
  BY <1>1, <1>2, ReaderSlots, WorkerSlots, ZenonT(30) DEF Next

\* Every running sandbox has its place, in every state.
LEMMA PoolSlots == Spec => [](IInv /\ WireInv /\ AnswerInv /\ SlotInv)
<1>1. Init => SlotInv
  BY InitSlots, ZenonT(30)
<1>2. IInv /\ WireInv /\ AnswerInv /\ SlotInv /\ [Next]_vars => SlotInv'
  BY NextSlots, ZenonT(30)
<1> QED
  BY <1>1, <1>2, PoolAnswers, PTL DEF Spec

\* No more sandboxes run at once than the queue has worker tasks, apart from
\* those that broke the output limit: the KILL of a timeout is written before
\* the call gives its place away, so it is taken before the next RUN.
THEOREM SandboxesStayWithinWorkers == Spec => []SandboxesWithinWorkers
<1>1. ASSUME IInv, SlotInv PROVE SandboxesWithinWorkers
  <2> DEFINE S == {id \in Ids : kid[id] = "live" /\ ~BrokeLimit(id)}
  <2>1. S \in SUBSET AliveAfter(0)
    BY DEF AliveAfter, BrokeLimit
  <2>2. Cardinality(AliveAfter(0)) <= MaxWorkers
    <3>1. 0 \in 0..Len(toWorker)
      BY <1>1 DEF IInv, TypeOK, SocketTypeOK
    <3> QED
      BY <1>1, <3>1, ZenonT(30) DEF SlotInv, FewAlive
  <2>3. IsFiniteSet(AliveAfter(0))
    <3>1. IsFiniteSet(Ids)
      BY ProtocolAssumption, FS_Interval, SMTT(30) DEF Ids
    <3>2. AliveAfter(0) \in SUBSET Ids
      BY Zenon DEF AliveAfter
    <3> QED
      BY <3>1, <3>2, FS_Subset, ZenonT(30)
  <2> HIDE DEF S
  <2>4. IsFiniteSet(S) /\ Cardinality(S) <= Cardinality(AliveAfter(0))
    BY <2>1, <2>3, FS_Subset, ZenonT(30)
  <2>5. Cardinality(S) <= MaxWorkers
    BY <2>2, <2>3, <2>4, FS_CardinalityType, PoolAssumption, SMTT(30)
  <2> QED
    BY <2>5, ZenonT(30) DEF SandboxesWithinWorkers, S
<1> QED
  BY PoolSlots, <1>1, PTL
=============================================================================
