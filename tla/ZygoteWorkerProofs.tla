------------------------- MODULE ZygoteWorkerProofs -------------------------
(***************************************************************************)
(* The zygote worker's safety invariants, for any number of requests, fds, *)
(* pids and for any buffer sizes.  The inductive invariant WorkerInv has   *)
(* one part for each thing the loop keeps in step with the kernel: its fd  *)
(* tables, its children, the RUN frames still to be handled, the pipes     *)
(* select() reported, the output counts and the send buffer.               *)
(***************************************************************************)
EXTENDS ZygoteWorker, TLAPS

Frames == [type : Streams \cup {"DONE"}, id : Ids, val : Int]
Pipe == [n : Nat, w : BOOLEAN]
Pipes == [Ids -> [Streams -> Pipe]]
Holding(f, a, b, v) == [f EXCEPT ![a][b].n = v]
Shut(f, a, b) == [f EXCEPT ![a][b].w = FALSE]
Counted(f, a, b, m) == [f EXCEPT ![a] = Forwarded(f[a], b, m)]
Count == [frames : Nat, STDOUT : Nat, STDERR : Nat]
Statuses == {"free", "running", "exiting", "zombie"}

TypeInv ==
    /\ toWorker \in Seq(RequestFrame) /\ recv_buf \in Seq(RequestFrame)
    /\ fromWorker \in Seq(Frames) /\ out \in Seq(Frames)
    /\ Len(fromWorker) <= SockOutCap
    /\ reqs \in [Ids -> [pid : Pids \cup {0}, open : SUBSET Fds]]
    /\ fdt \in [Fds -> (Ids \X Streams) \cup {NoPipe}]
    /\ wpc \in {"select", "ctrl", "frames", "pipes", "wait"}
    /\ todo \subseteq Fds
    /\ waiting \in [id : Ids, pid : Pids] \cup {NoWait}
    /\ pipe \in Pipes
    /\ proc \in [Pids -> [st : Statuses, id : Ids \cup {0}]]
    /\ code \in [Ids -> Int]
    /\ asked \subseteq Ids
    /\ written \in [Ids -> [Streams -> Nat]]
    /\ wrote \in [Ids -> Count]
    /\ fate \in [Ids -> {"none", "forked", "failed", "done"}]

\* No two fds of the worker are read ends of the same pipe.
OwnPipe == \A f, g \in Fds : fdt[f] = fdt[g] /\ fdt[f] # NoPipe => f = g

\* A request has a child exactly while a pipe of it is open; a child that
\* is not reaped is the one its request, or the blocking waitpid, names.
Children ==
    /\ \A id \in Ids :
          /\ reqs[id].pid = 0 <=> reqs[id].open = {}
          /\ reqs[id].pid # 0 =>
                /\ proc[reqs[id].pid].id = id
                /\ proc[reqs[id].pid].st # "free"
                /\ fate[id] = "forked"
                /\ waiting.id # id
    /\ waiting # NoWait =>
          /\ proc[waiting.pid].id = waiting.id
          /\ proc[waiting.pid].st \in {"exiting", "zombie"}
          /\ fate[waiting.id] = "forked"
    /\ waiting # NoWait <=> wpc = "wait"
    /\ \A p \in Pids : proc[p].st # "free" =>
          /\ proc[p].id \in Ids
          /\ \/ reqs[proc[p].id].pid = p
             \/ waiting = [id |-> proc[p].id, pid |-> p]

\* The frames the worker has not handled yet, read or not.
Unseen == recv_buf \o toWorker

\* RUN is handled once: what is unseen is for a request without a fate.
RunsFresh ==
    /\ \A id \in Ids : fate[id] # "none" => id \in asked
    /\ \A i \in 1..Len(Unseen) : Unseen[i].type = "RUN" =>
          /\ Unseen[i].id \in asked
          /\ fate[Unseen[i].id] = "none"
    /\ \A i, j \in 1..Len(Unseen) :
          Unseen[i].type = "RUN" /\ Unseen[j] = Unseen[i] => i = j

\* What select() reported and is not handled yet is still ready.
StillReady ==
    /\ wpc = "select" => todo = {}
    /\ \A fd \in todo : fdt[fd] # NoPipe /\ Ready(fd)

\* Every unit written is forwarded or in its pipe; the note adds one on
\* stderr; only a read error leaves units in a pipe nobody reads.
Accounted ==
    \A id \in Ids :
        /\ wrote[id].STDOUT + pipe[id]["STDOUT"].n = written[id]["STDOUT"]
        /\ \/ wrote[id].STDERR + pipe[id]["STDERR"].n = written[id]["STDERR"]
           \/ /\ wrote[id].STDERR + pipe[id]["STDERR"].n = written[id]["STDERR"] + 1
              /\ fate[id] = "done" \/ waiting.id = id
        /\ \A s \in Streams : pipe[id][s].n # 0 =>
              ReadEndOpen(id, s) \/ (id \in ReadErrors /\ fate[id] \in {"forked", "done"})

\* The frames the rest of this round may still queue, at most one for each
\* of these pairs: a pipe that is ready, the other pipe of a request whose
\* last pipe is ready, the DONE that follows the note.
Credit ==
    {t \in Ids \X Streams :
        \/ \E fd \in todo : fdt[fd] = t \/ reqs[t[1]].open = {fd}
        \/ waiting.id = t[1] /\ t[2] = "STDOUT"}

\* A step queues a frame only where a pair is given up for it, or while the
\* buffer is below its cap.
SpendsCredit ==
    \/ Credit' \subseteq Credit /\ Len(out') <= Len(out)
    \/ \E t \in Credit : Credit' \subseteq Credit \ {t} /\ Len(out') <= Len(out) + 1
    \/ Len(out') < SendCap

WorkerInv ==
    /\ TypeInv /\ FdsAreOwn /\ OwnPipe /\ Children /\ RunsFresh
    /\ StillReady /\ Accounted

-----------------------------------------------------------------------------
(* The send buffer *)

\* The smaller of two integers, as _flush uses it.
LEMMA MinOfTwo ==
    ASSUME NEW a \in Int, NEW b \in Int
    PROVE  /\ Min({a, b}) \in Int
           /\ Min({a, b}) \in {a, b}
           /\ Min({a, b}) <= a /\ Min({a, b}) <= b
<1>1. \E x \in {a, b} : \A y \in {a, b} : x <= y
  <2>1. CASE a <= b
    BY <2>1
  <2>2. CASE b <= a
    BY <2>2
  <2> QED
    BY <2>1, <2>2
<1>2. Min({a, b}) \in {a, b} /\ \A y \in {a, b} : Min({a, b}) <= y
  BY <1>1, Zenon DEF Min
<1> QED
  BY <1>2, Zenon

\* _flush keeps what it does not hand over: the buffer only gets shorter,
\* and the kernel's queue stays within its capacity.
LEMMA TransmitKeeps ==
    ASSUME NEW q \in Seq(Frames), Transmit(q), TypeInv
    PROVE  /\ out' \in Seq(Frames) /\ fromWorker' \in Seq(Frames)
           /\ Len(fromWorker') <= SockOutCap
           /\ Len(out') <= Len(q)
<1> DEFINE k == Min({Len(q), SockOutCap - Len(fromWorker)})
<1>1. /\ SockOutCap \in Nat /\ fromWorker \in Seq(Frames)
      /\ Len(fromWorker) <= SockOutCap
  BY WorkerAssumption, Zenon DEF TypeInv
<1>2. Len(q) \in Nat /\ SockOutCap - Len(fromWorker) \in Nat
  BY <1>1
<1>3. k \in 0..Len(q) /\ k <= SockOutCap - Len(fromWorker)
  <2>1. /\ k \in {Len(q), SockOutCap - Len(fromWorker)}
        /\ k <= Len(q) /\ k <= SockOutCap - Len(fromWorker)
    <3> DEFINE a == Len(q)
               b == SockOutCap - Len(fromWorker)
    <3>1. a \in Int /\ b \in Int
      BY <1>2
    <3> HIDE DEF a, b
    <3>2. Min({a, b}) \in {a, b} /\ Min({a, b}) <= a /\ Min({a, b}) <= b
      BY <3>1, MinOfTwo, Zenon
    <3> QED
      BY <3>2, Zenon DEF a, b
  <2> HIDE DEF k
  <2> QED
    BY <1>2, <2>1
<1>4. fromWorker' = fromWorker \o SubSeq(q, 1, k) /\ out' = SubSeq(q, k + 1, Len(q))
  BY Zenon DEF Transmit
<1> HIDE DEF k
<1>5. SubSeq(q, 1, k) \in Seq(Frames) /\ Len(SubSeq(q, 1, k)) = k
  BY <1>3
<1>6. SubSeq(q, k + 1, Len(q)) \in Seq(Frames) /\ Len(SubSeq(q, k + 1, Len(q))) = Len(q) - k
  BY <1>3
<1> QED
  BY <1>1, <1>3, <1>4, <1>5, <1>6

\* _send queues one frame at most: the buffer grows by no more than that.
LEMMA SendKeeps ==
    ASSUME NEW t \in Streams \cup {"DONE"}, NEW id \in Ids, NEW v \in Int,
           Send(t, id, v), TypeInv
    PROVE  /\ out' \in Seq(Frames) /\ fromWorker' \in Seq(Frames)
           /\ Len(fromWorker') <= SockOutCap
           /\ Len(out') <= Len(out) + 1
<1> DEFINE q == Append(out, Reply(t, id, v))
<1>1. Reply(t, id, v) \in Frames
  BY Zenon DEF Reply, Frames
<1>2. q \in Seq(Frames) /\ Len(q) = Len(out) + 1
  BY <1>1 DEF TypeInv
<1>3. Transmit(q)
  BY Zenon DEF Send
<1> HIDE DEF q
<1> QED
  BY <1>2, <1>3, TransmitKeeps, Zenon

-----------------------------------------------------------------------------
(* What keeps each part of the invariant *)

\* Handling some pipes, or none, adds no credit.
LEMMA CreditShrinks ==
    ASSUME todo' \subseteq todo, UNCHANGED <<fdt, reqs, waiting>>
    PROVE  Credit' \subseteq Credit
BY Zenon DEF Credit, Ids

\* The tables of fds are only touched by a fork and a teardown.
LEMMA SameFds ==
    ASSUME FdsAreOwn, OwnPipe, UNCHANGED <<fdt, fd_map, reqs>>
    PROVE  FdsAreOwn' /\ OwnPipe'
BY Zenon DEF FdsAreOwn, OwnPipe, Ids, NoPipe

\* A process that moves on towards its end stays its request's child.
LEMMA SameChildren ==
    ASSUME TypeInv, Children, UNCHANGED <<reqs, waiting, fate>>,
           waiting # NoWait <=> wpc' = "wait",
           \A p \in Pids : /\ proc'[p].id = proc[p].id
                           /\ proc'[p].st = "free" <=> proc[p].st = "free"
                           /\ proc[p].st \in {"exiting", "zombie"} =>
                                 proc'[p].st \in {"exiting", "zombie"}
    PROVE  Children'
<1>1. ASSUME NEW id \in Ids, reqs[id].pid # 0
      PROVE  reqs[id].pid \in Pids
  BY <1>1, Zenon DEF TypeInv
<1>2. waiting # NoWait => waiting.pid \in Pids
  BY Zenon DEF TypeInv
<1> QED
  BY <1>1, <1>2 DEF Children, Ids, NoWait

\* A step that moves no RUN frame and no request out of "none".
LEMMA SameRuns ==
    ASSUME RunsFresh, Unseen' = Unseen, asked' = asked,
           \A id \in Ids : fate'[id] = fate[id] \/ fate[id] # "none",
           TypeInv
    PROVE  RunsFresh'
<1>1. ASSUME NEW i \in 1..Len(Unseen), Unseen[i].type = "RUN"
      PROVE  Unseen[i].id \in asked /\ fate'[Unseen[i].id] = "none"
  BY <1>1, Zenon DEF RunsFresh, TypeInv
<1>2. ASSUME NEW id \in Ids, fate'[id] # "none"
      PROVE  id \in asked'
  BY <1>2, Zenon DEF RunsFresh
<1> QED
  BY <1>1, <1>2, ZenonT(30) DEF RunsFresh, Ids

\* A pipe stays ready while it loses no data and gains no writer.
LEMMA SameReady ==
    ASSUME StillReady, TypeInv, TypeInv', todo' \subseteq todo,
           wpc' = "select" => todo' = {},
           \A fd \in todo' :
              LET id == fdt[fd][1]
                  s == fdt[fd][2]
              IN  /\ fdt'[fd] = fdt[fd]
                  /\ pipe[id][s].n > 0 => pipe'[id][s].n > 0
                  /\ ~pipe[id][s].w => ~pipe'[id][s].w
    PROVE  StillReady'
<1>1. ASSUME NEW fd \in todo'
      PROVE  fdt'[fd] # NoPipe /\ Ready(fd)'
  BY <1>1, Zenon DEF StillReady, Ready
<1> QED
  BY <1>1, Zenon DEF StillReady, NoPipe

\* A step that neither reads nor writes a pipe, and ends no request.
LEMMA SameCounts ==
    ASSUME Accounted, UNCHANGED <<wrote, written, fate, waiting, fdt>>,
           \A id \in Ids, s \in Streams : pipe'[id][s].n = pipe[id][s].n
    PROVE  Accounted'
<1>1. \A id \in Ids : /\ pipe'[id]["STDOUT"].n = pipe[id]["STDOUT"].n
                      /\ pipe'[id]["STDERR"].n = pipe[id]["STDERR"].n
  BY Zenon DEF Streams
<1>2. \A id, s : ReadEndOpen(id, s)' <=> ReadEndOpen(id, s)
  BY Zenon DEF ReadEndOpen
<1> QED
  BY <1>1, <1>2 DEF Accounted, Ids

-----------------------------------------------------------------------------
(* The manager and the frames in flight *)

\* The worker has handled nothing, and there is nothing to handle.
LEMMA InitWorker == Init => WorkerInv
<1> SUFFICES ASSUME Init PROVE WorkerInv
  OBVIOUS
<1> USE DEF Init, SocketInit
<1>1. TypeInv
  <2>1. <<>> \in Seq(RequestFrame) /\ <<>> \in Seq(Frames) /\ Len(<<>>) = 0
    OBVIOUS
  <2>2. /\ NoReq \in [pid : Pids \cup {0}, open : SUBSET Fds]
        /\ FreePid \in [st : Statuses, id : Ids \cup {0}]
        /\ [n |-> 0, w |-> FALSE] \in Pipe
        /\ [frames |-> 0, STDOUT |-> 0, STDERR |-> 0] \in Count
    BY Zenon DEF NoReq, FreePid, Statuses, Pipe, Count
  <2> QED
    BY <2>1, <2>2, WorkerAssumption DEF TypeInv, Pipes
<1>2. FdsAreOwn /\ OwnPipe
  BY DEF FdsAreOwn, OwnPipe, NoPipe, NoReq, Ids
<1>3. Children
  BY Zenon DEF Children, NoReq, FreePid, NoWait
<1>4. RunsFresh
  BY DEF RunsFresh, Unseen
<1>5. StillReady
  BY Zenon DEF StillReady
<1>6. Accounted
  BY DEF Accounted, Streams
<1> QED
  BY <1>1, <1>2, <1>3, <1>4, <1>5, <1>6, Zenon DEF WorkerInv

\* A frame written by the manager comes after all that is unseen.
LEMMA UnseenGrows ==
    ASSUME TypeInv, NEW f \in RequestFrame,
           toWorker' = Append(toWorker, f), recv_buf' = recv_buf
    PROVE  /\ Unseen \in Seq(RequestFrame) /\ Unseen' \in Seq(RequestFrame)
           /\ Len(Unseen') = Len(Unseen) + 1
           /\ \A i \in 1..Len(Unseen) : Unseen'[i] = Unseen[i]
           /\ Unseen'[Len(Unseen) + 1] = f
<1>1. recv_buf \in Seq(RequestFrame) /\ toWorker \in Seq(RequestFrame)
  BY Zenon DEF TypeInv
<1> QED
  BY <1>1 DEF Unseen

\* Where recv cuts the stream does not matter.
LEMMA Regrouped ==
    ASSUME NEW S, NEW r \in Seq(S), NEW t \in Seq(S), NEW k \in 0..Len(t)
    PROVE  /\ (r \o SubSeq(t, 1, k)) \o SubSeq(t, k + 1, Len(t)) = r \o t
           /\ r \o SubSeq(t, 1, k) \in Seq(S)
           /\ SubSeq(t, k + 1, Len(t)) \in Seq(S)
<1>1. SubSeq(t, 1, k) \in Seq(S) /\ SubSeq(t, k + 1, Len(t)) \in Seq(S)
  OBVIOUS
<1>2. SubSeq(t, 1, k) \o SubSeq(t, k + 1, Len(t)) = t
  <2> DEFINE c == SubSeq(t, 1, k)
             d == SubSeq(t, k + 1, Len(t))
  <2>1. /\ c \in Seq(S) /\ Len(c) = k /\ \A j \in 1..k : c[j] = t[j]
        /\ d \in Seq(S) /\ Len(d) = Len(t) - k /\ \A j \in 1..Len(t)-k : d[j] = t[k + j]
    OBVIOUS
  <2> HIDE DEF c, d
  <2>2. /\ c \o d \in Seq(S) /\ Len(c \o d) = Len(t)
        /\ \A j \in 1..k : (c \o d)[j] = c[j]
        /\ \A j \in k+1..Len(t) : (c \o d)[j] = d[j - k]
    BY <2>1, SMTT(30)
  <2>3. ASSUME NEW j \in 1..Len(t) PROVE (c \o d)[j] = t[j]
    <3>1. CASE j \in 1..k
      BY <2>1, <2>2, <3>1, Zenon
    <3>2. CASE ~(j \in 1..k)
      <4>0. j \in k+1..Len(t)
        BY <3>2
      <4>1. PICK i \in 1..Len(t)-k : i = j - k /\ k + i = j
        BY <4>0
      <4> QED
        BY <2>1, <2>2, <4>0, <4>1, Zenon
    <3> QED
      BY <3>1, <3>2, Zenon
  <2> DEFINE z == c \o d
  <2>4. z \in Seq(S) /\ Len(z) = Len(t) /\ \A j \in 1..Len(t) : z[j] = t[j]
    BY <2>2, <2>3, Zenon
  <2> HIDE DEF z
  <2>5. z = t
    BY <2>4, SMTT(30)
  <2> QED
    BY <2>5, Zenon DEF c, d, z
<1>3. PICK a, b : /\ a = SubSeq(t, 1, k) /\ b = SubSeq(t, k + 1, Len(t))
                  /\ a \in Seq(S) /\ b \in Seq(S)
  BY <1>1, ZenonT(30)
<1>4. a \in Seq(S) /\ b \in Seq(S) /\ r \in Seq(S)
  BY <1>3, Zenon
<1>5. (r \o a) \o b = r \o (a \o b)
  BY ONLY <1>4, SMTT(30)
<1>6. r \o a \in Seq(S)
  BY ONLY <1>4
<1>7. a \o b = t
  BY <1>2, <1>3, Zenon
<1> QED
  BY <1>3, <1>5, <1>6, <1>7, ZenonT(30)

\* _read_ctrl_frames moves frames from the socket into the buffer.
LEMMA UnseenMoves ==
    ASSUME TypeInv, NEW k \in 1..Len(toWorker),
           recv_buf' = recv_buf \o SubSeq(toWorker, 1, k),
           toWorker' = SubSeq(toWorker, k + 1, Len(toWorker))
    PROVE  /\ Unseen' = Unseen
           /\ recv_buf' \in Seq(RequestFrame) /\ toWorker' \in Seq(RequestFrame)
<1>1. /\ recv_buf \in Seq(RequestFrame) /\ toWorker \in Seq(RequestFrame)
      /\ k \in 0..Len(toWorker)
  BY DEF TypeInv
<1>2. /\ (recv_buf \o SubSeq(toWorker, 1, k)) \o SubSeq(toWorker, k + 1, Len(toWorker))
            = recv_buf \o toWorker
      /\ recv_buf \o SubSeq(toWorker, 1, k) \in Seq(RequestFrame)
      /\ SubSeq(toWorker, k + 1, Len(toWorker)) \in Seq(RequestFrame)
  BY <1>1, Regrouped, ZenonT(30)
<1> QED
  BY <1>2, ZenonT(30) DEF Unseen

\* A frame taken from the head of the buffer leaves the others in order.
LEMMA UnseenTaken ==
    ASSUME TypeInv, recv_buf # <<>>, recv_buf' = Tail(recv_buf), toWorker' = toWorker
    PROVE  /\ Unseen \in Seq(RequestFrame) /\ Unseen' \in Seq(RequestFrame)
           /\ recv_buf' \in Seq(RequestFrame)
           /\ Len(Unseen') = Len(Unseen) - 1
           /\ \A i \in 1..Len(Unseen') : Unseen'[i] = Unseen[i + 1]
           /\ 1 \in 1..Len(Unseen) /\ Unseen[1] = Head(recv_buf)
<1>1. /\ recv_buf \in Seq(RequestFrame) /\ toWorker \in Seq(RequestFrame)
      /\ Len(recv_buf) >= 1
  BY DEF TypeInv
<1>2. /\ recv_buf' \in Seq(RequestFrame) /\ Len(recv_buf') = Len(recv_buf) - 1
      /\ \A i \in 1..Len(recv_buf') : recv_buf'[i] = recv_buf[i + 1]
  BY <1>1
<1>3. Unseen \in Seq(RequestFrame) /\ Unseen' \in Seq(RequestFrame)
  BY <1>1, <1>2 DEF Unseen
<1>4. Len(Unseen') = Len(Unseen) - 1
  BY <1>1, <1>2 DEF Unseen
<1>5. ASSUME NEW i \in 1..Len(Unseen')
      PROVE  Unseen'[i] = Unseen[i + 1]
  BY <1>1, <1>2 DEF Unseen
<1>6. 1 \in 1..Len(Unseen) /\ Unseen[1] = Head(recv_buf)
  BY <1>1 DEF Unseen
<1> QED
  BY <1>2, <1>3, <1>4, <1>5, <1>6, Zenon

\* Taking a KILL, or the RUN of a request that gets its fate, keeps what
\* is left fresh.
LEMMA TakenRuns ==
    ASSUME TypeInv, RunsFresh, recv_buf # <<>>, recv_buf' = Tail(recv_buf),
           toWorker' = toWorker, asked' = asked,
           NEW id \in Ids,
           \A j \in Ids : fate'[j] # fate[j] => j = id,
           fate' # fate => Head(recv_buf) = Request("RUN", id)
    PROVE  RunsFresh'
<1>1. /\ Len(Unseen') = Len(Unseen) - 1 /\ Len(Unseen) \in Nat
      /\ Unseen \in Seq(RequestFrame)
      /\ \A i \in 1..Len(Unseen') : Unseen'[i] = Unseen[i + 1]
      /\ 1 \in 1..Len(Unseen) /\ Unseen[1] = Head(recv_buf)
  BY UnseenTaken
<1>2. \A i \in 1..Len(Unseen') : i + 1 \in 1..Len(Unseen)
  BY <1>1
<1>3. ASSUME NEW i \in 1..Len(Unseen'), Unseen'[i].type = "RUN"
      PROVE  Unseen'[i].id \in asked /\ fate'[Unseen'[i].id] = "none"
  <2>1. /\ Unseen[i + 1].type = "RUN" /\ i + 1 \in 1..Len(Unseen)
        /\ Unseen'[i] = Unseen[i + 1] /\ Unseen[i + 1] \in RequestFrame
    BY <1>1, <1>2, <1>3
  <2>2. /\ Unseen[i + 1].id \in asked /\ Unseen[i + 1].id \in Ids
        /\ fate[Unseen[i + 1].id] = "none"
    BY <2>1, Zenon DEF RunsFresh, RequestFrame
  <2>3. CASE fate' = fate
    BY <2>1, <2>2, <2>3, Zenon
  <2>4. CASE fate' # fate
    <3>1. Unseen[1] = Request("RUN", id)
      BY <1>1, <2>4, Zenon
    <3>2. Unseen[i + 1] # Unseen[1]
      BY <1>1, <2>1 DEF RunsFresh
    <3>3. Unseen[i + 1] = Request("RUN", Unseen[i + 1].id)
      BY <2>1, Zenon DEF RequestFrame, Request
    <3>4. Unseen[i + 1].id # id
      BY <3>1, <3>2, <3>3, Zenon
    <3> QED
      BY <2>1, <2>2, <3>4, Zenon
  <2> QED
    BY <2>3, <2>4, Zenon
<1>4. ASSUME NEW i \in 1..Len(Unseen'), NEW j \in 1..Len(Unseen'),
             Unseen'[i].type = "RUN", Unseen'[j] = Unseen'[i]
      PROVE  i = j
  <2>1. Unseen[i + 1].type = "RUN" /\ Unseen[j + 1] = Unseen[i + 1]
    BY <1>1, <1>4, Zenon
  <2>2. i + 1 = j + 1
    BY <1>2, <2>1, Zenon DEF RunsFresh
  <2> QED
    BY <2>2
<1>5. ASSUME NEW j \in Ids, fate'[j] # "none"
      PROVE  j \in asked
  <2>1. CASE fate'[j] = fate[j]
    BY <1>5, <2>1, Zenon DEF RunsFresh
  <2>2. CASE fate'[j] # fate[j]
    <3>1. Unseen[1] = Request("RUN", j)
      BY <1>1, <2>2, Zenon
    <3>2. Unseen[1].type = "RUN" /\ Unseen[1].id = j
      BY <3>1 DEF Request
    <3> QED
      BY <1>1, <3>2, Zenon DEF RunsFresh
  <2> QED
    BY <2>1, <2>2, Zenon
<1> QED
  BY <1>3, <1>4, <1>5, Zenon DEF RunsFresh, Ids

-----------------------------------------------------------------------------
(* The steps of the manager *)

\* A step that only moves frames on the socket, and a RUN only if it is the
\* first of its request, keeps the invariant.
LEMMA SocketOnly ==
    ASSUME WorkerInv, RunsFresh', asked' \subseteq Ids,
           toWorker' \in Seq(RequestFrame), fromWorker' \in Seq(Frames),
           Len(fromWorker') <= SockOutCap,
           UNCHANGED <<loopVars, kernelVars, written, wrote, fate>>
    PROVE  WorkerInv' /\ SpendsCredit
<1> USE DEF loopVars, kernelVars
<1>1. TypeInv'
  BY Zenon DEF WorkerInv, TypeInv
<1>2. FdsAreOwn' /\ OwnPipe'
  BY SameFds, Zenon DEF WorkerInv
<1>3. Children'
  BY SameChildren, Zenon DEF WorkerInv, Children
<1>4. StillReady'
  BY <1>1, SameReady, ZenonT(30) DEF WorkerInv, StillReady
<1>5. Accounted'
  BY SameCounts, Zenon DEF WorkerInv
<1>6. SpendsCredit
  BY CreditShrinks DEF WorkerInv, TypeInv, SpendsCredit
<1> QED
  BY <1>1, <1>2, <1>3, <1>4, <1>5, <1>6, Zenon DEF WorkerInv

\* ZygoteManager.run_request sends RUN for a fresh req_id.
LEMMA ManagerRunKeeps ==
    ASSUME WorkerInv, NEW id \in Ids, ManagerRun(id)
    PROVE  WorkerInv' /\ SpendsCredit
<1> DEFINE f == Request("RUN", id)
<1>1. f \in RequestFrame /\ f.type = "RUN" /\ f.id = id
  BY Zenon DEF RequestFrame, Request
<1>2. /\ id \notin asked /\ asked' = asked \cup {id}
      /\ toWorker' = Append(toWorker, f) /\ UNCHANGED <<fromWorker, recv_buf, fate>>
      /\ UNCHANGED <<loopVars, kernelVars, written, wrote, fate>>
  BY Zenon DEF ManagerRun, SendRequest, loopVars
<1> HIDE DEF f
<1>3. TypeInv /\ RunsFresh
  BY Zenon DEF WorkerInv
<1>4. /\ Unseen \in Seq(RequestFrame) /\ Len(Unseen') = Len(Unseen) + 1
      /\ \A i \in 1..Len(Unseen) : Unseen'[i] = Unseen[i]
      /\ Unseen'[Len(Unseen) + 1] = f
  BY <1>1, <1>2, <1>3, UnseenGrows, Zenon
<1>5. fate[id] = "none"
  BY <1>2, <1>3, Zenon DEF RunsFresh
<1>6. RunsFresh'
  <2>1. ASSUME NEW i \in 1..Len(Unseen'), Unseen'[i].type = "RUN"
        PROVE  Unseen'[i].id \in asked' /\ fate'[Unseen'[i].id] = "none"
    BY <1>1, <1>2, <1>3, <1>4, <1>5, <2>1 DEF RunsFresh
  <2>2. ASSUME NEW i \in 1..Len(Unseen'), NEW j \in 1..Len(Unseen'),
               Unseen'[i].type = "RUN", Unseen'[j] = Unseen'[i]
        PROVE  i = j
    <3>1. ASSUME NEW m \in 1..Len(Unseen) PROVE Unseen[m] # f
      BY <1>1, <1>2, <1>3, Zenon DEF RunsFresh
    <3>2. \A m \in 1..Len(Unseen') : m \in 1..Len(Unseen) \/ m = Len(Unseen) + 1
      BY <1>4
    <3> QED
      BY <1>3, <1>4, <2>2, <3>1, <3>2 DEF RunsFresh
  <2>3. ASSUME NEW j \in Ids, fate'[j] # "none"
        PROVE  j \in asked'
    BY <1>2, <1>3, <2>3, Zenon DEF RunsFresh
  <2> QED
    BY <2>1, <2>2, <2>3, Zenon DEF RunsFresh, Ids
<1>7. toWorker' \in Seq(RequestFrame) /\ asked' \subseteq Ids
  BY <1>1, <1>2, <1>3 DEF TypeInv
<1>8. fromWorker' \in Seq(Frames) /\ Len(fromWorker') <= SockOutCap
  BY <1>2, <1>3, Zenon DEF TypeInv
<1> QED
  BY <1>2, <1>6, <1>7, <1>8, SocketOnly, Zenon

\* KILL may be sent at any time, and any number of times.
LEMMA ManagerKillKeeps ==
    ASSUME WorkerInv, NEW id \in Ids, ManagerKill(id)
    PROVE  WorkerInv' /\ SpendsCredit
<1> DEFINE f == Request("KILL", id)
<1>1. f \in RequestFrame /\ f.type = "KILL"
  BY Zenon DEF RequestFrame, Request
<1>2. /\ asked' = asked
      /\ toWorker' = Append(toWorker, f) /\ UNCHANGED <<fromWorker, recv_buf, fate>>
      /\ UNCHANGED <<loopVars, kernelVars, written, wrote, fate>>
  BY Zenon DEF ManagerKill, SendRequest, loopVars
<1> HIDE DEF f
<1>3. TypeInv /\ RunsFresh
  BY Zenon DEF WorkerInv
<1>4. /\ Unseen \in Seq(RequestFrame) /\ Len(Unseen') = Len(Unseen) + 1
      /\ \A i \in 1..Len(Unseen) : Unseen'[i] = Unseen[i]
      /\ Unseen'[Len(Unseen) + 1] = f
  BY <1>1, <1>2, <1>3, UnseenGrows, Zenon
<1>5. RunsFresh'
  <2>1. ASSUME NEW i \in 1..Len(Unseen'), Unseen'[i].type = "RUN"
        PROVE  i \in 1..Len(Unseen) /\ Unseen[i] = Unseen'[i]
    BY <1>1, <1>4, <2>1
  <2> QED
    BY <1>2, <1>3, <2>1, SMTT(30) DEF RunsFresh, Ids
<1>6. toWorker' \in Seq(RequestFrame) /\ asked' \subseteq Ids
  BY <1>1, <1>2, <1>3 DEF TypeInv
<1>7. fromWorker' \in Seq(Frames) /\ Len(fromWorker') <= SockOutCap
  BY <1>2, <1>3, Zenon DEF TypeInv
<1> QED
  BY <1>2, <1>5, <1>6, <1>7, SocketOnly, Zenon

\* The manager's reader takes a frame off the socket.
LEMMA ManagerReadKeeps ==
    ASSUME WorkerInv, ManagerRead
    PROVE  WorkerInv' /\ SpendsCredit
<1>1. /\ fromWorker # <<>> /\ fromWorker' = Tail(fromWorker)
      /\ UNCHANGED <<toWorker, recv_buf, asked, fate>>
      /\ UNCHANGED <<loopVars, kernelVars, written, wrote, fate>>
  BY Zenon DEF ManagerRead, loopVars, histVars
<1>2. TypeInv /\ RunsFresh
  BY Zenon DEF WorkerInv
<1>3. Unseen' = Unseen
  BY <1>1, Zenon DEF Unseen
<1>4. RunsFresh'
  BY <1>1, <1>2, <1>3, SameRuns, Zenon
<1>5. fromWorker' \in Seq(Frames) /\ Len(fromWorker') <= SockOutCap
  <2>1. /\ fromWorker \in Seq(Frames) /\ Len(fromWorker) <= SockOutCap
        /\ SockOutCap \in Nat
    BY <1>2, WorkerAssumption, Zenon DEF TypeInv
  <2> QED
    BY <1>1, <2>1
<1>6. toWorker' \in Seq(RequestFrame) /\ asked' \subseteq Ids
  BY <1>1, <1>2, Zenon DEF TypeInv
<1> QED
  BY <1>1, <1>4, <1>5, <1>6, SocketOnly, Zenon

-----------------------------------------------------------------------------
(* The steps of the children *)

\* A child, or a signal to it, moves its process on and shuts its pipes for
\* writing; the requests, the fds and what is buffered stay as they are.
LEMMA ChildOnly ==
    ASSUME WorkerInv, TypeInv', RunsFresh', Accounted',
           UNCHANGED <<out, reqs, fd_map, wpc, todo, waiting, fdt, fate>>,
           \A p \in Pids : /\ proc'[p].id = proc[p].id
                           /\ proc'[p].st = "free" <=> proc[p].st = "free"
                           /\ proc[p].st \in {"exiting", "zombie"} =>
                                 proc'[p].st \in {"exiting", "zombie"},
           \A id \in Ids, s \in Streams :
              /\ pipe[id][s].n > 0 => pipe'[id][s].n > 0
              /\ ~pipe[id][s].w => ~pipe'[id][s].w
    PROVE  WorkerInv' /\ SpendsCredit
<1>1. FdsAreOwn' /\ OwnPipe'
  BY SameFds, Zenon DEF WorkerInv
<1>2. Children'
  BY SameChildren, ZenonT(30) DEF WorkerInv, Children
<1>3. \A fd \in todo : fdt[fd][1] \in Ids /\ fdt[fd][2] \in Streams
  BY Zenon DEF WorkerInv, StillReady, TypeInv
<1>4. StillReady'
  <2>1. StillReady /\ TypeInv /\ todo' = todo /\ fdt' = fdt /\ wpc' = wpc
    BY Zenon DEF WorkerInv
  <2>2. wpc' = "select" => todo' = {}
    BY <2>1, Zenon DEF StillReady
  <2> QED
    BY <1>3, <2>1, <2>2, SameReady, Zenon
<1>5. SpendsCredit
  <2>1. Credit' \subseteq Credit
    BY CreditShrinks, Zenon
  <2>2. Len(out') \in Nat /\ Len(out') <= Len(out)
    BY DEF WorkerInv, TypeInv
  <2> QED
    BY <2>1, <2>2, Zenon DEF SpendsCredit
<1> QED
  BY <1>1, <1>2, <1>4, <1>5, Zenon DEF WorkerInv

\* A process that is not free has a request.
LEMMA ChildHasRequest ==
    ASSUME TypeInv, Children, NEW p \in Pids, proc[p].st # "free"
    PROVE  proc[p].id \in Ids
BY ZenonT(30) DEF Children

\* A pipe whose contents change keeps its writers, and the others stay.
LEMMA PipeContents ==
    ASSUME NEW f \in Pipes, NEW a \in Ids, NEW b \in Streams, NEW v \in Nat,
           NEW g, g = Holding(f, a, b, v)
    PROVE  /\ g \in Pipes
           /\ g[a][b].n = v
           /\ \A i \in Ids, r \in Streams :
                 /\ g[i][r].w = f[i][r].w
                 /\ i # a \/ r # b => g[i][r].n = f[i][r].n
<1>1. f[a][b] \in Pipe
  BY Zenon DEF Pipes
<1>2. PICK c : c = [f[a][b] EXCEPT !.n = v]
  OBVIOUS
<1>3. c \in Pipe /\ c.n = v /\ c.w = f[a][b].w
  BY <1>1, <1>2, Zenon DEF Pipe
<1>4. PICK d : d = [f[a] EXCEPT ![b] = c]
  OBVIOUS
<1>5. d \in [Streams -> Pipe] /\ d[b] = c /\ \A r \in Streams : r # b => d[r] = f[a][r]
  BY <1>3, <1>4, Zenon DEF Pipes
<1>6. g = [f EXCEPT ![a] = d]
  BY <1>2, <1>4, Zenon DEF Holding
<1>7. g \in Pipes /\ g[a] = d /\ \A i \in Ids : i # a => g[i] = f[i]
  BY <1>5, <1>6, Zenon DEF Pipes
<1> QED
  BY <1>3, <1>5, <1>7

\* A pipe that is shut for writing keeps its contents, and the others stay.
LEMMA PipeShut ==
    ASSUME NEW f \in Pipes, NEW a \in Ids, NEW b \in Streams,
           NEW g, g = Shut(f, a, b)
    PROVE  /\ g \in Pipes
           /\ ~g[a][b].w
           /\ \A i \in Ids, r \in Streams :
                 /\ g[i][r].n = f[i][r].n
                 /\ i # a \/ r # b => g[i][r].w = f[i][r].w
<1>1. f[a][b] \in Pipe
  BY Zenon DEF Pipes
<1>2. PICK c : c = [f[a][b] EXCEPT !.w = FALSE]
  OBVIOUS
<1>3. c \in Pipe /\ c.n = f[a][b].n /\ ~c.w
  BY <1>1, <1>2, ZenonT(30) DEF Pipe
<1>4. PICK d : d = [f[a] EXCEPT ![b] = c]
  OBVIOUS
<1>5. d \in [Streams -> Pipe] /\ d[b] = c /\ \A r \in Streams : r # b => d[r] = f[a][r]
  BY <1>3, <1>4, Zenon DEF Pipes
<1>6. g = [f EXCEPT ![a] = d]
  BY <1>2, <1>4, Zenon DEF Shut
<1>7. g \in Pipes /\ g[a] = d /\ \A i \in Ids : i # a => g[i] = f[i]
  BY <1>5, <1>6, Zenon DEF Pipes
<1> QED
  BY <1>3, <1>5, <1>7, Zenon

\* A write adds a unit to the pipe and to what the child has written.
LEMMA ChildWriteKeeps ==
    ASSUME WorkerInv, NEW p \in Pids, NEW s \in Streams, ChildWrite(p, s)
    PROVE  WorkerInv' /\ SpendsCredit
<1> DEFINE id == proc[p].id
<1>1. TypeInv /\ RunsFresh /\ Children /\ Accounted
  BY Zenon DEF WorkerInv
<1>2. /\ proc[p].st = "running" /\ ReadEndOpen(id, s)
      /\ pipe' = [pipe EXCEPT ![id][s].n = @ + 1]
      /\ written' = [written EXCEPT ![id][s] = @ + 1]
      /\ UNCHANGED <<toWorker, fromWorker, recv_buf, out, reqs, fd_map, wpc, todo,
                     waiting, fdt, proc, code, asked, wrote, fate>>
  BY Zenon DEF ChildWrite, socketVars, loopVars
<1>3. id \in Ids
  BY <1>1, <1>2, ChildHasRequest, Zenon
<1> HIDE DEF id
<1>4. \A i \in Ids, r \in Streams :
         /\ pipe[i][r].n \in Nat /\ pipe[i][r].w \in BOOLEAN /\ written[i][r] \in Nat
         /\ pipe'[i][r].n = (IF i = id /\ r = s THEN pipe[i][r].n + 1 ELSE pipe[i][r].n)
         /\ pipe'[i][r].w = pipe[i][r].w
         /\ written'[i][r] = (IF i = id /\ r = s THEN written[i][r] + 1 ELSE written[i][r])
  <2>1. pipe \in Pipes /\ pipe[id][s].n + 1 \in Nat
    BY <1>1, <1>3 DEF TypeInv, Pipes, Pipe
  <2>2. /\ pipe'[id][s].n = pipe[id][s].n + 1
        /\ \A i \in Ids, r \in Streams :
              /\ pipe'[i][r].w = pipe[i][r].w
              /\ i # id \/ r # s => pipe'[i][r].n = pipe[i][r].n
    <3>1. PICK v \in Nat : v = pipe[id][s].n + 1
      BY <2>1, Zenon
    <3>2. pipe' = Holding(pipe, id, s, v)
      BY <1>2, <3>1, Zenon DEF Holding
    <3>3. /\ pipe'[id][s].n = v
          /\ \A i \in Ids, r \in Streams :
                /\ pipe'[i][r].w = pipe[i][r].w
                /\ i # id \/ r # s => pipe'[i][r].n = pipe[i][r].n
      <4>1. pipe \in Pipes
        BY <2>1, Zenon
      <4> QED
        BY <1>3, <3>2, <4>1, PipeContents, SMTT(30)
    <3> QED
      BY <3>1, <3>3, Zenon
  <2>3. \A i \in Ids, r \in Streams :
           written'[i][r] = (IF i = id /\ r = s THEN written[i][r] + 1 ELSE written[i][r])
    BY <1>1, <1>2, <1>3, Zenon DEF TypeInv
  <2>4. \A i \in Ids, r \in Streams :
           pipe[i][r].n \in Nat /\ pipe[i][r].w \in BOOLEAN /\ written[i][r] \in Nat
    BY <1>1 DEF TypeInv, Pipes, Pipe
  <2> QED
    BY <2>2, <2>3, <2>4, ZenonT(30)
<1>5. TypeInv'
  <2>1. pipe' \in Pipes
    <3>1. pipe \in Pipes /\ pipe[id][s].n + 1 \in Nat
      BY <1>1, <1>3 DEF TypeInv, Pipes, Pipe
    <3>2. PICK v \in Nat : v = pipe[id][s].n + 1
      BY <3>1, Zenon
    <3>3. pipe' = Holding(pipe, id, s, v)
      BY <1>2, <3>2, Zenon DEF Holding
    <3> QED
      BY <1>3, <3>1, <3>3, PipeContents, ZenonT(30)
  <2>2. written' \in [Ids -> [Streams -> Nat]]
    BY <1>1, <1>2, <1>3 DEF TypeInv
  <2> QED
    BY <1>1, <1>2, <2>1, <2>2, Zenon DEF TypeInv
<1>6. RunsFresh'
  BY <1>1, <1>2, SameRuns, Zenon DEF Unseen
<1>7. Accounted'
  <2>1. \A i, r : ReadEndOpen(i, r)' <=> ReadEndOpen(i, r)
    BY <1>2, Zenon DEF ReadEndOpen
  <2>2. \A i \in Ids : wrote[i].STDOUT \in Nat /\ wrote[i].STDERR \in Nat
    BY <1>1, Zenon DEF TypeInv, Count
  <2>3. "STDOUT" \in Streams /\ "STDERR" \in Streams
    BY ZenonT(30) DEF Streams
  <2>4. ASSUME NEW i \in Ids
        PROVE  /\ wrote[i].STDOUT + pipe'[i]["STDOUT"].n = written'[i]["STDOUT"]
               /\ \/ wrote[i].STDERR + pipe'[i]["STDERR"].n = written'[i]["STDERR"]
                  \/ /\ wrote[i].STDERR + pipe'[i]["STDERR"].n = written'[i]["STDERR"] + 1
                     /\ fate[i] = "done" \/ waiting.id = i
    <3>1. /\ pipe[i]["STDOUT"].n \in Nat /\ written[i]["STDOUT"] \in Nat
          /\ \/ pipe'[i]["STDOUT"].n = pipe[i]["STDOUT"].n /\ written'[i]["STDOUT"] = written[i]["STDOUT"]
             \/ pipe'[i]["STDOUT"].n = pipe[i]["STDOUT"].n + 1 /\ written'[i]["STDOUT"] = written[i]["STDOUT"] + 1
      BY <1>4, <2>3, ZenonT(30)
    <3>2. /\ pipe[i]["STDERR"].n \in Nat /\ written[i]["STDERR"] \in Nat
          /\ \/ pipe'[i]["STDERR"].n = pipe[i]["STDERR"].n /\ written'[i]["STDERR"] = written[i]["STDERR"]
             \/ pipe'[i]["STDERR"].n = pipe[i]["STDERR"].n + 1 /\ written'[i]["STDERR"] = written[i]["STDERR"] + 1
      BY <1>4, <2>3, ZenonT(30)
    <3>3. wrote[i].STDOUT + pipe'[i]["STDOUT"].n = written'[i]["STDOUT"]
      BY <1>1, <2>2, <3>1, SMTT(30) DEF Accounted
    <3> QED
      BY <1>1, <2>2, <3>2, <3>3 DEF Accounted
  <2>5. ASSUME NEW i \in Ids, NEW r \in Streams, pipe'[i][r].n # 0
        PROVE  ReadEndOpen(i, r) \/ (i \in ReadErrors /\ fate[i] \in {"forked", "done"})
    BY <1>1, <1>2, <1>4, <2>5, SMTT(30) DEF Accounted
  <2> QED
    BY <1>2, <2>1, <2>4, <2>5, Zenon DEF Accounted, Ids, Streams
<1>8. \A i \in Ids, r \in Streams :
         /\ pipe[i][r].n > 0 => pipe'[i][r].n > 0
         /\ ~pipe[i][r].w => ~pipe'[i][r].w
  BY <1>4
<1> QED
  BY <1>2, <1>5, <1>6, <1>7, <1>8, ChildOnly, Zenon

\* The child closes one of its streams.
LEMMA ChildCloseKeeps ==
    ASSUME WorkerInv, NEW p \in Pids, NEW s \in Streams, ChildClose(p, s)
    PROVE  WorkerInv' /\ SpendsCredit
<1> DEFINE id == proc[p].id
<1>1. TypeInv /\ RunsFresh /\ Children /\ Accounted
  BY Zenon DEF WorkerInv
<1>2. /\ proc[p].st = "running"
      /\ pipe' = [pipe EXCEPT ![id][s].w = FALSE]
      /\ UNCHANGED <<toWorker, fromWorker, recv_buf, out, reqs, fd_map, wpc, todo,
                     waiting, fdt, proc, code, asked, written, wrote, fate>>
  BY Zenon DEF ChildClose, socketVars, loopVars, histVars
<1>3. id \in Ids
  BY <1>1, <1>2, ChildHasRequest, Zenon
<1> HIDE DEF id
<1>4. pipe \in Pipes
  BY <1>1, Zenon DEF TypeInv
<1>5. /\ pipe' \in Pipes
      /\ \A i \in Ids, r \in Streams :
            pipe'[i][r].n = pipe[i][r].n /\ (~pipe[i][r].w => ~pipe'[i][r].w)
  <2>1. pipe' = Shut(pipe, id, s)
    BY <1>2, Zenon DEF Shut
  <2>2. /\ pipe' \in Pipes
        /\ ~pipe'[id][s].w
        /\ \A i \in Ids, r \in Streams :
              /\ pipe'[i][r].n = pipe[i][r].n
              /\ i # id \/ r # s => pipe'[i][r].w = pipe[i][r].w
    BY <1>3, <1>4, <2>1, PipeShut, SMTT(30)
  <2> QED
    BY <2>2, ZenonT(30)
<1>6. TypeInv'
  BY <1>1, <1>2, <1>5, Zenon DEF TypeInv
<1>7. RunsFresh'
  BY <1>1, <1>2, SameRuns, Zenon DEF Unseen
<1>8. Accounted'
  BY <1>1, <1>2, <1>5, SameCounts, Zenon
<1> QED
  BY <1>2, <1>5, <1>6, <1>7, <1>8, ChildOnly, Zenon

\* A process that moves to a later status keeps its request.
LEMMA StatusMoves ==
    ASSUME TypeInv, NEW p \in Pids, NEW v \in Statuses \ {"free"}, proc[p].st # "free",
           v = "running" => proc[p].st = "running",
           proc' = [proc EXCEPT ![p].st = v]
    PROVE  /\ proc' \in [Pids -> [st : Statuses, id : Ids \cup {0}]]
           /\ proc'[p].st = v
           /\ \A q \in Pids : q # p => proc'[q] = proc[q]
           /\ \A q \in Pids : /\ proc'[q].id = proc[q].id
                              /\ proc'[q].st = "free" <=> proc[q].st = "free"
                              /\ proc[q].st \in {"exiting", "zombie"} =>
                                    proc'[q].st \in {"exiting", "zombie"}
<1>1. proc[p] \in [st : Statuses, id : Ids \cup {0}]
  BY Zenon DEF TypeInv
<1>2. PICK c : c = [proc[p] EXCEPT !.st = v]
  OBVIOUS
<1>3. c \in [st : Statuses, id : Ids \cup {0}] /\ c.st = v /\ c.id = proc[p].id
  BY <1>1, <1>2, Zenon
<1>4. proc' = [proc EXCEPT ![p] = c]
  BY <1>2, Zenon
<1>5. /\ proc' \in [Pids -> [st : Statuses, id : Ids \cup {0}]]
      /\ proc'[p] = c /\ \A q \in Pids : q # p => proc'[q] = proc[q]
  <2>1. proc \in [Pids -> [st : Statuses, id : Ids \cup {0}]] /\ p \in Pids
    BY Zenon DEF TypeInv
  <2>2. c \in [st : Statuses, id : Ids \cup {0}]
    BY <1>3, Zenon
  <2> QED
    BY ONLY <1>4, <2>1, <2>2, Zenon
<1> QED
  BY <1>3, <1>5, Zenon DEF Statuses

\* An exit, or SIGKILL, shuts the pipes for writing and leaves what is in
\* them.
LEMMA OutputCloses ==
    ASSUME TypeInv, NEW id \in Ids, pipe' = CloseOutput(id)
    PROVE  /\ pipe' \in Pipes
           /\ \A i \in Ids, s \in Streams :
                 /\ pipe'[i][s].n = pipe[i][s].n
                 /\ ~pipe[i][s].w => ~pipe'[i][s].w
<1>1. pipe \in Pipes
  BY Zenon DEF TypeInv
<1>2. PICK d : d = [s \in Streams |-> [n |-> pipe[id][s].n, w |-> FALSE]]
  OBVIOUS
<1>3. \A s \in Streams : pipe[id][s].n \in Nat
  BY <1>1, Zenon DEF Pipes, Pipe
<1>4. \A s \in Streams : d[s] = [n |-> pipe[id][s].n, w |-> FALSE]
  BY <1>2, Zenon
<1>5. ASSUME NEW s \in Streams
      PROVE  d[s] \in Pipe /\ d[s].n = pipe[id][s].n /\ d[s].w = FALSE
  <2>1. PICK m \in Nat : m = pipe[id][s].n
    BY <1>3, Zenon
  <2>2. d[s] = [n |-> m, w |-> FALSE]
    BY <1>4, <2>1, Zenon
  <2> QED
    BY <2>1, <2>2 DEF Pipe
<1>6. d \in [Streams -> Pipe]
  BY <1>2, <1>5, ZenonT(30)
<1>7. pipe' = [pipe EXCEPT ![id] = d]
  BY <1>2, Zenon DEF CloseOutput
<1>8. pipe' \in Pipes /\ pipe'[id] = d /\ \A i \in Ids : i # id => pipe'[i] = pipe[i]
  BY <1>1, <1>6, <1>7, Zenon DEF Pipes
<1> QED
  BY <1>5, <1>8, ZenonT(30)

\* A running child ends, by itself or by a signal.
LEMMA ChildEnds ==
    ASSUME WorkerInv, NEW p \in Pids, proc[p].st = "running", NEW x \in Int,
           proc' = [proc EXCEPT ![p].st = "exiting"],
           pipe' = CloseOutput(proc[p].id),
           code' = [code EXCEPT ![proc[p].id] = x]
    PROVE  /\ proc' \in [Pids -> [st : Statuses, id : Ids \cup {0}]]
           /\ pipe' \in Pipes /\ code' \in [Ids -> Int]
           /\ proc'[p].st = "exiting" /\ \A q \in Pids : q # p => proc'[q] = proc[q]
           /\ \A q \in Pids : /\ proc'[q].id = proc[q].id
                              /\ proc'[q].st = "free" <=> proc[q].st = "free"
                              /\ proc[q].st \in {"exiting", "zombie"} =>
                                    proc'[q].st \in {"exiting", "zombie"}
           /\ \A i \in Ids, s \in Streams :
                 /\ pipe'[i][s].n = pipe[i][s].n
                 /\ ~pipe[i][s].w => ~pipe'[i][s].w
<1>1. TypeInv /\ Children
  BY Zenon DEF WorkerInv
<1>2. proc[p].id \in Ids
  BY <1>1, ChildHasRequest, Zenon
<1>3. code' \in [Ids -> Int]
  BY <1>1, <1>2, Zenon DEF TypeInv
<1>4. "exiting" \in Statuses \ {"free"} /\ proc[p].st # "free"
  BY Zenon DEF Statuses
<1>5. /\ proc' \in [Pids -> [st : Statuses, id : Ids \cup {0}]]
      /\ proc'[p].st = "exiting" /\ \A q \in Pids : q # p => proc'[q] = proc[q]
      /\ \A q \in Pids : /\ proc'[q].id = proc[q].id
                         /\ proc'[q].st = "free" <=> proc[q].st = "free"
                         /\ proc[q].st \in {"exiting", "zombie"} =>
                               proc'[q].st \in {"exiting", "zombie"}
  BY <1>1, <1>4, StatusMoves, ZenonT(30)
<1>6. /\ pipe' \in Pipes
      /\ \A i \in Ids, s \in Streams :
            /\ pipe'[i][s].n = pipe[i][s].n
            /\ ~pipe[i][s].w => ~pipe'[i][s].w
  BY <1>1, <1>2, OutputCloses, Zenon
<1> QED
  BY <1>3, <1>5, <1>6, Zenon

\* The child exits with a code of its own.
LEMMA ChildExitKeeps ==
    ASSUME WorkerInv, NEW p \in Pids, ChildExit(p)
    PROVE  WorkerInv' /\ SpendsCredit
<1>1. PICK x \in ExitCodes : code' = [code EXCEPT ![proc[p].id] = x]
  BY ZenonT(30) DEF ChildExit
<1>2. x \in Int
  BY WorkerAssumption, Zenon
<1>3. /\ proc[p].st = "running" /\ proc' = [proc EXCEPT ![p].st = "exiting"]
      /\ pipe' = CloseOutput(proc[p].id)
      /\ UNCHANGED <<toWorker, fromWorker, recv_buf, out, reqs, fd_map, wpc, todo,
                     waiting, fdt, asked, written, wrote, fate>>
  BY Zenon DEF ChildExit, socketVars, loopVars, histVars
<1>4. /\ proc' \in [Pids -> [st : Statuses, id : Ids \cup {0}]]
      /\ pipe' \in Pipes /\ code' \in [Ids -> Int]
      /\ \A q \in Pids : /\ proc'[q].id = proc[q].id
                         /\ proc'[q].st = "free" <=> proc[q].st = "free"
                         /\ proc[q].st \in {"exiting", "zombie"} =>
                               proc'[q].st \in {"exiting", "zombie"}
      /\ \A i \in Ids, s \in Streams :
            /\ pipe'[i][s].n = pipe[i][s].n
            /\ ~pipe[i][s].w => ~pipe'[i][s].w
  BY <1>1, <1>2, <1>3, ChildEnds, ZenonT(30)
<1>5. TypeInv /\ RunsFresh /\ Accounted
  BY Zenon DEF WorkerInv
<1>6. TypeInv'
  BY <1>3, <1>4, <1>5, Zenon DEF TypeInv
<1>7. RunsFresh'
  BY <1>3, <1>5, SameRuns, Zenon DEF Unseen
<1>8. Accounted'
  BY <1>3, <1>4, <1>5, SameCounts, ZenonT(30)
<1> QED
  BY <1>3, <1>4, <1>6, <1>7, <1>8, ChildOnly

\* The kernel finishes an exit: the process becomes a zombie.
LEMMA ChildZombieKeeps ==
    ASSUME WorkerInv, NEW p \in Pids, ChildZombie(p)
    PROVE  WorkerInv' /\ SpendsCredit
<1>1. /\ proc[p].st = "exiting" /\ proc' = [proc EXCEPT ![p].st = "zombie"]
      /\ UNCHANGED <<toWorker, fromWorker, recv_buf, out, reqs, fd_map, wpc, todo,
                     waiting, fdt, pipe, code, asked, written, wrote, fate>>
  BY Zenon DEF ChildZombie, socketVars, loopVars, histVars
<1>2. TypeInv /\ RunsFresh /\ Accounted
  BY Zenon DEF WorkerInv
<1>3. "zombie" \in Statuses \ {"free"} /\ proc[p].st # "free"
  BY <1>1, Zenon DEF Statuses
<1>4. /\ proc' \in [Pids -> [st : Statuses, id : Ids \cup {0}]]
      /\ \A q \in Pids : /\ proc'[q].id = proc[q].id
                         /\ proc'[q].st = "free" <=> proc[q].st = "free"
                         /\ proc[q].st \in {"exiting", "zombie"} =>
                               proc'[q].st \in {"exiting", "zombie"}
  BY <1>1, <1>2, <1>3, StatusMoves, ZenonT(30)
<1>5. TypeInv'
  BY <1>1, <1>2, <1>4, Zenon DEF TypeInv
<1>6. RunsFresh'
  BY <1>1, <1>2, SameRuns, Zenon DEF Unseen
<1>7. Accounted'
  BY <1>1, <1>2, SameCounts, Zenon
<1> QED
  BY <1>1, <1>4, <1>5, <1>6, <1>7, ChildOnly

-----------------------------------------------------------------------------
(* The steps of the loop *)

\* A step that only moves the loop on keeps the invariant.
LEMMA LoopMoves ==
    ASSUME WorkerInv, UNCHANGED <<socketVars, recv_buf, out, reqs, fd_map, todo,
                                  waiting, kernelVars, histVars>>,
           wpc # "wait", wpc' \in {"select", "pipes"},
           wpc' = "select" => todo = {}
    PROVE  WorkerInv' /\ SpendsCredit
<1> USE DEF socketVars, kernelVars, histVars
<1>1. TypeInv'
  BY Zenon DEF WorkerInv, TypeInv
<1>2. FdsAreOwn' /\ OwnPipe'
  BY SameFds, Zenon DEF WorkerInv
<1>3. Children'
  BY SameChildren, ZenonT(30) DEF WorkerInv, Children
<1>4. RunsFresh'
  BY SameRuns, Zenon DEF WorkerInv, Unseen
<1>5. StillReady'
  BY <1>1, SameReady, Zenon DEF WorkerInv
<1>6. Accounted'
  BY SameCounts, Zenon DEF WorkerInv
<1>7. SpendsCredit
  <2>1. Credit' \subseteq Credit
    BY CreditShrinks, Zenon
  <2>2. Len(out') \in Nat /\ Len(out') <= Len(out)
    BY DEF WorkerInv, TypeInv
  <2>3. TypeInv
    BY Zenon DEF WorkerInv
  <2> QED
    BY <2>1, <2>2, <2>3, Zenon DEF SpendsCredit
<1> QED
  BY <1>1, <1>2, <1>3, <1>4, <1>5, <1>6, <1>7, ZenonT(30) DEF WorkerInv

\* select() returns: the ready pipes are noted, the buffer is flushed.  If a
\* pipe is ready the buffer was below its cap, and a round costs at most
\* two frames for a request.
LEMMA SelectKeeps ==
    ASSUME WorkerInv, Select
    PROVE  WorkerInv' /\ SpendsCredit
<1>1. /\ wpc = "select" /\ Transmit(out) /\ todo' = Readable
      /\ wpc' \in {"ctrl", "pipes"}
      /\ UNCHANGED <<toWorker, recv_buf, reqs, fd_map, waiting, fdt, pipe, proc, code,
                     asked, written, wrote, fate>>
  BY Zenon DEF Select, kernelVars, histVars
<1>2. TypeInv /\ FdsAreOwn /\ OwnPipe /\ Children /\ RunsFresh /\ Accounted
  BY Zenon DEF WorkerInv
<1>3. out \in Seq(Frames)
  BY <1>2, Zenon DEF TypeInv
<1>4. /\ out' \in Seq(Frames) /\ fromWorker' \in Seq(Frames)
      /\ Len(fromWorker') <= SockOutCap /\ Len(out') <= Len(out)
  BY <1>1, <1>2, <1>3, TransmitKeeps, Zenon
<1>5. \A fd \in Readable : fd \in Fds /\ fdt[fd] # NoPipe /\ Ready(fd) /\ Len(out) < SendCap
  BY <1>2, Zenon DEF Readable, PolledPipes, FdsAreOwn
<1>6. TypeInv'
  BY <1>1, <1>2, <1>4, <1>5, Zenon DEF TypeInv
<1>7. FdsAreOwn' /\ OwnPipe'
  BY <1>1, <1>2, SameFds, Zenon
<1>8. Children'
  BY <1>1, <1>2, SameChildren, ZenonT(30) DEF Children
<1>9. RunsFresh'
  BY <1>1, <1>2, SameRuns, Zenon DEF Unseen
<1>10. StillReady'
  <2>1. \A fd : Ready(fd)' <=> Ready(fd)
    BY <1>1, Zenon DEF Ready
  <2> QED
    BY <1>1, <1>5, <2>1, Zenon DEF StillReady, NoPipe
<1>11. Accounted'
  BY <1>1, <1>2, SameCounts, Zenon
<1>12. SpendsCredit
  <2>1. waiting = NoWait
    BY <1>1, <1>2, Zenon DEF Children
  <2>2. Len(out') \in Nat /\ Len(out) \in Nat /\ SendCap \in Nat
    BY <1>3, <1>4, WorkerAssumption
  <2>3. CASE Readable = {}
    <3>1. Credit' = {}
      BY <1>1, <2>1, <2>3 DEF Credit, NoWait, Ids
    <3>2. Credit' \subseteq Credit
      BY <3>1, Zenon
    <3> QED
      BY <1>2, <1>4, <2>2, <3>2, ZenonT(30) DEF SpendsCredit
  <2>4. CASE Readable # {}
    <3>1. Len(out) < SendCap
      BY <1>5, <2>4, Zenon
    <3> QED
      BY <1>4, <2>2, <3>1 DEF SpendsCredit
  <2> QED
    BY <2>3, <2>4, Zenon
<1> QED
  BY <1>6, <1>7, <1>8, <1>9, <1>10, <1>11, <1>12, ZenonT(30) DEF WorkerInv

\* _read_ctrl_frames moves frames into the buffer.
LEMMA RecvKeeps ==
    ASSUME WorkerInv, Recv
    PROVE  WorkerInv' /\ SpendsCredit
<1>1. PICK k \in 1..Len(toWorker) :
         /\ recv_buf' = recv_buf \o SubSeq(toWorker, 1, k)
         /\ toWorker' = SubSeq(toWorker, k + 1, Len(toWorker))
  BY ZenonT(30) DEF Recv
<1>2. /\ wpc = "ctrl" /\ wpc' = "frames"
      /\ UNCHANGED <<fromWorker, out, reqs, fd_map, todo, waiting, fdt, pipe, proc, code,
                     asked, written, wrote, fate>>
  BY Zenon DEF Recv, kernelVars, histVars
<1>3. TypeInv /\ FdsAreOwn /\ OwnPipe /\ Children /\ RunsFresh /\ StillReady
      /\ Accounted
  BY Zenon DEF WorkerInv
<1>4. /\ Unseen' = Unseen
      /\ recv_buf' \in Seq(RequestFrame) /\ toWorker' \in Seq(RequestFrame)
  BY <1>1, <1>3, UnseenMoves, SMTT(30)
<1>5. TypeInv'
  BY <1>2, <1>3, <1>4, Zenon DEF TypeInv
<1>6. FdsAreOwn' /\ OwnPipe'
  BY <1>2, <1>3, SameFds, Zenon
<1>7. Children'
  BY <1>2, <1>3, SameChildren, ZenonT(30) DEF Children
<1>8. RunsFresh'
  BY <1>2, <1>3, <1>4, SameRuns, Zenon
<1>9. StillReady'
  BY <1>2, <1>3, <1>5, SameReady, Zenon
<1>10. Accounted'
  BY <1>2, <1>3, SameCounts, Zenon
<1>11. SpendsCredit
  <2>1. Credit' \subseteq Credit
    BY <1>2, CreditShrinks, Zenon
  <2> QED
    BY <1>2, <1>3, <2>1, SMTT(30) DEF SpendsCredit
<1> QED
  BY <1>5, <1>6, <1>7, <1>8, <1>9, <1>10, <1>11, ZenonT(30) DEF WorkerInv

\* _handle_kill signals the child its request names, or nobody.
LEMMA HandleKillKeeps ==
    ASSUME WorkerInv, NEW id \in Ids, HandleKill(id)
    PROVE  WorkerInv' /\ SpendsCredit
<1>1. /\ recv_buf # <<>> /\ recv_buf' = Tail(recv_buf)
      /\ UNCHANGED <<toWorker, fromWorker, out, reqs, fd_map, wpc, todo, waiting, fdt,
                     asked, written, wrote, fate>>
  BY Zenon DEF HandleKill, socketVars, histVars
<1>2. TypeInv /\ Children /\ RunsFresh /\ Accounted
  BY Zenon DEF WorkerInv
<1>3. RunsFresh'
  BY <1>1, <1>2, TakenRuns, Zenon
<1>4. recv_buf' \in Seq(RequestFrame)
  BY <1>1, <1>2, UnseenTaken, Zenon
<1>5. CASE UNCHANGED <<proc, pipe, code>>
  <2>1. TypeInv'
    BY <1>1, <1>2, <1>4, <1>5, Zenon DEF TypeInv
  <2>2. Accounted'
    BY <1>1, <1>2, <1>5, SameCounts, Zenon
  <2> QED
    BY <1>1, <1>3, <1>5, <2>1, <2>2, ChildOnly, ZenonT(30)
<1>6. CASE ~UNCHANGED <<proc, pipe, code>>
  <2> DEFINE p == reqs[id].pid
  <2>1. p # 0 /\ Kill(p)
    BY <1>6, ZenonT(30) DEF HandleKill
  <2>2. p \in Pids
    BY <1>2, <2>1, Zenon DEF TypeInv
  <2> HIDE DEF p
  <2>3. /\ proc[p].st = "running" /\ proc' = [proc EXCEPT ![p].st = "exiting"]
        /\ pipe' = CloseOutput(proc[p].id)
        /\ code' = [code EXCEPT ![proc[p].id] = SIGKILLED]
    BY <1>6, <2>1, Zenon DEF Kill
  <2>4. SIGKILLED \in Int
    BY DEF SIGKILLED
  <2>5. /\ proc' \in [Pids -> [st : Statuses, id : Ids \cup {0}]]
        /\ pipe' \in Pipes /\ code' \in [Ids -> Int]
        /\ \A q \in Pids : /\ proc'[q].id = proc[q].id
                           /\ proc'[q].st = "free" <=> proc[q].st = "free"
                           /\ proc[q].st \in {"exiting", "zombie"} =>
                                 proc'[q].st \in {"exiting", "zombie"}
        /\ \A i \in Ids, s \in Streams :
              /\ pipe'[i][s].n = pipe[i][s].n
              /\ ~pipe[i][s].w => ~pipe'[i][s].w
    BY <2>2, <2>3, <2>4, ChildEnds, ZenonT(30)
  <2>6. TypeInv'
    BY <1>1, <1>2, <1>4, <2>5, ZenonT(30) DEF TypeInv
  <2>7. Accounted'
    BY <1>1, <1>2, <2>5, SameCounts, ZenonT(30)
  <2> QED
    BY <1>1, <1>3, <2>5, <2>6, <2>7, ChildOnly, ZenonT(30)
<1> QED
  BY <1>5, <1>6, Zenon

\* A RUN frame is for a request the worker knows nothing about: no child,
\* no fd, no waitpid.
LEMMA FreshRun ==
    ASSUME TypeInv, FdsAreOwn, Children, RunsFresh, NEW id \in Ids,
           recv_buf # <<>>, Head(recv_buf) = Request("RUN", id)
    PROVE  /\ fate[id] = "none" /\ waiting.id # id
           /\ reqs[id].pid = 0 /\ reqs[id].open = {}
           /\ \A fd \in Fds : fdt[fd][1] # id
           /\ \A p \in Pids : proc[p].st # "free" => proc[p].id # id
<1>1. 1 \in 1..Len(Unseen) /\ Unseen[1] = Head(recv_buf)
  <2>1. recv_buf \in Seq(RequestFrame) /\ toWorker \in Seq(RequestFrame)
    BY Zenon DEF TypeInv
  <2> QED
    BY <2>1 DEF Unseen
<1>2. Unseen[1].type = "RUN" /\ Unseen[1].id = id
  BY <1>1 DEF Request
<1>3. fate[id] = "none"
  BY <1>1, <1>2, Zenon DEF RunsFresh
<1>4. reqs[id].pid = 0 /\ reqs[id].open = {}
  BY <1>3, ZenonT(30) DEF Children
<1>5. waiting.id # id
  BY <1>3 DEF Children, NoWait, Ids
<1>6. \A fd \in Fds : fdt[fd][1] # id
  BY <1>4, Zenon DEF FdsAreOwn
<1>7. ASSUME NEW p \in Pids, proc[p].st # "free", proc[p].id = id
      PROVE  FALSE
  <2>1. reqs[id].pid = p \/ waiting = [id |-> id, pid |-> p]
    BY <1>7, Zenon DEF Children
  <2>2. p # 0
    BY WorkerAssumption, Zenon
  <2> QED
    BY <1>4, <1>5, <2>1, <2>2
<1> QED
  BY <1>3, <1>4, <1>5, <1>6, <1>7, ZenonT(30)

\* The except clause of _handle_run undoes what pipe() did, however far the
\* attempt came: the fd table is the one before it.
LEMMA RaisedRestores ==
    ASSUME TypeInv, NEW id \in Ids, ForkRaises(id)
    PROVE  /\ fdt' = fdt /\ fate' = [fate EXCEPT ![id] = "failed"]
           /\ UNCHANGED <<proc, pipe, reqs, fd_map>>
<1>1. PICK S \in SUBSET FreeFds : fdt' = CloseAll(PipesMade(id, S), S)
  BY Zenon DEF ForkRaises
<1>2. fdt \in [Fds -> (Ids \X Streams) \cup {NoPipe}]
  BY Zenon DEF TypeInv
<1>3. \A fd \in S : fdt[fd] = NoPipe
  BY Zenon DEF FreeFds
<1>4. CloseAll(PipesMade(id, S), S) = [fd \in Fds |-> fdt[fd]]
  BY <1>3, Zenon DEF CloseAll, PipesMade
<1>5. fdt' = fdt
  BY <1>1, <1>2, <1>4, Zenon
<1> QED
  BY <1>5, Zenon DEF ForkRaises

\* A failed pipe() or fork() leaves no fd, no child and no request.
LEMMA RunFailsKeeps ==
    ASSUME WorkerInv, NEW id \in Ids, wpc = "frames",
           recv_buf # <<>>, Head(recv_buf) = Request("RUN", id),
           recv_buf' = Tail(recv_buf), wpc' = "pipes",
           fate' = [fate EXCEPT ![id] = "failed"],
           UNCHANGED <<proc, pipe, fdt, reqs, fd_map>>,
           UNCHANGED <<socketVars, out, todo, waiting, code, asked, kills, written, wrote>>
    PROVE  WorkerInv' /\ SpendsCredit
<1>1. TypeInv /\ FdsAreOwn /\ OwnPipe /\ Children /\ RunsFresh /\ StillReady
      /\ Accounted
  BY Zenon DEF WorkerInv
<1>2. /\ fate[id] = "none" /\ waiting.id # id /\ reqs[id].pid = 0
      /\ \A p \in Pids : proc[p].st # "free" => proc[p].id # id
  BY <1>1, FreshRun, Zenon
<1>3. /\ fate'[id] = "failed" /\ \A j \in Ids : j # id => fate'[j] = fate[j]
      /\ fate' \in [Ids -> {"none", "forked", "failed", "done"}]
  BY <1>1, Zenon DEF TypeInv
<1>4. recv_buf' \in Seq(RequestFrame)
  BY <1>1, UnseenTaken, Zenon DEF socketVars
<1>5. TypeInv'
  BY <1>1, <1>3, <1>4, Zenon DEF TypeInv, socketVars
<1>6. FdsAreOwn' /\ OwnPipe'
  BY <1>1, SameFds, Zenon
<1>7. Children'
  <2>1. waiting # NoWait => waiting.id \in Ids
    BY <1>1, Zenon DEF TypeInv
  <2> QED
    BY <1>1, <1>2, <1>3, <2>1, ZenonT(30) DEF Children, Ids, NoWait
<1>8. RunsFresh'
  BY <1>1, <1>3, TakenRuns, Zenon DEF socketVars
<1>9. StillReady'
  BY <1>1, <1>5, SameReady, Zenon
<1>10. Accounted'
  <2>1. \A i, s : ReadEndOpen(i, s)' <=> ReadEndOpen(i, s)
    BY Zenon DEF ReadEndOpen
  <2>2. ASSUME NEW i \in Ids
        PROVE  /\ fate[i] = "done" => fate'[i] = "done"
               /\ fate[i] \in {"forked", "done"} => fate'[i] \in {"forked", "done"}
    BY <1>2, <1>3, Zenon
  <2> QED
    BY <1>1, <2>1, <2>2, ZenonT(30) DEF Accounted, Ids, Streams
<1>11. SpendsCredit
  <2>1. Credit' \subseteq Credit
    BY CreditShrinks, ZenonT(30)
  <2>2. Len(out') \in Nat /\ Len(out') <= Len(out)
    BY <1>1 DEF TypeInv
  <2> QED
    BY <1>1, <2>1, <2>2, Zenon DEF SpendsCredit
<1> QED
  BY <1>5, <1>6, <1>7, <1>8, <1>9, <1>10, <1>11, ZenonT(30) DEF WorkerInv

\* _handle_run: a free pid and two free fds become the request's own.
LEMMA ForkKeeps ==
    ASSUME WorkerInv, NEW id \in Ids, wpc = "frames",
           recv_buf # <<>>, Head(recv_buf) = Request("RUN", id),
           recv_buf' = Tail(recv_buf), wpc' = wpc, Fork(id),
           UNCHANGED <<socketVars, out, todo, waiting, code, asked, kills, written, wrote>>
    PROVE  WorkerInv' /\ SpendsCredit
<1>1. TypeInv /\ FdsAreOwn /\ OwnPipe /\ Children /\ RunsFresh /\ StillReady
      /\ Accounted
  BY Zenon DEF WorkerInv
<1>2. /\ fate[id] = "none" /\ waiting.id # id
      /\ reqs[id].pid = 0 /\ reqs[id].open = {}
      /\ \A fd \in Fds : fdt[fd][1] # id
      /\ \A q \in Pids : proc[q].st # "free" => proc[q].id # id
  BY <1>1, FreshRun, Zenon
<1>3. PICK p \in FreePids, o \in FreeFds, e \in FreeFds :
         /\ Lowest(o, FreeFds) /\ Lowest(e, FreeFds \ {o})
         /\ proc' = [proc EXCEPT ![p] = [st |-> "running", id |-> id]]
         /\ pipe' = [pipe EXCEPT ![id] = [s \in Streams |-> [n |-> 0, w |-> TRUE]]]
         /\ fdt' = [fdt EXCEPT ![o] = <<id, "STDOUT">>, ![e] = <<id, "STDERR">>]
         /\ reqs' = [reqs EXCEPT ![id] = [pid |-> p, open |-> {o, e}]]
         /\ fd_map' = [fd_map EXCEPT ![o] = <<id, "STDOUT">>, ![e] = <<id, "STDERR">>]
         /\ fate' = [fate EXCEPT ![id] = "forked"]
  BY Zenon DEF Fork
<1>4. /\ p \in Pids /\ proc[p].st = "free"
      /\ o \in Fds /\ e \in Fds /\ o # e /\ fdt[o] = NoPipe /\ fdt[e] = NoPipe
  BY <1>3, Zenon DEF FreePids, FreeFds, Lowest
<1>5. /\ proc' = [proc EXCEPT ![p] = [st |-> "running", id |-> id]]
      /\ pipe' = [pipe EXCEPT ![id] = [s \in Streams |-> [n |-> 0, w |-> TRUE]]]
      /\ fdt' = [fdt EXCEPT ![o] = <<id, "STDOUT">>, ![e] = <<id, "STDERR">>]
      /\ reqs' = [reqs EXCEPT ![id] = [pid |-> p, open |-> {o, e}]]
      /\ fd_map' = [fd_map EXCEPT ![o] = <<id, "STDOUT">>, ![e] = <<id, "STDERR">>]
      /\ fate' = [fate EXCEPT ![id] = "forked"]
  BY <1>3, Zenon
<1>6. /\ proc'[p] = [st |-> "running", id |-> id] /\ \A q \in Pids : q # p => proc'[q] = proc[q]
      /\ proc'[p].st = "running" /\ proc'[p].id = id
      /\ proc' \in [Pids -> [st : Statuses, id : Ids \cup {0}]]
  <2>1. [st |-> "running", id |-> id] \in [st : Statuses, id : Ids \cup {0}]
    BY Zenon DEF Statuses
  <2>2. proc \in [Pids -> [st : Statuses, id : Ids \cup {0}]]
    BY <1>1, Zenon DEF TypeInv
  <2> QED
    BY <1>4, <1>5, <2>1, <2>2, ZenonT(30)
<1>7. /\ reqs'[id] = [pid |-> p, open |-> {o, e}] /\ \A j \in Ids : j # id => reqs'[j] = reqs[j]
      /\ reqs'[id].pid = p /\ reqs'[id].open = {o, e}
      /\ reqs' \in [Ids -> [pid : Pids \cup {0}, open : SUBSET Fds]]
  <2>1. [pid |-> p, open |-> {o, e}] \in [pid : Pids \cup {0}, open : SUBSET Fds]
    BY <1>4, Zenon
  <2>2. reqs \in [Ids -> [pid : Pids \cup {0}, open : SUBSET Fds]]
    BY <1>1, Zenon DEF TypeInv
  <2> QED
    BY <1>5, <2>1, <2>2, Zenon
<1>8. /\ fdt' = fd_map' /\ fdt'[o] = <<id, "STDOUT">> /\ fdt'[e] = <<id, "STDERR">>
      /\ \A fd \in Fds : fd \notin {o, e} => fdt'[fd] = fdt[fd]
      /\ fdt' \in [Fds -> (Ids \X Streams) \cup {NoPipe}]
  <2>1. fdt \in [Fds -> (Ids \X Streams) \cup {NoPipe}] /\ fdt = fd_map
    BY <1>1, Zenon DEF TypeInv, FdsAreOwn
  <2>2. /\ <<id, "STDOUT">> \in (Ids \X Streams) \cup {NoPipe}
        /\ <<id, "STDERR">> \in (Ids \X Streams) \cup {NoPipe}
    BY Zenon DEF Streams
  <2> QED
    BY <1>4, <1>5, <2>1, <2>2, ZenonT(30)
<1>9. /\ pipe' \in Pipes /\ \A j \in Ids : j # id => pipe'[j] = pipe[j]
      /\ \A s \in Streams : pipe'[id][s].n = 0 /\ pipe'[id][s].w = TRUE
  <2>1. PICK d : d = [s \in Streams |-> [n |-> 0, w |-> TRUE]]
    OBVIOUS
  <2>2. /\ d \in [Streams -> Pipe]
        /\ \A s \in Streams : d[s].n = 0 /\ d[s].w = TRUE
    BY <2>1, Zenon DEF Pipe
  <2>3. pipe \in Pipes /\ pipe' = [pipe EXCEPT ![id] = d]
    BY <1>1, <1>5, <2>1, ZenonT(30) DEF TypeInv
  <2> QED
    BY <2>2, <2>3, ZenonT(30) DEF Pipes
<1>10. /\ fate'[id] = "forked" /\ \A j \in Ids : j # id => fate'[j] = fate[j]
       /\ fate' \in [Ids -> {"none", "forked", "failed", "done"}]
  BY <1>1, <1>5, ZenonT(30) DEF TypeInv
<1>11. TypeInv'
  <2>1. recv_buf' \in Seq(RequestFrame)
    BY <1>1, UnseenTaken, ZenonT(30) DEF socketVars
  <2> QED
    BY <1>1, <1>6, <1>7, <1>8, <1>9, <1>10, <2>1, ZenonT(30) DEF TypeInv, socketVars
<1>12. FdsAreOwn'
  <2>1. \A fd \in Fds : fdt'[fd][1] = id <=> fd \in {o, e}
    BY <1>2, <1>8, SMTT(30)
  <2>2. ASSUME NEW j \in Ids, j # id
        PROVE  \A fd \in Fds : fdt'[fd][1] = j <=> fdt[fd][1] = j
    BY <1>4, <1>8, <2>2 DEF NoPipe, Ids
  <2>3. reqs'[id].open = {fd \in Fds : fdt'[fd][1] = id}
    BY <1>4, <1>7, <2>1, ZenonT(30)
  <2>4. ASSUME NEW j \in Ids, j # id
        PROVE  reqs'[j].open = {fd \in Fds : fdt'[fd][1] = j}
    <3>1. reqs[j].open = {fd \in Fds : fdt[fd][1] = j}
      BY <1>1, ZenonT(30) DEF FdsAreOwn
    <3> QED
      BY <1>7, <2>2, <2>4, <3>1, ZenonT(30)
  <2> QED
    BY <1>8, <2>3, <2>4, SMTT(30) DEF FdsAreOwn, Ids
<1>13. OwnPipe'
  <2>1. \A fd \in Fds : fd \notin {o, e} => fdt'[fd] # <<id, "STDOUT">> /\ fdt'[fd] # <<id, "STDERR">>
    BY <1>2, <1>8
  <2> QED
    BY <1>1, <1>8, <2>1, SMTT(30) DEF OwnPipe, NoPipe
<1>14. Children'
  <2>1. p # 0
    BY <1>4, WorkerAssumption, ZenonT(30)
  <2>2. ASSUME NEW j \in Ids, j # id
        PROVE  /\ reqs'[j].pid = 0 <=> reqs'[j].open = {}
               /\ reqs'[j].pid # 0 =>
                     /\ proc'[reqs'[j].pid].id = j
                     /\ proc'[reqs'[j].pid].st # "free"
                     /\ fate'[j] = "forked"
                     /\ waiting'.id # j
    <3>1. reqs'[j] = reqs[j] /\ fate'[j] = fate[j] /\ waiting' = waiting
      BY <1>7, <1>10, <2>2, ZenonT(30)
    <3>2. reqs[j].pid # 0 => reqs[j].pid \in Pids /\ reqs[j].pid # p
      BY <1>1, <1>4 DEF TypeInv, Children
    <3>3. reqs[j].pid # 0 => proc'[reqs[j].pid] = proc[reqs[j].pid]
      BY <1>6, <3>2, Zenon
    <3>4. /\ reqs[j].pid = 0 <=> reqs[j].open = {}
          /\ reqs[j].pid # 0 => /\ proc[reqs[j].pid].id = j
                                /\ proc[reqs[j].pid].st # "free"
                                /\ fate[j] = "forked" /\ waiting.id # j
      BY <1>1, ZenonT(30) DEF Children
    <3> QED
      BY <3>1, <3>3, <3>4, ZenonT(30)
  <2>3. /\ reqs'[id].pid # 0 /\ reqs'[id].open # {}
        /\ proc'[reqs'[id].pid].id = id /\ proc'[reqs'[id].pid].st # "free"
        /\ fate'[id] = "forked" /\ waiting'.id # id
    BY <1>2, <1>6, <1>7, <1>10, <2>1, ZenonT(30)
  <2>4. waiting' = NoWait /\ wpc' # "wait"
    BY <1>1, ZenonT(30) DEF Children
  <2>5. ASSUME NEW q \in Pids, proc'[q].st # "free"
        PROVE  proc'[q].id \in Ids /\ reqs'[proc'[q].id].pid = q
    <3>1. CASE q = p
      BY <1>6, <1>7, <3>1, ZenonT(30)
    <3>2. CASE q # p
      <4>1. proc'[q] = proc[q]
        BY <1>6, <3>2, ZenonT(30)
      <4>2. proc[q].id \in Ids /\ reqs[proc[q].id].pid = q
        <5>1. waiting.pid = 0 /\ q # 0
          BY <2>4, WorkerAssumption DEF NoWait
        <5>2. waiting # [id |-> proc[q].id, pid |-> q]
          BY <5>1
        <5> QED
          BY <1>1, <2>5, <4>1, <5>2, SMTT(30) DEF Children
      <4>3. proc[q].id # id
        BY <1>2, <2>5, <4>1, Zenon
      <4> QED
        BY <1>7, <4>1, <4>2, <4>3, ZenonT(30)
    <3> QED
      BY <3>1, <3>2, Zenon
  <2> QED
    BY <2>2, <2>3, <2>4, <2>5, ZenonT(30) DEF Children, Ids, NoWait
<1>15. RunsFresh'
  BY <1>1, <1>10, TakenRuns, Zenon DEF socketVars
<1>16. \A fd \in todo : /\ fd \in Fds /\ fd \notin {o, e} /\ fdt'[fd] = fdt[fd]
                        /\ fdt[fd][1] \in Ids /\ fdt[fd][1] # id
  <2>1. \A fd \in todo : fd \in Fds /\ fdt[fd] # NoPipe
    BY <1>1, Zenon DEF StillReady, TypeInv
  <2>2. \A fd \in todo : fdt[fd] \in Ids \X Streams
    BY <1>1, <2>1, Zenon DEF TypeInv
  <2> QED
    BY <1>2, <1>4, <1>8, <2>1, <2>2, ZenonT(30)
<1>17. StillReady'
  <2>1. \A fd \in todo' :
           /\ fdt'[fd] = fdt[fd]
           /\ pipe'[fdt[fd][1]] = pipe[fdt[fd][1]]
    BY <1>9, <1>16, Zenon
  <2> QED
    BY <1>1, <1>11, <2>1, SameReady, ZenonT(30)
<1>18. Accounted'
  <2>1. \A s \in Streams : pipe[id][s].n = 0
    <3>1. ASSUME NEW s \in Streams, ReadEndOpen(id, s)
          PROVE  FALSE
      BY <1>2, <3>1 DEF ReadEndOpen
    <3> QED
      BY <1>1, <1>2, <3>1, ZenonT(30) DEF Accounted
  <2>2. \A i \in Ids, s \in Streams : pipe'[i][s].n = pipe[i][s].n
    BY <1>9, <2>1, Zenon
  <2>3. \A i \in Ids, s \in Streams : ReadEndOpen(i, s) => ReadEndOpen(i, s)'
    BY <1>4, <1>8 DEF ReadEndOpen, NoPipe, Ids
  <2>4. \A i \in Ids : /\ pipe'[i]["STDOUT"].n = pipe[i]["STDOUT"].n
                       /\ pipe'[i]["STDERR"].n = pipe[i]["STDERR"].n
    BY <2>2, Zenon DEF Streams
  <2>5. \A i \in Ids : /\ fate[i] = "done" => fate'[i] = "done"
                       /\ fate[i] \in {"forked", "done"} => fate'[i] \in {"forked", "done"}
    BY <1>2, <1>10, Zenon
  <2> QED
    BY <1>1, <2>2, <2>3, <2>4, <2>5, ZenonT(30) DEF Accounted, Ids, Streams
<1>19. SpendsCredit
  <2>1. Credit' \subseteq Credit
    <3>1. ASSUME NEW t \in Ids \X Streams, NEW fd \in todo,
                 fdt'[fd] = t \/ reqs'[t[1]].open = {fd}
          PROVE  fdt[fd] = t \/ reqs[t[1]].open = {fd}
      BY <1>7, <1>16, <3>1, ZenonT(30)
    <3> QED
      BY <3>1, Zenon DEF Credit, Ids, Streams
  <2>2. Len(out') \in Nat /\ Len(out') <= Len(out)
    BY <1>1 DEF TypeInv
  <2> QED
    BY <1>1, <2>1, <2>2, Zenon DEF SpendsCredit
<1> QED
  BY <1>11, <1>12, <1>13, <1>14, <1>15, <1>17, <1>18, <1>19, ZenonT(30) DEF WorkerInv

\* _handle_run, whether or not the child could be made.
LEMMA HandleRunKeeps ==
    ASSUME WorkerInv, NEW id \in Ids, HandleRun(id)
    PROVE  WorkerInv' /\ SpendsCredit
<1>1. CASE Fork(id) /\ UNCHANGED wpc
  BY <1>1, ForkKeeps, Zenon DEF HandleRun
<1>2. CASE ForkRaises(id) /\ wpc' = "pipes"
  BY <1>2, RaisedRestores, RunFailsKeeps, Zenon DEF HandleRun, WorkerInv
<1> QED
  BY <1>1, <1>2, Zenon DEF HandleRun

-----------------------------------------------------------------------------
(* The pipes select() reported *)

\* A pipe still to be handled belongs to a request with a child, and no
\* other fd reads it.
LEMMA ReportedPipe ==
    ASSUME WorkerInv, NEW fd \in todo, NEW id, NEW s, id = fdt[fd][1], s = fdt[fd][2]
    PROVE  /\ fd \in Fds /\ id \in Ids /\ s \in Streams /\ fdt[fd] = <<id, s>>
           /\ fd_map = fdt
           /\ fd \in reqs[id].open /\ reqs[id].pid \in Pids /\ reqs[id].pid # 0
           /\ proc[reqs[id].pid].id = id /\ proc[reqs[id].pid].st # "free"
           /\ fate[id] = "forked" /\ waiting.id # id
           /\ \A g \in Fds : fdt[g] = <<id, s>> => g = fd
           /\ reqs[id].open = {g \in Fds : fdt[g][1] = id}
<1>1. TypeInv /\ FdsAreOwn /\ OwnPipe /\ Children /\ StillReady
  BY Zenon DEF WorkerInv
<1>2. fd \in Fds /\ fdt[fd] # NoPipe
  BY <1>1, Zenon DEF TypeInv, StillReady
<1>3. fdt[fd] \in Ids \X Streams
  BY <1>1, <1>2, Zenon DEF TypeInv
<1>4. id \in Ids /\ s \in Streams /\ fdt[fd] = <<id, s>>
  BY <1>3
<1>5. fd_map = fdt /\ reqs[id].open = {g \in Fds : fdt[g][1] = id}
  BY <1>1, <1>4, Zenon DEF FdsAreOwn
<1>6. fd \in reqs[id].open
  BY <1>2, <1>5, Zenon
<1>7. reqs[id].pid # 0
  BY <1>1, <1>4, <1>6, Zenon DEF Children
<1>8. reqs[id].pid \in Pids
  BY <1>1, <1>4, <1>7, Zenon DEF TypeInv
<1>9. /\ proc[reqs[id].pid].id = id /\ proc[reqs[id].pid].st # "free"
      /\ fate[id] = "forked" /\ waiting.id # id
  BY <1>1, <1>4, <1>7, ZenonT(30) DEF Children
<1>10. \A g \in Fds : fdt[g] = <<id, s>> => g = fd
  BY <1>1, <1>2, <1>4, ZenonT(30) DEF OwnPipe
<1> QED
  BY <1>2, <1>4, <1>5, <1>6, <1>7, <1>8, <1>9, <1>10, ZenonT(30)

\* The history of output, after one more frame.
LEMMA CountsMove ==
    ASSUME NEW f \in [Ids -> Count], NEW a \in Ids, NEW b \in Streams, NEW m \in Nat,
           NEW g, g = Counted(f, a, b, m)
    PROVE  /\ g \in [Ids -> Count]
           /\ b = "STDOUT" => g[a].STDOUT = f[a].STDOUT + m /\ g[a].STDERR = f[a].STDERR
           /\ b = "STDERR" => g[a].STDERR = f[a].STDERR + m /\ g[a].STDOUT = f[a].STDOUT
           /\ \A i \in Ids : i # a => g[i] = f[i]
<1>1. PICK c : c = Forwarded(f[a], b, m)
  OBVIOUS
<1>2. /\ c \in Count
      /\ b = "STDOUT" => c.STDOUT = f[a].STDOUT + m /\ c.STDERR = f[a].STDERR
      /\ b = "STDERR" => c.STDERR = f[a].STDERR + m /\ c.STDOUT = f[a].STDOUT
  <2>1. f[a] \in Count
    OBVIOUS
  <2>2. /\ f[a].frames + 1 \in Nat /\ f[a].STDOUT \in Nat /\ f[a].STDERR \in Nat
    BY <2>1 DEF Count
  <2>3. CASE b = "STDOUT"
    <3>1. c = [frames |-> f[a].frames + 1, STDOUT |-> f[a].STDOUT + m,
               STDERR |-> f[a].STDERR + 0]
      BY <1>1, <2>3, ZenonT(30) DEF Forwarded
    <3> QED
      BY <2>2, <2>3, <3>1 DEF Count
  <2>4. CASE b = "STDERR"
    <3>1. c = [frames |-> f[a].frames + 1, STDOUT |-> f[a].STDOUT + 0,
               STDERR |-> f[a].STDERR + m]
      BY <1>1, <2>4, Zenon DEF Forwarded
    <3> QED
      BY <2>2, <2>4, <3>1 DEF Count
  <2> QED
    BY <2>3, <2>4, Zenon DEF Streams
<1>3. g = [f EXCEPT ![a] = c]
  BY <1>1, Zenon DEF Counted
<1>4. g \in [Ids -> Count] /\ g[a] = c /\ \A i \in Ids : i # a => g[i] = f[i]
  BY <1>2, <1>3, Zenon
<1> QED
  BY <1>2, <1>4, Zenon

\* _on_pipe_readable with data: what was in the pipe is now forwarded.
LEMMA ForwardKeeps ==
    ASSUME WorkerInv, NEW fd \in todo, wpc = "pipes", todo' = todo \ {fd}, ForwardOutput(fd),
           UNCHANGED <<toWorker, workerOpen, recv_buf, asked, kills, written>>
    PROVE  WorkerInv' /\ SpendsCredit
<1> DEFINE id == fdt[fd][1]
           s == fdt[fd][2]
           n == pipe[id][s].n
<1>1. TypeInv /\ FdsAreOwn /\ OwnPipe /\ Children /\ RunsFresh /\ StillReady
      /\ Accounted
  BY ZenonT(30) DEF WorkerInv
<1>2. /\ fd \in Fds /\ id \in Ids /\ s \in Streams /\ fdt[fd] = <<id, s>>
      /\ fd_map = fdt /\ fd \in reqs[id].open /\ waiting.id # id
      /\ \A g \in Fds : fdt[g] = <<id, s>> => g = fd
  BY ReportedPipe
<1>3. /\ pipe' = Holding(pipe, id, s, 0)
      /\ Send(s, id, n)
      /\ wrote' = Counted(wrote, id, s, n)
      /\ UNCHANGED <<reqs, fd_map, wpc, waiting, fdt, proc, code, fate>>
  BY <1>2, ZenonT(30) DEF ForwardOutput, Holding, Counted
<1>4. n \in Nat
  BY <1>1, <1>2 DEF TypeInv, Pipes, Pipe
<1> HIDE DEF id, s, n
<1>5. /\ pipe' \in Pipes /\ pipe'[id][s].n = 0
      /\ \A i \in Ids, r \in Streams :
            /\ pipe'[i][r].w = pipe[i][r].w
            /\ i # id \/ r # s => pipe'[i][r].n = pipe[i][r].n
  <2>1. pipe \in Pipes /\ 0 \in Nat /\ id \in Ids /\ s \in Streams
    BY <1>1, <1>2, Zenon DEF TypeInv
  <2>2. PICK g : g = Holding(pipe, id, s, 0)
    BY ZenonT(30)
  <2>3. /\ g \in Pipes /\ g[id][s].n = 0
        /\ \A i \in Ids, r \in Streams :
              /\ g[i][r].w = pipe[i][r].w
              /\ i # id \/ r # s => g[i][r].n = pipe[i][r].n
    BY <2>1, <2>2, PipeContents, SMTT(30)
  <2> QED
    BY <1>3, <2>2, <2>3, Zenon
<1>6. /\ wrote' \in [Ids -> Count]
      /\ s = "STDOUT" => wrote'[id].STDOUT = wrote[id].STDOUT + n /\ wrote'[id].STDERR = wrote[id].STDERR
      /\ s = "STDERR" => wrote'[id].STDERR = wrote[id].STDERR + n /\ wrote'[id].STDOUT = wrote[id].STDOUT
      /\ \A i \in Ids : i # id => wrote'[i] = wrote[i]
  <2>1. wrote \in [Ids -> Count]
    BY <1>1, Zenon DEF TypeInv
  <2>2. wrote' = Counted(wrote, id, s, n) /\ id \in Ids /\ s \in Streams
    BY <1>2, <1>3, ZenonT(30)
  <2> QED
    BY ONLY <1>4, <2>1, <2>2, CountsMove, SMTT(30)
<1>7. /\ out' \in Seq(Frames) /\ fromWorker' \in Seq(Frames)
      /\ Len(fromWorker') <= SockOutCap /\ Len(out') <= Len(out) + 1
  BY <1>1, <1>2, <1>3, <1>4, SendKeeps
<1>8. TypeInv'
  BY <1>1, <1>3, <1>5, <1>6, <1>7, ZenonT(30) DEF TypeInv
<1>9. FdsAreOwn' /\ OwnPipe'
  BY <1>1, <1>3, SameFds, Zenon
<1>10. Children'
  BY <1>1, <1>3, SameChildren, ZenonT(30) DEF Children
<1>11. RunsFresh'
  BY <1>1, <1>3, SameRuns, Zenon DEF Unseen
<1>12. StillReady'
  <2>1. ASSUME NEW g \in todo'
        PROVE  /\ g \in Fds /\ fdt[g][1] \in Ids /\ fdt[g][2] \in Streams
               /\ fdt[g][1] # id \/ fdt[g][2] # s
    <3>1. g \in Fds /\ fdt[g] \in Ids \X Streams /\ g # fd
      BY <1>1, Zenon DEF TypeInv, StillReady
    <3>2. fdt[g] # <<id, s>>
      BY <1>2, <3>1, ZenonT(30)
    <3> QED
      BY <3>1, <3>2
  <2>2. ASSUME NEW g \in todo'
        PROVE  /\ fdt'[g] = fdt[g]
               /\ pipe'[fdt[g][1]][fdt[g][2]].n = pipe[fdt[g][1]][fdt[g][2]].n
               /\ pipe'[fdt[g][1]][fdt[g][2]].w = pipe[fdt[g][1]][fdt[g][2]].w
    BY <1>3, <1>5, <2>1, ZenonT(30)
  <2>3. wpc' # "select" /\ todo' \subseteq todo
    BY <1>3, Zenon
  <2> QED
    BY <1>1, <1>8, <2>2, <2>3, SameReady, ZenonT(30)
<1>13. Accounted'
  <2>1. \A i, r : ReadEndOpen(i, r)' <=> ReadEndOpen(i, r)
    BY <1>3, ZenonT(30) DEF ReadEndOpen
  <2>2. "STDOUT" \in Streams /\ "STDERR" \in Streams
    BY ZenonT(30) DEF Streams
  <2>3. ASSUME NEW i \in Ids
        PROVE  /\ wrote[i].STDOUT \in Nat /\ wrote[i].STDERR \in Nat
               /\ written[i]["STDOUT"] \in Nat /\ written[i]["STDERR"] \in Nat
               /\ pipe[i]["STDOUT"].n \in Nat /\ pipe[i]["STDERR"].n \in Nat
    BY <1>1, <2>2, SMTT(30) DEF TypeInv, Count, Pipes, Pipe
  <2>4. ASSUME NEW i \in Ids
        PROVE  /\ wrote'[i].STDOUT + pipe'[i]["STDOUT"].n = wrote[i].STDOUT + pipe[i]["STDOUT"].n
               /\ wrote'[i].STDERR + pipe'[i]["STDERR"].n = wrote[i].STDERR + pipe[i]["STDERR"].n
    <3>1. CASE i # id
      BY <1>5, <1>6, <2>2, <3>1, ZenonT(30)
    <3>2. CASE i = id /\ s = "STDOUT"
      BY <1>5, <1>6, <2>2, <2>3, <3>2, SMTT(30) DEF n
    <3>3. CASE i = id /\ s = "STDERR"
      BY <1>5, <1>6, <2>2, <2>3, <3>3, SMTT(30) DEF n
    <3> QED
      BY <1>2, <3>1, <3>2, <3>3, ZenonT(30) DEF Streams
  <2>5. ASSUME NEW i \in Ids, NEW r \in Streams, pipe'[i][r].n # 0
        PROVE  pipe[i][r].n # 0
    BY <1>5, <2>5, ZenonT(30)
  <2> QED
    BY <1>1, <1>3, <2>1, <2>4, <2>5, ZenonT(30) DEF Accounted, Ids, Streams
<1>14. SpendsCredit
  <2>1. PICK t : t = <<id, s>>
    OBVIOUS
  <2>2. t \in Credit
    BY <1>2, <2>1, Zenon DEF Credit
  <2>3. t \notin Credit'
    <3>1. ~ \E g \in todo' : fdt'[g] = t \/ reqs'[id].open = {g}
      BY <1>1, <1>2, <1>3, <2>1, ZenonT(30) DEF TypeInv
    <3>2. waiting'.id # id
      BY <1>2, <1>3, ZenonT(30)
    <3> QED
      BY <2>1, <3>1, <3>2, Zenon DEF Credit
  <2>4. Credit' \subseteq Credit
    BY <1>3, CreditShrinks, Zenon
  <2> QED
    BY <1>1, <1>7, <2>2, <2>3, <2>4, ZenonT(30) DEF SpendsCredit
<1> QED
  BY <1>8, <1>9, <1>10, <1>11, <1>12, <1>13, <1>14, ZenonT(30) DEF WorkerInv

\* Closing an fd takes it out of both tables and leaves the others.
LEMMA CloseFds ==
    ASSUME TypeInv, FdsAreOwn, OwnPipe, NEW fd \in Fds, CloseFd(fd)
    PROVE  /\ fdt' = fd_map' /\ fdt'[fd] = NoPipe
           /\ \A g \in Fds : g # fd => fdt'[g] = fdt[g]
           /\ fdt' \in [Fds -> (Ids \X Streams) \cup {NoPipe}]
           /\ OwnPipe'
           /\ \A j \in Ids : {g \in Fds : fdt'[g][1] = j} = {g \in Fds : fdt[g][1] = j} \ {fd}
<1>1. fdt \in [Fds -> (Ids \X Streams) \cup {NoPipe}] /\ fdt = fd_map
  BY Zenon DEF TypeInv, FdsAreOwn
<1>2. /\ fdt' = fd_map' /\ fdt'[fd] = NoPipe
      /\ \A g \in Fds : g # fd => fdt'[g] = fdt[g]
      /\ fdt' \in [Fds -> (Ids \X Streams) \cup {NoPipe}]
  BY <1>1, Zenon DEF CloseFd
<1>3. OwnPipe'
  BY <1>2, ZenonT(30) DEF OwnPipe, NoPipe
<1>4. ASSUME NEW j \in Ids
      PROVE  {g \in Fds : fdt'[g][1] = j} = {g \in Fds : fdt[g][1] = j} \ {fd}
  <2>1. fdt'[fd][1] # j
    BY <1>2 DEF NoPipe, Ids
  <2> QED
    BY <1>2, <2>1, Zenon
<1> QED
  BY <1>2, <1>3, <1>4, Zenon

\* A teardown while the other pipe of the request is open: only the fd goes.
LEMMA FirstPipeKeeps ==
    ASSUME WorkerInv, NEW fd \in todo, wpc = "pipes", todo' = todo \ {fd},
           fdt[fd][1] \in ReadErrors \/ AtEof(fd), Teardown(fd),
           reqs[fd_map[fd][1]].open \ {fd} # {},
           UNCHANGED <<toWorker, workerOpen, recv_buf, asked, kills, written>>
    PROVE  WorkerInv' /\ SpendsCredit
<1> DEFINE id == fdt[fd][1]
           s == fdt[fd][2]
<1>1. TypeInv /\ FdsAreOwn /\ OwnPipe /\ Children /\ RunsFresh /\ StillReady
      /\ Accounted
  BY ZenonT(30) DEF WorkerInv
<1>2. /\ fd \in Fds /\ id \in Ids /\ s \in Streams /\ fdt[fd] = <<id, s>>
      /\ fd_map = fdt /\ fd \in reqs[id].open /\ reqs[id].pid # 0
      /\ fate[id] = "forked" /\ waiting.id # id
      /\ \A g \in Fds : fdt[g] = <<id, s>> => g = fd
      /\ reqs[id].open = {g \in Fds : fdt[g][1] = id}
  BY ReportedPipe
<1>3. /\ CloseFd(fd) /\ reqs' = [reqs EXCEPT ![id].open = reqs[id].open \ {fd}]
      /\ UNCHANGED <<wpc, waiting, proc, pipe, code, wrote, fate, out, fromWorker>>
  BY <1>2, ZenonT(30) DEF Teardown
<1>4. pipe[id][s].n = 0 \/ id \in ReadErrors
  BY DEF AtEof
<1>5. reqs[id].open \ {fd} # {}
  BY <1>2, ZenonT(30)
<1> HIDE DEF id, s
<1>6. /\ fdt' = fd_map' /\ fdt'[fd] = NoPipe
      /\ \A g \in Fds : g # fd => fdt'[g] = fdt[g]
      /\ fdt' \in [Fds -> (Ids \X Streams) \cup {NoPipe}]
      /\ OwnPipe'
      /\ \A j \in Ids : {g \in Fds : fdt'[g][1] = j} = {g \in Fds : fdt[g][1] = j} \ {fd}
  BY <1>1, <1>2, <1>3, CloseFds, Zenon
<1>7. /\ reqs' \in [Ids -> [pid : Pids \cup {0}, open : SUBSET Fds]]
      /\ reqs'[id].pid = reqs[id].pid /\ reqs'[id].open = reqs[id].open \ {fd}
      /\ \A j \in Ids : j # id => reqs'[j] = reqs[j]
  <2>1. reqs \in [Ids -> [pid : Pids \cup {0}, open : SUBSET Fds]]
    BY <1>1, ZenonT(30) DEF TypeInv
  <2>2. PICK c : c = [reqs[id] EXCEPT !.open = reqs[id].open \ {fd}]
    OBVIOUS
  <2>3. /\ c \in [pid : Pids \cup {0}, open : SUBSET Fds]
        /\ c.pid = reqs[id].pid /\ c.open = reqs[id].open \ {fd}
    BY <1>2, <2>1, <2>2, ZenonT(30)
  <2>4. reqs' = [reqs EXCEPT ![id] = c]
    BY <1>3, <2>2, Zenon
  <2> QED
    BY <1>2, <2>1, <2>3, <2>4, ZenonT(30)
<1>8. TypeInv'
  BY <1>1, <1>3, <1>6, <1>7, Zenon DEF TypeInv
<1>9. FdsAreOwn'
  <2>1. ASSUME NEW j \in Ids
        PROVE  reqs'[j].open = {g \in Fds : fdt'[g][1] = j}
    <3>1. CASE j = id
      BY <1>2, <1>6, <1>7, <3>1, ZenonT(30)
    <3>2. CASE j # id
      <4>1. reqs[j].open = {g \in Fds : fdt[g][1] = j}
        BY <1>1, Zenon DEF FdsAreOwn
      <4>2. fd \notin {g \in Fds : fdt[g][1] = j}
        BY <1>2, <3>2, Zenon
      <4>3. {g \in Fds : fdt'[g][1] = j} = {g \in Fds : fdt[g][1] = j} \ {fd}
        BY <1>6, Zenon
      <4>4. reqs'[j].open = reqs[j].open
        BY <1>7, <3>2, ZenonT(30)
      <4> QED
        BY ONLY <4>1, <4>2, <4>3, <4>4, ZenonT(30)
    <3> QED
      BY <3>1, <3>2, Zenon
  <2> QED
    BY <1>6, <2>1 DEF FdsAreOwn, Ids
<1>10. Children'
  <2>1. \A j \in Ids : /\ reqs'[j].pid = reqs[j].pid
                       /\ reqs'[j].open = {} <=> reqs[j].open = {}
    BY <1>2, <1>5, <1>7, ZenonT(30)
  <2> QED
    BY <1>1, <1>3, <2>1 DEF Children, Ids, NoWait
<1>11. RunsFresh'
  BY <1>1, <1>3, SameRuns, Zenon DEF Unseen
<1>12. StillReady'
  <2>1. \A g \in todo' : g # fd /\ g \in Fds
    BY <1>1, ZenonT(30) DEF TypeInv
  <2> QED
    BY <1>1, <1>3, <1>6, <1>8, <2>1, SameReady, ZenonT(30)
<1>13. Accounted'
  <2>1. ASSUME NEW i \in Ids, NEW r \in Streams, ReadEndOpen(i, r), pipe[i][r].n # 0
        PROVE  ReadEndOpen(i, r)' \/ (i \in ReadErrors /\ fate[i] \in {"forked", "done"})
    <3>1. PICK g \in Fds : fdt[g] = <<i, r>>
      BY <2>1, ZenonT(30) DEF ReadEndOpen
    <3>2. CASE g = fd
      BY <1>2, <1>4, <2>1, <3>1, <3>2, SMTT(30)
    <3>3. CASE g # fd
      BY <1>6, <3>1, <3>3, ZenonT(30) DEF ReadEndOpen
    <3> QED
      BY <3>2, <3>3, Zenon
  <2> QED
    BY <1>1, <1>3, <2>1, Zenon DEF Accounted, Ids, Streams
<1>14. SpendsCredit
  <2>1. ASSUME NEW t \in Ids \X Streams, NEW g \in todo',
               fdt'[g] = t \/ reqs'[t[1]].open = {g}
        PROVE  \E h \in todo : fdt[h] = t \/ reqs[t[1]].open = {h}
    <3>1. g \in todo /\ g # fd /\ g \in Fds /\ fdt'[g] = fdt[g]
      BY <1>1, <1>6, ZenonT(30) DEF TypeInv
    <3>2. CASE fdt'[g] = t
      BY <3>1, <3>2, ZenonT(30)
    <3>3. CASE reqs'[t[1]].open = {g} /\ t[1] # id
      BY <1>7, <3>1, <3>3, Zenon
    <3>4. CASE reqs'[t[1]].open = {g} /\ t[1] = id
      <4>1. g \in reqs[id].open
        BY <1>7, <3>4, ZenonT(30)
      <4>2. fdt[g][1] = id
        BY <1>2, <4>1, Zenon
      <4>3. fdt[g] \in Ids \X Streams
        <5>1. fdt[g] # NoPipe
          BY <1>1, <3>1, ZenonT(30) DEF StillReady
        <5> QED
          BY <1>1, <3>1, <5>1, ZenonT(30) DEF TypeInv
      <4>4. fdt[g][2] # s /\ fdt[g] = <<id, fdt[g][2]>> /\ fdt[g][2] \in Streams
        BY <1>2, <3>1, <4>2, <4>3, SMTT(30)
      <4>5. t = <<id, s>> \/ t = <<id, fdt[g][2]>>
        BY <1>2, <3>4, <4>4 DEF Streams
      <4> QED
        BY <1>2, <3>1, <4>4, <4>5, ZenonT(30)
    <3> QED
      BY <2>1, <3>2, <3>3, <3>4, ZenonT(30)
  <2>2. Credit' \subseteq Credit
    BY <1>3, <2>1, ZenonT(30) DEF Credit, Ids, Streams
  <2>3. Len(out') \in Nat /\ Len(out') <= Len(out)
    BY <1>1, <1>3 DEF TypeInv
  <2> QED
    BY <1>1, <2>2, <2>3, Zenon DEF SpendsCredit
<1> QED
  BY <1>6, <1>8, <1>9, <1>10, <1>11, <1>12, <1>13, <1>14, ZenonT(30) DEF WorkerInv

\* The last pipe of a request is closed and the request forgotten: what that
\* means for the fds, the other requests and the pipes still to be handled.
PipeGone(fd, id) ==
    /\ reqs[id].open = {fd}
    /\ FdsAreOwn' /\ OwnPipe'
    /\ fdt' \in [Fds -> (Ids \X Streams) \cup {NoPipe}]
    /\ reqs' \in [Ids -> [pid : Pids \cup {0}, open : SUBSET Fds]]
    /\ reqs'[id].pid = 0 /\ reqs'[id].open = {}
    /\ \A j \in Ids : j # id => reqs'[j] = reqs[j]
    /\ \A g \in todo' : /\ g \in todo /\ fdt'[g] = fdt[g] /\ fdt[g][1] # id
    /\ \A i \in Ids, r \in Streams : ReadEndOpen(i, r) /\ pipe[i][r].n # 0 =>
          ReadEndOpen(i, r)' \/ (id \in ReadErrors /\ i = id)

\* A teardown of the last pipe has that effect.
LEMMA LastPipe ==
    ASSUME WorkerInv, NEW fd \in todo, NEW id, NEW s, id = fdt[fd][1], s = fdt[fd][2],
           reqs[id].open \ {fd} = {}, CloseFd(fd), Forget(id), fdt[fd][1] \in ReadErrors \/ AtEof(fd),
           todo' = todo \ {fd}
    PROVE  PipeGone(fd, id)
<1>1. TypeInv /\ FdsAreOwn /\ OwnPipe /\ StillReady
  BY ZenonT(30) DEF WorkerInv
<1>2. /\ fd \in Fds /\ id \in Ids /\ s \in Streams /\ fdt[fd] = <<id, s>>
      /\ fd_map = fdt /\ fd \in reqs[id].open
      /\ reqs[id].open = {g \in Fds : fdt[g][1] = id}
  BY ReportedPipe, SMTT(30)
<1>3. pipe[id][s].n = 0 \/ id \in ReadErrors
  BY DEF AtEof
<1>4. reqs[id].open = {fd}
  BY <1>2, Zenon
<1>5. /\ fdt' = fd_map' /\ fdt'[fd] = NoPipe
      /\ \A g \in Fds : g # fd => fdt'[g] = fdt[g]
      /\ fdt' \in [Fds -> (Ids \X Streams) \cup {NoPipe}]
      /\ OwnPipe'
      /\ \A j \in Ids : {g \in Fds : fdt'[g][1] = j} = {g \in Fds : fdt[g][1] = j} \ {fd}
  BY <1>1, <1>2, CloseFds, ZenonT(30)
<1>6. /\ reqs' \in [Ids -> [pid : Pids \cup {0}, open : SUBSET Fds]]
      /\ reqs'[id].pid = 0 /\ reqs'[id].open = {}
      /\ \A j \in Ids : j # id => reqs'[j] = reqs[j]
  <2>1. reqs \in [Ids -> [pid : Pids \cup {0}, open : SUBSET Fds]]
    BY <1>1, Zenon DEF TypeInv
  <2>2. NoReq \in [pid : Pids \cup {0}, open : SUBSET Fds] /\ NoReq.pid = 0 /\ NoReq.open = {}
    BY Zenon DEF NoReq
  <2>3. reqs' = [reqs EXCEPT ![id] = NoReq]
    BY ZenonT(30) DEF Forget
  <2> QED
    BY <1>2, <2>1, <2>2, <2>3, ZenonT(30)
<1>7. FdsAreOwn'
  <2>1. ASSUME NEW j \in Ids
        PROVE  reqs'[j].open = {g \in Fds : fdt'[g][1] = j}
    <3>1. CASE j = id
      BY <1>2, <1>4, <1>5, <1>6, <3>1, ZenonT(30)
    <3>2. CASE j # id
      <4>1. reqs[j].open = {g \in Fds : fdt[g][1] = j}
        BY <1>1, Zenon DEF FdsAreOwn
      <4>2. fd \notin {g \in Fds : fdt[g][1] = j}
        BY <1>2, <3>2, Zenon
      <4>3. {g \in Fds : fdt'[g][1] = j} = {g \in Fds : fdt[g][1] = j} \ {fd}
        BY <1>5, Zenon
      <4>4. reqs'[j].open = reqs[j].open
        BY <1>6, <3>2, Zenon
      <4> QED
        BY ONLY <4>1, <4>2, <4>3, <4>4, Zenon
    <3> QED
      BY <3>1, <3>2, Zenon
  <2> QED
    BY <1>5, <2>1 DEF FdsAreOwn, Ids
<1>8. \A g \in todo' : g \in todo /\ fdt'[g] = fdt[g] /\ fdt[g][1] # id
  BY <1>1, <1>2, <1>4, <1>5, ZenonT(30) DEF TypeInv
<1>9. ASSUME NEW i \in Ids, NEW r \in Streams, ReadEndOpen(i, r), pipe[i][r].n # 0
      PROVE  ReadEndOpen(i, r)' \/ (id \in ReadErrors /\ i = id)
  <2>1. PICK g \in Fds : fdt[g] = <<i, r>>
    BY <1>9, ZenonT(30) DEF ReadEndOpen
  <2>2. CASE g = fd
    BY <1>2, <1>3, <1>9, <2>1, <2>2
  <2>3. CASE g # fd
    BY <1>5, <2>1, <2>3, ZenonT(30) DEF ReadEndOpen
  <2> QED
    BY <2>2, <2>3, ZenonT(30)
<1> QED
  BY <1>4, <1>5, <1>6, <1>7, <1>8, <1>9, ZenonT(30) DEF PipeGone

\* WNOHANG reaps the child of the last pipe: DONE with its exit code.
LEMMA ReapNowKeeps ==
    ASSUME WorkerInv, NEW fd \in todo, wpc = "pipes", todo' = todo \ {fd},
           fdt[fd][1] \in ReadErrors \/ AtEof(fd), Teardown(fd),
           reqs[fd_map[fd][1]].open \ {fd} = {},
           proc[reqs[fd_map[fd][1]].pid].st = "zombie",
           UNCHANGED <<toWorker, workerOpen, recv_buf, asked, kills, written>>
    PROVE  WorkerInv' /\ SpendsCredit
<1> DEFINE id == fdt[fd][1]
           s == fdt[fd][2]
           p == reqs[id].pid
<1>1. TypeInv /\ FdsAreOwn /\ OwnPipe /\ Children /\ RunsFresh /\ StillReady
      /\ Accounted
  BY ZenonT(30) DEF WorkerInv
<1>2. /\ fd \in Fds /\ id \in Ids /\ s \in Streams /\ fdt[fd] = <<id, s>>
      /\ fd_map = fdt /\ fd \in reqs[id].open /\ p \in Pids /\ p # 0
      /\ proc[p].id = id /\ fate[id] = "forked" /\ waiting.id # id
      /\ \A g \in Fds : fdt[g] = <<id, s>> => g = fd
  <2>1. WorkerInv /\ fd \in todo
    BY Zenon
  <2> QED
    BY ONLY <2>1, ReportedPipe, SMTT(30)
<1>3. /\ CloseFd(fd) /\ Forget(id)
      /\ proc' = [proc EXCEPT ![p] = FreePid]
      /\ Send("DONE", id, code[id])
      /\ fate' = [fate EXCEPT ![id] = "done"]
      /\ UNCHANGED <<wpc, waiting, pipe, code, wrote>>
  BY <1>2, ZenonT(30) DEF Teardown
<1>4. reqs[id].open \ {fd} = {} /\ id = fdt[fd][1] /\ s = fdt[fd][2]
  BY <1>2, ZenonT(30)
<1> HIDE DEF id, s
<1>5. /\ FdsAreOwn' /\ OwnPipe'
      /\ fdt' \in [Fds -> (Ids \X Streams) \cup {NoPipe}]
      /\ reqs' \in [Ids -> [pid : Pids \cup {0}, open : SUBSET Fds]]
      /\ reqs'[id].pid = 0 /\ reqs'[id].open = {}
      /\ \A j \in Ids : j # id => reqs'[j] = reqs[j]
      /\ \A g \in todo' : /\ g \in todo /\ fdt'[g] = fdt[g] /\ fdt[g][1] # id
      /\ \A i \in Ids, r \in Streams : ReadEndOpen(i, r) /\ pipe[i][r].n # 0 =>
            ReadEndOpen(i, r)' \/ (id \in ReadErrors /\ i = id)
  <2>1. PipeGone(fd, id)
    BY <1>3, <1>4, LastPipe, ZenonT(30)
  <2> QED
    BY <2>1, ZenonT(30) DEF PipeGone
<1>6. /\ proc' \in [Pids -> [st : Statuses, id : Ids \cup {0}]]
      /\ proc'[p].st = "free" /\ \A q \in Pids : q # p => proc'[q] = proc[q]
  <2>1. FreePid \in [st : Statuses, id : Ids \cup {0}] /\ FreePid.st = "free"
    BY ZenonT(30) DEF FreePid, Statuses
  <2>2. proc \in [Pids -> [st : Statuses, id : Ids \cup {0}]]
    BY <1>1, ZenonT(30) DEF TypeInv
  <2> QED
    BY <1>2, <1>3, <2>1, <2>2, ZenonT(30)
<1>7. /\ fate'[id] = "done" /\ \A j \in Ids : j # id => fate'[j] = fate[j]
      /\ fate' \in [Ids -> {"none", "forked", "failed", "done"}]
  BY <1>1, <1>2, <1>3, ZenonT(30) DEF TypeInv
<1>8. /\ out' \in Seq(Frames) /\ fromWorker' \in Seq(Frames)
      /\ Len(fromWorker') <= SockOutCap /\ Len(out') <= Len(out) + 1
  <2>1. code[id] \in Int
    BY <1>1, <1>2, Zenon DEF TypeInv
  <2> QED
    BY <1>1, <1>2, <1>3, <2>1, SendKeeps, ZenonT(30)
<1>9. TypeInv'
  BY <1>1, <1>3, <1>5, <1>6, <1>7, <1>8, ZenonT(30) DEF TypeInv
<1>10. waiting = NoWait /\ waiting.pid = 0
  BY <1>1 DEF Children, NoWait
<1>11. Children'
  <2>1. ASSUME NEW j \in Ids, j # id
        PROVE  /\ reqs'[j].pid = 0 <=> reqs'[j].open = {}
               /\ reqs'[j].pid # 0 =>
                     /\ proc'[reqs'[j].pid].id = j
                     /\ proc'[reqs'[j].pid].st # "free"
                     /\ fate'[j] = "forked"
                     /\ waiting'.id # j
    <3>1. reqs'[j] = reqs[j] /\ fate'[j] = fate[j] /\ waiting' = waiting
      BY <1>3, <1>5, <1>7, <2>1, ZenonT(30)
    <3>2. reqs[j].pid # 0 => reqs[j].pid \in Pids /\ reqs[j].pid # p
      BY <1>1, <1>2, <2>1, SMTT(30) DEF TypeInv, Children
    <3>3. reqs[j].pid # 0 => proc'[reqs[j].pid] = proc[reqs[j].pid]
      BY <1>6, <3>2, ZenonT(30)
    <3>4. /\ reqs[j].pid = 0 <=> reqs[j].open = {}
          /\ reqs[j].pid # 0 => /\ proc[reqs[j].pid].id = j
                                /\ proc[reqs[j].pid].st # "free"
                                /\ fate[j] = "forked" /\ waiting.id # j
      BY <1>1, ZenonT(30) DEF Children
    <3> QED
      BY <3>1, <3>3, <3>4, ZenonT(30)
  <2>2. ASSUME NEW q \in Pids, proc'[q].st # "free"
        PROVE  proc'[q].id \in Ids /\ reqs'[proc'[q].id].pid = q
    <3>1. q # p /\ proc'[q] = proc[q]
      BY <1>6, <2>2, ZenonT(30)
    <3>2. q # 0
      BY WorkerAssumption, ZenonT(30)
    <3>3. waiting # [id |-> proc[q].id, pid |-> q]
      <4>1. ASSUME waiting = [id |-> proc[q].id, pid |-> q] PROVE waiting.pid = q
        BY <4>1, Zenon
      <4> QED
        BY <1>10, <3>2, <4>1, Zenon
    <3>4. proc[q].id \in Ids /\ reqs[proc[q].id].pid = q
      <4>1. proc[q].st # "free" =>
               proc[q].id \in Ids /\ (reqs[proc[q].id].pid = q \/ waiting = [id |-> proc[q].id, pid |-> q])
        BY <1>1, Zenon DEF Children
      <4>2. proc[q].st # "free"
        BY <2>2, <3>1, Zenon
      <4> QED
        BY <4>1, <4>2, <3>3, Zenon
    <3>5. proc[q].id # id
      BY <3>1, <3>4, ZenonT(30)
    <3> QED
      BY <1>5, <3>1, <3>4, <3>5, ZenonT(30)
  <2>3. waiting' = NoWait /\ wpc' # "wait"
    BY <1>3, <1>10, ZenonT(30)
  <2> QED
    BY <1>5, <2>1, <2>2, <2>3, ZenonT(30) DEF Children, Ids, NoWait
<1>12. RunsFresh'
  BY <1>1, <1>2, <1>3, <1>7, SameRuns, ZenonT(30) DEF Unseen
<1>13. StillReady'
  BY <1>1, <1>3, <1>5, <1>9, SameReady, ZenonT(30)
<1>14. Accounted'
  <2>1. ASSUME NEW i \in Ids
        PROVE  /\ fate[i] = "done" => fate'[i] = "done"
               /\ fate[i] \in {"forked", "done"} => fate'[i] \in {"forked", "done"}
    BY <1>2, <1>7, ZenonT(30)
  <2>2. ASSUME NEW i \in Ids, NEW r \in Streams, pipe[i][r].n # 0
        PROVE  ReadEndOpen(i, r)' \/ (i \in ReadErrors /\ fate'[i] \in {"forked", "done"})
    BY <1>1, <1>5, <1>7, <2>1, <2>2, ZenonT(30) DEF Accounted
  <2> QED
    BY <1>1, <1>3, <2>1, <2>2, ZenonT(30) DEF Accounted, Ids, Streams
<1>15. SpendsCredit
  <2>1. PICK t : t = <<id, s>>
    OBVIOUS
  <2>2. t \in Credit
    BY <1>2, <2>1, ZenonT(30) DEF Credit
  <2>3. ASSUME NEW u \in Credit'
        PROVE  u \in Credit /\ u # t
    <3>1. u \in Ids \X Streams /\ waiting'.id # u[1]
      <4>1. u \in Ids \X Streams
        BY <2>3, Zenon DEF Credit, Ids, Streams
      <4>2. u[1] \in Ids
        BY ONLY <4>1, Zenon
      <4>3. \A n \in Ids : n # 0
        BY ONLY ProtocolAssumption, SMTT(30) DEF Ids
      <4>4. waiting'.id = 0
        BY <1>3, <1>10, Zenon DEF NoWait
      <4> QED
        BY <4>1, <4>2, <4>3, <4>4, Zenon
    <3>2. PICK g \in todo' : fdt'[g] = u \/ reqs'[u[1]].open = {g}
      BY <2>3, <3>1, ZenonT(30) DEF Credit
    <3>3. u[1] # id
      <4>1. CASE fdt'[g] = u
        BY <1>5, <4>1, ZenonT(30)
      <4>2. CASE reqs'[u[1]].open = {g}
        BY <1>5, <4>2, ZenonT(30)
      <4> QED
        BY <3>2, <4>1, <4>2, Zenon
    <3>4. fdt[g] = u \/ reqs[u[1]].open = {g}
      BY <1>5, <3>1, <3>2, <3>3, ZenonT(30)
    <3> QED
      BY <1>5, <2>1, <3>1, <3>3, <3>4, SMTT(30) DEF Credit
  <2>4. Credit' \subseteq Credit \ {t}
    BY <2>3, Zenon
  <2> QED
    BY <1>1, <1>8, <2>2, <2>4, Zenon DEF SpendsCredit
<1> QED
  BY <1>5, <1>9, <1>11, <1>12, <1>13, <1>14, <1>15, ZenonT(30) DEF WorkerInv

\* SIGKILL to a process: it is running and ends, or nothing happens.
LEMMA KillEnds ==
    ASSUME WorkerInv, NEW p \in Pids, proc[p].st # "free", Kill(p)
    PROVE  /\ proc' \in [Pids -> [st : Statuses, id : Ids \cup {0}]]
           /\ pipe' \in Pipes /\ code' \in [Ids -> Int]
           /\ proc'[p].st \in {"exiting", "zombie"}
           /\ \A q \in Pids : /\ proc'[q].id = proc[q].id
                              /\ proc'[q].st = "free" <=> proc[q].st = "free"
           /\ \A i \in Ids, s \in Streams :
                 /\ pipe'[i][s].n = pipe[i][s].n
                 /\ ~pipe[i][s].w => ~pipe'[i][s].w
<1>1. proc[p].st \in Statuses /\ TypeInv
  BY Zenon DEF WorkerInv, TypeInv
<1>2. CASE proc[p].st = "running"
  <2>1. /\ proc' = [proc EXCEPT ![p].st = "exiting"]
        /\ pipe' = CloseOutput(proc[p].id)
        /\ code' = [code EXCEPT ![proc[p].id] = SIGKILLED]
    BY <1>2, Zenon DEF Kill
  <2>2. SIGKILLED \in Int
    BY DEF SIGKILLED
  <2> QED
    BY <1>2, <2>1, <2>2, ChildEnds, ZenonT(30)
<1>3. CASE proc[p].st # "running"
  BY <1>1, <1>3, Zenon DEF Kill, TypeInv, Statuses
<1> QED
  BY <1>2, <1>3, ZenonT(30)

\* A child that is not a zombie when its last pipe is closed: the note, a
\* signal, and the blocking waitpid.
LEMMA NoteKeeps ==
    ASSUME WorkerInv, NEW fd \in todo, wpc = "pipes", todo' = todo \ {fd},
           fdt[fd][1] \in ReadErrors \/ AtEof(fd), Teardown(fd),
           reqs[fd_map[fd][1]].open \ {fd} = {},
           proc[reqs[fd_map[fd][1]].pid].st # "zombie",
           UNCHANGED <<toWorker, workerOpen, recv_buf, asked, kills, written>>
    PROVE  WorkerInv' /\ SpendsCredit
<1> DEFINE id == fdt[fd][1]
           s == fdt[fd][2]
           p == reqs[id].pid
<1>1. TypeInv /\ FdsAreOwn /\ OwnPipe /\ Children /\ RunsFresh /\ StillReady
      /\ Accounted
  BY ZenonT(30) DEF WorkerInv
<1>2. /\ fd \in Fds /\ id \in Ids /\ s \in Streams /\ fdt[fd] = <<id, s>>
      /\ fd_map = fdt /\ p \in Pids /\ p # 0
      /\ proc[p].id = id /\ proc[p].st # "free" /\ fate[id] = "forked"
  <2>1. WorkerInv /\ fd \in todo
    BY Zenon
  <2> QED
    BY ONLY <2>1, ReportedPipe, SMTT(30)
<1>3. /\ CloseFd(fd) /\ Forget(id) /\ Kill(p)
      /\ Send("STDERR", id, 1)
      /\ wrote' = Counted(wrote, id, "STDERR", 1)
      /\ wpc' = "wait" /\ waiting' = [id |-> id, pid |-> p] /\ fate' = fate
  BY <1>2, ZenonT(30) DEF Teardown, Counted
<1>4. reqs[id].open \ {fd} = {} /\ id = fdt[fd][1] /\ s = fdt[fd][2]
  BY <1>2, ZenonT(30)
<1> HIDE DEF id, s
<1>5. PipeGone(fd, id)
  BY <1>3, <1>4, LastPipe, ZenonT(30)
<1>6. /\ reqs[id].open = {fd} /\ FdsAreOwn' /\ OwnPipe'
      /\ fdt' \in [Fds -> (Ids \X Streams) \cup {NoPipe}]
      /\ reqs' \in [Ids -> [pid : Pids \cup {0}, open : SUBSET Fds]]
      /\ reqs'[id].pid = 0 /\ reqs'[id].open = {}
      /\ \A j \in Ids : j # id => reqs'[j] = reqs[j]
      /\ \A g \in todo' : /\ g \in todo /\ fdt'[g] = fdt[g] /\ fdt[g][1] # id
      /\ \A i \in Ids, r \in Streams : ReadEndOpen(i, r) /\ pipe[i][r].n # 0 =>
            ReadEndOpen(i, r)' \/ (id \in ReadErrors /\ i = id)
  BY <1>5, ZenonT(30) DEF PipeGone
<1>7. /\ proc' \in [Pids -> [st : Statuses, id : Ids \cup {0}]]
      /\ pipe' \in Pipes /\ code' \in [Ids -> Int]
      /\ proc'[p].st \in {"exiting", "zombie"}
      /\ \A q \in Pids : /\ proc'[q].id = proc[q].id
                         /\ proc'[q].st = "free" <=> proc[q].st = "free"
      /\ \A i \in Ids, r \in Streams :
            /\ pipe'[i][r].n = pipe[i][r].n
            /\ ~pipe[i][r].w => ~pipe'[i][r].w
  BY <1>2, <1>3, KillEnds, ZenonT(30)
<1>8. /\ wrote' \in [Ids -> Count]
      /\ wrote'[id].STDERR = wrote[id].STDERR + 1 /\ wrote'[id].STDOUT = wrote[id].STDOUT
      /\ \A i \in Ids : i # id => wrote'[i] = wrote[i]
  <2>1. wrote \in [Ids -> Count] /\ "STDERR" \in Streams /\ 1 \in Nat
    BY <1>1, ZenonT(30) DEF TypeInv, Streams
  <2>2. wrote' = Counted(wrote, id, "STDERR", 1) /\ id \in Ids
    BY <1>2, <1>3, ZenonT(30)
  <2> QED
    BY ONLY <2>1, <2>2, CountsMove, SMTT(30)
<1>9. /\ out' \in Seq(Frames) /\ fromWorker' \in Seq(Frames)
      /\ Len(fromWorker') <= SockOutCap /\ Len(out') <= Len(out) + 1
  <2>1. "STDERR" \in Streams \cup {"DONE"} /\ 1 \in Int
    BY DEF Streams
  <2> QED
    BY <1>1, <1>2, <1>3, <2>1, SendKeeps, ZenonT(30)
<1>10. waiting' \in [id : Ids, pid : Pids]
  BY <1>2, <1>3, ZenonT(30)
<1>11. TypeInv'
  BY <1>1, <1>3, <1>6, <1>7, <1>8, <1>9, <1>10, ZenonT(30) DEF TypeInv
<1>12. waiting = NoWait /\ waiting.id = 0 /\ waiting.pid = 0
  BY <1>1 DEF Children, NoWait
<1>13. waiting'.id = id /\ waiting'.pid = p /\ waiting' # NoWait
  BY <1>2, <1>3, ZenonT(30) DEF NoWait
<1>14. Children'
  <2>1. ASSUME NEW j \in Ids, j # id
        PROVE  /\ reqs'[j].pid = 0 <=> reqs'[j].open = {}
               /\ reqs'[j].pid # 0 =>
                     /\ proc'[reqs'[j].pid].id = j
                     /\ proc'[reqs'[j].pid].st # "free"
                     /\ fate'[j] = "forked"
                     /\ waiting'.id # j
    <3>1. reqs'[j] = reqs[j] /\ fate'[j] = fate[j] /\ waiting'.id # j
      BY <1>3, <1>6, <1>13, <2>1, ZenonT(30)
    <3>2. reqs[j].pid # 0 => reqs[j].pid \in Pids
      BY <1>1, ZenonT(30) DEF TypeInv
    <3>3. reqs[j].pid # 0 =>
             /\ proc'[reqs[j].pid].id = proc[reqs[j].pid].id
             /\ proc'[reqs[j].pid].st = "free" <=> proc[reqs[j].pid].st = "free"
      BY <1>7, <3>2, Zenon
    <3>4. /\ reqs[j].pid = 0 <=> reqs[j].open = {}
          /\ reqs[j].pid # 0 => /\ proc[reqs[j].pid].id = j
                                /\ proc[reqs[j].pid].st # "free"
                                /\ fate[j] = "forked"
      BY <1>1, ZenonT(30) DEF Children
    <3> QED
      BY <3>1, <3>3, <3>4, ZenonT(30)
  <2>2. ASSUME NEW q \in Pids, proc'[q].st # "free"
        PROVE  /\ proc'[q].id \in Ids
               /\ \/ reqs'[proc'[q].id].pid = q
                  \/ waiting' = [id |-> proc'[q].id, pid |-> q]
    <3>1. q # 0 /\ proc[q].st # "free" /\ proc'[q].id = proc[q].id
      BY <1>7, <2>2, WorkerAssumption, ZenonT(30)
    <3>2. waiting # [id |-> proc[q].id, pid |-> q]
      BY <1>12, <3>1
    <3>3. proc[q].id \in Ids /\ reqs[proc[q].id].pid = q
      BY <1>1, <3>1, <3>2, ZenonT(30) DEF Children
    <3>4. CASE proc[q].id = id
      BY <1>3, <3>1, <3>3, <3>4, ZenonT(30)
    <3>5. CASE proc[q].id # id
      BY <1>6, <3>1, <3>3, <3>5, ZenonT(30)
    <3> QED
      BY <3>4, <3>5, ZenonT(30)
  <2>3. /\ proc'[waiting'.pid].id = waiting'.id
        /\ proc'[waiting'.pid].st \in {"exiting", "zombie"}
        /\ fate'[waiting'.id] = "forked"
    BY <1>2, <1>3, <1>7, <1>13, ZenonT(30)
  <2> QED
    BY <1>3, <1>6, <1>13, <2>1, <2>2, <2>3, ZenonT(30) DEF Children, Ids, NoWait
<1>15. RunsFresh'
  BY <1>1, <1>3, SameRuns, ZenonT(30) DEF Unseen
<1>16. StillReady'
  <2>1. ASSUME NEW g \in todo'
        PROVE  /\ fdt'[g] = fdt[g]
               /\ pipe'[fdt[g][1]][fdt[g][2]].n = pipe[fdt[g][1]][fdt[g][2]].n
               /\ ~pipe[fdt[g][1]][fdt[g][2]].w => ~pipe'[fdt[g][1]][fdt[g][2]].w
    <3>1. g \in todo /\ g \in Fds /\ fdt'[g] = fdt[g] /\ fdt[g] # NoPipe
      BY <1>1, <1>6, <2>1, ZenonT(30) DEF StillReady, TypeInv
    <3>2. fdt[g] \in Ids \X Streams
      BY <1>1, <3>1, ZenonT(30) DEF TypeInv
    <3>3. fdt[g][1] \in Ids /\ fdt[g][2] \in Streams
      BY <3>2, Zenon
    <3> QED
      BY <1>7, <3>1, <3>3, ZenonT(30)
  <2>2. todo' \subseteq todo /\ wpc' # "select"
    BY <1>3, ZenonT(30)
  <2> QED
    BY <1>1, <1>11, <2>1, <2>2, SameReady, ZenonT(30)
<1>17. Accounted'
  <2>1. "STDOUT" \in Streams /\ "STDERR" \in Streams
    BY Zenon DEF Streams
  <2>2. ASSUME NEW i \in Ids
        PROVE  /\ wrote[i].STDOUT \in Nat /\ wrote[i].STDERR \in Nat
               /\ written[i]["STDOUT"] \in Nat /\ written[i]["STDERR"] \in Nat
               /\ pipe[i]["STDOUT"].n \in Nat /\ pipe[i]["STDERR"].n \in Nat
               /\ pipe'[i]["STDOUT"].n = pipe[i]["STDOUT"].n
               /\ pipe'[i]["STDERR"].n = pipe[i]["STDERR"].n
    <3>1. /\ wrote[i] \in Count /\ written[i] \in [Streams -> Nat]
          /\ pipe[i] \in [Streams -> Pipe]
      BY <1>1, ZenonT(30) DEF TypeInv, Pipes
    <3>2. /\ pipe'[i]["STDOUT"].n = pipe[i]["STDOUT"].n
          /\ pipe'[i]["STDERR"].n = pipe[i]["STDERR"].n
      BY <1>7, <2>1, ZenonT(30)
    <3> QED
      BY <2>1, <3>1, <3>2, ZenonT(30) DEF Count, Pipe
  <2>3. ASSUME NEW i \in Ids
        PROVE  waiting.id # i
    BY <1>12 DEF Ids
  <2>4. ASSUME NEW i \in Ids
        PROVE  /\ wrote'[i].STDOUT + pipe'[i]["STDOUT"].n = written[i]["STDOUT"]
               /\ \/ wrote'[i].STDERR + pipe'[i]["STDERR"].n = written[i]["STDERR"]
                  \/ /\ wrote'[i].STDERR + pipe'[i]["STDERR"].n = written[i]["STDERR"] + 1
                     /\ fate[i] = "done" \/ waiting'.id = i
    <3>1. CASE i # id
      BY <1>1, <1>8, <2>2, <2>3, <3>1, ZenonT(30) DEF Accounted
    <3>2. CASE i = id
      <4>1. /\ wrote[i].STDOUT + pipe[i]["STDOUT"].n = written[i]["STDOUT"]
            /\ wrote[i].STDERR + pipe[i]["STDERR"].n = written[i]["STDERR"]
        BY <1>1, <1>2, <2>3, <3>2, ZenonT(30) DEF Accounted
      <4>2. /\ wrote'[i].STDOUT = wrote[i].STDOUT
            /\ wrote'[i].STDERR = wrote[i].STDERR + 1 /\ waiting'.id = i
        BY <1>8, <1>13, <3>2, ZenonT(30)
      <4>3. /\ wrote[i].STDERR \in Nat /\ pipe[i]["STDERR"].n \in Nat
            /\ pipe'[i]["STDOUT"].n = pipe[i]["STDOUT"].n
            /\ pipe'[i]["STDERR"].n = pipe[i]["STDERR"].n
        BY <2>2, ZenonT(30)
      <4>4. (wrote[i].STDERR + 1) + pipe[i]["STDERR"].n = written[i]["STDERR"] + 1
        BY ONLY <4>1, <4>3
      <4> QED
        BY ONLY <4>1, <4>2, <4>3, <4>4, ZenonT(30)
    <3> QED
      BY <3>1, <3>2, ZenonT(30)
  <2>5. ASSUME NEW i \in Ids, NEW r \in Streams, pipe'[i][r].n # 0
        PROVE  ReadEndOpen(i, r)' \/ (i \in ReadErrors /\ fate[i] \in {"forked", "done"})
    <3>1. pipe[i][r].n # 0
      BY <1>7, <2>5, ZenonT(30)
    <3>2. CASE ReadEndOpen(i, r)
      BY <1>2, <1>6, <3>1, <3>2, ZenonT(30)
    <3>3. CASE ~ReadEndOpen(i, r)
      BY <1>1, <3>1, <3>3, ZenonT(30) DEF Accounted
    <3> QED
      BY <3>2, <3>3, ZenonT(30)
  <2> QED
    BY <1>3, <2>4, <2>5, ZenonT(30) DEF Accounted, Ids, Streams
<1>18. SpendsCredit
  <2>1. PICK t : t = <<id, "STDERR">>
    OBVIOUS
  <2>2. \A r \in Streams : <<id, r>> \in Credit
    BY <1>2, <1>6, ZenonT(30) DEF Credit
  <2>3. t \in Credit
    BY <2>1, <2>2, Zenon DEF Streams
  <2>4. ASSUME NEW u \in Credit'
        PROVE  u \in Credit /\ u # t
    <3>1. u \in Ids \X Streams
      BY <2>4, ZenonT(30) DEF Credit, Ids, Streams
    <3>2. \/ u[1] = id /\ u[2] = "STDOUT"
          \/ \E g \in todo' : fdt'[g] = u \/ reqs'[u[1]].open = {g}
      BY <1>13, <2>4, ZenonT(30) DEF Credit
    <3>3. CASE u[1] = id /\ u[2] = "STDOUT"
      BY <2>1, <2>2, <3>1, <3>3, SMTT(30)
    <3>4. ASSUME NEW g \in todo', fdt'[g] = u \/ reqs'[u[1]].open = {g}
          PROVE  u \in Credit /\ u # t
      <4>1. u[1] # id
        <5>1. CASE fdt'[g] = u
          BY <1>6, <5>1, ZenonT(30)
        <5>2. CASE reqs'[u[1]].open = {g}
          BY <1>6, <5>2, ZenonT(30)
        <5> QED
          BY <3>4, <5>1, <5>2, Zenon
      <4>2. fdt[g] = u \/ reqs[u[1]].open = {g}
        BY <1>6, <3>1, <3>4, <4>1, ZenonT(30)
      <4>3. g \in todo
        BY <1>6, <3>4, Zenon
      <4>4. u \in Credit
        BY <3>1, <4>2, <4>3, ZenonT(30) DEF Credit
      <4>5. t[1] = id
        BY ONLY <2>1
      <4> QED
        BY <4>1, <4>4, <4>5, Zenon
    <3> QED
      BY <3>2, <3>3, <3>4, ZenonT(30)
  <2>5. Credit' \subseteq Credit \ {t}
    BY <2>4, ZenonT(30)
  <2> QED
    BY <1>1, <1>9, <2>3, <2>5, ZenonT(30) DEF SpendsCredit
<1> QED
  BY <1>6, <1>11, <1>14, <1>15, <1>16, <1>17, <1>18, ZenonT(30) DEF WorkerInv

\* The blocking waitpid returns: DONE, which takes the frame set aside for it.
LEMMA ReapKeeps ==
    ASSUME WorkerInv, Reap
    PROVE  WorkerInv' /\ SpendsCredit
<1> DEFINE id == waiting.id
           p == waiting.pid
<1>1. TypeInv /\ FdsAreOwn /\ OwnPipe /\ Children /\ RunsFresh /\ StillReady
      /\ Accounted
  BY Zenon DEF WorkerInv
<1>2. waiting # NoWait
  BY <1>1, Zenon DEF Reap, Children
<1>3. /\ id \in Ids /\ p \in Pids /\ proc[p].id = id /\ fate[id] = "forked"
      /\ reqs[id].pid = 0 /\ reqs[id].open = {}
  <2>1. waiting \in [id : Ids, pid : Pids]
    BY <1>1, <1>2, Zenon DEF TypeInv
  <2>2. id \in Ids /\ p \in Pids
    BY <2>1, Zenon
  <2> QED
    BY <1>1, <1>2, <2>2, ZenonT(30) DEF Children
<1>4. /\ proc' = [proc EXCEPT ![p] = FreePid]
      /\ Send("DONE", id, code[id])
      /\ fate' = [fate EXCEPT ![id] = "done"]
      /\ waiting' = NoWait /\ wpc' = "pipes"
      /\ UNCHANGED <<toWorker, workerOpen, recv_buf, reqs, fd_map, todo, fdt, pipe,
                     code, asked, kills, written, wrote>>
  BY ZenonT(30) DEF Reap
<1> HIDE DEF id, p
<1>5. /\ proc' \in [Pids -> [st : Statuses, id : Ids \cup {0}]]
      /\ proc'[p].st = "free" /\ \A q \in Pids : q # p => proc'[q] = proc[q]
  <2>1. FreePid \in [st : Statuses, id : Ids \cup {0}] /\ FreePid.st = "free"
    BY Zenon DEF FreePid, Statuses
  <2>2. proc \in [Pids -> [st : Statuses, id : Ids \cup {0}]]
    BY <1>1, Zenon DEF TypeInv
  <2> QED
    BY <1>3, <1>4, <2>1, <2>2, ZenonT(30)
<1>6. /\ fate'[id] = "done" /\ \A j \in Ids : j # id => fate'[j] = fate[j]
      /\ fate' \in [Ids -> {"none", "forked", "failed", "done"}]
  BY <1>1, <1>3, <1>4, Zenon DEF TypeInv
<1>7. /\ out' \in Seq(Frames) /\ fromWorker' \in Seq(Frames)
      /\ Len(fromWorker') <= SockOutCap /\ Len(out') <= Len(out) + 1
  <2>1. code[id] \in Int
    BY <1>1, <1>3, ZenonT(30) DEF TypeInv
  <2> QED
    BY <1>1, <1>3, <1>4, <2>1, SendKeeps, ZenonT(30)
<1>8. TypeInv'
  BY <1>1, <1>4, <1>5, <1>6, <1>7, ZenonT(30) DEF TypeInv
<1>9. FdsAreOwn' /\ OwnPipe'
  BY <1>1, <1>4, ZenonT(30) DEF FdsAreOwn, OwnPipe, Ids
<1>10. Children'
  <2>1. ASSUME NEW j \in Ids
        PROVE  /\ reqs'[j].pid = 0 <=> reqs'[j].open = {}
               /\ reqs'[j].pid # 0 =>
                     /\ proc'[reqs'[j].pid].id = j
                     /\ proc'[reqs'[j].pid].st # "free"
                     /\ fate'[j] = "forked"
                     /\ waiting'.id # j
    <3>1. CASE j = id
      BY <1>3, <1>4, <3>1, ZenonT(30)
    <3>2. CASE j # id
      <4>1. reqs'[j] = reqs[j] /\ fate'[j] = fate[j] /\ waiting'.id # j
        BY <1>4, <1>6, <3>2, SMTT(30) DEF NoWait, Ids
      <4>2. reqs[j].pid # 0 => reqs[j].pid \in Pids /\ reqs[j].pid # p
        BY <1>1, <1>3, <3>2 DEF TypeInv, Children
      <4>3. reqs[j].pid # 0 => proc'[reqs[j].pid] = proc[reqs[j].pid]
        BY <1>5, <4>2, ZenonT(30)
      <4> QED
        BY <1>1, <4>1, <4>3, SMTT(30) DEF Children
    <3> QED
      BY <3>1, <3>2, ZenonT(30)
  <2>2. ASSUME NEW q \in Pids, proc'[q].st # "free"
        PROVE  proc'[q].id \in Ids /\ reqs'[proc'[q].id].pid = q
    <3>1. q # p /\ proc'[q] = proc[q]
      BY <1>5, <2>2, ZenonT(30)
    <3>2. waiting # [id |-> proc[q].id, pid |-> q]
      BY <3>1 DEF p
    <3>3. proc[q].id \in Ids /\ reqs[proc[q].id].pid = q
      <4>1. proc[q].st # "free" =>
               proc[q].id \in Ids /\ (reqs[proc[q].id].pid = q \/ waiting = [id |-> proc[q].id, pid |-> q])
        BY <1>1, Zenon DEF Children
      <4>2. proc[q].st # "free"
        BY <2>2, <3>1, Zenon
      <4> QED
        BY <4>1, <4>2, <3>2, Zenon
    <3> QED
      BY <1>4, <3>1, <3>3, Zenon
  <2>3. waiting' = NoWait /\ wpc' # "wait"
    BY <1>4, Zenon
  <2> QED
    BY <2>1, <2>2, <2>3, ZenonT(30) DEF Children, Ids, NoWait
<1>11. RunsFresh'
  BY <1>1, <1>3, <1>4, <1>6, SameRuns, ZenonT(30) DEF Unseen
<1>12. StillReady'
  BY <1>1, <1>4, <1>8, SameReady, ZenonT(30)
<1>13. Accounted'
  <2>1. ASSUME NEW i \in Ids
        PROVE  /\ fate[i] = "done" \/ waiting.id = i => fate'[i] = "done"
               /\ fate[i] \in {"forked", "done"} => fate'[i] \in {"forked", "done"}
    BY <1>3, <1>6, Zenon DEF id
  <2>2. \A i, r : ReadEndOpen(i, r)' <=> ReadEndOpen(i, r)
    BY <1>4, Zenon DEF ReadEndOpen
  <2> QED
    BY <1>1, <1>4, <2>1, <2>2, ZenonT(30) DEF Accounted, Ids, Streams
<1>14. SpendsCredit
  <2>1. PICK t : t = <<id, "STDOUT">>
    OBVIOUS
  <2>2. t \in Credit
    BY <1>3, <2>1, Zenon DEF Credit, Streams, id
  <2>3. ASSUME NEW u \in Credit'
        PROVE  u \in Credit /\ u # t
    <3>1. u \in Ids \X Streams /\ waiting'.id # u[1]
      <4>1. u \in Ids \X Streams
        BY <2>3, Zenon DEF Credit, Ids, Streams
      <4>2. u[1] \in Ids
        BY ONLY <4>1, Zenon
      <4>3. \A n \in Ids : n # 0
        BY ONLY ProtocolAssumption, SMTT(30) DEF Ids
      <4>4. waiting'.id = 0
        BY <1>4, Zenon DEF NoWait
      <4> QED
        BY <4>1, <4>2, <4>3, <4>4, Zenon
    <3>2. PICK g \in todo : fdt[g] = u \/ reqs[u[1]].open = {g}
      BY <1>4, <2>3, <3>1, ZenonT(30) DEF Credit
    <3>3. u[1] # id
      <4>1. CASE fdt[g] = u
        <5>1. g \in Fds /\ reqs[u[1]].open = {f \in Fds : fdt[f][1] = u[1]}
          BY <1>1, <3>1, Zenon DEF TypeInv, FdsAreOwn
        <5> QED
          BY <1>3, <4>1, <5>1
      <4>2. CASE reqs[u[1]].open = {g}
        BY <1>3, <4>2, ZenonT(30)
      <4> QED
        BY <3>2, <4>1, <4>2, ZenonT(30)
    <3> QED
      BY <2>1, <3>1, <3>2, <3>3 DEF Credit
  <2>4. Credit' \subseteq Credit \ {t}
    BY <2>3, Zenon
  <2> QED
    BY <1>1, <1>7, <2>2, <2>4, ZenonT(30) DEF SpendsCredit
<1> QED
  BY <1>8, <1>9, <1>10, <1>11, <1>12, <1>13, <1>14, Zenon DEF WorkerInv

\* One ready pipe: forwarded, or torn down in one of three ways.
LEMMA HandlePipeKeeps ==
    ASSUME WorkerInv, NEW fd \in Fds, HandlePipe(fd)
    PROVE  WorkerInv' /\ SpendsCredit
<1>1. /\ wpc = "pipes" /\ fd \in todo /\ todo' = todo \ {fd}
      /\ UNCHANGED <<toWorker, workerOpen, recv_buf, asked, kills, written>>
      /\ ForwardOutput(fd) \/ ((fdt[fd][1] \in ReadErrors \/ AtEof(fd)) /\ Teardown(fd))
  BY Zenon DEF HandlePipe
<1>2. CASE ForwardOutput(fd)
  BY <1>1, <1>2, ForwardKeeps, Zenon
<1>3. CASE (fdt[fd][1] \in ReadErrors \/ AtEof(fd)) /\ Teardown(fd)
  <2>1. CASE reqs[fd_map[fd][1]].open \ {fd} # {}
    BY <1>1, <1>3, <2>1, FirstPipeKeeps, ZenonT(30)
  <2>2. CASE /\ reqs[fd_map[fd][1]].open \ {fd} = {}
             /\ proc[reqs[fd_map[fd][1]].pid].st = "zombie"
    BY <1>1, <1>3, <2>2, ReapNowKeeps, ZenonT(30)
  <2>3. CASE /\ reqs[fd_map[fd][1]].open \ {fd} = {}
             /\ proc[reqs[fd_map[fd][1]].pid].st # "zombie"
    BY <1>1, <1>3, <2>3, NoteKeeps, ZenonT(30)
  <2> QED
    BY <2>1, <2>2, <2>3, Zenon
<1> QED
  BY <1>1, <1>2, <1>3, Zenon

-----------------------------------------------------------------------------
(* Every step keeps the invariant, and what follows from it *)

\* Nothing changes.
LEMMA StutterKeeps ==
    ASSUME WorkerInv, UNCHANGED vars
    PROVE  WorkerInv' /\ SpendsCredit
<1>1. UNCHANGED <<toWorker, fromWorker, recv_buf, out, reqs, fd_map, wpc, todo,
                  waiting, fdt, pipe, proc, code, asked, written, wrote, fate>>
  BY Zenon DEF vars, socketVars, loopVars, kernelVars, histVars
<1>2. TypeInv /\ FdsAreOwn /\ OwnPipe /\ Children /\ RunsFresh /\ StillReady
      /\ Accounted
  BY Zenon DEF WorkerInv
<1>3. TypeInv'
  BY <1>1, <1>2, Zenon DEF TypeInv
<1>4. FdsAreOwn' /\ OwnPipe'
  BY <1>1, <1>2, ZenonT(30) DEF FdsAreOwn, OwnPipe
<1>5. Children'
  BY <1>1, <1>2, ZenonT(30) DEF Children
<1>6. RunsFresh'
  BY <1>1, <1>2, SameRuns, Zenon DEF Unseen
<1>7. StillReady'
  BY <1>1, <1>2, <1>3, SameReady, ZenonT(30) DEF StillReady
<1>8. Accounted'
  BY <1>1, <1>2, SameCounts, ZenonT(30)
<1>9. SpendsCredit
  BY <1>1, <1>2 DEF SpendsCredit, Credit, TypeInv, Ids
<1> QED
  BY <1>3, <1>4, <1>5, <1>6, <1>7, <1>8, <1>9, ZenonT(30) DEF WorkerInv

\* Every iteration of the event loop.
LEMMA LoopKeeps ==
    ASSUME WorkerInv, Loop
    PROVE  WorkerInv' /\ SpendsCredit
<1>1. CASE Select
  BY <1>1, SelectKeeps, Zenon
<1>2. CASE Recv
  BY <1>2, RecvKeeps, Zenon
<1>3. CASE FramesDone
  BY <1>3, LoopMoves, Zenon DEF FramesDone
<1>4. CASE Reap
  BY <1>4, ReapKeeps, Zenon
<1>5. CASE PipesDone
  BY <1>5, LoopMoves, Zenon DEF PipesDone
<1>6. CASE \E id \in Ids : HandleRun(id) \/ HandleKill(id)
  BY <1>6, HandleRunKeeps, HandleKillKeeps, Zenon
<1>7. CASE \E fd \in Fds : HandlePipe(fd)
  BY <1>7, HandlePipeKeeps, Zenon
<1> QED
  BY <1>1, <1>2, <1>3, <1>4, <1>5, <1>6, <1>7, SMTT(30) DEF Loop

\* Every step of the worker, its children and the manager.
LEMMA StepKeeps ==
    ASSUME WorkerInv, [Next]_vars
    PROVE  WorkerInv' /\ SpendsCredit
<1>1. CASE Loop
  BY <1>1, LoopKeeps, Zenon
<1>2. CASE \E id \in Ids : ManagerRun(id) \/ ManagerKill(id)
  BY <1>2, ManagerRunKeeps, ManagerKillKeeps, ZenonT(30)
<1>3. CASE ManagerRead
  BY <1>3, ManagerReadKeeps, Zenon
<1>4. ASSUME NEW p \in Pids,
             \/ ChildExit(p) \/ ChildZombie(p)
             \/ \E s \in Streams : ChildWrite(p, s) \/ ChildClose(p, s)
      PROVE  WorkerInv' /\ SpendsCredit
  BY <1>4, ChildExitKeeps, ChildZombieKeeps, ChildWriteKeeps, ChildCloseKeeps
<1>5. CASE UNCHANGED vars
  BY <1>5, StutterKeeps, Zenon
<1> QED
  BY <1>1, <1>2, <1>3, <1>4, <1>5, ZenonT(30) DEF Next

\* The worker's tables agree with the kernel's, every child is tracked, what
\* select() reported stays true and every unit is accounted for, in every
\* reachable state.
THEOREM WorkerInvariant == Spec => []WorkerInv
<1>1. Init => WorkerInv
  BY InitWorker, Zenon
<1>2. WorkerInv /\ [Next]_vars => WorkerInv'
  BY StepKeeps, Zenon
<1> QED
  BY <1>1, <1>2, PTL DEF Spec

\* _handle_kill and _teardown_pipe_fd signal and reap the request's own
\* child, however pids are reused.
THEOREM WorkerSignalsOwnChildren == Spec => []PidsAreOwn
<1>1. WorkerInv => PidsAreOwn
  BY WorkerAssumption DEF WorkerInv, TypeInv, Children, PidsAreOwn, NoWait
<1> QED
  BY <1>1, WorkerInvariant, PTL

\* fd_map and the open sets of reqs are the worker's fd table: no fd leaks,
\* and a reused number is never taken for the pipe it was before.
THEOREM WorkerFdsAreOwn == Spec => []FdsAreOwn
<1>1. WorkerInv => FdsAreOwn
  BY Zenon DEF WorkerInv
<1> QED
  BY <1>1, WorkerInvariant, PTL

\* The os.read of _on_pipe_readable never blocks the loop, although RUN and
\* KILL frames and other pipes are handled between select() and the read.
THEOREM WorkerNeverBlocksInRead == Spec => []ReadNeverBlocks
<1>1. WorkerInv => ReadNeverBlocks
  BY ZenonT(30) DEF WorkerInv, StillReady, ReadNeverBlocks
<1> QED
  BY <1>1, WorkerInvariant, PTL

\* No child is forgotten by _teardown_pipe_fd before it is reaped.
THEOREM WorkerForgetsNoChild == Spec => []NoForgottenChild
<1>1. WorkerInv => NoForgottenChild
  BY SMTT(30) DEF WorkerInv, Children, NoForgottenChild
<1> QED
  BY <1>1, WorkerInvariant, PTL

\* DONE is queued after everything the child wrote, and after at most one
\* note on stderr.
THEOREM WorkerOutputComplete == Spec => []OutputComplete
<1>1. ASSUME WorkerInv, NEW id \in Ids, fate[id] = "done", id \notin ReadErrors
      PROVE  /\ wrote[id].STDOUT = written[id]["STDOUT"]
             /\ wrote[id].STDERR - written[id]["STDERR"] \in {0, 1}
  <2>1. TypeInv /\ FdsAreOwn /\ Children /\ Accounted
    BY <1>1, Zenon DEF WorkerInv
  <2>2. reqs[id].open = {}
    BY <1>1, <2>1, ZenonT(30) DEF Children
  <2>3. ASSUME NEW s \in Streams
        PROVE  ~ReadEndOpen(id, s)
    BY <2>1, <2>2 DEF FdsAreOwn, ReadEndOpen
  <2>4. pipe[id]["STDOUT"].n = 0 /\ pipe[id]["STDERR"].n = 0
    BY <1>1, <2>1, <2>3, ZenonT(30) DEF Accounted, Streams
  <2>5. /\ wrote[id].STDOUT \in Nat /\ wrote[id].STDERR \in Nat
        /\ written[id]["STDERR"] \in Nat
    BY <2>1 DEF TypeInv, Count, Streams
  <2> QED
    BY <2>1, <2>4, <2>5 DEF Accounted
<1>2. WorkerInv => OutputComplete
  BY <1>1, Zenon DEF OutputComplete
<1> QED
  BY <1>2, WorkerInvariant, PTL
=============================================================================
