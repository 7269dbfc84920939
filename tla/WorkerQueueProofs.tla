-------------------------- MODULE WorkerQueueProofs --------------------------
(***************************************************************************)
(* Proofs about WorkerQueue: for any number of submit() calls and worker   *)
(* tasks, with panicking jobs and with clients that leave.                 *)
(***************************************************************************)
EXTENDS WorkerQueue, FiniteSetTheorems, TLAPS

\* A task holds a message exactly while it is between recv and respond.
Holding == \A w \in Workers : wpc[w] \in {"taken", "job"} <=> msg[w] # NoJob

InChan(s) == \E i \in 1..Len(chan) : chan[i] = s
Held(s) == \E w \in Workers : msg[w] = s

\* No message is in two places, in the channel or with a task.
OnePlace ==
    /\ \A i, j \in 1..Len(chan) : chan[i] = chan[j] => i = j
    /\ \A v, w \in Workers : msg[v] = msg[w] /\ msg[v] # NoJob => v = w
    /\ \A s \in Submitters : ~(InChan(s) /\ Held(s))

\* How far a job has come follows from where its message is.
Progress ==
    \A s \in Submitters :
        /\ spc[s] \in {"start", "counted", "refused"} =>
              ~InChan(s) /\ ~Held(s) /\ runs[s] = 0 /\ reply[s] = "empty"
        /\ spc[s] # "done" => answer[s] = "none"
        /\ InChan(s) => runs[s] = 0 /\ reply[s] = "empty" /\ answer[s] = "none"
        /\ \A w \in Workers : msg[w] = s =>
              /\ runs[s] = (IF wpc[w] = "taken" THEN 0 ELSE 1)
              /\ reply[s] = "empty" /\ answer[s] = "none"
        /\ runs[s] <= 1
        /\ reply[s] = "sent" => runs[s] = 1
        /\ answer[s] = "result" => reply[s] = "sent"
        /\ answer[s] = "unavailable" => runs[s] = 0 /\ ~InChan(s) /\ ~Held(s)

IInv == TypeOK /\ Holding /\ DepthExact /\ OnePlace /\ Progress

-----------------------------------------------------------------------------

\* The two sets in transit are finite, and gaining or losing one member
\* changes their size by one.
LEMMA InTransit ==
    /\ IsFiniteSet(Entering) /\ IsFiniteSet(Leaving)
    /\ Cardinality(Entering) \in Nat /\ Cardinality(Leaving) \in Nat
<1>1. Entering \subseteq Submitters /\ Leaving \subseteq Workers
  BY DEF Entering, Leaving
<1>2. IsFiniteSet(Entering) /\ IsFiniteSet(Leaving)
  BY <1>1, QueueAssumption, FS_Subset DEF QueueAssumption
<1> QED
  BY <1>2, FS_CardinalityType

\* submit() counts its job and is then between the counter and the channel.
LEMMA CountIInv ==
    ASSUME IInv, NEW s \in Submitters, Count(s) PROVE IInv'
<1> USE QueueAssumption DEF Count, IInv
<1>1. TypeOK' /\ Holding'
  BY DEF TypeOK, Holding
<1>2. DepthExact'
  <2>1. Entering' = Entering \cup {s} /\ s \notin Entering /\ Leaving' = Leaving
    BY DEF TypeOK, Entering, Leaving
  <2>2. Cardinality(Entering') = Cardinality(Entering) + 1
    BY <2>1, InTransit, FS_AddElement, ZenonT(30)
  <2> QED
    BY <2>1, <2>2, InTransit DEF DepthExact, TypeOK
<1>3. OnePlace'
  BY DEF OnePlace, InChan, Held
<1>4. Progress'
  BY DEF TypeOK, Progress, InChan, Held
<1> QED
  BY <1>1, <1>2, <1>3, <1>4

\* try_send moves the job from the counter's side into the channel.
LEMMA TrySendIInv ==
    ASSUME IInv, NEW s \in Submitters, TrySend(s) PROVE IInv'
<1> USE QueueAssumption DEF TrySend, IInv
<1>1. TypeOK' /\ Holding'
  <2>1. CASE Open
    <3>1. chan' = Append(chan, s) /\ spc' = [spc EXCEPT ![s] = "waiting"]
      BY <2>1
    <3>2. chan' \in Seq(Submitters)
      BY ONLY <3>1, TypeOK, s \in Submitters DEF TypeOK
    <3> QED
      BY <3>1, <3>2 DEF TypeOK, Holding
  <2>2. CASE ~Open
    BY <2>2, ZenonT(30) DEF TypeOK, Holding
  <2> QED
    BY <2>1, <2>2
<1>2. CASE Open
  <2>1. /\ chan' = Append(chan, s) /\ Len(chan') = Len(chan) + 1
        /\ \A i \in 1..Len(chan) : chan'[i] = chan[i]
        /\ chan'[Len(chan) + 1] = s
    <3>1. chan' = Append(chan, s) /\ chan \in Seq(Submitters)
      BY <1>2 DEF TypeOK
    <3> QED
      BY ONLY <3>1, s \in Submitters
  <2>2. Entering' = Entering \ {s} /\ s \in Entering /\ Leaving' = Leaving
    BY <1>2 DEF TypeOK, Entering, Leaving
  <2>3. Cardinality(Entering') = Cardinality(Entering) - 1
    BY <2>2, InTransit, FS_RemoveElement, ZenonT(30)
  <2>4. DepthExact'
    BY <2>1, <2>2, <2>3, InTransit DEF DepthExact, TypeOK
  <2>5. \A t \in Submitters : (InChan(t)' <=> InChan(t) \/ t = s) /\ (Held(t)' <=> Held(t))
    <3>1. Len(chan) \in Nat
      BY DEF TypeOK
    <3> QED
      BY <2>1, <3>1 DEF InChan, Held
  <2>6. ~InChan(s) /\ ~Held(s) /\ runs[s] = 0 /\ reply[s] = "empty" /\ answer[s] = "none"
    BY DEF Progress
  <2>7. OnePlace'
    <3>1. \A i, j \in 1..Len(chan') : chan'[i] = chan'[j] => i = j
      BY <2>1, <2>6 DEF OnePlace, InChan, TypeOK
    <3> QED
      BY <2>5, <2>6, <3>1 DEF OnePlace
  <2>8. Progress'
    BY <1>2, <2>5, <2>6 DEF Progress, TypeOK, Held
  <2> QED
    BY <1>1, <2>4, <2>7, <2>8
<1>3. CASE ~Open
  <2>1. Entering' = Entering /\ Leaving' = Leaving
    BY <1>3 DEF TypeOK, Entering, Leaving
  <2>2. DepthExact'
    BY <1>3, <2>1 DEF DepthExact
  <2>3. OnePlace' /\ Progress'
    BY <1>3 DEF TypeOK, OnePlace, Progress, InChan, Held
  <2> QED
    BY <1>1, <2>2, <2>3
<1> QED
  BY <1>2, <1>3

\* A refused submit() takes back its count.
LEMMA UncountIInv ==
    ASSUME IInv, NEW s \in Submitters, Uncount(s) PROVE IInv'
<1> USE QueueAssumption DEF Uncount, IInv
<1>1. Entering' = Entering \ {s} /\ s \in Entering /\ Leaving' = Leaving
  BY DEF TypeOK, Entering, Leaving
<1>2. Cardinality(Entering') = Cardinality(Entering) - 1
  BY <1>1, InTransit, FS_RemoveElement, ZenonT(30)
<1>3. DepthExact' /\ queue_depth' \in Nat
  <2>1. Len(chan) \in Nat /\ Cardinality(Entering') \in Nat
    BY <1>1, InTransit, FS_RemoveElement, FS_CardinalityType DEF TypeOK
  <2>2. queue_depth' = queue_depth - 1 /\ chan' = chan
    OBVIOUS
  <2> QED
    BY <1>1, <1>2, <2>1, <2>2, InTransit, SMTT(30) DEF DepthExact
<1>4. TypeOK' /\ Holding'
  BY <1>3 DEF TypeOK, Holding
<1>5. OnePlace'
  BY DEF OnePlace, InChan, Held
<1>6. Progress'
  BY DEF TypeOK, Progress, InChan, Held
<1> QED
  BY <1>3, <1>4, <1>5, <1>6

\* A submit() that has its answer, or whose client leaves, moves nothing.
LEMMA EndOfSubmitIInv ==
    ASSUME IInv, NEW s \in Submitters, Answer(s) \/ Leave(s) PROVE IInv'
<1> USE QueueAssumption DEF Answer, Leave, IInv
<1>1. Entering' = Entering /\ Leaving' = Leaving
  BY DEF TypeOK, Entering, Leaving
<1>2. DepthExact'
  BY <1>1 DEF DepthExact
<1>3. TypeOK' /\ Holding'
  BY ZenonT(30) DEF TypeOK, Holding
<1>4. OnePlace'
  BY DEF OnePlace, InChan, Held
<1>5. Progress'
  BY DEF TypeOK, Progress, InChan, Held
<1> QED
  BY <1>2, <1>3, <1>4, <1>5

\* recv moves the first message of the channel to the task.
LEMMA RecvIInv ==
    ASSUME IInv, NEW w \in Workers, Recv(w) PROVE IInv'
<1> USE QueueAssumption DEF Recv, IInv
<1> DEFINE s == Head(chan)
<1>1. /\ s \in Submitters /\ s = chan[1] /\ Len(chan) \in Nat \ {0}
      /\ chan' \in Seq(Submitters) /\ Len(chan') = Len(chan) - 1
      /\ \A i \in 1..Len(chan') : chan'[i] = chan[i + 1]
  BY DEF TypeOK
<1>2. msg' = [msg EXCEPT ![w] = s] /\ wpc' = [wpc EXCEPT ![w] = "taken"]
  OBVIOUS
<1> HIDE DEF s
<1>3. TypeOK' /\ Holding'
  BY <1>1, <1>2 DEF TypeOK, Holding
<1>4. Leaving' = Leaving \cup {w} /\ w \notin Leaving /\ Entering' = Entering
  BY DEF TypeOK, Entering, Leaving
<1>5. Cardinality(Leaving') = Cardinality(Leaving) + 1
  BY <1>4, InTransit, FS_AddElement, ZenonT(30)
<1>6. DepthExact'
  BY <1>1, <1>4, <1>5, InTransit DEF DepthExact, TypeOK
<1>7. InChan(s) /\ ~Held(s) /\ msg[w] = NoJob
  BY <1>1 DEF InChan, OnePlace, Holding, TypeOK
<1>8. \A t \in Submitters : (InChan(t)' <=> InChan(t) /\ t # s)
  <2> SUFFICES ASSUME NEW t \in Submitters PROVE InChan(t)' <=> InChan(t) /\ t # s
    OBVIOUS
  <2>1. ASSUME InChan(t)' PROVE InChan(t) /\ t # s
    <3>1. PICK i \in 1..Len(chan') : chan'[i] = t
      BY <2>1 DEF InChan
    <3>2. i + 1 \in 1..Len(chan) /\ chan[i + 1] = t /\ i + 1 # 1
      BY <1>1, <3>1
    <3> QED
      BY <1>1, <3>2 DEF InChan, OnePlace
  <2>2. ASSUME InChan(t), t # s PROVE InChan(t)'
    <3>1. PICK i \in 1..Len(chan) : chan[i] = t
      BY <2>2 DEF InChan
    <3>2. i - 1 \in 1..Len(chan') /\ chan'[i - 1] = t
      BY <1>1, <2>2, <3>1
    <3> QED
      BY <3>2 DEF InChan
  <2> QED
    BY <2>1, <2>2
<1>9. \A t \in Submitters : (Held(t)' <=> Held(t) \/ t = s)
  BY <1>2, <1>7 DEF Held, TypeOK
<1>10. OnePlace'
  <2>1. \A i, j \in 1..Len(chan') : chan'[i] = chan'[j] => i = j
    <3> SUFFICES ASSUME NEW i \in 1..Len(chan'), NEW j \in 1..Len(chan'), chan'[i] = chan'[j]
                 PROVE  i = j
      OBVIOUS
    <3>1. i + 1 \in 1..Len(chan) /\ j + 1 \in 1..Len(chan) /\ chan[i + 1] = chan[j + 1]
      BY <1>1
    <3>2. i + 1 = j + 1
      BY <3>1 DEF OnePlace
    <3> QED
      BY <1>1, <3>2
  <2>2. \A u, v \in Workers : msg'[u] = msg'[v] /\ msg'[u] # NoJob => u = v
    BY <1>2, <1>7 DEF OnePlace, Held, TypeOK
  <2> QED
    BY <1>7, <1>8, <1>9, <2>1, <2>2 DEF OnePlace
<1>11. Progress'
  <2> SUFFICES ASSUME NEW t \in Submitters
               PROVE  /\ spc[t] \in {"start", "counted", "refused"} =>
                            ~InChan(t)' /\ ~Held(t)' /\ runs[t] = 0 /\ reply[t] = "empty"
                      /\ spc[t] # "done" => answer[t] = "none"
                      /\ InChan(t)' => runs[t] = 0 /\ reply[t] = "empty" /\ answer[t] = "none"
                      /\ \A v \in Workers : msg'[v] = t =>
                            /\ runs[t] = (IF wpc'[v] = "taken" THEN 0 ELSE 1)
                            /\ reply[t] = "empty" /\ answer[t] = "none"
                      /\ runs[t] <= 1
                      /\ reply[t] = "sent" => runs[t] = 1
                      /\ answer[t] = "result" => reply[t] = "sent"
                      /\ answer[t] = "unavailable" => runs[t] = 0 /\ ~InChan(t)' /\ ~Held(t)'
    BY DEF Progress
  <2>1. \A v \in Workers : msg'[v] = t =>
            /\ runs[t] = (IF wpc'[v] = "taken" THEN 0 ELSE 1)
            /\ reply[t] = "empty" /\ answer[t] = "none"
    BY <1>2, <1>7 DEF Progress, TypeOK
  <2> QED
    BY <1>7, <1>8, <1>9, <2>1, SMTT(30) DEF Progress
<1> QED
  BY <1>3, <1>6, <1>10, <1>11

\* The task discounts the message it holds and starts its job.
LEMMA DiscountIInv ==
    ASSUME IInv, NEW w \in Workers, Discount(w) PROVE IInv'
<1> USE QueueAssumption DEF Discount, IInv
<1>1. msg[w] \in Submitters
  BY DEF TypeOK, Holding
<1>2. Leaving' = Leaving \ {w} /\ w \in Leaving /\ Entering' = Entering
  BY DEF TypeOK, Entering, Leaving
<1>3. Cardinality(Leaving') = Cardinality(Leaving) - 1 /\ Cardinality(Leaving') \in Nat
  BY <1>2, InTransit, FS_RemoveElement, FS_CardinalityType
<1>4. DepthExact' /\ queue_depth' \in Nat
  <2>1. Len(chan) \in Nat /\ queue_depth' = queue_depth - 1 /\ chan' = chan
    BY DEF TypeOK
  <2> QED
    BY <1>2, <1>3, <2>1, InTransit, SMTT(30) DEF DepthExact
<1>5. TypeOK' /\ Holding'
  BY <1>1, <1>4 DEF TypeOK, Holding
<1>6. OnePlace'
  BY DEF OnePlace, InChan, Held
<1>7. Progress'
  <2>1. runs[msg[w]] = 0 /\ ~InChan(msg[w]) /\ Held(msg[w])
    BY <1>1 DEF Progress, OnePlace, Held
  <2>2. \A t \in Submitters : (InChan(t)' <=> InChan(t)) /\ (Held(t)' <=> Held(t))
    BY DEF InChan, Held
  <2>3. \A v \in Workers : v # w => msg[v] # msg[w]
    BY <1>1 DEF OnePlace
  <2> QED
    BY <1>1, <2>1, <2>2, <2>3 DEF Progress, TypeOK
<1> QED
  BY <1>4, <1>5, <1>6, <1>7

\* The task answers, or its panic drops the responder: either way it lets
\* go of the message, whose job has run.
LEMMA EndOfJobIInv ==
    ASSUME IInv, NEW w \in Workers, Respond(w) \/ Panic(w) PROVE IInv'
<1> USE QueueAssumption DEF Respond, Panic, IInv
<1>1. msg[w] \in Submitters
  BY DEF TypeOK, Holding
<1>2. Leaving' = Leaving /\ Entering' = Entering
  BY DEF TypeOK, Entering, Leaving
<1>3. DepthExact'
  BY <1>2 DEF DepthExact
<1>4. /\ msg' = [msg EXCEPT ![w] = NoJob]
      /\ \E x \in {"recv", "gone"} : wpc' = [wpc EXCEPT ![w] = x]
      /\ \E y \in {"sent", "dropped"} : reply' = [reply EXCEPT ![msg[w]] = y]
      /\ UNCHANGED <<queue_depth, chan, spc, answer, runs>>
  OBVIOUS
<1>5. TypeOK' /\ Holding'
  <2>1. TypeOK'
    <3>1. PICK x \in {"recv", "gone"} : wpc' = [wpc EXCEPT ![w] = x]
      BY <1>4
    <3>2. PICK y \in {"sent", "dropped"} : reply' = [reply EXCEPT ![msg[w]] = y]
      BY <1>4
    <3>3. reply' \in [Submitters -> {"empty", "sent", "dropped"}]
      BY ONLY <3>2, TypeOK, ZenonT(30) DEF TypeOK
    <3>4. /\ wpc' \in [Workers -> {"recv", "taken", "job", "gone"}]
          /\ msg' \in [Workers -> Submitters \cup {NoJob}]
      BY ONLY <1>4, <3>1, TypeOK DEF TypeOK
    <3> QED
      BY ONLY <1>4, <3>3, <3>4, TypeOK DEF TypeOK
  <2>2. Holding'
    BY ONLY <1>4, TypeOK, Holding DEF TypeOK, Holding
  <2> QED
    BY <2>1, <2>2
<1>6. \A t \in Submitters : (InChan(t)' <=> InChan(t)) /\ (Held(t)' <=> Held(t) /\ t # msg[w])
  BY <1>1, SMTT(30) DEF InChan, Held, OnePlace, TypeOK
<1>7. OnePlace'
  <2>1. \A u, v \in Workers : msg'[u] = msg'[v] /\ msg'[u] # NoJob => u = v
    BY ONLY <1>4, TypeOK, OnePlace DEF TypeOK, OnePlace
  <2> QED
    BY <1>6, <1>4, <2>1 DEF OnePlace
<1>8. Progress'
  <2>1. /\ runs[msg[w]] = 1 /\ ~InChan(msg[w]) /\ Held(msg[w])
        /\ answer[msg[w]] = "none"
    BY <1>1 DEF Progress, OnePlace, Held
  <2>2. \A v \in Workers : v # w => msg'[v] = msg[v] /\ wpc'[v] = wpc[v] /\ msg[v] # msg[w]
    BY <1>1 DEF OnePlace, TypeOK
  <2>3. msg'[w] = NoJob /\ reply'[msg[w]] # "empty"
    BY <1>1 DEF TypeOK
  <2>4. \A t \in Submitters : t # msg[w] => reply'[t] = reply[t]
    BY DEF TypeOK
  <2> QED
    BY <1>1, <1>6, <2>1, <2>2, <2>3, <2>4, SMTT(30) DEF Progress, TypeOK
<1> QED
  BY <1>3, <1>5, <1>7, <1>8

\* The invariant holds when the tasks have just been spawned.
LEMMA InitIInv == Init => IInv
<1> SUFFICES ASSUME Init PROVE IInv
  OBVIOUS
<1> USE QueueAssumption DEF Init
<1>1. TypeOK /\ Holding
  BY DEF TypeOK, Holding
<1>2. DepthExact
  <2>1. Entering = {} /\ Leaving = {}
    BY DEF Entering, Leaving
  <2> QED
    BY <2>1, FS_EmptySet DEF DepthExact
<1>3. OnePlace /\ Progress
  BY DEF OnePlace, Progress, InChan, Held
<1> QED
  BY <1>1, <1>2, <1>3 DEF IInv

\* Every step of a submit() and of a task keeps the invariant.
LEMMA NextIInv == IInv /\ [Next]_vars => IInv'
<1> SUFFICES ASSUME IInv, [Next]_vars PROVE IInv'
  OBVIOUS
<1>1. ASSUME NEW s \in Submitters, SubmitStep(s) PROVE IInv'
  BY <1>1, CountIInv, TrySendIInv, UncountIInv, EndOfSubmitIInv DEF SubmitStep
<1>2. ASSUME NEW w \in Workers, WorkerStep(w) PROVE IInv'
  BY <1>2, RecvIInv, DiscountIInv, EndOfJobIInv, SMTT(30) DEF WorkerStep
<1>3. CASE UNCHANGED vars
  BY <1>3 DEF vars, IInv, TypeOK, Holding, DepthExact, Entering, Leaving, OnePlace,
              Progress, InChan, Held
<1> QED
  BY <1>1, <1>2, <1>3 DEF Next

\* The invariant holds in every state of every behaviour of the queue.
LEMMA QueueIInv == Spec => []IInv
  BY InitIInv, NextIInv, PTL DEF Spec

-----------------------------------------------------------------------------

\* Every variable stays in its type; queue_depth, a usize, never falls below
\* zero, in whatever order the threads' steps come.
THEOREM TypeCorrect == Spec => []TypeOK
<1>1. IInv => TypeOK
  BY DEF IInv
<1> QED
  BY QueueIInv, <1>1, PTL

\* queue_depth counts the channel and the jobs on their way in and out.
THEOREM DepthIsExact == Spec => []DepthExact
<1>1. IInv => DepthExact
  BY DEF IInv
<1> QED
  BY QueueIInv, <1>1, PTL

\* A job runs at most once, a result is that of a job that ran, and a
\* refused job never runs.
THEOREM JobsRunOnce == Spec => []RunsOnce
<1>1. IInv => RunsOnce
  BY DEF IInv, RunsOnce, Progress, InChan, Held, TypeOK
<1> QED
  BY QueueIInv, <1>1, PTL
=============================================================================
