------------------------- MODULE ZygoteRestartProofs -------------------------
(***************************************************************************)
(* Proofs about ZygoteRestart, for any number of requests and managers.    *)
(***************************************************************************)
EXTENDS ZygoteRestart, TLAPS

\* What requests and tasks hold: an Arc exactly where the code has one, of
\* a manager that was built; the manager of a restart task is known to
\* nobody else until it is installed.
Handles ==
    /\ ZYGOTE <= built
    /\ \A r \in Requests :
          /\ arc[r] # 0 <=> rpc[r] \in {"got", "run"}
          /\ new_z[r] # 0 <=> tpc[r] = "swap"
          /\ arc[r] <= built /\ new_z[r] <= built
          /\ new_z[r] # 0 => ZYGOTE # new_z[r] /\ \A q \in Requests : arc[q] # new_z[r]

\* The worker of a manager is there exactly as long as someone holds it.
Owned == \A g \in Gens : worker[g] \in {"alive", "zombie"} <=> Referenced(g)

\* What main() has not come to yet has not happened.
Setup ==
    /\ main \in {"config", "deps", "jail", "zygote"} \/ left > 0 =>
          built = 0 /\ ZYGOTE = 0 /\ \A g \in Gens : worker[g] = "none"
    /\ main \in {"config", "deps", "jail", "zygote", "bind"} \/ left > 0 =>
          \A r \in Requests : rpc[r] = "idle" /\ tpc[r] = "none"
    /\ main \in {"zygote", "bind", "serve"} => left = 0
    /\ main = "down" => ZYGOTE = 0 /\ \A r \in Requests : rpc[r] = "idle" /\ tpc[r] = "none"

IInv ==
    /\ TypeOK /\ SingleFlight /\ Handles /\ NoNeedlessStart /\ Setup
    /\ main # "down" => Owned

\* The invariant holds when main() starts.
LEMMA InitIInv == Init => IInv
<1> SUFFICES ASSUME Init PROVE IInv
  OBVIOUS
<1> USE RestartAssumption, StartupAssumption DEF Init, StartupInit, Gens
<1>1. TypeOK
  <2>1. StartupOK
    BY DEF StartupOK
  <2>2. ZYGOTE \in 0..MaxGen /\ built \in 0..MaxGen /\ running \in SUBSET Gens
    OBVIOUS
  <2>5. RESTARTING \in BOOLEAN
    OBVIOUS
  <2>3. /\ worker = [g \in Gens |-> "none"]
        /\ rpc = [r \in Requests |-> "idle"] /\ tpc = [r \in Requests |-> "none"]
        /\ arc = [r \in Requests |-> 0] /\ new_z = [r \in Requests |-> 0]
    OBVIOUS
  <2> HIDE DEF Init
  <2>4. /\ worker \in [Gens -> {"none", "alive", "zombie", "reaped", "stray"}]
        /\ rpc \in [Requests -> {"idle", "got", "run", "ask", "slow"}]
        /\ tpc \in [Requests -> {"none", "check", "build", "swap", "end"}]
        /\ arc \in [Requests -> 0..MaxGen] /\ new_z \in [Requests -> 0..MaxGen]
    BY <2>3
  <2> QED
    BY <2>1, <2>2, <2>4, <2>5 DEF TypeOK
<1>2. SingleFlight
  BY DEF SingleFlight
<1>3. Handles
  BY DEF Handles
<1>4. Owned
  BY DEF Owned, Referenced, Installed, HeldByRequest, HeldByTask
<1>5. NoNeedlessStart /\ Setup
  BY DEF NoNeedlessStart, AlreadyRunning, Setup
<1> QED
  BY <1>1, <1>2, <1>3, <1>4, <1>5 DEF IInv

\* Letting go of an Arc: the types are kept, and the worker goes with the
\* last reference.
LEMMA ReleaseKeeps ==
    ASSUME NEW r \in Requests, IInv, main # "down", arc[r] # 0, Release(r),
           UNCHANGED <<ZYGOTE, built, new_z>>
    PROVE  /\ arc' \in [Requests -> 0..MaxGen]
           /\ running' \in SUBSET Gens
           /\ worker' \in [Gens -> {"none", "alive", "zombie", "reaped", "stray"}]
           /\ Owned'
<1> USE RestartAssumption DEF IInv, TypeOK, Gens
<1>1. arc' = [arc EXCEPT ![r] = 0]
  BY DEF Release
<1>2. arc[r] \in Gens /\ arc' \in [Requests -> 0..MaxGen]
  BY <1>1
<1>3. CASE Installed(arc[r]) \/ \E q \in Requests \ {r} : arc[q] = arc[r]
  <2>1. UNCHANGED <<running, worker>>
    BY <1>3 DEF Release
  <2>2. ASSUME NEW g \in Gens PROVE Referenced(g)' <=> Referenced(g)
    BY <1>1, <1>2, <1>3 DEF Referenced, Installed, HeldByRequest, HeldByTask
  <2> QED
    BY <1>2, <2>1, <2>2 DEF Owned
<1>4. CASE ~(Installed(arc[r]) \/ \E q \in Requests \ {r} : arc[q] = arc[r])
  <2> PICK h \in Gens : h = arc[r]
    BY <1>2
  <2>1. /\ running' = running \ {h}
        /\ worker' = [worker EXCEPT ![h] = "reaped"]
    BY <1>4 DEF Release, Drop
  <2>2. ~Referenced(h)'
    BY <1>1, <1>2, <1>4
       DEF Handles, Referenced, Installed, HeldByRequest, HeldByTask
  <2>3. ASSUME NEW g \in Gens \ {h} PROVE Referenced(g)' <=> Referenced(g)
    BY <1>1, <1>2 DEF Referenced, Installed, HeldByRequest, HeldByTask
  <2>4. ASSUME NEW g \in Gens
        PROVE  worker'[g] \in {"alive", "zombie"} <=> Referenced(g)'
    BY <2>1, <2>2, <2>3 DEF Owned
  <2> QED
    BY <1>2, <2>1, <2>4, ZenonT(30) DEF Owned
<1> QED
  BY <1>3, <1>4

\* GetZygote keeps the invariant.
LEMMA GetZygoteIInv ==
    ASSUME NEW r \in Requests, IInv, main = "serve", GetZygote(r) PROVE IInv'
<1> USE RestartAssumption DEF startupVars, StartupOK, GetZygote
<1>1. TypeOK'
  BY ZenonT(30) DEF IInv, TypeOK, Handles, Gens
<1>2. SingleFlight'
  BY DEF IInv, TypeOK, SingleFlight
<1>3. Handles'
  <2>1. CASE arc' = arc
    BY <2>1 DEF IInv, TypeOK, Handles
  <2>2. CASE ZYGOTE # 0 /\ arc' = [arc EXCEPT ![r] = ZYGOTE]
    BY <2>2 DEF IInv, TypeOK, Handles
  <2> QED
    BY <2>1, <2>2
<1>4. Owned'
  <2>1. ASSUME NEW g \in Gens PROVE Referenced(g)' <=> Referenced(g)
    <3>1. CASE arc' = arc
      BY <3>1 DEF Referenced, Installed, HeldByRequest, HeldByTask
    <3>2. CASE arc' = [arc EXCEPT ![r] = ZYGOTE] /\ rpc[r] = "idle"
      <4>1. arc[r] = 0
        BY <3>2 DEF IInv, Handles
      <4>2. g # 0 /\ arc \in [Requests -> 0..MaxGen]
        BY DEF IInv, TypeOK, Gens
      <4> QED
        BY <3>2, <4>1, <4>2 DEF Referenced, Installed, HeldByRequest, HeldByTask
    <3> QED
      BY <3>1, <3>2
  <2> QED
    BY <2>1 DEF IInv, Owned
<1>5. NoNeedlessStart' /\ Setup'
  BY DEF IInv, TypeOK, SingleFlight, Handles, NoNeedlessStart, AlreadyRunning, Setup
<1> QED
  BY <1>1, <1>2, <1>3, <1>4, <1>5 DEF IInv

\* ChoosePath keeps the invariant.
LEMMA ChoosePathIInv ==
    ASSUME NEW r \in Requests, IInv, main = "serve", ChoosePath(r) PROVE IInv'
<1> USE RestartAssumption DEF startupVars, StartupOK, ChoosePath, Release, Drop
<1>0. ASSUME arc[r] \notin running
      PROVE  arc[r] # 0 /\ Release(r) /\ UNCHANGED <<ZYGOTE, built, new_z>>
  BY <1>0 DEF IInv, Handles
<1>1. TypeOK'
  <2>1. CASE arc[r] \in running
    BY <2>1 DEF IInv, TypeOK
  <2>2. CASE arc[r] \notin running
    BY <1>0, <2>2, ReleaseKeeps DEF IInv, TypeOK
  <2> QED
    BY <2>1, <2>2
<1>2. SingleFlight'
  BY DEF IInv, TypeOK, SingleFlight
<1>3. Handles'
  BY DEF IInv, TypeOK, SingleFlight, Handles, Gens
<1>4. Owned'
  <2>1. CASE arc[r] \in running
    BY <2>1 DEF IInv, Owned, Referenced, Installed, HeldByRequest, HeldByTask
  <2>2. CASE arc[r] \notin running
    BY <1>0, <2>2, ReleaseKeeps
  <2> QED
    BY <2>1, <2>2
<1>5. NoNeedlessStart' /\ Setup'
  BY DEF IInv, TypeOK, SingleFlight, Handles, NoNeedlessStart, AlreadyRunning, Setup
<1> QED
  BY <1>1, <1>2, <1>3, <1>4, <1>5 DEF IInv

\* FastDone keeps the invariant.
LEMMA FastDoneIInv ==
    ASSUME NEW r \in Requests, IInv, main = "serve", FastDone(r) PROVE IInv'
<1> USE RestartAssumption DEF startupVars, StartupOK, FastDone, Release, Drop
<1>0. arc[r] # 0 /\ Release(r) /\ UNCHANGED <<ZYGOTE, built, new_z>>
  BY DEF IInv, Handles
<1>1. TypeOK'
  BY <1>0, ReleaseKeeps DEF IInv, TypeOK
<1>2. SingleFlight'
  BY DEF IInv, TypeOK, SingleFlight
<1>3. Handles'
  BY DEF IInv, TypeOK, SingleFlight, Handles, Gens
<1>4. Owned'
  BY <1>0, ReleaseKeeps, ZenonT(30)
<1>5. NoNeedlessStart' /\ Setup'
  BY DEF IInv, TypeOK, SingleFlight, Handles, NoNeedlessStart, AlreadyRunning, Setup
<1> QED
  BY <1>1, <1>2, <1>3, <1>4, <1>5 DEF IInv

\* AskRestart keeps the invariant.
LEMMA AskRestartIInv ==
    ASSUME NEW r \in Requests, IInv, main = "serve", AskRestart(r) PROVE IInv'
<1> USE RestartAssumption DEF startupVars, StartupOK, AskRestart, TryBegin
<1>1. TypeOK'
  BY ZenonT(30) DEF IInv, TypeOK, Handles, Gens
<1>2. SingleFlight'
  BY DEF IInv, TypeOK, SingleFlight
<1>3. Handles'
  BY DEF IInv, TypeOK, SingleFlight, Handles, Gens
<1>4. Owned'
  BY DEF IInv, Owned, Referenced, Installed, HeldByRequest, HeldByTask
<1>5. NoNeedlessStart' /\ Setup'
  BY DEF IInv, TypeOK, SingleFlight, Handles, NoNeedlessStart, AlreadyRunning, Setup
<1> QED
  BY <1>1, <1>2, <1>3, <1>4, <1>5 DEF IInv

\* SlowDone keeps the invariant.
LEMMA SlowDoneIInv ==
    ASSUME NEW r \in Requests, IInv, main = "serve", SlowDone(r) PROVE IInv'
<1> USE RestartAssumption DEF startupVars, StartupOK, SlowDone
<1>1. TypeOK'
  BY DEF IInv, TypeOK, Handles, Gens
<1>2. SingleFlight'
  BY DEF IInv, TypeOK, SingleFlight
<1>3. Handles'
  BY DEF IInv, TypeOK, SingleFlight, Handles, Gens
<1>4. Owned'
  BY DEF IInv, Owned, Referenced, Installed, HeldByRequest, HeldByTask
<1>5. NoNeedlessStart' /\ Setup'
  BY DEF IInv, TypeOK, SingleFlight, Handles, NoNeedlessStart, AlreadyRunning, Setup
<1> QED
  BY <1>1, <1>2, <1>3, <1>4, <1>5 DEF IInv

\* TaskCheck keeps the invariant.
LEMMA TaskCheckIInv ==
    ASSUME NEW r \in Requests, IInv, main = "serve", TaskCheck(r) PROVE IInv'
<1> USE RestartAssumption DEF startupVars, StartupOK, TaskCheck, AlreadyRunning
<1>1. TypeOK'
  BY DEF IInv, TypeOK, Handles, Gens
<1>2. SingleFlight'
  BY DEF IInv, TypeOK, SingleFlight
<1>3. Handles'
  BY DEF IInv, TypeOK, SingleFlight, Handles, Gens
<1>4. Owned'
  BY DEF IInv, Owned, Referenced, Installed, HeldByRequest, HeldByTask
<1>5. NoNeedlessStart' /\ Setup'
  BY DEF IInv, TypeOK, SingleFlight, Handles, NoNeedlessStart, AlreadyRunning, Setup
<1> QED
  BY <1>1, <1>2, <1>3, <1>4, <1>5 DEF IInv

\* TaskBuild keeps the invariant.
LEMMA TaskBuildIInv ==
    ASSUME NEW r \in Requests, IInv, main = "serve", TaskBuild(r) PROVE IInv'
<1> USE RestartAssumption DEF startupVars, StartupOK, TaskBuild, Built
<1>1. TypeOK'
  BY DEF IInv, TypeOK, Handles, Gens
<1>2. SingleFlight'
  BY DEF IInv, TypeOK, SingleFlight
<1>3. Handles'
  BY DEF IInv, TypeOK, SingleFlight, Handles, Gens
<1>4. Owned'
  <2>1. /\ built + 1 \in Gens /\ new_z[r] = 0
        /\ new_z \in [Requests -> 0..MaxGen]
        /\ worker \in [Gens -> {"none", "alive", "zombie", "reaped", "stray"}]
    BY DEF IInv, TypeOK, Handles, Gens
  <2> PICK h \in Gens : h = built + 1
    BY <2>1
  <2>2. Referenced(h)'
    BY <2>1 DEF Referenced, HeldByTask
  <2>3. ASSUME NEW g \in Gens \ {h} PROVE Referenced(g)' <=> Referenced(g)
    BY <2>1 DEF Gens, Referenced, Installed, HeldByRequest, HeldByTask
  <2>4. ASSUME NEW g \in Gens
        PROVE  worker'[g] \in {"alive", "zombie"} <=> Referenced(g)'
    BY <2>1, <2>2, <2>3 DEF IInv, Owned
  <2> QED
    BY <2>4 DEF Owned
<1>5. NoNeedlessStart' /\ Setup'
  BY DEF IInv, TypeOK, SingleFlight, Handles, NoNeedlessStart, AlreadyRunning, Setup
<1> QED
  BY <1>1, <1>2, <1>3, <1>4, <1>5 DEF IInv

\* A manager that could not be made, with or without a stray worker.
LEMMA BuildFailsKeeps ==
    ASSUME IInv, main # "down", BuildFails, UNCHANGED <<ZYGOTE, arc, new_z>>
    PROVE  /\ built' \in 0..MaxGen /\ built <= built'
           /\ running' \in SUBSET Gens
           /\ worker' \in [Gens -> {"none", "alive", "zombie", "reaped", "stray"}]
           /\ Owned'
<1> USE RestartAssumption
<1>0. /\ built \in 0..MaxGen /\ running \in SUBSET Gens
      /\ worker \in [Gens -> {"none", "alive", "zombie", "reaped", "stray"}]
  BY DEF IInv, TypeOK
<1>1. ASSUME NEW g \in Gens PROVE Referenced(g)' <=> Referenced(g)
  BY DEF BuildFails, Referenced, Installed, HeldByRequest, HeldByTask
<1>2. CASE UNCHANGED <<built, worker>>
  BY <1>0, <1>1, <1>2 DEF IInv, Owned, BuildFails
<1>3. CASE built < MaxGen /\ built' = built + 1
           /\ worker' = [worker EXCEPT ![built + 1] = "stray"]
  <2>1. built + 1 \in Gens
    BY <1>0, <1>3 DEF Gens
  <2> PICK h \in Gens : h = built + 1
    BY <2>1
  <2>2. ~Referenced(h)
    BY <1>0 DEF IInv, TypeOK, Handles, Referenced, Installed, HeldByRequest, HeldByTask, Gens
  <2>3. ASSUME NEW g \in Gens
        PROVE  worker'[g] \in {"alive", "zombie"} <=> Referenced(g)'
    BY <1>0, <1>1, <1>3, <2>2 DEF IInv, Owned
  <2> QED
    BY <1>0, <1>3, <2>1, <2>3 DEF Owned, BuildFails
<1> QED
  BY <1>2, <1>3 DEF BuildFails

\* TaskBuildFails keeps the invariant.
LEMMA TaskBuildFailsIInv ==
    ASSUME NEW r \in Requests, IInv, main = "serve", TaskBuildFails(r) PROVE IInv'
<1> USE RestartAssumption DEF startupVars, StartupOK, TaskBuildFails
<1>0. /\ built' \in 0..MaxGen /\ built <= built'
      /\ running' \in SUBSET Gens
      /\ worker' \in [Gens -> {"none", "alive", "zombie", "reaped", "stray"}]
      /\ Owned'
  BY BuildFailsKeeps
<1>1. TypeOK'
  BY <1>0 DEF IInv, TypeOK
<1>2. SingleFlight'
  BY DEF IInv, TypeOK, SingleFlight
<1>3. Handles'
  BY <1>0, SMTT(30) DEF IInv, TypeOK, SingleFlight, Handles, Gens
<1>5. NoNeedlessStart' /\ Setup'
  BY DEF IInv, TypeOK, SingleFlight, Handles, NoNeedlessStart, AlreadyRunning, Setup
<1> QED
  BY <1>0, <1>1, <1>2, <1>3, <1>5 DEF IInv

\* TaskSwap keeps the invariant.
LEMMA TaskSwapIInv ==
    ASSUME NEW r \in Requests, IInv, main = "serve", TaskSwap(r) PROVE IInv'
<1> USE RestartAssumption DEF startupVars, StartupOK
<1>0. /\ new_z[r] \in Gens /\ new_z \in [Requests -> 0..MaxGen]
      /\ ZYGOTE \in 0..MaxGen /\ running \in SUBSET Gens
      /\ worker \in [Gens -> {"none", "alive", "zombie", "reaped", "stray"}]
      /\ new_z' = [new_z EXCEPT ![r] = 0]
      /\ \A q \in Requests \ {r} : new_z[q] = 0
      /\ ZYGOTE # new_z[r] /\ \A q \in Requests : arc[q] # new_z[r]
      /\ UNCHANGED <<startupVars, RESTARTING, built, rpc, arc>>
  <2>1. tpc[r] = "swap" /\ new_z' = [new_z EXCEPT ![r] = 0]
        /\ UNCHANGED <<startupVars, RESTARTING, built, rpc, arc>>
    BY DEF TaskSwap
  <2>2. /\ new_z \in [Requests -> 0..MaxGen]
        /\ ZYGOTE \in 0..MaxGen /\ running \in SUBSET Gens
        /\ worker \in [Gens -> {"none", "alive", "zombie", "reaped", "stray"}]
    BY DEF IInv, TypeOK
  <2>3. \A q \in Requests \ {r} : new_z[q] = 0
    BY <2>1 DEF IInv, SingleFlight, Handles
  <2>4. /\ new_z[r] # 0 /\ ZYGOTE # new_z[r]
        /\ \A q \in Requests : arc[q] # new_z[r]
    BY <2>1 DEF IInv, Handles
  <2> QED
    BY <2>1, <2>2, <2>3, <2>4 DEF Gens
<1> PICK n \in Gens : n = new_z[r]
  BY <1>0
<1> PICK z \in 0..MaxGen : z = ZYGOTE
  BY <1>0
<1>1. CASE AlreadyRunning
  <2>1. /\ ZYGOTE' = ZYGOTE /\ running' = running \ {n}
        /\ worker' = [worker EXCEPT ![n] = "reaped"]
    BY <1>1 DEF TaskSwap, Drop
  <2>2. ~Referenced(n)'
    BY <1>0, <2>1 DEF Referenced, Installed, HeldByRequest, HeldByTask, Gens
  <2>3. ASSUME NEW g \in Gens \ {n} PROVE Referenced(g)' <=> Referenced(g)
    BY <1>0, <2>1 DEF Referenced, Installed, HeldByRequest, HeldByTask, Gens
  <2>4. Owned' /\ running' \in SUBSET Gens
           /\ worker' \in [Gens -> {"none", "alive", "zombie", "reaped", "stray"}]
    BY <1>0, <2>1, <2>2, <2>3, ZenonT(30) DEF IInv, Owned
  <2>5. TypeOK' /\ SingleFlight' /\ Handles'
    BY <1>0, <2>1, <2>4 DEF TaskSwap, IInv, TypeOK, SingleFlight, Handles
  <2>6. NoNeedlessStart' /\ Setup'
    BY <1>0, <2>1 DEF TaskSwap, IInv, TypeOK, NoNeedlessStart, AlreadyRunning, Setup, Gens
  <2> QED
    BY <2>4, <2>5, <2>6 DEF IInv
<1>2. CASE ~AlreadyRunning /\ (ZYGOTE = 0 \/ HeldByRequest(ZYGOTE))
  <2>1. ZYGOTE' = n /\ UNCHANGED <<running, worker>>
    BY <1>2 DEF TaskSwap
  <2>2. ASSUME NEW g \in Gens PROVE Referenced(g)' <=> Referenced(g)
    BY <1>0, <1>2, <2>1 DEF Referenced, Installed, HeldByRequest, HeldByTask, Gens
  <2>3. Owned'
    BY <2>1, <2>2 DEF IInv, Owned
  <2>4. TypeOK' /\ SingleFlight' /\ Handles'
    BY <1>0, <2>1, SMTT(30) DEF TaskSwap, IInv, TypeOK, SingleFlight, Handles, Gens
  <2>7. \A q \in Requests : tpc'[q] \in {"none", "end"}
    BY DEF TaskSwap, IInv, TypeOK, SingleFlight
  <2>8. NoNeedlessStart'
    BY <2>7 DEF NoNeedlessStart
  <2>6. Setup'
    BY <1>0, <2>1 DEF TaskSwap, IInv, TypeOK, Setup, Gens
  <2> QED
    BY <2>3, <2>4, <2>6, <2>8 DEF IInv
<1>3. CASE ~AlreadyRunning /\ ~(ZYGOTE = 0 \/ HeldByRequest(ZYGOTE))
  <2>1. /\ z \in Gens /\ ZYGOTE' = n /\ running' = running \ {z}
        /\ worker' = [worker EXCEPT ![z] = "reaped"]
    BY <1>3 DEF TaskSwap, Drop, Gens
  <2>2. ~Referenced(z)'
    BY <1>0, <1>3, <2>1 DEF Referenced, Installed, HeldByRequest, HeldByTask, Gens
  <2>3. ASSUME NEW g \in Gens \ {z} PROVE Referenced(g)' <=> Referenced(g)
    BY <1>0, <2>1 DEF Referenced, Installed, HeldByRequest, HeldByTask, Gens
  <2>4. Owned' /\ running' \in SUBSET Gens
           /\ worker' \in [Gens -> {"none", "alive", "zombie", "reaped", "stray"}]
    BY <1>0, <2>1, <2>2, <2>3 DEF IInv, Owned
  <2>5. TypeOK' /\ SingleFlight' /\ Handles'
    BY <1>0, <2>1, <2>4 DEF TaskSwap, IInv, TypeOK, SingleFlight, Handles, Gens
  <2>7. \A q \in Requests : tpc'[q] \in {"none", "end"}
    BY DEF TaskSwap, IInv, TypeOK, SingleFlight
  <2>8. NoNeedlessStart'
    BY <2>7 DEF NoNeedlessStart
  <2>6. Setup'
    BY <1>0, <2>1 DEF TaskSwap, IInv, TypeOK, Setup, Gens
  <2> QED
    BY <2>4, <2>5, <2>6, <2>8 DEF IInv
<1> QED
  BY <1>1, <1>2, <1>3

\* TaskEnd keeps the invariant.
LEMMA TaskEndIInv ==
    ASSUME NEW r \in Requests, IInv, main = "serve", TaskEnd(r) PROVE IInv'
<1> USE RestartAssumption DEF startupVars, StartupOK, TaskEnd
<1>1. TypeOK'
  BY ZenonT(30) DEF IInv, TypeOK, Handles, Gens
<1>2. SingleFlight'
  BY DEF IInv, TypeOK, SingleFlight
<1>3. Handles'
  BY DEF IInv, TypeOK, SingleFlight, Handles, Gens
<1>4. Owned'
  BY DEF IInv, Owned, Referenced, Installed, HeldByRequest, HeldByTask
<1>5. NoNeedlessStart' /\ Setup'
  BY DEF IInv, TypeOK, SingleFlight, Handles, NoNeedlessStart, AlreadyRunning, Setup
<1> QED
  BY <1>1, <1>2, <1>3, <1>4, <1>5 DEF IInv

\* WorkerDies keeps the invariant.
LEMMA WorkerDiesIInv == ASSUME NEW g \in Gens, IInv, WorkerDies(g) PROVE IInv'
<1> USE RestartAssumption DEF startupVars, StartupOK, WorkerDies
<1>1. TypeOK'
  BY DEF IInv, TypeOK, Handles, Gens
<1>2. SingleFlight'
  BY DEF IInv, TypeOK, SingleFlight
<1>3. Handles'
  BY DEF IInv, TypeOK, SingleFlight, Handles, Gens
<1>4. main' # "down" => Owned'
  BY DEF IInv, Owned, Referenced, Installed, HeldByRequest, HeldByTask
<1>5. NoNeedlessStart' /\ Setup'
  BY DEF IInv, TypeOK, SingleFlight, Handles, NoNeedlessStart, AlreadyRunning, Setup
<1> QED
  BY <1>1, <1>2, <1>3, <1>4, <1>5 DEF IInv

\* ReaderStops keeps the invariant.
LEMMA ReaderStopsIInv == ASSUME NEW g \in Gens, IInv, ReaderStops(g) PROVE IInv'
<1> USE RestartAssumption DEF startupVars, StartupOK, ReaderStops
<1>1. TypeOK'
  BY DEF IInv, TypeOK, Handles, Gens
<1>2. SingleFlight'
  BY DEF IInv, TypeOK, SingleFlight
<1>3. Handles'
  BY DEF IInv, TypeOK, SingleFlight, Handles, Gens
<1>4. main' # "down" => Owned'
  BY DEF IInv, Owned, Referenced, Installed, HeldByRequest, HeldByTask
<1>5. NoNeedlessStart' /\ Setup'
  BY DEF IInv, TypeOK, SingleFlight, Handles, NoNeedlessStart, AlreadyRunning, Setup
<1> QED
  BY <1>1, <1>2, <1>3, <1>4, <1>5 DEF IInv

\* The start of the server keeps the invariant.
LEMMA StartupIInv ==
    ASSUME IInv, StartupStep,
           UNCHANGED <<ZYGOTE, RESTARTING, built, running, worker, rpc, arc, tpc, new_z>>
    PROVE  IInv'
<1> USE StartupAssumption
        DEF StartupStep, LoadConfig, InstallDependencies, CopyIntoJail, EnvironmentReady, Bind
<1>1. TypeOK'
  BY DEF IInv, TypeOK, StartupOK
<1>2. SingleFlight' /\ Handles' /\ NoNeedlessStart'
  BY DEF IInv, SingleFlight, Handles, NoNeedlessStart, AlreadyRunning
<1>3. Setup'
  BY DEF IInv, TypeOK, StartupOK, Setup
<1>4. main # "down" /\ Owned'
  BY DEF IInv, Owned, Referenced, Installed, HeldByRequest, HeldByTask
<1> QED
  BY <1>1, <1>2, <1>3, <1>4 DEF IInv

\* Building the first manager keeps the invariant.
LEMMA StartZygoteIInv == ASSUME IInv, StartZygote PROVE IInv'
<1> USE RestartAssumption
<1>0. /\ main = "zygote" /\ main' = "bind" /\ left = 0 /\ built = 0 /\ ZYGOTE = 0
      /\ UNCHANGED <<python_zygote, left, RESTARTING, rpc, arc, tpc, new_z>>
      /\ \A r \in Requests :
            rpc[r] = "idle" /\ tpc[r] = "none" /\ arc[r] = 0 /\ new_z[r] = 0
  BY DEF StartZygote, IInv, Setup, Handles
<1>1. SingleFlight'
  BY <1>0 DEF IInv, SingleFlight
<1>2. CASE Built(1) /\ ZYGOTE' = 1
  <2>1. /\ built' = 1 /\ running' = running \cup {1} /\ 1 \in Gens
        /\ worker' = [worker EXCEPT ![1] = "alive"]
    BY <1>2 DEF Built, Gens
  <2>2. TypeOK'
    BY <1>0, <1>2, <2>1 DEF IInv, TypeOK, StartupOK, Gens
  <2>3. Handles' /\ NoNeedlessStart' /\ Setup'
    BY <1>0, <1>2, <2>1 DEF IInv, TypeOK, Handles, NoNeedlessStart, AlreadyRunning, Setup
  <2>4. ASSUME NEW g \in Gens
        PROVE  worker'[g] \in {"alive", "zombie"} <=> Referenced(g)'
    BY <1>0, <1>2, <2>1
       DEF IInv, TypeOK, Setup, Gens, Referenced, Installed, HeldByRequest, HeldByTask
  <2> QED
    BY <1>1, <2>2, <2>3, <2>4 DEF IInv, Owned
<1>3. CASE BuildFails /\ UNCHANGED ZYGOTE
  <2>1. /\ built' \in 0..MaxGen /\ built <= built'
        /\ running' \in SUBSET Gens
        /\ worker' \in [Gens -> {"none", "alive", "zombie", "reaped", "stray"}]
        /\ Owned'
    BY <1>0, <1>3, BuildFailsKeeps
  <2>2. TypeOK'
    BY <1>0, <1>3, <2>1 DEF IInv, TypeOK, StartupOK
  <2>3. Handles' /\ NoNeedlessStart' /\ Setup'
    BY <1>0, <1>3, <2>1 DEF IInv, TypeOK, Handles, NoNeedlessStart, AlreadyRunning, Setup
  <2> QED
    BY <1>1, <2>1, <2>2, <2>3 DEF IInv
<1> QED
  BY <1>2, <1>3 DEF StartZygote

\* Starting without a zygote keeps the invariant.
LEMMA NoZygoteIInv == ASSUME IInv, NoZygote PROVE IInv'
<1> USE DEF NoZygote
<1>1. TypeOK'
  BY DEF IInv, TypeOK, StartupOK
<1>2. SingleFlight' /\ Handles' /\ NoNeedlessStart' /\ Setup'
  BY DEF IInv, SingleFlight, Handles, NoNeedlessStart, AlreadyRunning, Setup
<1>3. Owned'
  BY DEF IInv, Owned, Referenced, Installed, HeldByRequest, HeldByTask
<1> QED
  BY <1>1, <1>2, <1>3 DEF IInv

\* The end of the server process keeps the invariant.
LEMMA StopIInv == ASSUME IInv, Stop PROVE IInv'
<1> USE RestartAssumption
<1>0. /\ main' = "down" /\ ZYGOTE' = 0 /\ running' = {} /\ RESTARTING' = FALSE
      /\ rpc' = [r \in Requests |-> "idle"] /\ tpc' = [r \in Requests |-> "none"]
      /\ arc' = [r \in Requests |-> 0] /\ new_z' = [r \in Requests |-> 0]
      /\ UNCHANGED <<python_zygote, left, built, worker>>
  BY DEF Stop
<1>1. TypeOK'
  <2>1. /\ rpc' \in [Requests -> {"idle", "got", "run", "ask", "slow"}]
        /\ tpc' \in [Requests -> {"none", "check", "build", "swap", "end"}]
        /\ arc' \in [Requests -> 0..MaxGen] /\ new_z' \in [Requests -> 0..MaxGen]
    BY <1>0
  <2>2. RESTARTING' \in BOOLEAN
    BY <1>0, ZenonT(30)
  <2>3. StartupOK'
    BY <1>0 DEF IInv, TypeOK, StartupOK
  <2> QED
    BY <1>0, <2>1, <2>2, <2>3 DEF IInv, TypeOK
<1>2. SingleFlight'
  BY <1>0 DEF SingleFlight
<1>3. Handles' /\ NoNeedlessStart' /\ Setup'
  BY <1>0 DEF IInv, TypeOK, Handles, NoNeedlessStart, AlreadyRunning, Setup
<1> QED
  BY <1>0, <1>1, <1>2, <1>3 DEF IInv

\* Every step of main(), a request, a restart task, a reader or a worker
\* keeps it.
LEMMA NextIInv == IInv /\ [Next]_vars => IInv'
<1> SUFFICES ASSUME IInv, [Next]_vars PROVE IInv'
  OBVIOUS
<1>1. CASE UNCHANGED vars
  <2>1. TypeOK' /\ SingleFlight' /\ Handles' /\ NoNeedlessStart' /\ Setup'
    BY <1>1, SMTT(30) DEF vars, startupVars, IInv, TypeOK, StartupOK, SingleFlight, Handles, NoNeedlessStart, AlreadyRunning, Setup
  <2>2. main' # "down" => Owned'
    BY <1>1 DEF vars, startupVars, IInv, Owned, Referenced, Installed, HeldByRequest, HeldByTask
  <2> QED
    BY <2>1, <2>2, SMTT(30) DEF IInv
<1>2. CASE MainStep \/ Stop
  BY <1>2, StartupIInv, StartZygoteIInv, NoZygoteIInv, StopIInv DEF MainStep
<1>3. CASE \E r \in Requests : RequestStep(r)
  BY <1>3, GetZygoteIInv, ChoosePathIInv, FastDoneIInv, AskRestartIInv, SlowDoneIInv
     DEF RequestStep
<1>4. CASE \E r \in Requests : TaskStep(r)
  BY <1>4, TaskCheckIInv, TaskBuildIInv, TaskBuildFailsIInv, TaskSwapIInv, TaskEndIInv
     DEF TaskStep
<1>5. CASE \E g \in Gens : WorkerDies(g) \/ ReaderStops(g)
  BY <1>5, WorkerDiesIInv, ReaderStopsIInv
<1> QED
  BY <1>1, <1>2, <1>3, <1>4, <1>5 DEF Next

\* The types of all variables hold in every reachable state.
THEOREM TypeCorrect == Spec => []TypeOK
  BY InitIInv, NextIInv, PTL DEF Spec, IInv

\* The gate of request_zygote_restart admits one restart task at a time, for
\* any number of requests that see the zygote dead.
THEOREM RestartIsSingleFlight == Spec => []SingleFlight
  BY InitIInv, NextIInv, PTL DEF Spec, IInv

\* Dropping managers by reference count leaves no worker process behind.
THEOREM WorkersAreReaped == Spec => []NoWorkerLeftOver
<1>1. IInv => NoWorkerLeftOver
  BY DEF IInv, Owned, NoWorkerLeftOver
<1> QED
  BY <1>1, InitIInv, NextIInv, PTL DEF Spec

\* No manager is dropped while a request, a task or ZYGOTE refers to it.
THEOREM HeldManagersStay == Spec => []NoUseAfterDrop
<1>1. IInv => NoUseAfterDrop
  <2> SUFFICES ASSUME IInv, NEW g \in Gens, Referenced(g)
               PROVE  worker[g] \in {"alive", "zombie"}
    BY DEF NoUseAfterDrop
  <2>1. CASE main = "down"
    BY <2>1 DEF IInv, Setup, Handles, Referenced, Installed, HeldByRequest, HeldByTask, Gens
  <2>2. CASE main # "down"
    BY <2>2 DEF IInv, Owned
  <2> QED
    BY <2>1, <2>2
<1> QED
  BY <1>1, InitIInv, NextIInv, PTL DEF Spec

\* The order of main(): no worker and no request before the jail is filled.
THEOREM JailBeforeWork == Spec => []JailFirst
<1>1. IInv => JailFirst
  BY DEF IInv, Setup, JailFirst
<1> QED
  BY <1>1, InitIInv, NextIInv, PTL DEF Spec

\* The double check of try_restart_zygote protects a running manager.
THEOREM RunningManagerStays == Spec => LiveNeverReplaced
<1>1. IInv /\ [Next]_vars =>
         [(ZYGOTE \in running /\ main' # "down") => ZYGOTE' = ZYGOTE]_vars
  <2> SUFFICES ASSUME IInv, Next, ZYGOTE \in running, main' # "down" PROVE ZYGOTE' = ZYGOTE
    BY DEF vars
  <2>1. CASE MainStep
    <3>1. main # "zygote"
      BY DEF IInv, TypeOK, Setup, Gens
    <3> QED
      BY <2>1, <3>1 DEF MainStep, StartZygote, NoZygote
  <2>2. CASE Stop
    BY <2>2 DEF Stop
  <2>3. CASE \E r \in Requests : RequestStep(r)
    BY <2>3 DEF RequestStep, GetZygote, ChoosePath, FastDone, AskRestart, SlowDone
  <2>4. CASE \E r \in Requests : TaskStep(r)
    BY <2>4 DEF TaskStep, TaskCheck, TaskBuild, TaskBuildFails, TaskSwap, TaskEnd, AlreadyRunning
  <2>5. CASE \E g \in Gens : WorkerDies(g) \/ ReaderStops(g)
    BY <2>5 DEF WorkerDies, ReaderStops
  <2> QED
    BY <2>1, <2>2, <2>3, <2>4, <2>5 DEF Next
<1> QED
  BY <1>1, InitIInv, NextIInv, PTL DEF Spec, LiveNeverReplaced

\* The check of try_restart_zygote before the build still holds at the swap,
\* for any number of requests: a restart task finds no running manager there.
THEOREM RestartsAreNeeded == Spec => []NoNeedlessStart
  BY InitIInv, NextIInv, PTL DEF Spec, IInv
=============================================================================
