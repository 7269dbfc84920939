----------------------------- MODULE SandboxInit -----------------------------
(***************************************************************************)
(* How a process is confined before it runs code of a request: Landlock in *)
(* non-privileged mode, then init_seccomp, call by call.  The calls come   *)
(* from the bootstrap of the process: _child_exec of the zygote worker,    *)
(* prescript.py or prescript.js.  Any of them may be refused; the kernel   *)
(* refuses the ones the process has given up the right to.                 *)
(***************************************************************************)
EXTENDS Integers, Sequences

VARIABLES
    opts,   \* what init_seccomp and apply_landlock are called with
    proc,   \* the state of the process that the calls change
    todo,   \* the calls still to be made
    rc,     \* the status of the first call that failed, 0 if none
    fault   \* the call the kernel refuses in this run, "none" for none

initVars == <<opts, proc, todo, rc, fault>>

\* A process as it is started by the server or forked by the worker: without
\* privileges, the server runs as an ordinary user.  (A fork has the worker's
\* dumpable flag, off already; nothing relies on that.)
Unconfined(o) ==
    LET id == IF o.privilege THEN "root" ELSE "user"
    IN  [as |-> FALSE, root |-> FALSE, cwd |-> "lib", nnp |-> FALSE, dumpable |-> TRUE,
         groups |-> TRUE, gid |-> id, uid |-> id, landlock |-> FALSE, filter |-> FALSE]

\* Mutant of init_seccomp: privileges are dropped before the chroot.
init_seccomp_drop_first(o) ==
    (IF o.max_as > 0 THEN <<"setrlimit">> ELSE <<>>)
    \o (IF o.privilege THEN <<"setgroups", "setgid", "setuid", "chroot", "chdir">> ELSE <<>>)
    \o <<"no_new_privs", "dumpable", "seccomp">>

\* init_seccomp: set_memory_limit, setup_root, set_no_new_privs,
\* drop_privileges, install_seccomp.
init_seccomp(o) ==
    (IF o.max_as > 0 THEN <<"setrlimit">> ELSE <<>>)
    \o (IF o.privilege THEN <<"chroot", "chdir">> ELSE <<>>)
    \o <<"no_new_privs", "dumpable">>
    \o (IF o.privilege THEN <<"setgroups", "setgid", "setuid">> ELSE <<>>)
    \o <<"seccomp">>

\* The bootstraps apply Landlock first, and only without privileges.
Bootstrap(o) == (IF o.privilege THEN <<>> ELSE <<"landlock">>) \o init_seccomp(o)

\* The status each call is reported with; the steps of apply_landlock and of
\* install_seccomp share one here.
Status ==
    [chroot |-> -1, chdir |-> -2, no_new_privs |-> -3, dumpable |-> -12, setgroups |-> -10,
     setgid |-> -4, setuid |-> -5, setrlimit |-> -11, seccomp |-> -9, landlock |-> -21]

\* What a call that succeeds changes.  The ruleset of apply_landlock handles
\* all access, and the crate sets no_new_privs before it restricts.
Effect(call, p) ==
    CASE call = "setrlimit"    -> [p EXCEPT !.as = TRUE]
      [] call = "chroot"       -> [p EXCEPT !.root = TRUE]
      [] call = "chdir"        -> [p EXCEPT !.cwd = IF p.root THEN "jail" ELSE "/"]
      [] call = "no_new_privs" -> [p EXCEPT !.nnp = TRUE]
      [] call = "dumpable"     -> [p EXCEPT !.dumpable = FALSE]
      [] call = "setgroups"    -> [p EXCEPT !.groups = FALSE]
      [] call = "setgid"       -> [p EXCEPT !.gid = "sandbox"]
      [] call = "setuid"       -> [p EXCEPT !.uid = "sandbox"]
      [] call = "landlock"     -> [p EXCEPT !.landlock = TRUE, !.nnp = TRUE]
      [] call = "seccomp"      -> [p EXCEPT !.filter = TRUE]

\* The kernel: changing the root or the ids is for root, loading a filter
\* for root or after no_new_privs.
Permitted(call, p) ==
    /\ call \in {"chroot", "setgroups", "setgid", "setuid"} => p.uid = "root"
    /\ call = "seccomp" => p.uid = "root" \/ p.nnp

\* Mutant of InitStep: the status of a call is not looked at.
InitStepUnchecked ==
    /\ todo # <<>>
    /\ todo' = Tail(todo)
    /\ proc' = IF Head(todo) # fault THEN Effect(Head(todo), proc) ELSE proc
    /\ UNCHANGED <<opts, rc, fault>>

\* One call of the bootstrap; the first failure ends it.
InitStep ==
    /\ todo # <<>>
    /\ IF Head(todo) # fault /\ Permitted(Head(todo), proc)
       THEN /\ proc' = Effect(Head(todo), proc)
            /\ todo' = Tail(todo)
            /\ UNCHANGED rc
       ELSE /\ rc' = Status[Head(todo)]
            /\ todo' = <<>>
            /\ UNCHANGED proc
    /\ UNCHANGED <<opts, fault>>

\* What the mode promises: a process in the jail with the ids of the sandbox
\* user, or a process under Landlock; in both cases without a way to new
\* privileges, hidden from its peers, under the filter, and within the
\* memory limit if there is one.
Confined ==
    /\ IF opts.privilege
       THEN /\ proc.root /\ proc.cwd = "jail"
            /\ proc.uid = "sandbox" /\ proc.gid = "sandbox" /\ ~proc.groups
       ELSE proc.landlock
    /\ proc.nnp /\ ~proc.dumpable /\ proc.filter
    /\ opts.max_as > 0 => proc.as
=============================================================================
