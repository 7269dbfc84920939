---------------------------- MODULE SyscallFilter ----------------------------
(***************************************************************************)
(* The seccomp filter of the sandbox library, one table per language: the  *)
(* calls that are allowed, the ones that fail with EPERM, the ones a       *)
(* request with network access has in addition; every other call kills the *)
(* process.  A call is its name and the argument the rules look at.        *)
(***************************************************************************)

python_ALLOW_SYSCALLS ==
    {"read", "write", "openat", "close", "newfstatat", "statx", "fstat",
     "lseek", "getdents64", "fcntl", "pread64", "readv", "writev",
     "rt_sigreturn", "rt_sigaction", "rt_sigprocmask", "sigaltstack",
     "ioctl", "futex", "set_tid_address", "sched_getaffinity", "mmap",
     "brk", "mprotect", "munmap", "mremap", "madvise", "getuid",
     "getpid", "getppid", "gettid", "exit", "exit_group", "sched_yield",
     "set_robust_list", "get_robust_list", "rseq", "clock_gettime",
     "gettimeofday", "time", "nanosleep", "clock_nanosleep",
     "epoll_create1", "epoll_ctl", "pselect6", "eventfd2", "pipe2",
     "getrandom", "getcwd", "uname"}

python_ALLOW_ERROR_SYSCALLS ==
    {"clone", "clone3", "mkdirat", "mkdir", "tgkill", "prlimit64"}

python_ALLOW_NETWORK_SYSCALLS ==
    {"socket", "connect", "bind", "listen", "accept", "sendto",
     "recvfrom", "getsockname", "recvmsg", "getpeername", "setsockopt",
     "ppoll", "sendmsg", "sendmmsg", "getsockopt", "fstatfs", "poll",
     "epoll_pwait"}

nodejs_ALLOW_SYSCALLS ==
    {"open", "write", "close", "read", "openat", "newfstatat", "statx",
     "lseek", "fstat", "readlink", "dup3", "fcntl", "fsync", "mprotect",
     "mmap", "munmap", "mremap", "brk", "madvise", "rt_sigaction",
     "rt_sigprocmask", "sigaltstack", "rt_sigreturn", "ioctl", "futex",
     "sched_yield", "set_robust_list", "rseq", "getuid", "getpid",
     "gettid", "exit", "exit_group", "sched_getaffinity",
     "clock_gettime", "gettimeofday", "nanosleep", "time", "epoll_ctl",
     "epoll_pwait", "eventfd2"}

nodejs_ALLOW_ERROR_SYSCALLS ==
    {"clone", "clone3", "tgkill"}

nodejs_ALLOW_NETWORK_SYSCALLS ==
    {"socket", "connect", "bind", "listen", "accept", "sendto",
     "recvfrom", "getsockname", "recvmsg", "getpeername", "setsockopt",
     "ppoll", "uname", "sendmsg", "getsockopt", "fcntl", "fstatfs"}

Errors(lang) ==
    IF lang = "python" THEN python_ALLOW_ERROR_SYSCALLS ELSE nodejs_ALLOW_ERROR_SYSCALLS
Always(lang) ==
    IF lang = "python" THEN python_ALLOW_SYSCALLS ELSE nodejs_ALLOW_SYSCALLS
Network(lang) ==
    IF lang = "python" THEN python_ALLOW_NETWORK_SYSCALLS ELSE nodejs_ALLOW_NETWORK_SYSCALLS

\* environ: the calls in the ALLOWED_SYSCALLS of the process, {} without one.
get_allowed_syscalls(lang, net, environ) ==
    IF environ # {} THEN environ
    ELSE Always(lang) \cup (IF net THEN Network(lang) ELSE {})

\* What the rules see of the arguments: O_CREAT among the flags of an open,
\* the request of an ioctl.
Args == {"plain", "O_CREAT", "FIONBIO", "TCGETS"}

\* The rules install_seccomp adds for an allowed call.
Rules(sc) ==
    CASE sc \in {"openat", "open"} -> {[act |-> "ALLOW", on |-> Args \ {"O_CREAT"}]}
      [] sc = "ioctl" -> {[act |-> "ALLOW", on |-> {"FIONBIO"}],
                          [act |-> "EPERM", on |-> Args \ {"FIONBIO"}]}
      [] OTHER -> {[act |-> "ALLOW", on |-> Args]}

\* Mutant of Verdict: an ioctl outside the rule for FIONBIO is not provided for.
VerdictWithoutEperm(lang, net, environ, sc, arg) ==
    IF /\ sc \in get_allowed_syscalls(lang, net, environ)
       /\ \E r \in Rules(sc) : r.act = "ALLOW" /\ arg \in r.on
    THEN "ALLOW" ELSE "KILL"

\* What the loaded filter does with a call: of the rules that match, EPERM
\* goes before ALLOW; without one, the default KILL_PROCESS.
Verdict(lang, net, environ, sc, arg) ==
    LET acts == {r.act : r \in {r \in Rules(sc) : arg \in r.on}}
        hits == (IF sc \in get_allowed_syscalls(lang, net, environ) THEN acts ELSE {})
                \cup (IF sc \in Errors(lang) THEN {"EPERM"} ELSE {})
    IN  IF "EPERM" \in hits THEN "EPERM" ELSE IF "ALLOW" \in hits THEN "ALLOW" ELSE "KILL"
=============================================================================
