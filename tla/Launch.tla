------------------------------- MODULE Launch -------------------------------
(***************************************************************************)
(* A request for code from the handler to the confined process that runs   *)
(* it.  The configuration decides what the request may have; the program   *)
(* travels encrypted in a RUN frame to the zygote worker, which forks (the *)
(* fast path), or in a script to a new interpreter (the slow path of       *)
(* Python, Node.js); the process confines itself, decrypts and runs it; a  *)
(* timeout kills it, with a KILL frame or with the drop of the child.      *)
(***************************************************************************)
EXTENDS ServerConfig, SyscallFilter, SandboxInit, CodeCipher, FrameStream

CONSTANTS
    Inputs,     \* records: file, env, request, fault, code, key
    UserCalls   \* the system calls that code of a request tries

\* Programs and keys are bytes; generate_key never makes an empty key.
ASSUME LaunchAssumption ==
    \A x \in Inputs : x.code \in Seq(Byte) /\ x.key \in Seq(Byte) \ {<<>>}

VARIABLES
    input,      \* what this run starts from
    path,       \* "fast", "slow" or "node", once chosen
    stage,      \* how far the request is
    timed_out,  \* whether the server gave up on the process
    granted,    \* the calls of code of the request that the filter let pass
    killer      \* what made the kernel kill the process, if anything did

launchVars == <<initVars, cipherVars, streamVars, input, path, stage, timed_out, granted, killer>>

request == input.request
config == load(input.file, input.env)

\* Byte strings come from sequences.
AsBytes(s) == [j \in 0..Len(s)-1 |-> s[j+1]]

LaunchInit ==
    /\ input \in {x \in Inputs : Loads(x.file)}
    /\ code = AsBytes(input.code) /\ n = Len(input.code)
    /\ key = AsBytes(input.key) /\ kl = Len(input.key)
    /\ data = [j \in {} |-> 0] /\ i = 0 /\ out = [j \in 0..n-1 |-> 0]
    /\ fault = input.fault /\ rc = 0 /\ todo = <<>>
    /\ opts = [privilege |-> TRUE, net |-> FALSE, max_as |-> 0]
    /\ proc = Unconfined(opts)
    /\ StreamInit
    /\ path = "none" /\ stage = "request" /\ timed_out = FALSE
    /\ granted = {} /\ killer = "none"

\* The key is wrong, or the code is not base64: an answer, and no process.
Refuse ==
    /\ stage = "request"
    /\ ~(request.authorized /\ request.base64)
    /\ stage' = "refused"
    /\ UNCHANGED <<initVars, cipherVars, streamVars, input, path, timed_out, granted, killer>>

\* Mutant of NetworkAllowed: the request alone decides.
RequestedNetwork == request.enable_network

NetworkAllowed == request.enable_network /\ config.enable_network

checked_preload == request.preload /\ config.enable_preload

RUN == 1
KILL == 2

\* The three runners, up to the write of the frame or the spawn.
Route ==
    /\ stage = "request"
    /\ request.authorized /\ request.base64
    /\ \E zygote \in BOOLEAN :
          path' = IF request.language = "nodejs" THEN "node"
                  ELSE IF config.python_zygote /\ ~checked_preload /\ zygote THEN "fast"
                  ELSE "slow"
    /\ data' = IF path' = "node" THEN code ELSE encrypt_code(code, n)
    /\ opts' = [privilege |-> config.privilege, net |-> NetworkAllowed,
                max_as |-> IF path' = "node" THEN config.nodejs_max_as_bytes
                           ELSE config.python_max_as_bytes]
    /\ proc' = Unconfined(opts')
    /\ IF path' = "fast"
       THEN /\ stage' = "send"
            /\ SendFrame([type |-> RUN, id |-> 1,
                          payload |-> [k \in 1..n |-> data'[k-1]]])
            /\ UNCHANGED todo
       ELSE /\ stage' = "boot"
            /\ todo' = Bootstrap(opts')
            /\ UNCHANGED streamVars
    /\ UNCHANGED <<rc, fault, code, n, key, kl, i, out, input, timed_out, granted, killer>>

Alive == stage \in {"boot", "preload", "decode", "user"}

\* The worker handles a frame: RUN forks the sandbox, KILL ends it.
Handle ==
    /\ Yield
    /\ LET f == FirstFrame(recv_buf)
       IN  CASE f.type = RUN  -> /\ stage' = "boot"
                                 /\ data' = AsBytes(f.payload)
                                 /\ todo' = Bootstrap(opts)
             [] f.type = KILL -> /\ stage' = IF Alive THEN "killed" ELSE stage
                                 /\ UNCHANGED <<data, todo>>
             [] OTHER         -> UNCHANGED <<stage, data, todo>>
    /\ UNCHANGED <<opts, proc, rc, fault, code, n, key, kl, i, out, input, path, timed_out,
                   granted, killer>>

Transfer ==
    /\ StreamStep
    /\ UNCHANGED <<initVars, cipherVars, input, path, stage, timed_out, granted, killer>>

Confine ==
    /\ stage = "boot" /\ InitStep
    /\ UNCHANGED <<cipherVars, streamVars, input, path, stage, timed_out, granted, killer>>

\* The names in the environment of the process: the spawns clear it.
child_env ==
    {"PATH"} \cup {v[1] : v \in proxy_env_vars(config)}
    \cup (IF path = "node" THEN {"UV_USE_IO_URING", "NODE_PATH"} ELSE {})

Lang == IF path = "node" THEN "nodejs" ELSE "python"

Judge(c) ==
    Verdict(Lang, opts.net,
            IF "ALLOWED_SYSCALLS" \in child_env THEN input.env["ALLOWED_SYSCALLS"] ELSE {},
            c[1], c[2])

\* What an interpreter does on its own once the filter is loaded: memory,
\* locks, opening a source file for a traceback, output, exit.
RuntimeCalls ==
    {<<sc, "plain">> : sc \in {"mmap", "munmap", "brk", "futex", "openat", "fstat", "lseek",
                               "read", "write", "close", "rt_sigaction", "exit_group"}}
    \cup {<<"ioctl", "TCGETS">>}

\* The status of the bootstraps was zero: preload (in prescript.py only),
\* then the code.  Otherwise they raise, and the process ends.
Booted ==
    /\ stage = "boot" /\ todo = <<>>
    /\ IF proc.filter /\ \E c \in RuntimeCalls : Judge(c) = "KILL"
       THEN stage' = "killed" /\ killer' = "bootstrap"
       ELSE /\ stage' = IF rc # 0 THEN "failed"
                        ELSE IF checked_preload /\ path = "slow" THEN "preload" ELSE "decode"
            /\ UNCHANGED killer
    /\ UNCHANGED <<initVars, cipherVars, streamVars, input, path, timed_out, granted>>

PreloadDone ==
    /\ stage = "preload"
    /\ stage' \in {"decode", "exited"}
    /\ UNCHANGED <<initVars, cipherVars, streamVars, input, path, timed_out, granted, killer>>

\* _xor chunk by chunk, decrypt in prescript.py, Buffer.from in prescript.js.
Decode ==
    /\ stage = "decode"
    /\ \/ /\ path = "fast" /\ XorStep
          /\ UNCHANGED stage
       \/ /\ path = "fast" /\ i = n
          /\ stage' = "user"
          /\ UNCHANGED cipherVars
       \/ /\ path # "fast"
          /\ out' = IF path = "slow" THEN decrypt ELSE data
          /\ i' = n
          /\ stage' = "user"
          /\ UNCHANGED <<code, n, key, kl, data>>
    /\ UNCHANGED <<initVars, streamVars, input, path, timed_out, granted, killer>>

\* Code of the request makes a system call.
UserCall(c) ==
    /\ stage \in {"preload", "user"}
    /\ LET v == IF proc.filter THEN Judge(c) ELSE "ALLOW"
       IN  /\ granted' = IF v = "ALLOW" THEN granted \cup {c} ELSE granted
           /\ stage' = IF v = "KILL" THEN "killed" ELSE stage
           /\ killer' = IF v = "KILL" THEN "user" ELSE killer
    /\ UNCHANGED <<initVars, cipherVars, streamVars, input, path, timed_out>>

UserEnds ==
    /\ stage = "user"
    /\ stage' = "exited"
    /\ UNCHANGED <<initVars, cipherVars, streamVars, input, path, timed_out, granted, killer>>

\* Mutant of Timeout: on the fast path the process is left to itself.
TimeoutSlowOnly ==
    /\ Alive /\ ~timed_out /\ path # "fast"
    /\ timed_out' = TRUE
    /\ stage' = "killed"
    /\ UNCHANGED <<initVars, cipherVars, streamVars, input, path, granted, killer>>

\* The time is up: a KILL frame, or kill_on_drop.
Timeout ==
    /\ Alive \/ stage = "send"
    /\ ~timed_out
    /\ timed_out' = TRUE
    /\ IF path = "fast"
       THEN SendFrame([type |-> KILL, id |-> 1, payload |-> <<>>]) /\ UNCHANGED stage
       ELSE stage' = "killed" /\ UNCHANGED streamVars
    /\ UNCHANGED <<initVars, cipherVars, input, path, granted, killer>>

Step == Refuse \/ Route \/ Handle \/ Transfer \/ Confine \/ Booted \/ Decode \/ Timeout

LaunchNext ==
    \/ Step
    \/ PreloadDone \/ UserEnds
    \/ \E c \in UserCalls : UserCall(c)

\* The server, the socket, the worker and the bootstraps go on; what code of
\* the request does is up to it.
LaunchSpec ==
    /\ LaunchInit /\ [][LaunchNext]_launchVars
    /\ WF_launchVars(Handle \/ Transfer)
    /\ WF_launchVars(Refuse \/ Route \/ Confine \/ Booted \/ Decode)
    /\ WF_launchVars(Timeout)

-----------------------------------------------------------------------------

\* The process runs the program of the request, byte for byte, on each of the
\* three paths: encryption, framing, a stream cut anywhere and decryption in
\* chunks undo each other.
CodeIntact == stage = "user" => out = code

\* Code of the request, the preload included, and the plain text of the
\* program are only ever in a process that the mode's calls have confined,
\* whichever of the calls fails.
OnlyConfinedCode == stage \in {"preload", "decode", "user"} => Confined

\* The order of the calls is one the kernel accepts: initialisation fails
\* only if a call is refused for a reason of its own, never because an
\* earlier step gave up the right to a later one.
InitInOrder == rc # 0 => fault # "none" /\ rc = Status[fault]

\* A socket is for requests that ask for it under a configuration that
\* grants it, and a preload runs only where the configuration has it: the
\* last of defaults, file and environment to say so decides.
GatesHold ==
    LET set(name, field, default) ==
            IF name \in DOMAIN input.env THEN input.env[name] \in {"1", "true", "yes"}
            ELSE IF field \in DOMAIN input.file THEN input.file[field] ELSE default
    IN  /\ <<"socket", "plain">> \in granted =>
              request.enable_network /\ set("ENABLE_NETWORK", "enable_network", TRUE)
        /\ stage = "preload" => request.preload /\ set("ENABLE_PRELOAD", "enable_preload", FALSE)

\* The filter leaves an interpreter what it needs to decode the program, to
\* write what it has to say and to exit: a kill is the doing of user code.
BootstrapSurvives == killer # "bootstrap"

\* Every process that was asked for ends, also if its code never does.
LaunchEnds == (stage = "send" \/ Alive) ~> stage \in {"exited", "failed", "killed"}
=============================================================================
