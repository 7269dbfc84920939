------------------------------ MODULE MCLaunch ------------------------------
(***************************************************************************)
(* Model-checking instance of Launch: three groups of inputs, each varying *)
(* one side with the others fixed: the configuration and the request; the  *)
(* call that fails; the program and its key.                               *)
(***************************************************************************)
EXTENDS Launch, TLC

MCXor(a, b) == (a + b) % 2

App == [port |-> 8194, key |-> "k"]

\* Both modes, with and without a zygote and a memory limit.
Modes ==
    {App @@ [privilege |-> p, python_zygote |-> z, enable_preload |-> TRUE,
             python_max_as_bytes |-> m, nodejs_max_as_bytes |-> m] :
        p \in BOOLEAN, z \in BOOLEAN, m \in {0, 1}}

Request(lang, net, preload) ==
    [language |-> lang, enable_network |-> net, preload |-> preload,
     authorized |-> TRUE, base64 |-> TRUE]

Languages == {"python", "nodejs"}
Calls == {"setrlimit", "chroot", "chdir", "no_new_privs", "dumpable", "setgroups", "setgid",
          "setuid", "seccomp", "landlock"}
Empty == [v \in {} |-> ""]

Input(file, env, request_, fault_, code_, key_) ==
    [file |-> file, env |-> env, request |-> request_, fault |-> fault_,
     code |-> code_, key |-> key_]

\* What is set where, for the two gates; a file without [app]; requests that
\* are refused.
Gates ==
    LET files == {App, App @@ [enable_network |-> FALSE], App @@ [enable_network |-> TRUE,
                  enable_preload |-> TRUE], App @@ [python_zygote |-> TRUE], Empty}
        envs == {Empty} \cup {"ENABLE_NETWORK" :> v : v \in {"yes", "on"}}
                \cup {"ENABLE_PRELOAD" :> v : v \in {"1", "0"}}
                \cup {("PYTHON_MAX_AS_BYTES" :> -1) @@ ("SOCKS5_PROXY" :> "s5")
                      @@ ("ALLOWED_SYSCALLS" :> {"socket", "exit_group"})}
        requests == {Request(l, net, p) : l \in Languages, net \in BOOLEAN, p \in BOOLEAN}
                    \cup {[Request("python", TRUE, FALSE) EXCEPT !.authorized = FALSE],
                          [Request("nodejs", TRUE, FALSE) EXCEPT !.base64 = FALSE]}
    IN  {Input(f, e, r, "none", <<1>>, <<1>>) : f \in files, e \in envs, r \in requests}

Faults ==
    {Input(f, Empty, Request(l, FALSE, p), x, <<1>>, <<1>>) :
        f \in Modes, l \in Languages, p \in BOOLEAN, x \in Calls \cup {"none"}}

Programs ==
    LET file == App @@ [python_zygote |-> TRUE]
    IN  {Input(file, Empty, Request(l, FALSE, FALSE), "none", c, k) :
            l \in Languages,
            c \in {<<>>, <<0, 1>>, <<0, 0, 0, 0, 0, 0, 0>>, <<1, 0, 1, 1, 0, 1, 0>>},
            k \in {<<1>>, <<0, 1>>, <<1, 1, 0>>, <<1, 0, 0, 0, 0, 1>>}}

MCInputs == Gates \cup Faults \cup Programs

MCUserCalls ==
    {<<"socket", "plain">>, <<"openat", "O_CREAT">>, <<"ioctl", "FIONBIO">>, <<"clone", "plain">>}
=============================================================================
