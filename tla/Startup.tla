------------------------------ MODULE Startup ------------------------------
(***************************************************************************)
(* The start of the server, main() in main.rs: load the configuration; in  *)
(* privileged mode, install the Python dependencies and fill the chroot    *)
(* jail path by path (otherwise the image has both); start the zygote (in  *)
(* ZygoteRestart); bind.  A failure of a step in the middle is logged and  *)
(* the server starts all the same; a failure of the first or the last ends *)
(* it (Stop, in ZygoteRestart).                                            *)
(***************************************************************************)
EXTENDS Integers

CONSTANT LibPaths   \* number of configured library paths, Python's then Node's

ASSUME StartupAssumption == LibPaths \in Nat

VARIABLES
    main,           \* position of main(); "down" once the server process is gone
    python_zygote,  \* the setting
    left            \* library paths that are not in the jail yet

startupVars == <<main, python_zygote, left>>

StartupOK ==
    /\ main \in {"config", "deps", "jail", "zygote", "bind", "serve", "down"}
    /\ python_zygote \in BOOLEAN
    /\ left \in 0..LibPaths

StartupInit ==
    /\ main = "config"
    /\ python_zygote \in BOOLEAN
    /\ left = LibPaths

\* Config::load, and the branch on config.privilege: without privileges the
\* image has the jail filled.
LoadConfig ==
    /\ main = "config"
    /\ \/ main' = "deps" /\ left' = left
       \/ main' = "zygote" /\ left' = 0
    /\ UNCHANGED python_zygote

\* install_python_dependencies: nothing to install, pip worked, or it did
\* not; main() goes on in every case, after pip has ended.
InstallDependencies ==
    /\ main = "deps"
    /\ main' = "jail"
    /\ UNCHANGED <<python_zygote, left>>

\* copy_into_jail for the next path: copied, or skipped because it does not
\* exist or env.sh failed; the loop goes on in every case.
CopyIntoJail ==
    /\ main = "jail"
    /\ left > 0
    /\ left' = left - 1
    /\ UNCHANGED <<main, python_zygote>>

\* Mutant of EnvironmentReady: the copying is not waited for.
EnvironmentStarted ==
    /\ main = "jail"
    /\ main' = "zygote"
    /\ UNCHANGED <<python_zygote, left>>

EnvironmentReady ==
    /\ main = "jail"
    /\ left = 0
    /\ main' = "zygote"
    /\ UNCHANGED <<python_zygote, left>>

\* HttpServer::bind
Bind ==
    /\ main = "bind"
    /\ main' = "serve"
    /\ UNCHANGED <<python_zygote, left>>

StartupStep == LoadConfig \/ InstallDependencies \/ CopyIntoJail \/ EnvironmentReady \/ Bind
=============================================================================
