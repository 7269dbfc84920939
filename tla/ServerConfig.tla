---------------------------- MODULE ServerConfig ----------------------------
(***************************************************************************)
(* Config::load: the defaults of serde, the values of the file over them,  *)
(* the environment over both.  A file and an environment are functions     *)
(* from the names that are set to their values; a number that does not     *)
(* parse is -1.  Paths and module lists stand for themselves: no setting   *)
(* depends on what is in them.                                             *)
(***************************************************************************)
EXTENDS Integers

\* The defaults of the fields that have one; the [app] table is required.
Defaults ==
    [max_workers |-> 4, worker_timeout |-> 30, enable_network |-> TRUE,
     enable_preload |-> FALSE, privilege |-> TRUE, python_zygote |-> FALSE,
     python_path |-> "/usr/local/bin/python3", nodejs_path |-> "/usr/bin/node",
     python_lib_paths |-> "python3.12, ...", nodejs_lib_paths |-> "ssl, ...",
     python_zygote_preload_modules |-> "json, ...",
     sandbox_uid |-> 65537, sandbox_gid |-> 65537,
     python_max_as_bytes |-> 256 * 1024 * 1024, nodejs_max_as_bytes |-> 512 * 1024 * 1024,
     nodejs_max_old_space_mb |-> 256, socks5 |-> "", http |-> "", https |-> ""]

Required == {"port", "key"}
Fields == Required \cup DOMAIN Defaults

\* toml::from_str refuses a file without the required fields.
Loads(file) == Required \subseteq DOMAIN file

FromFile(file, f) == IF f \in DOMAIN file THEN file[f] ELSE Defaults[f]

\* The variable override_with_env reads for a field, the later one of two.
NumberVars ==
    [port |-> <<"SANDBOX_PORT">>, max_workers |-> <<"MAX_WORKERS">>,
     worker_timeout |-> <<"WORKER_TIMEOUT">>,
     python_max_as_bytes |-> <<"PYTHON_MAX_AS_BYTES">>,
     nodejs_max_as_bytes |-> <<"NODEJS_MAX_AS_BYTES">>,
     nodejs_max_old_space_mb |-> <<"NODEJS_MAX_OLD_SPACE_MB", "NODE_MAX_OLD_SPACE_MB">>]

FlagVars ==
    [enable_network |-> "ENABLE_NETWORK", enable_preload |-> "ENABLE_PRELOAD",
     privilege |-> "PRIVILEGE", python_zygote |-> "PYTHON_ZYGOTE"]

TextVars ==
    [key |-> "SANDBOX_API_KEY", python_path |-> "PYTHON_PATH", nodejs_path |-> "NODEJS_PATH",
     python_lib_paths |-> "PYTHON_LIB_PATH", nodejs_lib_paths |-> "NODEJS_LIB_PATH",
     socks5 |-> "SOCKS5_PROXY", http |-> "HTTP_PROXY", https |-> "HTTPS_PROXY"]

\* Every value but the three words turns a flag off.
Flag(env, name, value) ==
    IF name \in DOMAIN env THEN env[name] \in {"1", "true", "yes"} ELSE value

\* The last of the variables that is set and parses.
Number(env, names, value) ==
    LET good == {k \in DOMAIN names : names[k] \in DOMAIN env /\ env[names[k]] >= 0}
    IN  IF good = {} THEN value
        ELSE env[names[CHOOSE k \in good : \A m \in good : m <= k]]

load(file, env) ==
    [f \in Fields |->
        LET value == FromFile(file, f)
        IN  IF f \in DOMAIN FlagVars THEN Flag(env, FlagVars[f], value)
            ELSE IF f \in DOMAIN NumberVars THEN Number(env, NumberVars[f], value)
            ELSE IF f \in DOMAIN TextVars /\ TextVars[f] \in DOMAIN env THEN env[TextVars[f]]
            ELSE value]

\* The proxy variables a child process is given: SOCKS5 goes before both.
proxy_env_vars(config) ==
    LET of(p) == IF config.socks5 # "" THEN config.socks5 ELSE p
    IN  {v \in {<<"HTTPS_PROXY", of(config.https)>>, <<"HTTP_PROXY", of(config.http)>>} :
            v[2] # ""}
=============================================================================
