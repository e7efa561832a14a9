------------------------------- MODULE Startup -------------------------------
(***************************************************************************)
(* From the command line to a serving transport (cli.py main), with the    *)
(* environment it reads (config.py), the version gate (compat.py, client   *)
(* startup_guard), the tool registry (tools/__init__.py) and the checks    *)
(* run_http repeats (server.py).                                           *)
(*                                                                         *)
(* An environment is a record of the variables' values, by the classes the *)
(* code tells apart: "bad" is a value it cannot read, "missing" a path to  *)
(* no file, token a length.  The Scanopy server may be upgraded, or go     *)
(* down, at any step.                                                      *)
(***************************************************************************)
EXTENDS Integers

CONSTANTS
    Environments,  \* the environments and flags arborist may be started with
    Servers,       \* what GET /api/version may answer: a reply, or Down
    Down,
    MaxChanges     \* bound: changes of the server while arborist starts

NoVersion == <<>>   \* a server_version that does not parse
NoApi == -1         \* no api_version in the reply
Running == -1       \* no exit code yet

ASSUME StartupAssumption ==
    /\ Down \in Servers
    /\ MaxChanges \in Nat
    /\ \A s \in Servers \ {Down} :
         s.version = NoVersion \/ s.version \in Nat \X Nat \X Nat
    /\ \A e \in Environments :
         /\ e.token \in Nat
         /\ {e.cert, e.key} \subseteq {"none", "file", "missing"}

VARIABLES
    env,        \* the environment and the --transport flag
    server,     \* what the server would answer now
    changes,
    pc,         \* the next step of main, or serving, or exited
    transport,  \* args.transport
    contacted,  \* whether a request was sent
    judged,     \* the reply the version gate judged
    tools,      \* the tool groups registered
    exit        \* the exit code, or Running

upvars == <<env, server, changes, pc, transport, contacted, judged, tools, exit>>

Minimum == <<0, 17, 2>>
MaximumExclusive == <<0, 18, 0>>
ApiVersion == 1
-----------------------------------------------------------------------------
\* Mutant of Older: the parts are compared one by one.
AnyPartSmaller(v, w) == \E i \in 1..3 : v[i] < w[i]

\* Tuples compare by their first difference.
Older(v, w) == \E i \in 1..3 : v[i] < w[i] /\ \A j \in 1..(i - 1) : v[j] = w[j]

\* check_compat: the reply's version parses and lies in the range.
Compatible(reply) ==
    /\ reply.version # NoVersion
    /\ reply.api \in {NoApi, ApiVersion}
    /\ ~Older(reply.version, Minimum)
    /\ Older(reply.version, MaximumExclusive)

\* Config.from_env collects every problem before it raises ConfigError.
ConfigProblems(e) ==
    \/ e.url # "ok" \/ ~e.apiKey
    \/ "bad" \in {e.verify, e.profile, e.consolidation, e.posture, e.override}
    \/ "missing" \in {e.ca, e.cert, e.key}
    \/ e.ca # "none" /\ e.verify = "false"
    \/ e.consolidation = "true" /\ e.profile # "readwrite"

\* Mutant of TransportProblems: allowed hosts excuse the loopback posture.
EitherWillDo(e) ==
    \/ e.token < 16
    \/ e.bind = "remote" /\ e.posture = "loopback" /\ ~e.allowedHosts
    \/ e.posture = "direct" /\ "none" \in {e.cert, e.key}

\* validate_http_transport.
TransportProblems(e) ==
    \/ e.token < 16
    \/ e.bind = "remote" /\ (e.posture = "loopback" \/ ~e.allowedHosts)
    \/ e.posture = "direct" /\ "none" \in {e.cert, e.key}

\* register_tools: what is not in the profile is never registered.
Registered(e) ==
    {"read"}
      \union (IF e.profile = "readwrite" THEN {"write"} ELSE {})
      \union (IF e.profile = "readwrite" /\ e.consolidation = "true"
              THEN {"consolidate"} ELSE {})

\* Mutant of Exits: the refusal is printed, and main goes on.
ExitsLater(code) == exit' = code /\ UNCHANGED pc

Exits(code) == pc' = "exited" /\ exit' = code

-----------------------------------------------------------------------------
\* _parse_args.  A port in the environment that is no number raises ValueError,
\* which nothing catches.  --version and --help ("info") end the process; argparse
\* refuses "other" flags: an unknown transport, a --port that is no number.  It
\* does not check the default it takes from ARBORIST_TRANSPORT.
ParseArgs ==
    /\ pc = "args"
    /\ \/ ~env.port /\ Exits(1) /\ UNCHANGED transport
       \/ env.port /\ env.flag = "info" /\ Exits(0) /\ UNCHANGED transport
       \/ env.port /\ env.flag = "other" /\ Exits(2) /\ UNCHANGED transport
       \/ /\ env.port /\ env.flag \notin {"info", "other"}
          /\ transport' = IF env.flag = "unset" THEN env.transport ELSE env.flag
          /\ pc' = "configure"
          /\ UNCHANGED exit
    /\ UNCHANGED <<env, server, changes, contacted, judged, tools>>

Configure ==
    /\ pc = "configure"
    /\ IF ConfigProblems(env)
       THEN Exits(2)
       ELSE pc' = "validate" /\ UNCHANGED exit
    /\ UNCHANGED <<env, server, changes, transport, contacted, judged, tools>>

\* Mutant of Validates: run_http's own check is relied on.
LeavesItToRunHttp(t) == FALSE

\* Whether main itself checks the transport.
Validates(t) == t = "http"

\* main's own check of the transport, for "http" as it is spelled.
ValidateTransport ==
    /\ pc = "validate"
    /\ IF Validates(transport) /\ TransportProblems(env)
       THEN Exits(4)
       ELSE pc' = "guard" /\ UNCHANGED exit
    /\ UNCHANGED <<env, server, changes, transport, contacted, judged, tools>>

\* startup_guard raises VersionCompatError.
Refused(reply) == ~Compatible(reply) /\ env.override # "true"

\* _version_guard: one client, one GET /api/version (module Request), closed
\* afterwards.  Down stands for every way not to get a reply, an API error and
\* an answer that is no record included: main maps them all to one exit code.
VersionGuard ==
    /\ pc = "guard"
    /\ contacted' = TRUE
    /\ judged' = server
    /\ \/ server = Down /\ Exits(5)
       \/ server # Down /\ Refused(server) /\ Exits(3)
       \/ server # Down /\ ~Refused(server) /\ pc' = "build" /\ UNCHANGED exit
    /\ UNCHANGED <<env, server, changes, transport, tools>>

BuildMcp ==
    /\ pc = "build"
    /\ tools' = Registered(env)
    /\ pc' = "serve"
    /\ UNCHANGED <<env, server, changes, transport, contacted, judged, exit>>

\* stdio, or else run_http, which validates once more; its error is not caught.
Serve ==
    /\ pc = "serve"
    /\ IF transport # "stdio" /\ TransportProblems(env)
       THEN Exits(1)
       ELSE pc' = "serving" /\ UNCHANGED exit
    /\ UNCHANGED <<env, server, changes, transport, contacted, judged, tools>>

\* The transport ends, and main returns.
Return ==
    /\ pc = "serving"
    /\ Exits(0)
    /\ UNCHANGED <<env, server, changes, transport, contacted, judged, tools>>

ServerChanges ==
    /\ changes < MaxChanges
    /\ pc # "exited"
    /\ changes' = changes + 1
    /\ server' \in Servers \ {server}
    /\ UNCHANGED <<env, pc, transport, contacted, judged, tools, exit>>

\* The process serves, or has exited.
Rests == pc \in {"serving", "exited"} /\ UNCHANGED upvars

Init ==
    /\ env \in Environments
    /\ server \in Servers
    /\ changes = 0
    /\ pc = "args"
    /\ transport = "stdio"
    /\ contacted = FALSE
    /\ judged = Down
    /\ tools = {}
    /\ exit = Running

Next ==
    \/ ParseArgs \/ Configure \/ ValidateTransport \/ VersionGuard
    \/ BuildMcp \/ Serve \/ Return
    \/ ServerChanges
    \/ Rests

Spec == Init /\ [][Next]_upvars

-----------------------------------------------------------------------------
\* Properties.

Serving == pc = "serving"
OverHttp == transport # "stdio"

\* Every variable has its type, and exactly an exited process has an exit code.
TypeOK ==
    /\ server \in Servers /\ judged \in Servers
    /\ changes \in 0..MaxChanges
    /\ pc \in {"args", "configure", "validate", "guard", "build", "serve",
               "serving", "exited"}
    /\ contacted \in BOOLEAN
    /\ tools \subseteq {"read", "write", "consolidate"}
    /\ exit \in {Running} \union 0..5
    /\ exit # Running <=> pc = "exited"

\* However the transport was named, HTTP is never served without a token of 16
\* characters, on a non-loopback address without both a declared posture and
\* allowed hosts, or directly without certificate and key (README.md:137-142).
HttpIsHardened ==
    Serving /\ OverHttp =>
      /\ env.token >= 16
      /\ env.bind = "remote" => env.posture # "loopback" /\ env.allowedHosts
      /\ env.posture = "direct" => env.cert = "file" /\ env.key = "file"

\* A process only comes to serve after a version in the range answered, or
\* under the override; the range `>=0.17.2,<0.18.0` is the releases 0.17.z from
\* z = 2 on (compat.py:16-19, README.md:34).
VersionIsGuarded ==
    Serving /\ env.override # "true" =>
      /\ judged # Down
      /\ judged.version # NoVersion
      /\ judged.api \in {NoApi, ApiVersion}
      /\ LET v == judged.version IN v[1] = 0 /\ v[2] = 17 /\ v[3] >= 2

\* The exit codes 2 and 4 come before the first request, 3 and 5 after it; and
\* no request is sent under a configuration that is refused (cli.py:1-6).
RefusalsComeFirst ==
    /\ exit \in {2, 4} => ~contacted
    /\ exit \in {3, 5} => contacted
    /\ contacted => ~ConfigProblems(env)
    /\ contacted /\ transport = "http" => ~TransportProblems(env)

\* README.md:137 and 150: when the HTTP transport is refused the process exits
\* with code 4.
TransportRefusalIsFour ==
    pc = "exited" /\ contacted /\ OverHttp /\ TransportProblems(env) => exit \in {3, 4, 5}
=============================================================================
