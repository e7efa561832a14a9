----------------------------- MODULE MCStartup -----------------------------
(***************************************************************************)
(* Around an environment that works: every combination of the variables    *)
(* that shape the transport, of those for the connection to Scanopy, and   *)
(* of those for the tools and the version gate.                            *)
(***************************************************************************)
EXTENDS Startup

CONSTANT down

Switches == {"unset", "true", "false", "bad"}

Works ==
    [transport |-> "stdio", flag |-> "unset", port |-> TRUE, bind |-> "loopback",
     url |-> "ok", apiKey |-> TRUE, verify |-> "unset", ca |-> "none",
     profile |-> "readonly", consolidation |-> "unset", override |-> "unset",
     token |-> 16, allowedHosts |-> TRUE, posture |-> "loopback",
     cert |-> "none", key |-> "none"]

TransportEnvironments ==
    {[Works EXCEPT !.transport = t, !.flag = f, !.bind = b, !.token = n,
                   !.allowedHosts = a, !.posture = p, !.cert = c, !.key = k] :
        t \in {"stdio", "http", "other"}, f \in {"unset", "http", "other"},
        b \in {"loopback", "remote"}, n \in {15, 16}, a \in BOOLEAN,
        p \in {"loopback", "terminated-upstream", "direct", "bad"},
        c \in {"none", "file"}, k \in {"none", "file", "missing"}}

ConnectionEnvironments ==
    {[Works EXCEPT !.port = d, !.flag = f, !.url = u, !.apiKey = a, !.verify = v, !.ca = c] :
        d \in BOOLEAN, f \in {"unset", "info"}, u \in {"none", "bad", "ok"}, a \in BOOLEAN,
        v \in {"unset", "false", "bad"}, c \in {"none", "file", "missing"}}

ToolEnvironments ==
    {[Works EXCEPT !.profile = p, !.consolidation = s, !.override = o] :
        p \in {"readonly", "readwrite", "bad"}, s \in Switches, o \in Switches}

MCEnvironments ==
    TransportEnvironments \union ConnectionEnvironments \union ToolEnvironments

Reply(v, a) == [version |-> v, api |-> a]

MCServers ==
    {down, Reply(<<0, 17, 2>>, 1), Reply(<<0, 17, 9>>, NoApi), Reply(<<0, 17, 3>>, 2),
     Reply(<<0, 17, 4>>, 0),
     Reply(<<0, 17, 1>>, 1), Reply(<<0, 18, 0>>, 1), Reply(<<1, 17, 2>>, 1),
     Reply(<<0, 16, 9>>, NoApi), Reply(<<>>, 1)}
=============================================================================
