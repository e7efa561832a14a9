------------------------------- MODULE Serving -------------------------------
(***************************************************************************)
(* What a process that serves does with a message: the bearer gate and the *)
(* host allowlist of the HTTP transport (server.py), and the tools that    *)
(* are registered.  How a result is masked is module Redact.               *)
(*                                                                         *)
(* An environment has two more fields here: address, the host arborist     *)
(* binds, and hosts, the entries of ARBORIST_ALLOWED_HOSTS.  An entry and  *)
(* a Host or Origin header are a name and a port.  Calls share no state in *)
(* this layer (stateless_http), so one message stands for each of them.    *)
(***************************************************************************)
EXTENDS Startup, Redact

CONSTANTS
    Messages,   \* what may reach the process
    Results,    \* what a tool may pass to redact
    Bare,       \* what the tools of a group may return without redact
    Nothing     \* no message yet, or a header that is absent

NoPort == 0
AnyPort == 65536   \* ":*" in a pattern

Loopback == {"127.0.0.1", "localhost", "::1", "127.0.0.2"}
DefaultNames == {"127.0.0.1", "localhost", "::1"}

ASSUME ServingAssumption ==
    /\ \A e \in Environments :
         /\ e.bind \in {"loopback", "remote"}
         /\ e.bind = "loopback" <=> e.address \in Loopback
         /\ e.allowedHosts <=> e.hosts # {}
    /\ \A m \in Messages :
         /\ m.type \in {"http", "other"}
         /\ m.host \in [name : STRING, port : Nat] \union {Nothing}
    /\ Results \subseteq Nested[Depth]
    /\ Bare \in [{"read", "write", "consolidate"} -> SUBSET Nested[Depth]]

VARIABLE heard   \* the message, how it ended, and what the tool gave and sent

servevars == <<upvars, heard>>
-----------------------------------------------------------------------------
\* Mutant of Authorized: any of the credentials will do.
AnyCredential(m) == \E i \in DOMAIN m.credentials : m.credentials[i] = "token"

\* The gate compares the first Authorization header, and only of HTTP.
Authorized(m) ==
    m.type = "http" => m.credentials # <<>> /\ Head(m.credentials) = "token"

WithPort(names, port) == [name : names, port : {port}]

\* _transport_security: the default names and the address bound, or else the
\* entries as they are, and on any port where they name none.
HostPatterns(e) ==
    IF e.hosts = {}
    THEN WithPort(DefaultNames \union {e.address}, AnyPort)
    ELSE e.hosts \union WithPort({h.name : h \in {x \in e.hosts : x.port = NoPort}},
                                 AnyPort)

OriginNames(e) ==
    IF e.hosts = {} THEN DefaultNames \union {e.address} ELSE {h.name : h \in e.hosts}

\* The SDK: a pattern for any port wants a port; a Host must be there.
Matched(header, patterns) ==
    \/ header \in patterns
    \/ header.port # NoPort /\ [header EXCEPT !.port = AnyPort] \in patterns

HostAllowed(e, m) == m.host # Nothing /\ Matched(m.host, HostPatterns(e))

OriginAllowed(e, m) ==
    m.origin # Nothing => Matched(m.origin, WithPort(OriginNames(e), AnyPort))

-----------------------------------------------------------------------------
Hears(m, end, gave, sent) ==
    /\ pc = "serving" /\ heard = Nothing
    /\ heard' = [message |-> m, end |-> end, gave |-> gave, sent |-> sent]
    /\ UNCHANGED upvars

\* BearerGate answers 401 and goes no further.
Unauthorized(m) ==
    /\ OverHttp /\ ~Authorized(m)
    /\ Hears(m, "401", Nothing, Nothing)

\* The SDK's protection against rebinding: 421 for the host, 403 for the origin.
Misdirected(m) ==
    /\ OverHttp /\ Authorized(m) /\ m.type = "http"
    /\ \/ ~HostAllowed(env, m) /\ Hears(m, "421", Nothing, Nothing)
       \/ HostAllowed(env, m) /\ ~OriginAllowed(env, m) /\ Hears(m, "403", Nothing, Nothing)

\* Scopes of another type pass the gate, and reach no tool.
PassesThrough(m) ==
    OverHttp /\ m.type # "http" /\ Hears(m, "passed", Nothing, Nothing)

Reaches(m) ==
    OverHttp => Authorized(m) /\ m.type = "http" /\ HostAllowed(env, m) /\ OriginAllowed(env, m)

\* A tool that is not registered does not exist.
UnknownTool(m) ==
    Reaches(m) /\ m.tool \notin tools /\ Hears(m, "unknown tool", Nothing, Nothing)

\* Most results pass redact.  The plan and the confirmation of delete_tag, the
\* confirmation of delete_binding, an update_tag that changes nothing and the text
\* of a topology are returned as they are.
RunTool(m) ==
    /\ Reaches(m) /\ m.tool \in tools
    /\ \/ \E r \in Results : Hears(m, "ran", r, Masked(r))
       \/ \E r \in Bare[m.tool] : Hears(m, "ran bare", r, r)

Receive ==
    \E m \in Messages :
      Unauthorized(m) \/ Misdirected(m) \/ PassesThrough(m) \/ UnknownTool(m) \/ RunTool(m)

ServeInit == Init /\ heard = Nothing

ServeNext == Receive \/ (Next /\ UNCHANGED heard)

ServeSpec == ServeInit /\ [][ServeNext]_servevars

-----------------------------------------------------------------------------
\* Properties.

Ran == heard # Nothing /\ heard.end \in {"ran", "ran bare"}

\* What reached a tool over HTTP had the token first among its credentials, and
\* the tool is one the profile allows: a write never runs in a readonly process
\* (server.py BearerGate, tools/__init__.py, README.md:43).
OnlyAdmittedCallsRun ==
    Ran =>
      /\ OverHttp => heard.message.credentials # <<>> /\ heard.message.credentials[1] = "token"
      /\ heard.message.tool = "write" => env.profile = "readwrite"
      /\ heard.message.tool = "consolidate" => env.consolidation = "true"

\* However arborist was started, what reached a tool over HTTP named a host of
\* the allowlist, or, without one, of the machine itself: the branch without
\* allowed hosts is loopback-only, because the transport was validated before
\* (server.py:71-72).
RebindingIsStopped ==
    Ran /\ OverHttp =>
      IF env.hosts = {}
      THEN heard.message.host.name \in Loopback
      ELSE heard.message.host.name \in {h.name : h \in env.hosts}

\* A reply that passed redact hides all that a secret key leads to, at any depth:
\* nothing below one is sent, and all else keeps its place and value
\* (redact.py:27-49).
MaskedExactly ==
    heard # Nothing /\ heard.end = "ran" => HidesExactly(Depth, heard.gave, heard.sent)
=============================================================================
