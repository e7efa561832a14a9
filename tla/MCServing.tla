----------------------------- MODULE MCServing -----------------------------
(***************************************************************************)
(* The environments of MCStartup with an address and allowed hosts, and    *)
(* messages that differ from a good one in one respect at a time.          *)
(***************************************************************************)
EXTENDS MCStartup, Serving, TLC

CONSTANT nothing

Lan == [name |-> "arborist.lan", port |-> 60074]

Addresses(e) == IF e.bind = "loopback" THEN {"127.0.0.1", "127.0.0.2"} ELSE {"0.0.0.0"}

AllowedHosts(e) ==
    IF e.allowedHosts THEN {{Lan, [name |-> "plain", port |-> NoPort]}} ELSE {{}}

MCServingEnvironments ==
    UNION {{e @@ [address |-> a, hosts |-> h] :
              a \in Addresses(e), h \in AllowedHosts(e)} : e \in TransportEnvironments}
      \union
    {e @@ [address |-> "127.0.0.1", hosts |-> {Lan}] :
       e \in ConnectionEnvironments \union ToolEnvironments}

Good == [type |-> "http", credentials |-> <<"token">>, host |-> Lan,
         origin |-> nothing, tool |-> "read"]

HostHeaders ==
    [name : {"arborist.lan", "plain", "127.0.0.1", "127.0.0.2", "0.0.0.0", "elsewhere"},
     port : {NoPort, 60074}]

MCMessages ==
    {[Good EXCEPT !.type = "other", !.credentials = <<>>]}
      \union {[Good EXCEPT !.credentials = c] :
                c \in {<<>>, <<"wrong">>, <<"wrong", "token">>, <<"token", "wrong">>}}
      \union {[Good EXCEPT !.host = h] : h \in HostHeaders \union {nothing}}
      \union {[Good EXCEPT !.origin = [name |-> n, port |-> p]] :
                n \in {"arborist.lan", "elsewhere"}, p \in {NoPort, 60074}}
      \union {[Good EXCEPT !.tool = t] : t \in {"write", "consolidate", "other"}}

Entry(k, v) == [key |-> k, value |-> v]
Dict(entries) == [kind |-> "dict", of |-> entries]
List(values) == [kind |-> "list", of |-> [i \in DOMAIN values |-> Entry(NoKey, values[i])]]

\* Secrets at the top, in a list of dicts, and holding containers.
MCResults ==
    {Dict(<<Entry("name", Scalar("x")), Entry("key", Scalar("s")),
            Entry("hosts", List(<<Dict(<<Entry("name", Scalar("y")),
                                         Entry("token", Scalar("s"))>>),
                                  Scalar("z")>>)),
            Entry("meta", Dict(<<Entry("session", Dict(<<Entry("name", Scalar("s"))>>)),
                                 Entry("empty", List(<<>>))>>))>>),
     List(<<Dict(<<Entry("key", List(<<Scalar("s")>>))>>), Scalar("x")>>)}

\* The text of a topology; the confirmation and the plan of delete_tag.
MCBare ==
    [read |-> {Scalar("x")},
     write |-> {Dict(<<Entry("deleted", Scalar("x"))>>),
                Dict(<<Entry("visible_uses", Dict(<<Entry("Host", Scalar("2")),
                                                    Entry("Credential", Scalar("1"))>>))>>)},
     consolidate |-> {}]

MCSecrets == {"key", "token", "session", "Credential"}
MCKeys == {"name", "hosts", "meta", "empty", "deleted", "visible_uses", "Host"}
            \union MCSecrets
MCTexts == {"x", "y", "z", "s", "1", "2", "[REDACTED]"}
=============================================================================
