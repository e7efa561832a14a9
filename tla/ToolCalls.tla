----------------------------- MODULE ToolCalls -----------------------------
(***************************************************************************)
(* What the tag, binding and consolidation tools share: the inventory they *)
(* work on, and the life of a call.  TagTools, BindingTools and MergeTool  *)
(* hold the tools, Curation composes them.                                 *)
(*                                                                         *)
(* A call is a coroutine of one event loop and every HTTP request of it an *)
(* await.  Each action is one request, at the moment the server handles    *)
(* it, with the code up to the next request.  A call sends at most one     *)
(* request that changes anything, as its last (`send`); the caller may     *)
(* give up on it, and the server handle it later (`late`).                 *)
(*                                                                         *)
(* Simplifications.                                                        *)
(*  - Hosts, and services with them, are what comes and goes; the lists of *)
(*    tags, networks, subnets and dependencies that a lookup takes are     *)
(*    read in one step.  Module Scan has the ceiling and the answers that  *)
(*    are no list, Request the retries.                                    *)
(*  - A tag is its name and its style, which stands for colour,            *)
(*    description and is_application; a host its name and addresses.       *)
(*  - A record never changes its network, and an id does not come back.    *)
(***************************************************************************)
EXTENDS Integers, Sequences, FiniteSets, SequencesExt

CONSTANTS
    Entities,             \* ids of what can carry a tag
    KindOf, NetsOf,       \* the kind of each, and the networks it belongs to
    Rank, PageSize,       \* the order lists come in, and the length of a page
    Tags, Bindings,       \* ids of tags and bindings
    Names, Folded,        \* names; Folded[n]: n in lower case
    Styles, Addresses,
    Shapes,               \* what a binding binds to: type, port and address
    HasDaemon,            \* the hosts with a daemon
    Calls, Requests,
    Conversations,        \* what the calls may ask for together
    Scopes, NoScope,      \* values of SCANOPY_NETWORK_ID; NoScope when unset
    Inventories,          \* the inventories a run may start from
    MaxEnv,               \* bound: changes made by the world
    None

Hosts == {e \in Entities : KindOf[e] = "Host"}
Services == {e \in Entities : KindOf[e] = "Service"}
Labels == [name : Names, style : Styles]
Networks == UNION {NetsOf[e] : e \in Entities}
Body == [service : Services, shape : Shapes, nets : SUBSET Networks]

ASSUME CallsAssumption ==
    /\ None \notin Labels \union Body \union Tags \union Hosts
    /\ NoScope \notin Networks
    /\ KindOf \in [Entities -> STRING]
    /\ NetsOf \in [Entities -> SUBSET Networks]
    /\ \A e \in Entities \intersect Scopes : NetsOf[e] = {e}
    /\ Tags \intersect Bindings = {}
    /\ Entities \intersect (Tags \union Bindings) = {}
    /\ Conversations \subseteq [Calls -> Requests]
    /\ MaxEnv \in Nat
    /\ Inventories \subseteq
         [alive : SUBSET Hosts, nameOf : [Hosts -> Names],
          addrsOf : [Hosts -> SUBSET Addresses], owner : [Services -> Hosts],
          label : [Tags -> Labels \union {None}], carried : [Entities -> SUBSET Tags],
          bound : [Bindings -> Body \union {None}]]

\* A list has one order, whatever else there is.
ASSUME PagesAssumption ==
    /\ IsFiniteSet(Entities)
    /\ Rank \in [Entities -> Nat]
    /\ \A e, f \in Entities : Rank[e] = Rank[f] => e = f
    /\ PageSize \in Nat \ {0}

\* Ten kinds of records accept a tag (client.py:477-489).
ASSUME KindsAssumption ==
    \A e \in Entities :
      KindOf[e] \in {"Host", "Service", "Subnet", "Network", "Dependency", "Daemon",
                    "DaemonApiKey", "Discovery", "Credential", "UserApiKey"}

\* The bindings a run starts with are such as Scanopy accepts.
ASSUME InventoriesAssumption ==
    \A i \in Inventories : \A b \in Bindings :
      LET k == i.bound[b] IN
      k # None =>
        /\ k.nets = NetsOf[k.service]
        /\ \/ k.shape.type = "Port" /\ k.shape.port # None
           \/ k.shape.type = "IPAddress" /\ k.shape.ip # None /\ k.shape.port = None

\* The arguments of a call have the types its tool declares.
ASSUME RequestsAssumption ==
    \A r \in Requests :
      /\ r.tool = "create_tag" => r.label \in Labels
      /\ r.tool = "update_tag" =>
           /\ DOMAIN r.patch \subseteq {"name", "style"}
           /\ "name" \in DOMAIN r.patch => r.patch["name"] \in Names
           /\ "style" \in DOMAIN r.patch => r.patch["style"] \in Styles
      /\ r.tool \in {"tag_entities", "untag_entities"} =>
           r.ids \in Seq(Entities) /\ r.of \in STRING
      /\ r.tool \in {"create_binding", "update_binding"} =>
           r.service \in Services /\ r.shape \in Shapes
      /\ r.tool \in {"update_binding", "delete_binding"} => r.id \in Bindings

VARIABLES
    scope,                  \* SCANOPY_NETWORK_ID of this process
    req,                    \* req[c]: the request of call c
    alive, nameOf, addrsOf, \* hosts: those that exist, names, addresses
    owner,                  \* owner[s]: the host of service s
    label,                  \* label[t]; None when there is no such tag
    carried,                \* carried[e]: the tags assigned to entity e
    bound,                  \* bound[b]; None when there is no such binding
    unborn,                 \* ids of hosts, tags and bindings not handed out yet
    env,                    \* changes the world has made
    orgKnown,               \* client._org_id is set
    call,                   \* call[c]: the locals of call c, and where it stands
    late,                   \* writes given up on that may still be handled
    did,                    \* history: the calls whose write was handled
    held,                   \* history: entities tagged since c looks for uses
    shown,                  \* history: labels of c's tag since c resolved it
    basis,                  \* history: the merges c's caller has been shown
    torn,                   \* history: the kinds c lost a record of between two pages
    altered                 \* history: the world added a host, or gave one another
                            \* name or address

hostVars == <<alive, nameOf, addrsOf, owner>>
tagVars == <<label, carried>>
inventory == <<hostVars, tagVars, bound, unborn>>
settings == <<scope, req>>
history == <<held, shown, basis, torn, altered>>
cvars == <<settings, inventory, env, orgKnown, call, late, did, history>>

-----------------------------------------------------------------------------
\* The network of a record is the scope, or there is none (assert_in_scope and
\* its variants in tools/write.py).
Within(nets) == scope = NoScope \/ nets = {scope}

\* A host that was retired is gone, and its services with it.
Present(e) ==
    /\ e \in Hosts => e \in alive
    /\ e \in Services => owner[e] \in alive

Bound(b) == bound[b] # None /\ Present(bound[b].service)

At(c, where) == call[c].at = where
Uses(c, tools) == req[c].tool \in tools

\* A request of c that only reads.
Reads(c, where) ==
    /\ At(c, where)
    /\ UNCHANGED <<settings, inventory, env, late, did>>

Goes(c, to) == call' = [call EXCEPT ![c].at = to]

Finds(c, id, to) ==
    call' = [call EXCEPT ![c].at = to, ![c].found = Append(@, id)]

Ends(c, how) == call' = [call EXCEPT ![c].at = "done", ![c].outcome = how]

\* The request that writes is on its way.
Sends(c, m) == call' = [call EXCEPT ![c].at = "send", ![c].send = m]

Idle == [at |-> "idle", found |-> <<>>, left |-> <<>>, offset |-> 0, seen |-> {},
         send |-> None, outcome |-> "none"]

-----------------------------------------------------------------------------
\* _get_all: pages by offset, until one is short.

\* The list call c is reading: the hosts of the scope, or, for the uses of a tag,
\* what there is of one kind anywhere.
Listed(c) ==
    {e \in Entities :
       /\ Present(e)
       /\ IF At(c, "hosts") THEN e \in Hosts /\ Within(NetsOf[e])
          ELSE KindOf[e] = Head(call[c].left)}

\* How many of S come before e.
Before(e, S) == Cardinality({f \in S : Rank[f] < Rank[e]})

NextPage(c) ==
    LET L == Listed(c)
        from == call[c].offset IN
    {e \in L : Before(e, L) \in from .. (from + PageSize - 1)}

LastPage(c) == Cardinality(NextPage(c)) < PageSize

\* What c has noted when it notes E of this page; a record that a shift brings
\* onto two pages is there twice.
Noted(c, E) == call[c].seen \union {<<e, call[c].offset>> : e \in E}

-----------------------------------------------------------------------------
\* A request fails or is refused, a lookup finds nothing or too much, a check
\* fails, or the call times out or is cancelled: the tool raises.  A write that
\* was on its way may be left with the server.
GivesUp(c) ==
    /\ call[c].at \notin {"idle", "done"}
    /\ Ends(c, "failed")
    /\ \/ UNCHANGED late
       \/ At(c, "send") /\ late' = late \union {call[c].send}
    /\ UNCHANGED <<settings, inventory, env, orgKnown, did>>

\* The write of c is answered; Handle is the server's part.
Answered(c) ==
    /\ At(c, "send")
    /\ Ends(c, "applied")
    /\ did' = did \union {c}
    /\ UNCHANGED <<settings, env, orgKnown, late>>

\* A write nobody waits for any more reaches the server after all.
Lands(m) ==
    /\ late' = late \ {m}
    /\ did' = did \union {m.call}
    /\ UNCHANGED <<settings, env, orgKnown, call>>
=============================================================================
