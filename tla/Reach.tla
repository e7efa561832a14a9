------------------------------- MODULE Reach -------------------------------
(***************************************************************************)
(* How far the tag, binding and consolidation tools of Arborist may reach  *)
(* into the Scanopy inventory, with no word of how they find out: no       *)
(* lookups, no checks, no requests in flight.  Each call takes effect at   *)
(* most once, as what was asked for, and under a configured scope only on  *)
(* entities of that network.  A label that entities everywhere share is    *)
(* then not changed at all: update_tag and delete_tag always refuse        *)
(* (tools/write.py:260-285, 308-336).  The head of that file still has an  *)
(* older, laxer policy for update_tag (README, "Disagreements").           *)
(* Curation implements it (README, "Refinement").                          *)
(***************************************************************************)
EXTENDS Integers, Sequences

CONSTANTS Calls, NetsOf, NoScope, None

VARIABLES
    scope,     \* the network Arborist is confined to, or NoScope
    asked,     \* asked[c]: what call c asks for
    hosts,     \* the hosts that exist
    owners,    \* owners[s]: the host of service s
    labels,    \* labels[t]: name and style of tag t; None when there is none
    tagged,    \* tagged[e]: the tags assigned to entity e
    bindings,  \* bindings[b]: a binding; None when there is none
    served,    \* the calls that have taken effect
    age        \* how many times the world has changed the inventory

rvars == <<scope, asked, hosts, owners, labels, tagged, bindings, served, age>>

Within(nets) == scope = NoScope \/ nets = {scope}

Asks(c, tools) == asked[c].tool \in tools

-----------------------------------------------------------------------------
\* A tag is created: no entity is touched, whatever the scope.
NewTag(c) ==
    /\ Asks(c, {"create_tag"})
    /\ \E t \in DOMAIN labels :
         /\ labels[t] = None
         /\ labels' = [labels EXCEPT ![t] = asked[c].label]
    /\ UNCHANGED <<hosts, owners, tagged, bindings>>

\* A tag takes the attributes it was asked to take; only without a scope, wherever
\* its uses are.
Relabel(c) ==
    /\ Asks(c, {"update_tag"})
    /\ scope = NoScope
    /\ \E t \in DOMAIN labels :
         /\ labels[t] # None
         /\ labels'[t] # None
         /\ \A f \in DOMAIN asked[c].patch : labels'[t][f] = asked[c].patch[f]
         /\ labels' = [labels EXCEPT ![t] = labels'[t]]
    /\ UNCHANGED <<hosts, owners, tagged, bindings>>

\* A tag goes, on confirmation and without a scope.
DropTag(c) ==
    /\ Asks(c, {"delete_tag"})
    /\ asked[c].confirm
    /\ scope = NoScope
    /\ \E t \in DOMAIN labels : labels' = [labels EXCEPT ![t] = None]
    /\ UNCHANGED <<hosts, owners, tagged, bindings>>

\* One tag is given to, or taken from, entities that are all within the scope:
\* when one of those that were named is not, none of them is touched.
Assign(c) ==
    /\ Asks(c, {"tag_entities", "untag_entities"})
    /\ \A i \in DOMAIN asked[c].ids : Within(NetsOf[asked[c].ids[i]])
    /\ \E t \in DOMAIN labels :
         /\ tagged' \in [DOMAIN tagged -> SUBSET DOMAIN labels]
         /\ \A e \in DOMAIN tagged :
              \/ tagged'[e] = tagged[e]
              \/ /\ \E i \in DOMAIN asked[c].ids : e = asked[c].ids[i]
                 /\ tagged'[e] = IF asked[c].tool = "tag_entities"
                                 THEN tagged[e] \union {t} ELSE tagged[e] \ {t}
    /\ UNCHANGED <<hosts, owners, labels, bindings>>

\* A binding takes the shape asked for, on the service asked for and in that
\* service's network; it may supersede other bindings of the service.
Attach(c, b) ==
    /\ Asks(c, {"create_binding", "update_binding"})
    /\ Within(NetsOf[asked[c].service])
    /\ \/ Asks(c, {"create_binding"}) /\ bindings[b] = None
       \/ /\ Asks(c, {"update_binding"}) /\ b = asked[c].id
          /\ bindings[b] # None /\ Within(bindings[b].nets)
    /\ bindings'[b] = [service |-> asked[c].service, shape |-> asked[c].shape,
                       nets |-> NetsOf[asked[c].service]]
    /\ DOMAIN bindings' = DOMAIN bindings
    /\ \A x \in DOMAIN bindings \ {b} :
         \/ bindings'[x] = bindings[x]
         \/ bindings'[x] = None /\ bindings[x].service = asked[c].service
    /\ UNCHANGED <<hosts, owners, labels, tagged>>

\* A binding goes, on confirmation.
Detach(c) ==
    /\ Asks(c, {"delete_binding"})
    /\ asked[c].confirm
    /\ bindings[asked[c].id] # None
    /\ Within(bindings[asked[c].id].nets)
    /\ bindings' = [bindings EXCEPT ![asked[c].id] = None]
    /\ UNCHANGED <<hosts, owners, labels, tagged>>

\* On confirmation one host goes, and its services are another's of the same
\* network.
Merge(c, d, s) ==
    /\ Asks(c, {"consolidate_hosts"})
    /\ asked[c].confirm
    /\ d # s /\ NetsOf[d] = NetsOf[s] /\ Within(NetsOf[s])
    /\ hosts' = hosts \ {s}
    /\ owners' = [v \in DOMAIN owners |-> IF owners[v] = s THEN d ELSE owners[v]]
    /\ UNCHANGED <<labels, tagged, bindings>>

\* Call c takes effect.
Serve(c) ==
    /\ c \notin served
    /\ served' = served \union {c}
    /\ \/ NewTag(c) \/ Relabel(c) \/ DropTag(c) \/ Assign(c) \/ Detach(c)
       \/ \E b \in DOMAIN bindings : Attach(c, b)
       \/ \E d, s \in hosts : Merge(c, d, s)
    /\ UNCHANGED <<scope, asked, age>>

\* Operators and scans: anything; the calls of Arborist have no part in it.
World ==
    /\ age' = age + 1
    /\ UNCHANGED <<scope, asked, served>>

Init ==
    /\ served = {}
    /\ age = 0

Next == World \/ \E c \in Calls : Serve(c)

Spec == Init /\ [][Next]_rvars
=============================================================================
