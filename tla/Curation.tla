------------------------------ MODULE Curation ------------------------------
(***************************************************************************)
(* The tag, binding and consolidation tools together, on one Scanopy       *)
(* inventory that operators and scans change as well.                      *)
(***************************************************************************)
EXTENDS TagTools, BindingTools, MergeTool

Handle(m) == HandleTag(m) \/ HandleBinding(m) \/ HandleMerge(m)

\* What the properties need to know of the past.
Remembers ==
    /\ held' = [c \in Calls |->
         IF At(c, "usage") THEN {e \in held[c] : TagOf(c) \in carried'[e] /\ Present(e)'}
         ELSE IF call'[c].at = "usage"
         THEN {e \in Entities : TagOf(c)' \in carried[e] /\ Present(e)}
         ELSE held[c]]
    /\ shown' = [c \in Calls |->
         IF At(c, "label") THEN shown[c] \union {label'[TagOf(c)]}
         ELSE IF call'[c].at = "label" THEN {label[TagOf(c)']} ELSE shown[c]]
    /\ basis' = [c \in Calls |->
         IF At(c, "idle") /\ call'[c].at \in {"host", "hosts"}
         THEN {call[d].found : d \in {d \in Calls :
                 /\ Uses(d, {"consolidate_hosts"})
                 /\ call[d].outcome = "plan"
                 /\ req[d].dest = req[c].dest /\ req[d].src = req[c].src}}
         ELSE basis[c]]
    /\ torn' = [c \in Calls |->
         IF /\ At(c, "hosts") \/ At(c, "usage")
            /\ call[c].offset > 0
            /\ \E e \in Listed(c) : ~Present(e)'
         THEN torn[c] \union {IF At(c, "hosts") THEN "Host" ELSE Head(call[c].left)}
         ELSE torn[c]]
    /\ altered' = \/ altered
                  \/ /\ env' # env
                     /\ \/ <<nameOf, addrsOf>>' # <<nameOf, addrsOf>>
                        \/ ~(alive' \subseteq alive)

-----------------------------------------------------------------------------
\* The world: operators in the Scanopy UI, and scans.

\* A scan finds a host that was not known.
Discover(h) ==
    /\ h \in unborn
    /\ alive' = alive \union {h}
    /\ unborn' = unborn \ {h}
    /\ UNCHANGED <<nameOf, addrsOf, owner, tagVars, bound>>

Rename(h) ==
    /\ h \in alive
    /\ \E n \in Names \ {nameOf[h]} : nameOf' = [nameOf EXCEPT ![h] = n]
    /\ UNCHANGED <<alive, addrsOf, owner, tagVars, bound, unborn>>

\* A scan finds a host at other addresses.
Readdress(h) ==
    /\ h \in alive
    /\ \E A \in SUBSET Addresses \ {addrsOf[h]} : addrsOf' = [addrsOf EXCEPT ![h] = A]
    /\ UNCHANGED <<alive, nameOf, owner, tagVars, bound, unborn>>

Retire(h) ==
    /\ h \in alive
    /\ alive' = alive \ {h}
    /\ UNCHANGED <<nameOf, addrsOf, owner, tagVars, bound, unborn>>

OperatorRelabels(t) ==
    /\ label[t] # None
    /\ \E l \in Labels \ {label[t]} :
         NameIsFree(l.name, t) /\ label' = [label EXCEPT ![t] = l]
    /\ UNCHANGED <<hostVars, carried, bound, unborn>>

OperatorTags(e, t) ==
    /\ Present(e)
    /\ \/ t \in carried[e] /\ carried' = [carried EXCEPT ![e] = @ \ {t}]
       \/ t \notin carried[e] /\ label[t] # None
          /\ carried' = [carried EXCEPT ![e] = @ \union {t}]
    /\ UNCHANGED <<hostVars, label, bound, unborn>>

\* A binding goes, or comes to another service of its network.
OperatorBinds(b) ==
    /\ Bound(b)
    /\ \/ bound' = [bound EXCEPT ![b] = None]
       \/ \E s \in Services \ {bound[b].service} :
            /\ Present(s) /\ NetsOf[s] = bound[b].nets
            /\ bound' = [bound EXCEPT ![b].service = s]
    /\ UNCHANGED <<hostVars, tagVars, unborn>>

World ==
    /\ env < MaxEnv
    /\ env' = env + 1
    /\ \/ \E h \in Hosts : Discover(h) \/ Rename(h) \/ Readdress(h) \/ Retire(h)
       \/ \E t \in Tags : OperatorRelabels(t) \/ \E e \in Entities : OperatorTags(e, t)
       \/ \E b \in Bindings : OperatorBinds(b)
    /\ UNCHANGED <<settings, orgKnown, call, late, did>>

-----------------------------------------------------------------------------
CallStep(c) ==
    \/ TagStep(c) \/ BindingStep(c) \/ MergeStep(c)
    \/ Answered(c) /\ Handle(call[c].send)
    \/ GivesUp(c)

Finished ==
    /\ \A c \in Calls : At(c, "done")
    /\ UNCHANGED <<settings, inventory, env, orgKnown, call, late, did>>

Init ==
    /\ scope \in Scopes
    /\ req \in Conversations
    /\ \E i \in Inventories :
         /\ alive = i.alive /\ nameOf = i.nameOf /\ addrsOf = i.addrsOf
         /\ owner = i.owner /\ label = i.label /\ carried = i.carried /\ bound = i.bound
         /\ unborn = (Hosts \ i.alive) \union {t \in Tags : i.label[t] = None}
                       \union {b \in Bindings : i.bound[b] = None}
    /\ env = 0
    /\ orgKnown = FALSE
    /\ call = [c \in Calls |-> Idle]
    /\ late = {}
    /\ did = {}
    /\ held = [c \in Calls |-> {}]
    /\ shown = [c \in Calls |-> {}]
    /\ basis = [c \in Calls |-> {}]
    /\ torn = [c \in Calls |-> {}]
    /\ altered = FALSE

Next ==
    /\ \/ \E c \in Calls : CallStep(c)
       \/ \E m \in late : Lands(m) /\ Handle(m)
       \/ World
       \/ Finished
    /\ Remembers

Spec == Init /\ [][Next]_cvars

-----------------------------------------------------------------------------
\* Properties.

Message ==
    [kind : {"new"}, call : Calls, label : Labels]
    \union [kind : {"label"}, call : Calls, tag : Tags, label : Labels]
    \union [kind : {"drop"}, call : Calls, tag : Tags]
    \union [kind : {"bulk"}, call : Calls, tag : Tags, ids : Seq(Entities),
            of : STRING, add : BOOLEAN]
    \union [kind : {"attach"}, call : Calls, body : Body]
    \union [kind : {"reattach"}, call : Calls, id : Bindings, body : Body]
    \union [kind : {"detach"}, call : Calls, id : Bindings]
    \union [kind : {"merge"}, call : Calls, dest : Hosts, src : Hosts]

Local == [at : {"idle", "org", "nets", "tag", "label", "usage", "scope", "binding",
                "service", "host", "hosts", "send", "done"},
          found : Seq(Tags \union Hosts), left : Seq(Entities \union ToSet(Sources)),
          offset : Nat, seen : SUBSET (Entities \X Nat), send : Message \union {None},
          outcome : {"none", "applied", "plan", "unchanged", "refused", "failed"}]

\* Every variable has its type.
TypeOK ==
    /\ scope \in Scopes /\ req \in Conversations
    /\ alive \subseteq Hosts
    /\ nameOf \in [Hosts -> Names] /\ addrsOf \in [Hosts -> SUBSET Addresses]
    /\ owner \in [Services -> Hosts]
    /\ label \in [Tags -> Labels \union {None}]
    /\ carried \in [Entities -> SUBSET Tags]
    /\ bound \in [Bindings -> Body \union {None}]
    /\ unborn \subseteq Hosts \union Tags \union Bindings
    /\ env \in 0..MaxEnv
    /\ orgKnown \in BOOLEAN
    /\ call \in [Calls -> Local]
    /\ late \subseteq Message
    /\ did \subseteq Calls

\* The tools reach no further than module Reach allows: under a scope nothing
\* of another network is touched, one id out of scope keeps a bulk assignment
\* from every entity, deletions are confirmed, and however late a write is
\* handled each call takes effect at most once; a scope rules out every change of
\* a label (tools/write.py:273-285, 318-336, 355-388, consolidate.py:44-45).
Limits == INSTANCE Reach WITH
    asked <- req, hosts <- alive, owners <- owner, labels <- label,
    tagged <- carried, bindings <- bound, served <- did, age <- env
ImplementsReach == Limits!Spec

\* The call whose write a step handles.
Handles(c) == c \notin did /\ c \in did'

\* A relabelling leaves the attributes it was asked for, and the others as the
\* tag had them at one moment since the call resolved it (client.py:469-472).
RelabelIsMerge ==
    [][\A c \in Calls : Handles(c) /\ Uses(c, {"update_tag"}) =>
         \E l \in shown[c] \ {None} :
           label'[TagOf(c)] = [f \in {"name", "style"} |->
              IF f \in DOMAIN req[c].patch THEN req[c].patch[f] ELSE l[f]]]_cvars

\* The plan of delete_tag counts, of every kind, at least the entities that
\* carried the tag throughout, although nine collections are read one after the
\* other, in pages.  Not counted are user API keys, and what a collection hides
\* that lost a record between two of its pages (client.py:186-199, 516-548,
\* tools/write.py:338-351).
UsageIsSeen ==
    \A c \in Calls :
      At(c, "done") /\ call[c].outcome = "plan" /\ Uses(c, {"delete_tag"}) =>
        \A kind \in {KindOf[e] : e \in Entities} \ (torn[c] \union {"UserApiKey"}) :
          VisibleUses(c, kind) >= Cardinality({e \in held[c] : KindOf[e] = kind})

\* Every binding lies in the network of its service and has a shape Scanopy
\* understands, however often it is moved (tools/write.py:415-429, 486-504).
BindingsFollowService ==
    \A b \in Bindings : bound[b] # None =>
      /\ bound[b].nets = NetsOf[bound[b].service]
      /\ LET s == bound[b].shape IN
         IF s.type = "Port" THEN s.port # None ELSE s.port = None /\ s.ip # None

\* Repeating a merge, together or one after the other, after a timeout or not,
\* retires no second host: the selectors then find the surviving host or none,
\* whatever is merged and retired besides.  It may where the world adds a host or
\* gives one another name or address, and where one of the two calls lost a host
\* between two pages, so that of two that match it saw only one
\* (tools/consolidate.py:40-77, client.py:186-199, 333-354).
RepeatMergesOnce ==
    ~altered =>
      \A c, d \in did :
        /\ Uses(c, {"consolidate_hosts"}) /\ req[c] = req[d]
        /\ "Host" \notin torn[c] \union torn[d]
        => c = d

\* tools/write.py:257-258: "Only the fields you pass change."
OnlyPassedFieldsChange ==
    [][\A c \in Calls : Handles(c) /\ Uses(c, {"update_tag"}) =>
         \A f \in {"name", "style"} \ DOMAIN req[c].patch :
           label'[TagOf(c)][f] = label[TagOf(c)][f]]_cvars

\* docs/usage-guide.md:447-448: "If you say "yes, do it," the second call actually
\* applies the change."  So a merge confirmed after its preview merges the hosts shown.
MergesWhatWasShown ==
    \A c \in did :
      Uses(c, {"consolidate_hosts"}) /\ basis[c] # {} => call[c].found \in basis[c]
=============================================================================
