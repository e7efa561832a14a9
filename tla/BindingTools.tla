---------------------------- MODULE BindingTools ----------------------------
(***************************************************************************)
(* create_binding, update_binding and delete_binding (tools/write.py).     *)
(* A shape is a binding's type with a port and an address, None where the  *)
(* caller gives none.                                                      *)
(***************************************************************************)
EXTENDS ToolCalls

BindingTools == {"create_binding", "update_binding", "delete_binding"}

-----------------------------------------------------------------------------
\* _binding_body.
WellShaped(shape) ==
    \/ shape.type = "Port" /\ shape.port # None
    \/ shape.type = "IPAddress" /\ shape.ip # None /\ shape.port = None

\* Mutant of NetsFor: an update leaves the binding in the network it was in.
OldNets(c) ==
    IF Uses(c, {"update_binding"}) /\ bound[req[c].id] # None
    THEN bound[req[c].id].nets ELSE NetsOf[req[c].service]

\* The network a body names is that of the service it names.
NetsFor(c) == NetsOf[req[c].service]

\* _binding_body_for.
BodyFor(c) ==
    [service |-> req[c].service, shape |-> req[c].shape, nets |-> NetsFor(c)]

AttachMessage(c) == [kind |-> "attach", call |-> c, body |-> BodyFor(c)]
ReattachMessage(c) ==
    [kind |-> "reattach", call |-> c, id |-> req[c].id, body |-> BodyFor(c)]
DetachMessage(c) == [kind |-> "detach", call |-> c, id |-> req[c].id]

-----------------------------------------------------------------------------
BeginBinding(c) ==
    /\ Uses(c, BindingTools)
    /\ Reads(c, "idle")
    /\ Goes(c, IF Uses(c, {"create_binding"}) THEN "service" ELSE "binding")
    /\ UNCHANGED orgKnown

\* The binding is fetched and its scope checked.  delete_binding then plans or
\* deletes; update_binding goes on to the service.
GetBinding(c) ==
    /\ Reads(c, "binding")
    /\ Bound(req[c].id)
    /\ Within(bound[req[c].id].nets)
    /\ IF Uses(c, {"update_binding"}) THEN Goes(c, "service")
       ELSE IF ~req[c].confirm THEN Ends(c, "plan")
       ELSE Sends(c, DetachMessage(c))
    /\ UNCHANGED orgKnown

\* The service is fetched and its scope checked, then the shape.
GetService(c) ==
    /\ Reads(c, "service")
    /\ Present(req[c].service)
    /\ Within(NetsOf[req[c].service])
    /\ WellShaped(req[c].shape)
    /\ Sends(c, IF Uses(c, {"create_binding"}) THEN AttachMessage(c)
                ELSE ReattachMessage(c))
    /\ UNCHANGED orgKnown

BindingStep(c) == BeginBinding(c) \/ GetBinding(c) \/ GetService(c)

-----------------------------------------------------------------------------
\* The server (external).

\* Two bindings of a service on one address must have one type: otherwise 409.
Clashes(body, b) ==
    /\ bound[b] # None
    /\ bound[b].service = body.service
    /\ bound[b].shape.ip # None /\ bound[b].shape.ip = body.shape.ip
    /\ bound[b].shape.type # body.shape.type

\* A binding of a port on all addresses supersedes those on one of them.
Supersedes(body, b) ==
    /\ bound[b] # None
    /\ bound[b].service = body.service
    /\ body.shape.type = "Port" /\ body.shape.ip = None
    /\ bound[b].shape.port = body.shape.port /\ bound[b].shape.ip # None

Place(b, body) ==
    /\ Present(body.service)
    /\ \A x \in Bindings \ {b} : ~Clashes(body, x)
    /\ bound' = [x \in Bindings |-> IF x = b THEN body
                                    ELSE IF Supersedes(body, x) THEN None
                                    ELSE bound[x]]

\* An exact duplicate of another binding is accepted.
HandleAttach(m) ==
    /\ m.kind = "attach"
    /\ \E b \in Bindings \intersect unborn :
         Place(b, m.body) /\ unborn' = unborn \ {b}

HandleReattach(m) ==
    /\ m.kind = "reattach"
    /\ Bound(m.id)
    /\ Place(m.id, m.body)
    /\ UNCHANGED unborn

HandleDetach(m) ==
    /\ m.kind = "detach"
    /\ Bound(m.id)
    /\ bound' = [bound EXCEPT ![m.id] = None]
    /\ UNCHANGED unborn

HandleBinding(m) ==
    /\ HandleAttach(m) \/ HandleReattach(m) \/ HandleDetach(m)
    /\ UNCHANGED <<hostVars, tagVars>>
=============================================================================
