----------------------------- MODULE MCCuration -----------------------------
(***************************************************************************)
(* Four hosts, three of them of one network and three with a service, and  *)
(* entities of the kinds the tools treat differently; two tags and an id   *)
(* for a third, one binding and ids for two more, and a host to be found   *)
(* that comes before the others.  A page has room for two, so that a       *)
(* list of hosts takes three requests, or two under the scope.  The calls  *)
(* come in groups of tools that can meet.                                  *)
(***************************************************************************)
EXTENDS Curation, TLC

CONSTANTS h1, h2, h3, h4, h5, s1, s2, s3, sub, cred, key, lan, dmz, t1, t2, t3,
          b1, b2, b3, p1, a1, a2, a3, c1, c2, nas, NAS, srv, gray, red

MCKind == (h1 :> "Host" @@ h2 :> "Host" @@ h3 :> "Host" @@ h4 :> "Host" @@ h5 :> "Host"
           @@ s1 :> "Service" @@ s2 :> "Service" @@ s3 :> "Service" @@ sub :> "Subnet"
           @@ cred :> "Credential" @@ key :> "UserApiKey" @@ dmz :> "Network")
MCEntities == DOMAIN MCKind
MCRank == (h5 :> 0 @@ h3 :> 1 @@ h1 :> 2 @@ h2 :> 3 @@ h4 :> 4 @@ s1 :> 5 @@ s2 :> 6
           @@ s3 :> 7 @@ sub :> 8 @@ cred :> 9 @@ key :> 10 @@ dmz :> 11)
MCNets == [e \in MCEntities |-> CASE e \in {h3, s3, sub, dmz} -> {dmz}
                                  [] e = cred -> {lan, dmz}
                                  [] e = key -> {}
                                  [] OTHER -> {lan}]

MCFolded == [n \in {nas, NAS, srv} |-> IF n = NAS THEN nas ELSE n]

Port(ip) == [type |-> "Port", port |-> p1, ip |-> ip]
Address(p, ip) == [type |-> "IPAddress", port |-> p, ip |-> ip]
MCShapes == {Port(None), Port(a1), Address(None, a1), Address(p1, a1), Address(None, None)}

Label(n, s) == [name |-> n, style |-> s]
At1(s, sh) == [service |-> s, shape |-> sh, nets |-> MCNets[s]]

MCInventories ==
    {[alive |-> {h1, h2, h3, h4},
      nameOf |-> (h1 :> nas @@ h2 :> srv @@ h3 :> nas @@ h4 :> srv @@ h5 :> nas),
      addrsOf |-> (h1 :> {a1} @@ h2 :> {a2} @@ h3 :> {a3} @@ h4 :> {} @@ h5 :> {}),
      owner |-> (s1 :> h1 @@ s2 :> h2 @@ s3 :> h3),
      label |-> (t1 :> Label(nas, gray) @@ t2 :> Label(srv, gray) @@ t3 :> None),
      carried |-> [e \in MCEntities |->
                     IF e \in {h2, h3, cred, key} THEN {t1} ELSE {}],
      bound |-> (b1 :> At1(s1, Port(a1)) @@ b2 :> None @@ b3 :> None)]}

ById(k) == [by |-> "id", key |-> k]
ByName(n) == [by |-> "name", key |-> n]
ByIp(a) == [by |-> "ip", key |-> a]

Create(l) == [tool |-> "create_tag", label |-> l]
Update(sel, patch) == [tool |-> "update_tag", tag |-> sel, patch |-> patch]
Delete(sel, ok) == [tool |-> "delete_tag", tag |-> sel, confirm |-> ok]
TagIds(tool, of, ids) == [tool |-> tool, tag |-> ByName(NAS), of |-> of, ids |-> ids]
NewBinding(s, sh) == [tool |-> "create_binding", service |-> s, shape |-> sh]
Rebind(b, s, sh) == [tool |-> "update_binding", id |-> b, service |-> s, shape |-> sh]
Unbind(b, ok) == [tool |-> "delete_binding", id |-> b, confirm |-> ok]
MergeOf(d, s, ok) ==
    [tool |-> "consolidate_hosts", dest |-> d, src |-> s, confirm |-> ok]

\* Relabelling, deleting, creating and assigning tags.
LabelRequests ==
    {Create(Label(srv, red)), Create(Label(NAS, red)),
     Update(ByName(NAS), ("style" :> red)), Update(ById(t1), ("name" :> srv)),
     Update(ById(t1), ("name" :> NAS)), Update(ById(t2), [f \in {} |-> None]),
     Delete(ById(t1), FALSE), Delete(ByName(nas), TRUE)}

\* Assignments within the scope, out of it, across it, and of other kinds.
AssignRequests ==
    {TagIds("tag_entities", "Host", <<h1, h3>>), TagIds("tag_entities", "Host", <<h1, h2>>),
     TagIds("untag_entities", "Host", <<h2>>), TagIds("tag_entities", "Service", <<s1>>),
     TagIds("tag_entities", "Subnet", <<sub>>), TagIds("tag_entities", "Network", <<dmz>>),
     TagIds("tag_entities", "Daemon", <<h1>>)}

BindingRequests ==
    {NewBinding(s1, Port(a1)), NewBinding(s1, Port(None)), NewBinding(s2, Address(None, a1)),
     NewBinding(s3, Port(a1)), NewBinding(s1, Address(p1, a1)),
     Rebind(b1, s2, Port(None)), Rebind(b1, s3, Port(a1)), Rebind(b1, s1, Address(None, None)),
     Unbind(b1, FALSE), Unbind(b1, TRUE)}

\* Merges by name, address and id, within a network and across, planned and
\* confirmed, and of a host into itself.
MergeRequests ==
    {MergeOf(ById(h1), ByName(srv), TRUE), MergeOf(ByName(nas), ByIp(a2), TRUE),
     MergeOf(ByName(nas), ByIp(a2), FALSE), MergeOf(ByIp(a1), ById(h2), TRUE),
     MergeOf(ById(h2), ById(h1), TRUE), MergeOf(ById(h1), ById(h3), TRUE),
     MergeOf(ByName(nas), ByIp(a1), TRUE)}

MCRequests == LabelRequests \union AssignRequests \union BindingRequests \union MergeRequests

\* At most one call deletes a tag: its many requests meet those of the others.
Deletes(r) == r.tool = "delete_tag"
Few(S) == {f \in [Calls -> S] : \A c, d \in Calls : Deletes(f[c]) /\ Deletes(f[d]) => c = d}

MCConversations ==
    Few(LabelRequests)
    \union Few(AssignRequests \union {Delete(ById(t1), FALSE)})
    \union [Calls -> BindingRequests \union {MergeOf(ByName(nas), ByIp(a2), TRUE)}]
    \union [Calls -> MergeRequests \union {TagIds("tag_entities", "Host", <<h1, h2>>)}]

Relabellings ==
    [Calls -> {Update(ByName(NAS), ("style" :> red)), Update(ById(t1), ("name" :> NAS))}]
SameMerges == [Calls -> {MergeOf(ByName(nas), ByIp(a2), b) : b \in BOOLEAN}]

Symmetric == Permutations(Calls)
=============================================================================
