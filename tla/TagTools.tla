------------------------------ MODULE TagTools ------------------------------
(***************************************************************************)
(* create_tag, update_tag, delete_tag, tag_entities and untag_entities     *)
(* (tools/write.py) over resolve_tag, organization_id, update_tag,         *)
(* tag_usage and bulk_tag (client.py).                                     *)
(***************************************************************************)
EXTENDS ToolCalls

TagTools == {"create_tag", "update_tag", "delete_tag", "tag_entities", "untag_entities"}
BulkTools == {"tag_entities", "untag_entities"}

Taggable == {"Host", "Service", "Subnet", "Network", "Dependency"}

\* Mutant of Sources: one of the nine is not asked.
ForgottenSource ==
    <<"Host", "Service", "Subnet", "Network", "Dependency", "Daemon",
      "DaemonApiKey", "Discovery">>

\* The collections tag_usage reads, in this order; user API keys cannot be read.
Sources ==
    <<"Host", "Service", "Subnet", "Network", "Dependency", "Daemon",
      "DaemonApiKey", "Discovery", "Credential">>

\* The tag call c has resolved.
TagOf(c) == call[c].found[1]

-----------------------------------------------------------------------------
\* resolve_tag: an id among the tags there are, or a name in any case.
MatchingTags(sel) ==
    {t \in Tags : /\ label[t] # None
                  /\ IF sel.by = "id" THEN t = sel.key
                     ELSE Folded[label[t].name] = Folded[sel.key]}

Resolves(c, t) == Reads(c, "tag") /\ MatchingTags(req[c].tag) = {t}

\* Mutant of Merged: only the patch is sent.
PatchAlone(patch, current) == patch

\* Mutant of Merged: what was read wins over what was asked.
CurrentWins(patch, current) == current

\* The tag as it was read, with the attributes of the patch.
Merged(patch, current) ==
    [name  |-> IF "name" \in DOMAIN patch THEN patch["name"] ELSE current.name,
     style |-> IF "style" \in DOMAIN patch THEN patch["style"] ELSE current.style]

NewTagMessage(c) == [kind |-> "new", call |-> c, label |-> req[c].label]
LabelMessage(c) ==
    [kind |-> "label", call |-> c, tag |-> TagOf(c),
     label |-> Merged(req[c].patch, label[TagOf(c)])]
DropMessage(c, t) == [kind |-> "drop", call |-> c, tag |-> t]
BulkMessage(c, t) ==
    [kind |-> "bulk", call |-> c, tag |-> t, ids |-> req[c].ids, of |-> req[c].of,
     add |-> Uses(c, {"tag_entities"})]

-----------------------------------------------------------------------------
\* The organization id is asked for once per process.
BeginCreate(c) ==
    /\ Uses(c, {"create_tag"})
    /\ Reads(c, "idle")
    /\ IF orgKnown THEN Sends(c, NewTagMessage(c)) ELSE Goes(c, "org")
    /\ UNCHANGED orgKnown

\* From /organizations, or, where that is refused or empty, from a network record.
FindOrg(c) ==
    /\ Reads(c, "org")
    /\ \/ orgKnown' = TRUE /\ Sends(c, NewTagMessage(c))
       \/ UNCHANGED orgKnown /\ Goes(c, "nets")

FromNetwork(c) ==
    /\ Reads(c, "nets")
    /\ orgKnown' = TRUE
    /\ Sends(c, NewTagMessage(c))

BeginTag(c) ==
    /\ Uses(c, {"update_tag", "delete_tag"})
    /\ Reads(c, "idle")
    /\ Goes(c, "tag")
    /\ UNCHANGED orgKnown

\* update_tag: refused under any scope; nothing to do for an empty patch.
ResolveForUpdate(c) ==
    /\ Uses(c, {"update_tag"})
    /\ \E t \in Tags :
         /\ Resolves(c, t)
         /\ IF scope # NoScope THEN Ends(c, "refused")
            ELSE IF DOMAIN req[c].patch = {} THEN Ends(c, "unchanged")
            ELSE Finds(c, t, "label")
    /\ UNCHANGED orgKnown

\* ScanopyClient.update_tag: read, merge, and write all of it with no token.
ReadLabel(c) ==
    /\ Reads(c, "label")
    /\ label[TagOf(c)] # None
    /\ Sends(c, LabelMessage(c))
    /\ UNCHANGED orgKnown

-----------------------------------------------------------------------------
\* delete_tag.
ResolveForDelete(c) ==
    /\ Uses(c, {"delete_tag"})
    /\ \E t \in Tags :
         /\ Resolves(c, t)
         /\ call' = [call EXCEPT ![c].at = "usage", ![c].found = <<t>>,
                                 ![c].left = Sources]
    /\ UNCHANGED orgKnown

\* tag_usage reads one page of a collection; after a short one the next
\* collection is due.
ReadUsage(c) ==
    LET seen == Noted(c, {e \in NextPage(c) : TagOf(c) \in carried[e]}) IN
    IF LastPage(c)
    THEN [call[c] EXCEPT !.seen = seen, !.offset = 0, !.left = Tail(@)]
    ELSE [call[c] EXCEPT !.seen = seen, !.offset = @ + PageSize]

EndsUsage(c) == Len(call[c].left) = 1 /\ LastPage(c)

ReadSource(c) ==
    /\ Reads(c, "usage")
    /\ ~EndsUsage(c)
    /\ call' = [call EXCEPT ![c] = ReadUsage(c)]
    /\ UNCHANGED orgKnown

\* The plan counts the uses of each kind.
VisibleUses(c, kind) == Cardinality({u \in call[c].seen : KindOf[u[1]] = kind})

\* The last page; then the scope, which always refuses, and confirmation.
ReadLastSource(c) ==
    /\ Reads(c, "usage")
    /\ EndsUsage(c)
    /\ LET k == ReadUsage(c) IN
       call' = [call EXCEPT ![c] =
                  IF scope # NoScope
                  THEN [k EXCEPT !.at = "done", !.outcome = "refused"]
                  ELSE IF ~req[c].confirm
                  THEN [k EXCEPT !.at = "done", !.outcome = "plan"]
                  ELSE [k EXCEPT !.at = "send", !.send = DropMessage(c, TagOf(c))]]
    /\ UNCHANGED orgKnown

-----------------------------------------------------------------------------
\* tag_entities and untag_entities.

\* Mutant of ToCheck: only the first id is looked at.
FirstOnly(c) == IF req[c].ids = <<>> THEN <<>> ELSE <<Head(req[c].ids)>>

\* The ids _assert_entities_in_scope fetches one by one.
ToCheck(c) == req[c].ids

NothingToAsk(c) ==
    \/ scope = NoScope
    \/ req[c].of = "Network" /\ ToSet(req[c].ids) \subseteq {scope}
    \/ req[c].of \in {"Host", "Service"} /\ req[c].ids = <<>>

\* The type, and for networks the ids, are checked without a request; without a
\* scope nothing is checked.
BeginBulk(c) ==
    /\ Uses(c, BulkTools)
    /\ Reads(c, "idle")
    /\ \/ /\ req[c].of \notin Taggable
          /\ Ends(c, "refused")
       \/ /\ req[c].of \in Taggable
          /\ IF NothingToAsk(c) THEN Goes(c, "tag")
             ELSE IF req[c].of = "Network" THEN Ends(c, "refused")
             ELSE call' = [call EXCEPT ![c].at = "scope", ![c].left = ToCheck(c)]
    /\ UNCHANGED orgKnown

\* Hosts and services are fetched one after the other.
CheckEntity(c) ==
    /\ Reads(c, "scope")
    /\ req[c].of \in {"Host", "Service"}
    /\ LET e == Head(call[c].left) IN
         /\ KindOf[e] = req[c].of
         /\ Present(e)
         /\ Within(NetsOf[e])
    /\ call' = [call EXCEPT ![c].left = Tail(@),
                            ![c].at = IF Len(call[c].left) = 1 THEN "tag" ELSE "scope"]
    /\ UNCHANGED orgKnown

\* Subnets and dependencies are looked for in the list of the scope.
CheckListing(c) ==
    /\ Reads(c, "scope")
    /\ req[c].of \in {"Subnet", "Dependency"}
    /\ \A e \in ToSet(call[c].left) : KindOf[e] = req[c].of /\ Within(NetsOf[e])
    /\ Goes(c, "tag")
    /\ UNCHANGED orgKnown

ResolveForBulk(c) ==
    /\ Uses(c, BulkTools)
    /\ \E t \in Tags : Resolves(c, t) /\ Sends(c, BulkMessage(c, t))
    /\ UNCHANGED orgKnown

TagStep(c) ==
    \/ BeginCreate(c) \/ FindOrg(c) \/ FromNetwork(c)
    \/ BeginTag(c) \/ ResolveForUpdate(c) \/ ReadLabel(c)
    \/ ResolveForDelete(c) \/ ReadSource(c) \/ ReadLastSource(c)
    \/ BeginBulk(c) \/ CheckEntity(c) \/ CheckListing(c) \/ ResolveForBulk(c)

-----------------------------------------------------------------------------
\* The server (external).

\* The name of a tag is unique in the organization.
NameIsFree(n, t) == \A u \in Tags \ {t} : label[u] # None => label[u].name # n

HandleNewTag(m) ==
    /\ m.kind = "new"
    /\ \E t \in Tags \intersect unborn :
         /\ NameIsFree(m.label.name, t)
         /\ label' = [label EXCEPT ![t] = m.label]
         /\ unborn' = unborn \ {t}
    /\ UNCHANGED carried

HandleLabel(m) ==
    /\ m.kind = "label"
    /\ label[m.tag] # None
    /\ NameIsFree(m.label.name, m.tag)
    /\ label' = [label EXCEPT ![m.tag] = m.label]
    /\ UNCHANGED <<carried, unborn>>

\* The label goes; entities keep the id among their tags.
HandleDrop(m) ==
    /\ m.kind = "drop"
    /\ label' = [label EXCEPT ![m.tag] = None]
    /\ UNCHANGED <<carried, unborn>>

HandleBulk(m) ==
    /\ m.kind = "bulk"
    /\ label[m.tag] # None
    /\ carried' = [e \in Entities |->
         IF e \in ToSet(m.ids) /\ KindOf[e] = m.of /\ Present(e)
         THEN IF m.add THEN carried[e] \union {m.tag} ELSE carried[e] \ {m.tag}
         ELSE carried[e]]
    /\ UNCHANGED <<label, unborn>>

HandleTag(m) ==
    /\ HandleNewTag(m) \/ HandleLabel(m) \/ HandleDrop(m) \/ HandleBulk(m)
    /\ UNCHANGED <<hostVars, bound>>
=============================================================================
