----------------------------- MODULE MergeTool -----------------------------
(***************************************************************************)
(* consolidate_hosts (tools/consolidate.py) over resolve_host: one host is *)
(* merged into another and its record deleted.                             *)
(***************************************************************************)
EXTENDS ToolCalls

\* Names in any case, or one of the addresses.
Matches(sel, h) ==
    \/ sel.by = "name" /\ Folded[nameOf[h]] = Folded[sel.key]
    \/ sel.by = "ip" /\ sel.key \in addrsOf[h]

\* Mutant of OnlyMatch: any match will do.
SomeMatch(seen, h) == \E u \in seen : u[1] = h

\* A selector that matches more than one record is refused.
OnlyMatch(seen, h) == \E u \in seen : seen = {u} /\ u[1] = h

\* The destination is resolved first, then the source.
Selector(c) == IF call[c].found = <<>> THEN req[c].dest ELSE req[c].src

\* resolve_host asks for an id directly.
Lookup(sel) == IF sel.by = "id" THEN "host" ELSE "hosts"

MergeMessage(c, d, s) == [kind |-> "merge", call |-> c, dest |-> d, src |-> s]

BeginMerge(c) ==
    /\ Uses(c, {"consolidate_hosts"})
    /\ Reads(c, "idle")
    /\ Goes(c, Lookup(req[c].dest))
    /\ UNCHANGED orgKnown

\* Both scopes are checked once both hosts are known.
MayMerge(d, s) == Within(NetsOf[d]) /\ Within(NetsOf[s])

\* The selector means host h.  With the source resolved too: the same host is
\* refused, without confirmation the merge is only shown.
Resolved(c, h) ==
    LET k == [call[c] EXCEPT !.found = Append(@, h), !.offset = 0, !.seen = {}]
        d == call[c].found[1] IN
    IF call[c].found = <<>>
    THEN call' = [call EXCEPT ![c] = [k EXCEPT !.at = Lookup(req[c].src)]]
    ELSE /\ MayMerge(d, h)
         /\ call' = [call EXCEPT ![c] =
              IF d = h THEN [k EXCEPT !.at = "done", !.outcome = "refused"]
              ELSE IF ~req[c].confirm
              THEN [k EXCEPT !.at = "done", !.outcome = "plan"]
              ELSE [k EXCEPT !.at = "send", !.send = MergeMessage(c, d, h)]]

\* The host with that id, on any network; an id that is gone is looked for among
\* names and addresses, which it never is.
GetHost(c) ==
    /\ Reads(c, "host")
    /\ LET h == Selector(c).key IN
       IF h \in alive THEN Resolved(c, h) ELSE Goes(c, "hosts")
    /\ UNCHANGED orgKnown

Matched(c) == Noted(c, {h \in NextPage(c) : Matches(Selector(c), h)})

ReadHosts(c) ==
    /\ Reads(c, "hosts")
    /\ IF LastPage(c) THEN \E h \in Hosts : OnlyMatch(Matched(c), h) /\ Resolved(c, h)
       ELSE call' = [call EXCEPT ![c].seen = Matched(c), ![c].offset = @ + PageSize]
    /\ UNCHANGED orgKnown

MergeStep(c) == BeginMerge(c) \/ GetHost(c) \/ ReadHosts(c)

-----------------------------------------------------------------------------
\* The server (external): two hosts of one network, the source without a daemon.
HandleMerge(m) ==
    /\ m.kind = "merge"
    /\ {m.dest, m.src} \subseteq alive
    /\ m.dest # m.src
    /\ NetsOf[m.dest] = NetsOf[m.src]
    /\ m.src \notin HasDaemon
    /\ alive' = alive \ {m.src}
    /\ owner' = [v \in Services |-> IF owner[v] = m.src THEN m.dest ELSE owner[v]]
    /\ addrsOf' = [addrsOf EXCEPT ![m.dest] = @ \union addrsOf[m.src]]
    /\ UNCHANGED <<nameOf, tagVars, bound, unborn>>
=============================================================================
