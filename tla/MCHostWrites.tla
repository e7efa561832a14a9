---------------------------- MODULE MCHostWrites ----------------------------
(***************************************************************************)
(* Small instances of HostWrites: two hosts in the scope and one outside,  *)
(* two curated fields and one discovered, two values, two tags.            *)
(***************************************************************************)
EXTENDS HostWrites, TLC

CONSTANTS h1, h2, h3, c1, c2, v1, v2, t1, t2, lan, dmz

MCTwoNetworks == [h \in Hosts |-> IF h = h3 THEN dmz ELSE lan]

\* Every host has a name and a hostname of its own, as far as the values go, and
\* no description; h1 carries a tag.
MCInventories ==
    {[field |-> [h \in Hosts |-> [x \in Fields |->
                    IF x = "description" THEN None ELSE IF h = h1 THEN v1 ELSE v2]],
      tagsOf |-> [h \in Hosts |-> IF h = h1 THEN {t1} ELSE {}]]}

ById(h) == [by |-> "id", key |-> h]
ByName(v) == [by |-> "match", key |-> v]
Change(sel, patch) == [sel |-> sel, patch |-> patch, wellFormed |-> TRUE]
Malformed(sel) == [sel |-> sel, patch |-> [x \in {} |-> None], wellFormed |-> FALSE]
SetField(f, v) == [x \in {f} |-> v]

Metadata(r) == [tool |-> "metadata", rows |-> <<r>>, confirm |-> TRUE, tags |-> {}]
Bulk(rows, confirm) ==
    [tool |-> "bulk", rows |-> rows, confirm |-> confirm, tags |-> {}]
SetTagsOf(sel, T) ==
    [tool |-> "settags", rows |-> <<Change(sel, [x \in {} |-> None])>>,
     confirm |-> TRUE, tags |-> T]

\* Metadata calls that collide on a host, find it by name or by id, clear a
\* field, change nothing, or name a host outside the scope.
MetadataRequests ==
    {Metadata(Change(ByName(v1), SetField("description", v1))),
     Metadata(Change(ById(h1), SetField("description", None))),
     Metadata(Change(ById(h3), SetField("name", v1)))}

\* Two-row batches: on two hosts, twice on one host (also planned only), or with
\* a malformed row.
BulkRequests ==
    LET both == <<Change(ById(h1), SetField("name", v2)),
                  Change(ById(h2), SetField("name", v1))>>
        twice == <<Change(ByName(v1), SetField("name", v2)),
                   Change(ById(h1), SetField("name", v1))>>
        broken == <<Malformed(ById(h1)), Change(ById(h2), SetField("name", v1))>>
    IN {Bulk(rows, TRUE) : rows \in {both, twice, broken}} \union {Bulk(twice, FALSE)}

EditRequests == MetadataRequests \union BulkRequests

\* A replacement and a clear of tags, and a metadata call and a batch that echo
\* them.
TagRequests ==
    {SetTagsOf(ById(h1), {t2}), SetTagsOf(ByName(v1), {}),
     Metadata(Change(ById(h1), SetField("name", v2))),
     Bulk(<<Change(ById(h1), SetField("name", v2)),
            Change(ById(h2), SetField("name", v1))>>, TRUE)}

Symmetric == Permutations(Calls)
=============================================================================
