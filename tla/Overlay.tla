------------------------------ MODULE Overlay ------------------------------
(***************************************************************************)
(* What Arborist's host-writing tools promise of the Scanopy inventory,    *)
(* with no word of how they keep it: no snapshots, no lock tokens, no      *)
(* requests in flight.  The inventory changes in three ways only:          *)
(*   - the world changes it (scans, operators, retirements): World;        *)
(*   - a confirmed metadata or bulk request changes, once per row, the     *)
(*     curated fields the row names, on a host inside the configured       *)
(*     scope, and NOTHING else of that host: Curate;                       *)
(*   - a set_host_tags request changes the tags of a host inside the       *)
(*     scope, and nothing else of that host: SetTags.                      *)
(* HostWrites implements it (README, "Refinement").                        *)
(***************************************************************************)
EXTENDS Integers, Sequences

CONSTANTS Calls, NetworkOf, Scope, NoScope, TokenCoversTags

VARIABLES
    alive,   \* the hosts that exist
    field,   \* field[h][f]: the scalar fields of host h
    tagsOf,  \* tagsOf[h]: the tags assigned to host h
    req,     \* req[c]: what call c asks for
    wrote,   \* wrote[c]: the rows of call c that have taken effect
    env      \* how many times the world has changed the inventory

ovars == <<alive, field, tagsOf, req, wrote, env>>

Allowed(h) == Scope = NoScope \/ NetworkOf[h] = Scope

\* The record f with the fields named by patch replaced.
Overlaid(patch, f) ==
    [x \in DOMAIN f |-> IF x \in DOMAIN patch THEN patch[x] ELSE f[x]]

\* A row that names a host by its id is about that host, while it exists.
Names(sel, h) == sel.by = "id" => h = sel.key \/ sel.key \notin alive

\* Row i of call c is applied to host h: exactly the patch, once.
Curate(c, i, h) ==
    /\ req[c].tool \in {"metadata", "bulk"}
    /\ req[c].confirm
    /\ i \in 1..Len(req[c].rows) \ wrote[c]
    /\ req[c].rows[i].wellFormed
    /\ h \in alive
    /\ Allowed(h)
    /\ Names(req[c].rows[i].sel, h)
    /\ field' = [field EXCEPT ![h] = Overlaid(req[c].rows[i].patch, @)]
    /\ \A g \in DOMAIN tagsOf \ {h} : tagsOf'[g] = tagsOf[g]
    /\ TokenCoversTags => tagsOf' = tagsOf
    /\ wrote' = [wrote EXCEPT ![c] = @ \union {i}]
    /\ UNCHANGED <<alive, req, env>>

\* The tag set of h is replaced by the one asked for, or, when the request
\* clears the tags, loses one of them.
SetTags(c, h) ==
    /\ req[c].tool = "settags"
    /\ h \in alive
    /\ Allowed(h)
    /\ \E T \in SUBSET (tagsOf[h] \union req[c].tags) :
         /\ IF req[c].tags = {} THEN T \subseteq tagsOf[h] ELSE T = req[c].tags
         /\ tagsOf' = [tagsOf EXCEPT ![h] = T]
    /\ wrote' = [wrote EXCEPT ![c] = @ \union {1}]
    /\ UNCHANGED <<alive, field, req, env>>

\* Scans, operators and retirements: anything, but no host comes back and
\* the calls of Arborist have no part in it.
World ==
    /\ env' = env + 1
    /\ alive' \subseteq alive
    /\ UNCHANGED <<req, wrote>>

Init ==
    /\ wrote = [c \in Calls |-> {}]
    /\ env = 0

Next ==
    \/ \E c \in Calls : \E h \in alive : \E i \in 1..Len(req[c].rows) : Curate(c, i, h)
    \/ \E c \in Calls : \E h \in alive : SetTags(c, h)
    \/ World

Spec == Init /\ [][Next]_ovars
=============================================================================
