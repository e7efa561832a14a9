----------------------------- MODULE HostWrites -----------------------------
(***************************************************************************)
(* The host-writing tools of Arborist: update_host_metadata,               *)
(* bulk_update_hosts and set_host_tags (tools/write.py) over               *)
(* resolve_host, assert_in_scope and update_host_curated (client.py).      *)
(*                                                                         *)
(* Tool calls run concurrently in one event loop and every HTTP request    *)
(* is an await, so between two requests of a call anything may happen:     *)
(* other calls, a scan, an operator in the Scanopy UI, a retirement.       *)
(* Each action below is one request, taken at the moment the server        *)
(* handles it, with the code up to the next request.                       *)
(*                                                                         *)
(* Simplifications.                                                        *)
(*  - `_request` sends a request again only after a 429, which the server  *)
(*    gives without handling it (module Request), so here a request is     *)
(*    handled at most once.  The caller may give up on it (timeout,        *)
(*    cancellation) and the server handle it later: `orphans`.             *)
(*  - Resolution reads the host list in one step; module Scan has the      *)
(*    pages.                                                               *)
(*  - The tag-name lookups of set_host_tags change nothing: they are part  *)
(*    of the step that resolves the host.                                  *)
(*  - A record is its scalar fields, its tags and its updated_at; the      *)
(*    child arrays are never sent.  A host's network never changes.        *)
(*  - update_host_metadata is a confirmed batch of one row: its errors     *)
(*    end the call as the failure of the only row ends a batch.            *)
(***************************************************************************)
EXTENDS Integers, Sequences

CONSTANTS
    Hosts, NoHost,          \* host ids
    Calls,                  \* tool calls
    Curated, Discovered,    \* names of the scalar fields of a host
    Values, None,           \* what a field may hold; None is null
    MatchFields,            \* the fields a selector is compared with
    Tags,
    NetworkOf,              \* the network of each host
    Scope, NoScope,         \* SCANOPY_NETWORK_ID, NoScope when it is unset
    Inventories,            \* the inventories a run may start from
    Requests,               \* the requests clients may make
    MaxRows,                \* bound: rows of a batch
    MaxEnv,                 \* bound: changes made by the world
    TokenCoversTags         \* does a tag assignment move updated_at?

Fields == Curated \union Discovered
Rows == 1..MaxRows
NoToken == -1

Patches == UNION {[D -> Values] : D \in SUBSET Curated}
Selectors == [by : {"id"}, key : Hosts] \union [by : {"match"}, key : Values]
UpdateRow == [sel : Selectors, patch : Patches, wellFormed : BOOLEAN]
Request == [tool : {"metadata", "bulk", "settags"}, rows : Seq(UpdateRow),
            confirm : BOOLEAN, tags : SUBSET Tags]

ASSUME HostsAssumption ==
    /\ NoHost \notin Hosts
    /\ Curated \intersect Discovered = {}
    /\ None \in Values
    /\ MatchFields \subseteq Fields
    /\ NoScope \notin {NetworkOf[h] : h \in Hosts}
    /\ TokenCoversTags \in BOOLEAN
    /\ Inventories \subseteq [field : [Hosts -> [Fields -> Values]],
                              tagsOf : [Hosts -> SUBSET Tags]]
    /\ MaxRows \in Nat
    /\ MaxEnv \in Nat

ASSUME RequestsAssumption ==
    /\ Requests \subseteq Request
    /\ \A r \in Requests :
         /\ Len(r.rows) \in 1..MaxRows
         /\ r.tool # "bulk" => Len(r.rows) = 1 /\ r.confirm

VARIABLES
    alive, field, tagsOf,  \* the inventory: existing hosts, their fields, tags
    ver,                   \* ver[h]: updated_at, as a counter
    env,                   \* changes the world has made
    orphans,               \* requests given up on that may still be handled
    req,                   \* req[c]: the request of call c
    pc,                    \* where call c stands
    row,                   \* the row call c is working on
    cur,                   \* the record call c last read
    target, result,        \* per row: resolved host, outcome so far
    todo,                  \* tags a clearing set_host_tags has yet to remove
    wrote,                 \* history: rows of c the server has applied
    fresh                  \* history: tags others gave c's host since c read it

inventory == <<alive, field, tagsOf, ver>>
progress == <<req, pc, row, cur, target, result, todo>>
vars == <<alive, field, tagsOf, ver, env, orphans, req, pc, row, cur,
          target, result, todo, wrote, fresh>>

Message == [call : Calls, row : Rows, kind : {"put", "assign", "untag"},
            id : Hosts, f : [Fields -> Values], tags : SUBSET Tags, ver : Int]
Snapshots == [id : Hosts \union {NoHost}, f : [Fields -> Values],
              tags : SUBSET Tags, ver : Nat]

-----------------------------------------------------------------------------
\* The rules the tools share.

Edits(c) == req[c].tool \in {"metadata", "bulk"}
Row(c) == req[c].rows[row[c]]

\* Mutant of InScope: the record is not checked.
AnyScope(h) == TRUE

\* assert_in_scope: the only scope enforcement, on the record that was read.
InScope(h) == Scope = NoScope \/ NetworkOf[h] = Scope

\* The hosts a scan returns: the server filters the list by network_id.
Listed == {h \in alive : Scope = NoScope \/ NetworkOf[h] = Scope}

\* resolve_host: an id is looked up directly, on any network; an id that is
\* gone, and every other selector, is compared with the listed hosts.
Matching(sel) ==
    IF sel.by = "id" /\ sel.key \in alive
    THEN {sel.key}
    ELSE {h \in Listed : \E f \in MatchFields : field[h][f] = sel.key}

Resolves(c, h) ==
    /\ Row(c).wellFormed
    /\ Matching(Row(c).sel) = {h}
    /\ InScope(h)

\* Mutant of Snapshot: the record found by resolution is kept, and only its
\* token is taken from the second read.
MixedSnapshot(c, h) ==
    IF cur[c].id = h
    THEN [cur[c] EXCEPT !.ver = ver[h]]
    ELSE [id |-> h, f |-> field[h], tags |-> tagsOf[h], ver |-> ver[h]]

\* The record of h as a GET returns it now.
Snapshot(c, h) == [id |-> h, f |-> field[h], tags |-> tagsOf[h], ver |-> ver[h]]

\* A row that changes nothing is not sent at all.
Verdict(c, h) ==
    IF \E f \in DOMAIN Row(c).patch : Row(c).patch[f] # field[h][f]
    THEN "planned" ELSE "noop"

\* Mutant of Payload: only the changed fields are sent.
PatchOnly(patch, f) == patch

\* The scalars of the PUT: the patch, and an echo of everything else.
Payload(patch, f) ==
    [x \in Fields |-> IF x \in DOMAIN patch THEN patch[x] ELSE f[x]]

\* Mutant of Expected: the PUT carries no token.
Unconditional(c) == NoToken

\* expected_updated_at.
Expected(c) == cur[c].ver

\* Mutant of EchoedTags: the tags are left out, which clears them.
NoTags(c) == {}

\* A metadata change sends back the tags it read.
EchoedTags(c) == cur[c].tags

PutMessage(c) ==
    [call |-> c, row |-> row[c], kind |-> "put", id |-> cur[c].id,
     f |-> Payload(Row(c).patch, cur[c].f), tags |-> EchoedTags(c),
     ver |-> Expected(c)]

TagMessage(c, kind, T) ==
    [call |-> c, row |-> row[c], kind |-> kind, id |-> cur[c].id,
     f |-> cur[c].f, tags |-> T, ver |-> NoToken]

\* Mutant of WritesTags: a clear is sent as an assign of nothing.
AlwaysAssign(c) == "assign"

\* How set_host_tags writes the set T it is asked for: one assign, or, since
\* assign ignores an empty list, one removal for every tag that was read.
WritesTags(c) == IF req[c].tags # {} THEN "assign" ELSE "untag"

\* Where a clear goes on once it knows the tags T to remove.
Removes(T) == IF T = {} THEN "refresh" ELSE "untag"

\* The requests that change the inventory and that c may be waiting for.
InFlight(c) ==
    IF pc[c] = "put" THEN {PutMessage(c)}
    ELSE IF pc[c] = "assign" THEN {TagMessage(c, "assign", req[c].tags)}
    ELSE IF pc[c] = "untag" THEN {TagMessage(c, "untag", {t}) : t \in todo[c]}
    ELSE {}

-----------------------------------------------------------------------------
\* The server (external): what each write does when it is handled.

\* The tags of h become T; `fresh` records what watching calls did not ask for.
Retag(watching, h, T) ==
    /\ tagsOf' = [tagsOf EXCEPT ![h] = T]
    /\ fresh' = [c \in Calls |->
                   IF c \in watching /\ req[c].tool = "settags" /\ cur[c].id = h
                   THEN fresh[c] \union (T \ tagsOf[h])
                   ELSE fresh[c]]

TagsMoveToken(h) == [ver EXCEPT ![h] = IF TokenCoversTags THEN @ + 1 ELSE @]

\* Full replacement under the optimistic lock.
ServePut(m) ==
    /\ m.kind = "put"
    /\ m.ver \in {NoToken, ver[m.id]}
    /\ field' = [field EXCEPT ![m.id] = m.f]
    /\ Retag(Calls \ {m.call}, m.id, m.tags)
    /\ ver' = [ver EXCEPT ![m.id] = @ + 1]

\* assign ignores an empty list; bulk-remove ignores a tag that is not there.
ServeTags(m) ==
    /\ m.kind \in {"assign", "untag"}
    /\ Retag(Calls \ {m.call}, m.id,
             IF m.kind = "untag" THEN tagsOf[m.id] \ m.tags
             ELSE IF m.tags = {} THEN tagsOf[m.id] ELSE m.tags)
    /\ ver' = TagsMoveToken(m.id)
    /\ UNCHANGED field

Serve(m) ==
    /\ m.id \in alive
    /\ ServePut(m) \/ ServeTags(m)
    /\ wrote' = [wrote EXCEPT ![m.call] = @ \union {m.row}]
    /\ UNCHANGED <<alive, env>>

-----------------------------------------------------------------------------
\* update_host_metadata and bulk_update_hosts.

PlannedAfter(res, i) == {j \in Rows : j > i /\ res[j] = "planned"}

Return(c) == pc' = [pc EXCEPT ![c] = "done"] /\ UNCHANGED row

\* The apply loop goes to the first of the rows left.
ApplyFirst(c, left) ==
    \E j \in left :
      /\ \A k \in left : j <= k
      /\ pc' = [pc EXCEPT ![c] = "read"]
      /\ row' = [row EXCEPT ![c] = j]

\* Mutant of ApplyAfter: the first failure ends the batch.
AbortAfter(c, i) ==
    LET left == IF req[c].confirm THEN PlannedAfter(result'[c], i) ELSE {} IN
    IF left = {} \/ result'[c][row[c]] = "failed"
    THEN Return(c) ELSE ApplyFirst(c, left)

\* Mutant of ApplyAfter: a row that failed is tried again.
RetryAfter(c, i) ==
    LET left == IF ~req[c].confirm THEN {}
                ELSE PlannedAfter(result'[c], i) \union
                     {j \in Rows : j >= i /\ result'[c][j] = "failed"} IN
    IF left = {} THEN Return(c) ELSE ApplyFirst(c, left)

\* The apply loop goes to the next planned row; a plan-only call, or one with
\* no such row left, returns.
ApplyAfter(c, i) ==
    LET left == IF req[c].confirm THEN PlannedAfter(result'[c], i) ELSE {} IN
    IF left = {} THEN Return(c) ELSE ApplyFirst(c, left)

\* The planning loop goes to the next row; after the last one, the apply loop.
PlanNext(c) ==
    \/ /\ row[c] < Len(req[c].rows)
       /\ row' = [row EXCEPT ![c] = @ + 1]
       /\ UNCHANGED pc
    \/ /\ row[c] = Len(req[c].rows)
       /\ ApplyAfter(c, 0)

Outcome(c, what) == result' = [result EXCEPT ![c][row[c]] = what]

Start(c) ==
    /\ pc[c] = "idle"
    /\ pc' = [pc EXCEPT ![c] = "resolve"]
    /\ UNCHANGED <<inventory, env, orphans, req, row, cur, target, result,
                   todo, wrote, fresh>>

\* The row resolves to one host, inside the scope: planned, or a no-op.
PlanRow(c) ==
    /\ pc[c] = "resolve"
    /\ Edits(c)
    /\ \E h \in Hosts :
         /\ Resolves(c, h)
         /\ Outcome(c, Verdict(c, h))
         /\ target' = [target EXCEPT ![c][row[c]] = h]
         /\ cur' = [cur EXCEPT ![c] = Snapshot(c, h)]
    /\ PlanNext(c)
    /\ UNCHANGED <<inventory, env, orphans, req, todo, wrote, fresh>>

\* Malformed, not found, ambiguous, out of scope, or the lookup failed.
RefuseRow(c) ==
    /\ pc[c] = "resolve"
    /\ Edits(c)
    /\ Outcome(c, "error")
    /\ PlanNext(c)
    /\ UNCHANGED <<inventory, env, orphans, req, cur, target, todo, wrote, fresh>>

\* update_host_curated reads the record again and checks its scope again.
ReadCurrent(c) ==
    /\ pc[c] = "read"
    /\ LET h == target[c][row[c]] IN
         /\ h \in alive
         /\ InScope(h)
         /\ cur' = [cur EXCEPT ![c] = Snapshot(c, h)]
    /\ pc' = [pc EXCEPT ![c] = "put"]
    /\ UNCHANGED <<inventory, env, orphans, req, row, target, result, todo,
                   wrote, fresh>>

\* The PUT is handled and answered.
PutApplied(c) ==
    /\ pc[c] = "put"
    /\ Serve(PutMessage(c))
    /\ Outcome(c, "applied")
    /\ ApplyAfter(c, row[c])
    /\ UNCHANGED <<orphans, req, cur, target, todo>>

\* The read or the PUT is refused (conflict, gone, any error), or the PUT
\* times out and is left with the server.  The batch goes on.
RowFails(c) ==
    /\ pc[c] \in {"read", "put"}
    /\ Outcome(c, "failed")
    /\ ApplyAfter(c, row[c])
    /\ \/ UNCHANGED orphans
       \/ \E m \in InFlight(c) : orphans' = orphans \union {m}
    /\ UNCHANGED <<inventory, env, req, cur, target, todo, wrote, fresh>>

-----------------------------------------------------------------------------
\* set_host_tags.

\* A record that comes without its tags is fetched again before they are removed.
TagTarget(c) ==
    /\ pc[c] = "resolve"
    /\ req[c].tool = "settags"
    /\ \E h \in Hosts :
         /\ Resolves(c, h)
         /\ target' = [target EXCEPT ![c][1] = h]
         /\ cur' = [cur EXCEPT ![c] = Snapshot(c, h)]
         /\ \E at \in IF WritesTags(c) = "untag" THEN {Removes(tagsOf[h]), "fetch"}
                      ELSE {WritesTags(c)} :
              /\ pc' = [pc EXCEPT ![c] = at]
              /\ todo' = [todo EXCEPT ![c] = IF at = "fetch" THEN {} ELSE tagsOf[h]]
    /\ UNCHANGED <<inventory, env, orphans, req, row, result, wrote, fresh>>

FetchTags(c) ==
    /\ pc[c] = "fetch"
    /\ cur[c].id \in alive
    /\ todo' = [todo EXCEPT ![c] = tagsOf[cur[c].id]]
    /\ pc' = [pc EXCEPT ![c] = Removes(tagsOf[cur[c].id])]
    /\ UNCHANGED <<inventory, env, orphans, req, row, cur, target, result, wrote,
                   fresh>>

\* One write of tags is handled and answered.
TagsWritten(c) ==
    /\ pc[c] \in {"assign", "untag"}
    /\ \E m \in InFlight(c) :
         /\ Serve(m)
         /\ todo' = [todo EXCEPT ![c] = @ \ m.tags]
    /\ pc' = [pc EXCEPT ![c] = IF pc[c] = "untag" /\ todo'[c] # {}
                               THEN "untag" ELSE "refresh"]
    /\ UNCHANGED <<orphans, req, row, cur, target, result>>

\* The final GET, which the answer reports.
Refresh(c) ==
    /\ pc[c] = "refresh"
    /\ cur[c].id \in alive
    /\ Outcome(c, "applied")
    /\ pc' = [pc EXCEPT ![c] = "done"]
    /\ UNCHANGED <<inventory, env, orphans, req, row, cur, target, todo, wrote,
                   fresh>>

\* Any request of the call fails, or a write times out: the tool raises.
TagsFail(c) ==
    /\ req[c].tool = "settags"
    /\ pc[c] \in {"resolve", "fetch", "assign", "untag", "refresh"}
    /\ Outcome(c, "failed")
    /\ pc' = [pc EXCEPT ![c] = "done"]
    /\ \/ UNCHANGED orphans
       \/ \E m \in InFlight(c) : orphans' = orphans \union {m}
    /\ UNCHANGED <<inventory, env, req, row, cur, target, todo, wrote, fresh>>

\* The client cancels the call, or the process is killed, at any await.
Cancelled(c) ==
    /\ pc[c] \notin {"idle", "done", "cancelled"}
    /\ pc' = [pc EXCEPT ![c] = "cancelled"]
    /\ \/ UNCHANGED orphans
       \/ \E m \in InFlight(c) : orphans' = orphans \union {m}
    /\ UNCHANGED <<inventory, env, req, row, cur, target, result, todo, wrote,
                   fresh>>

-----------------------------------------------------------------------------
\* The world.

\* A request nobody waits for any more reaches the server after all.
OrphanLands ==
    \E m \in orphans :
      /\ Serve(m)
      /\ orphans' = orphans \ {m}
      /\ UNCHANGED progress

\* A scan changes a discovered field, an operator a curated one.
HostChanges(h, names) ==
    /\ h \in alive
    /\ \E f \in names : \E v \in Values \ {field[h][f]} :
         field' = [field EXCEPT ![h][f] = v]
    /\ ver' = [ver EXCEPT ![h] = @ + 1]
    /\ UNCHANGED <<alive, tagsOf, fresh>>

Scanned(h) == HostChanges(h, Discovered)
OperatorEdits(h) == HostChanges(h, Curated)

OperatorTags(h) ==
    /\ h \in alive
    /\ \E T \in SUBSET Tags \ {tagsOf[h]} : Retag(Calls, h, T)
    /\ ver' = TagsMoveToken(h)
    /\ UNCHANGED <<alive, field>>

\* Deleted, or merged away by a consolidation; the id does not come back.
Retire(h) ==
    /\ h \in alive
    /\ alive' = alive \ {h}
    /\ UNCHANGED <<field, tagsOf, ver, fresh>>

World ==
    /\ env < MaxEnv
    /\ env' = env + 1
    /\ \E h \in Hosts : Scanned(h) \/ OperatorEdits(h) \/ OperatorTags(h) \/ Retire(h)
    /\ UNCHANGED <<orphans, progress, wrote>>

-----------------------------------------------------------------------------
CallStep(c) ==
    \/ Start(c)
    \/ PlanRow(c) \/ RefuseRow(c)
    \/ ReadCurrent(c) \/ PutApplied(c) \/ RowFails(c)
    \/ TagTarget(c) \/ FetchTags(c) \/ TagsWritten(c) \/ Refresh(c) \/ TagsFail(c)

Ended(c) == pc[c] \in {"done", "cancelled"}

\* Every call has returned: nothing more need happen.
Finished ==
    /\ \A c \in Calls : Ended(c)
    /\ UNCHANGED vars

\* The requests are drawn at the start; a call issued after another has
\* returned is one of the behaviours this allows.
Init ==
    /\ alive = Hosts
    /\ \E i \in Inventories : field = i.field /\ tagsOf = i.tagsOf
    /\ ver = [h \in Hosts |-> 0]
    /\ env = 0
    /\ orphans = {}
    /\ req \in [Calls -> Requests]
    /\ pc = [c \in Calls |-> "idle"]
    /\ row = [c \in Calls |-> 1]
    /\ cur = [c \in Calls |-> [id |-> NoHost, f |-> [x \in Fields |-> None],
                               tags |-> {}, ver |-> 0]]
    /\ target = [c \in Calls |-> [i \in Rows |-> NoHost]]
    /\ result = [c \in Calls |-> [i \in Rows |-> "pending"]]
    /\ todo = [c \in Calls |-> {}]
    /\ wrote = [c \in Calls |-> {}]
    /\ fresh = [c \in Calls |-> {}]

Next ==
    \/ \E c \in Calls : CallStep(c) \/ Cancelled(c)
    \/ OrphanLands
    \/ World
    \/ Finished

Spec == Init /\ [][Next]_vars

\* The event loop resumes a call whose request was answered, and every request
\* ends: it is answered or it times out.
FairSpec == Spec /\ \A c \in Calls : WF_vars(CallStep(c))

-----------------------------------------------------------------------------
\* Properties.

\* Every variable has its type.
TypeOK ==
    /\ alive \subseteq Hosts
    /\ field \in [Hosts -> [Fields -> Values]]
    /\ tagsOf \in [Hosts -> SUBSET Tags]
    /\ ver \in [Hosts -> Nat]
    /\ env \in 0..MaxEnv
    /\ orphans \subseteq Message
    /\ req \in [Calls -> Requests]
    /\ pc \in [Calls -> {"idle", "resolve", "read", "put", "assign", "untag",
                         "fetch", "refresh", "done", "cancelled"}]
    /\ row \in [Calls -> Rows]
    /\ cur \in [Calls -> Snapshots]
    /\ target \in [Calls -> [Rows -> Hosts \union {NoHost}]]
    /\ result \in [Calls -> [Rows -> {"pending", "planned", "noop", "error",
                                      "applied", "failed"}]]
    /\ todo \in [Calls -> SUBSET Tags]
    /\ wrote \in [Calls -> SUBSET Rows]
    /\ fresh \in [Calls -> SUBSET Tags]

\* A snapshot stands for what the host was when its updated_at was the
\* snapshot's; the tags belong to it when tag assignments move the token.
Faithful(h, f, tags, v) ==
    /\ v <= ver[h]
    /\ v = ver[h] =>
         /\ field[h] = f
         /\ TokenCoversTags => tagsOf[h] = tags

\* The record a call echoes and the token it sends belong to each other: if
\* the host's updated_at is still the snapshot's, the host is still as it was
\* read (client.py:404-424).
TokenFaithful ==
    \A c \in Calls :
      cur[c].id # NoHost =>
        Faithful(cur[c].id, cur[c].f, cur[c].tags, cur[c].ver)

\* HostWrites implements the promise of module Overlay: whatever is done
\* concurrently, a row takes effect at most once, on a host in scope, as
\* exactly its patch (update_host_curated, assert_in_scope).
Promise == INSTANCE Overlay WITH
    alive <- alive, field <- field, tagsOf <- tagsOf, req <- req,
    wrote <- wrote, env <- env
ImplementsOverlay == Promise!Spec

\* Arborist never changes a discovered value: only the world's own steps do,
\* although every PUT sends all of them (client.py:411-421, write.py:3-7).
ScannerOwnsDiscovered ==
    [][env' = env =>
         \A h \in Hosts : \A f \in Discovered : field'[h][f] = field[h][f]]_vars

\* What a batch reports: after a confirmed call every row was either refused
\* in planning, a no-op, applied or failed; after a plan-only call nothing was
\* written (write.py:198-228).
BatchAccounted ==
    \A c \in Calls :
      pc[c] = "done" /\ Edits(c) =>
        /\ \A i \in 1..Len(req[c].rows) :
             /\ result[c][i] # "pending"
             /\ result[c][i] = "applied" => i \in wrote[c]
             /\ i \in wrote[c] => result[c][i] \in {"applied", "failed"}
             /\ req[c].confirm => result[c][i] # "planned"
        /\ ~req[c].confirm => wrote[c] = {}

\* After set_host_tags has returned, the host carries no tag but those asked
\* for and those others assigned since the call read the host
\* (write.py:140-153); a clear really clears.
TagSetReplaced ==
    \A c \in Calls :
      pc[c] = "done" /\ req[c].tool = "settags" /\ result[c][1] = "applied" =>
        tagsOf[cur[c].id] \subseteq req[c].tags \union fresh[c]

\* How far a call has come: through the rows in planning, then through two
\* requests per row, or through the requests of set_host_tags.
Position(c) ==
    CASE pc[c] = "idle"              -> 0
      [] pc[c] = "resolve"           -> row[c]
      [] pc[c] = "read"              -> MaxRows + 2 * row[c] - 1
      [] pc[c] = "put"               -> MaxRows + 2 * row[c]
      [] pc[c] = "fetch"             -> MaxRows + 1
      [] pc[c] \in {"assign", "untag"} -> MaxRows + 2
      [] pc[c] = "refresh"           -> MaxRows + 3
      [] Ended(c)                    -> 3 * MaxRows + 2

Nearer(c) ==
    \/ Position(c)' > Position(c)
    \/ Position(c)' = Position(c) /\ todo'[c] \subseteq todo[c] /\ todo'[c] # todo[c]

\* Every step of a call brings it nearer its end, failures included: no row is
\* planned or applied again, no tag is removed again, and nothing that others do
\* sets a call back (write.py:146-153, 169-228).
EveryStepAdvances ==
    [][\A c \in Calls :
         IF CallStep(c) \/ Cancelled(c)
         THEN Nearer(c)
         ELSE UNCHANGED <<Position(c), todo[c]>>]_vars

\* Every call returns, a failing row never holds up the batch
\* (write.py:213-228).
EveryCallReturns == \A c \in Calls : pc[c] = "resolve" ~> Ended(c)
=============================================================================
