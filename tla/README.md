# A TLA+ model of Arborist

Arborist is an MCP server for Scanopy, a self-hosted network inventory. A chat
client calls its tools; the tools read the inventory over Scanopy's HTTP API and
change its *curated overlay*: names, descriptions, hidden flags, tags and
bindings, and, when it is switched on, they merge duplicate hosts. What Scanopy's
scanner discovers (hostnames, addresses, ports) is not Arborist's to change. This
directory holds TLA+ modules that model Arborist, TLC configurations that check
them on small instances, and proofs checked by TLAPS.

Paths such as `client.py` are those of `src/arborist/` in the repository.

## Inventory

| Component | State | Operations | Interacts with |
|---|---|---|---|
| Host-writing tools (`tools/write.py`) | none between calls; within a call: the resolved records, the plan, the outcome of each row | `update_host_metadata`, `bulk_update_hosts`, `set_host_tags` | host resolution, `update_host_curated`, `set_entity_tags`, `bulk_tag` |
| Tag tools (`tools/write.py`) | the organization id, cached per process | `create_tag`, `update_tag`, `delete_tag`, `tag_entities`, `untag_entities` | `resolve_tag`, `tag_usage` (nine collections) |
| Binding tools (`tools/write.py`) | none between calls | `create_binding`, `update_binding`, `delete_binding` | services, bindings |
| Consolidation (`tools/consolidate.py`) | none between calls | `consolidate_hosts` | host resolution; deletes a host |
| Read tools (`tools/read.py`) | none | lists, details, searches, topology export | scans, redaction |
| Host resolution and scans (`client.py`) | the pages read so far | `resolve_host`, `_get_all`, `_get_page` | one request per page |
| HTTP core (`client.py` `_request`) | attempt number, response in hand; a connection pool | send, retry after 429, pause, judge | Scanopy's rate limiter, shared by all calls |
| Startup (`cli.py`, `config.py`, `compat.py`, `tools/__init__.py`) | environment, configuration, the server's version | parse, configure, validate, version gate, register tools, serve | Scanopy, once, for its version |
| HTTP transport (`server.py`) | the expected token, the allowlist | `BearerGate`, `_transport_security` | every incoming message |
| Redaction (`redact.py`) | none | `redact` | the results of most tools |
| Error texts (`errors.py`) | none | pure | every failure |
| Scanopy | the inventory, `updated_at` of each host, the rate limiter | scans, operators in its UI, retirements, Arborist's requests | external |

What is hard:

- Every tool is a coroutine and every request an await. Between the request that
  reads a record and the one that writes it, other calls, a scan, an operator or
  a retirement may come. For hosts the protections are Scanopy's
  `expected_updated_at` and a scope check on the record that was read; for tags,
  bindings and merges there is only the scope check.
- A host or tag update is a full replacement: what is not to change is sent back
  as it was read. A stale echo overwrites what others did meanwhile.
- A request may time out, or its call be cancelled, and be handled afterwards.
- A batch goes on after a failed row, and must report each row truthfully.
- Clearing tags is one request per tag; finding what uses a tag is one per kind
  of entity.
- Destructive tools are called twice, for a preview and with confirmation, and
  keep nothing in between: everything is resolved again.
- A scan is a series of requests by offset over a list that keeps changing; the
  resolution of a host and the search for the uses of a tag are such scans.
- Retries after a 429 may neither repeat a write nor run for ever.
- Startup has two independent checks of the transport and a version gate, in an
  order that matters; the transport's allowlist relies on those checks.

What makes each component correct is stated by the properties below; the list
`hazards` of `PROJECT.json` names each line where it could go wrong.

## Modules

| Module | Models | Actions |
|---|---|---|
| `Overlay` | the promise of the host-writing tools | `Curate`, `SetTags`, `World` |
| `HostWrites` | those tools over `update_host_curated`, `assert_in_scope`, resolution and the tag writes | see below |
| `Reach` | the promise of the tag, binding and consolidation tools | one per kind of effect, `World` |
| `ToolCalls` | what these tools share: inventory, the life of a call, the pages of a list, late writes | `GivesUp`, `Answered`, `Lands` |
| `TagTools`, `BindingTools`, `MergeTool` | the tools, and the server's handling of their writes | see below |
| `Curation` | the three composed, with the world | `CallStep`, `Lands` with `Handle`, `World` |
| `Request` | `_request`, `_retry_after_seconds`, the rate limiter | `Answered`, `TryAgain`, `Breaks`, `Wake`, `Judge`, `Tick` |
| `Scan` | `resolve_host` over `_get_all` and `_get_page`; the listing and searching read tools | `LookupId`, `ReadPage`, `ListPage`, `RequestFails`; `Discover`, `Delist`, `Rename` change the list |
| `Startup` | `main`, `Config.from_env`, `validate_http_transport`, the version gate, `register_tools`, `run_http` | one per step of `main`, `Return` the last; `ServerChanges` |
| `Serving` | `Startup` and what the serving process does with a message: `BearerGate`, `_transport_security`, the registered tools | `Unauthorized`, `Misdirected`, `PassesThrough`, `UnknownTool`, `RunTool` |
| `Redact` | `redact` and `_walk` | an operator, `Masked` |
| `...Proofs` | theorems about `HostWrites` (`HostWritesProofs`, `BatchProofs`), `Curation` (`CurationProofs`, `ConsistencyProofs`), `Request`, `Scan`, and `Startup`, `Serving` and `Redact` (`ServingProofs`) | |
| `Recursion` | nothing of the program: that a function defined by recursion on the numbers obeys its equation | |
| `MC...` | small instances of the above | |

### HostWrites

`alive`, `field`, `tagsOf` and `ver` are Scanopy's inventory; `ver[h]` stands for
`updated_at`. Each call `c` has a request `req[c]`, a place in the code `pc[c]`,
the row it works on, the record `cur[c]` it last read, and per row the resolved
host (`target`) and the outcome so far (`result`). Each action is one request, at
the moment Scanopy handles it, with the code up to the next request:

| Action | Code |
|---|---|
| `PlanRow`, `RefuseRow` | one turn of the planning loop (`write.py:169-205`), or the resolution and no-op test of `update_host_metadata` (`write.py:104-124`) |
| `ReadCurrent` | the GET and scope check of `update_host_curated` (`client.py:407-408`) |
| `PutApplied`, `RowFails` | its PUT (`client.py:410-424`) and the handling of the result (`write.py:216-227`) |
| `TagTarget`, `FetchTags`, `TagsWritten`, `Refresh`, `TagsFail` | `set_host_tags` (`write.py:135-153`); `FetchTags` reads the host again when its record came without tags |
| `Cancelled` | a cancelled call or a killed process, at any await |
| `OrphanLands` | a request that was given up on is handled after all |
| `World` | a scan, an operator's edit or tag assignment, a retirement |

`update_host_metadata` is treated as a confirmed batch of one row: the code of
the two tools is the same from resolution to the PUT, and an exception that ends
the single call is the outcome of its only row.

Assumptions about Scanopy, which is outside the repository:
a PUT with a stale `expected_updated_at` is refused, and one that is accepted
replaces all scalars and the tags; an assignment of an empty tag list does
nothing (`write.py:145-146` says so); a 429 means the request was not handled; a
host does not change its network; a retired id does not come back. Whether a tag
assignment moves `updated_at` cannot be told from the repository, so it is the
constant `TokenCoversTags`, and the runs use both values.

### The tag, binding and consolidation tools

Each of these calls reads, checks, and at the end sends at most one request that
changes anything. `call[c]` is a record of the call's locals: `at` is the request
it waits for, `found` what it has resolved, `left` what it has still to read,
`offset` and `seen` how far a paged list has been read and what was noted of it,
`send` the write on its way. So the tools are chains of reading actions, one per
request, that differ in what they find out, and `ToolCalls` has the rest once:
`Answered` (the write is handled and answered), `GivesUp` (a failed or refused
request, a failed check, a timeout, a cancellation; a write may stay `late`), and
`Lands` (a late write is handled). The server's part of a write is `HandleTag`,
`HandleBinding` or `HandleMerge`, in `Curation` as `Handle`.

| `at` | Waits for | Code |
|---|---|---|
| `org`, `nets` | the organizations; a network record, where these are refused or empty | `organization_id` |
| `tag` | the tag list | `resolve_tag`, then the scope check of the tool |
| `label` | the tag | `ScanopyClient.update_tag`: read, merge, write without a token |
| `usage` | one page of one of nine collections | `tag_usage`; after the last the scope, preview or deletion |
| `scope` | the next entity, or the list of the scope | `_assert_entities_in_scope` |
| `binding`, `service` | a binding, a service | the two checks of `update_binding`, one of each for the others |
| `host`, `hosts` | a host by its id; one page of the host list | `resolve_host`, for the destination and then the source, by `consolidate_hosts` |
| `send` | the answer to the write | |

A failed check and a failed request end a call in the same way, by `GivesUp`; its
reading action is simply not enabled when the check fails. `refused` is kept for
the refusals that come before any further request.

A page is what the list has, at that moment, at the places from `offset` on; the
list is ordered by `Rank`, so what comes or goes before the offset shifts the rest.
The history variable `torn` has, for each call, the kinds of which a record
went while the call stood between two pages of that kind.

The world discovers hosts, renames them, gives them other addresses and retires
them, changes tags and their assignments, and moves and removes bindings. What the server is assumed to do is marked external:
tag names are unique; a tag that is deleted stays an id in the entities that
carried it (`write.py` says nothing is cascaded); bindings of one service on one
address are of one type; a binding on all addresses supersedes those on one; a
merge needs one network and a source without a daemon.

### Scan

The list the server pages through is `listing`; it changes between two pages.
`sel` says what the caller wants: a host by id or name, a search, or one page.
`server` is `sound`, `deaf` (it ignores the offset) or `garbled` (it may answer
with something that is no list, which `_get_page` takes for an empty page). A list comprehension is `Picked`, the
records at the places that pass its test in their order; it counts places where
`SelectSeq` would recurse, so that the proofs can use it. History variables say which hosts were
listed throughout (`steady`), whether any host changed its place (`shifted`), and
which records the server has had (`shown`).

### Startup and Serving

`Startup` follows `main` from the environment to a serving transport or an exit
code, `--version` and `--help` and the end of the transport included. `Serving` adds the message: the gate compares its first credential, the
allowlist its Host and Origin, the registry its tool; then the tool's result goes
through `Masked` of `Redact`, or, for the five returns that skip `redact` (see
Disagreements), as it is. How the SDK matches a header with the allowlist that
`server.py` builds is external.

In `Redact` a result is a scalar, or a list or dict as the sequence of its
entries; the entries of a list have the key `NoKey`, which is no secret. `_walk`
recurses on the result. The model has one set of results per level of nesting
(`Nested[n]`) and one walk per level (`Walk[n]`), which calls that of the level
below; `Masked` is the walk of level `Depth`, the deepest a result is nested.
`HidesExactly` says what the walk must do without repeating it, by the ways into
a result (`Ways`): a way that takes a secret key leads to `[REDACTED]` and no
further, and on every other way the same keys and values are found as before.

## Refinement

`Overlay` says what the host-writing tools may do to the inventory, without
snapshots, tokens or requests in flight: once per row, exactly the patch of a
confirmed and well-formed row, on one host in the scope (the one its id names,
while that exists); or the tags of one host in the scope. `HostWrites` implements
it (`ImplementsOverlay == Promise!Spec`): the variables of the same names map to
themselves, a handled PUT is `Curate`, a handled tag write `SetTags`, and every
other step of a call stutters. Where `TokenCoversTags` is false `Overlay` lets
`Curate` also change the tags of that host, because the echo of the tags that
were read may then undo an assignment.

`Reach` does the same for the other tools, without lookups, checks or requests in
flight: each call takes effect at most once, as what it asked for, deletions only
on confirmation, and under a scope only on entities of that network; a bulk
assignment that names one entity outside it touches none; labels, which all
networks share, are then not changed at all. `Curation` implements it
(`ImplementsReach == Limits!Spec`): `asked` is `req`, `hosts` is `alive`,
`owners`, `labels`, `tagged` and `bindings` are the inventory, `served` is `did`,
and `age` is `env`. The step that handles a write, whether its caller still waits
or not, is `Serve`; all reading stutters. That a write handled long after its
checks still satisfies the guards of `Serve` is the point: networks of entities
do not change, and a binding that is moved meanwhile stays in its network.

## Runs

| Run | Question | Bounds |
|---|---|---|
| `hw_edits` | do batches and single updates lose or leak anything, and report the truth? | 3 hosts on 2 networks, scope set, 2 calls from 7 requests, 1 change of the world, `TokenCoversTags` false |
| `hw_tags` | does setting tags replace the set, and does every call return? | 2 hosts, 2 calls from 4 requests, 2 tags, 1 change, `TokenCoversTags` true, fair |
| `curation` | do the other tools reach too far, twice, or stale? | 2 calls from 32 requests in 4 groups, with and without a scope, 5 hosts of which one is discovered, pages of 2, 1 change |
| `curation_lost_style` | do only the passed fields of a tag change? No | 2 relabellings, no changes |
| `curation_other_merge` | does a confirmed merge merge what was shown? No | a preview and a merge, 2 changes |
| `request` | are retries safe, and do they end? | 2 requests, 3 retries as in the code, cap of 2 ticks, waits absent, 0 or 8 ticks, fair |
| `request_retry_after` | is Retry-After honoured? No | the same |
| `scan` | are lookups, searches and pages right while the list changes, and bounded? | 5 hosts, pages of 2, ceiling 6, 3 changes, limits and offsets from -2 to 9, a server that may ignore the offset or answer with no list |
| `scan_every_host` | does a scan see every host that stays? No | 1 change |
| `scan_retired_id` | does a retired id find candidates? No | no changes |
| `startup` | is what serves hardened and gated, what runs admitted, and what is redacted masked? | the environments of `MCStartup` with bound addresses and allowlists, 9 answers of the server, 1 change, one message, results nested up to 3 deep |
| `startup_exit_four` | does a refused transport exit with code 4? No | without messages, no change |

Sizes: `scan` 5.2 million distinct states, `curation` 2.0 million, `startup` and
`request` 1.0 million, `hw_tags` 0.7 million; none takes more than two minutes.

Why the bounds are enough. A conflict in `HostWrites` or `Curation` needs a call
that reads and writes and one other writer: two calls and the world are two more
writers than that, and calls left unanswered write once more. Two rows
give a first and a last row, a row that fails before one that succeeds, and two
rows on one host. Two networks give an entity in and one out of scope; `Curation`
has one more in both. Three tags and three bindings leave an id to hand out when
each of the others exists. Four hosts, and a fifth to be discovered, are three
pages without a scope and two under it, so that a list shifts between pages both
ways; the other kinds of entities have at most two pages. The calls of `curation` come in groups because calls
of different groups touch nothing in common, except for a merge (which moves
services) among the binding tools and an assignment among the merges, and those
are in the groups. In `Request` the code's own number of retries is used; two
requests are enough for one to take what the other waits for. In `Scan` the lists
have fewer hosts than a page, exactly full pages, and more; one change shifts the
list against the offset, a second can undo it, and a third can come on top. In
`Startup` each variable has every class of value the code tells apart; variables
that no condition reads together are not multiplied with each other. One message
is enough for `Serving`: the transport is stateless and keeps nothing of a
message.

What the runs show in passing:

- `TokenFaithful`, `ScannerOwnsDiscovered`, `ImplementsOverlay`: with the lock
  token from the same read as the echoed fields, no interleaving, timeout or late
  request undoes a scan, leaves the scope or applies a row twice. The mutants
  show what keeps it so: mixing two reads, dropping the token, the tag echo or
  the second scope check each break a property.
- `BatchAccounted`: a row reported `applied` was; a row that was written is
  reported `applied` or, after a timeout, `failed`, never lost; a plan writes
  nothing.
- `TagSetReplaced`: no old tag survives `set_host_tags`, unless somebody else
  assigned it meanwhile.
- `EveryStepAdvances`: each step of a call moves it on, through its rows in planning
  and then through two requests per row, or through its tags; no failure makes it
  repeat one, and nothing others do sets it back. `EveryCallReturns` adds, under
  fairness, that the steps come.
- `ImplementsReach`: the checks of the tag, binding and consolidation tools, made
  in requests before the write, suffice.
- `BindingsFollowService`: a binding moved to a service of another network is in
  that network, whatever was moved or retired meanwhile.
- `UsageIsSeen`: the plan of `delete_tag` counts of every kind at least the
  entities that carried the tag during the whole call, although nine collections
  are read one after the other and page by page. User API keys, which cannot be
  read, are left out, and so is a kind of which a record went between two of its
  pages: there a use can be missed, as `scan_every_host` shows of any scan.
- `RelabelIsMerge`: `update_tag` leaves the tag with the fields that were passed
  and the others as they stood at one moment of the call; they may be stale, which
  is the finding of `curation_lost_style`.
- `RepeatMergesOnce`: a merge that is sent again after its answer was lost finds
  its source retired, or fails, and never retires a second host, whatever else is
  merged, retired, tagged or bound meanwhile. Two exceptions are stated, and both
  are needed. The world may add a host or give one another name or address, so
  that a selector comes to name it. And a call may lose a host between two pages:
  of two hosts of one name it then sees one, merges that one although the name is
  ambiguous, and the repeated call merges the other. Without the second exception
  TLC refutes the property within the bounds of `curation`.
- `HandledAtMostOnce`: a retry never repeats a write, because only 429 is
  retried. `DataIsGenuine`, `LimitedOnlyWhenExhausted`, `SleepIsBounded`.
- `EveryStepCounts`: a request ends after at most
  `MaxRetries * (MaxWait + 2) + Pause + 3` of its steps and the ticks it sleeps,
  whatever the limiter does and whatever other requests take from it;
  `RequestEnds` adds, under fairness, that they come.
- `ScanIsExact`, `VerdictIsRight`, `SearchIsComplete`: while listed hosts keep
  their places, scans, their verdicts and searches are exact; `FoundIsGenuine`
  holds even when they do not. `ScanIsBounded` and `ReplyIsBounded` hold for every
  server, limit and offset.
- `HttpIsHardened`: whichever way the transport is named, `run_http`'s own check
  stands behind `main`'s. `VersionIsGuarded` (the tuple
  comparison lets through 0.17.z with z >= 2 and nothing else), `RefusalsComeFirst`.
- `OnlyAdmittedCallsRun`, `RebindingIsStopped`: no tool runs without the token, or
  for a Host outside the allowlist; the branch of `_transport_security` without an
  allowlist is loopback-only because of the checks of startup. `MaskedExactly`:
  in what passes `redact`, what a secret key leads to is masked at any depth, and
  nothing else is.

### Disagreements

The runs that end in a violation are disagreements between the code and what its
documentation or comments say; `findings` in `PROJECT.json` quotes each:

- a field of a tag that was not passed changes, when another relabelling is
  handled between the read and the write (`write.py:257-258`, `client.py:471`);
- a merge confirmed after its preview merges other hosts, when hosts were renamed
  in between (`docs/usage-guide.md:447-448`, `consolidate.py:40`);
- a Retry-After above 30 s is cut short;
- a scan can miss a host when another is removed between two pages;
- a retired id never finds candidates, being compared with names;
- an `ARBORIST_TRANSPORT` that argparse does not check is refused late and with
  exit code 1.

Three more need no run; the model follows the code.

- An `ARBORIST_BIND_PORT` that is no number ends the process with a traceback and
  exit code 1 (`ParseArgs`, `cli.py:54`), where the README of the repository
  gives 2.
- `update_tag` under a scope: the head of `tools/write.py` (lines 17-19) allows it
  when every visible use is inside the scope, and the repository's `README.md:114`
  says that tag updates fail closed on visible out-of-scope use. The code refuses
  always (`write.py:276-285`), and so say its docstring (`write.py:260-270`),
  `README.md:28`, `docs/usage-guide.md:473` and `docs/scope-confinement-audit.md`
  (F5, which withdrew the laxer policy). `Reach` has the strict one.
- Redaction: `redact.py:3` says that every tool result passes through `redact`,
  and `tools/read.py:6` that everything does. Five returns do not: an `update_tag`
  that changes nothing (`write.py:297`), the plan and the confirmation of
  `delete_tag` (`write.py:342-353`), the confirmation of `delete_binding`
  (`write.py:476`) and the text of a topology (`read.py:334`). Four of them hold
  names, ids or one text. The plan of `delete_tag` counts uses under the names of
  the kinds, and `Credential` and `DaemonApiKey` match the pattern of
  `redact.py:18-21`: `redact` would put `[REDACTED]` for these counts. `Bare` in
  `Serving` has these results, and `MaskedExactly` speaks of the others.

An observation that no property can judge: an entry of `ARBORIST_ALLOWED_HOSTS`
with a port, as `docs/usage-guide.md:319` has, admits exactly a Host header with
that port (`server.py:89`), and clients leave the default port of a URL out. What
a proxy in front forwards as Host is not in this repository.

### Fairness

`hw_tags` assumes weak fairness of each call's own steps: the event loop runs
every ready coroutine, and httpx bounds every request by its timeouts, so a call
that waits for an answer gets one or fails. Nothing is assumed of the world, of
cancellations, or of requests given up on. `request` assumes weak fairness
of each request's steps and of the clock. Both are what asyncio and the
timeouts of `client.py:91` provide. No property rests on strong fairness.

## Proofs

All theorems hold for every value of the constants that satisfies the named
assumptions, and rest on nothing else. Every invariant, every action property and
both refinements that a passing run checks are proved; liveness is not.

`HostWritesProofs`, from `HostsAssumption` and `RequestsAssumption`:

| Theorem | States |
|---|---|
| `InvHolds` | `Spec => []Inv` |
| `TypeCorrect` | `Spec => []TypeOK` |
| `TokensAreFaithful` | `Spec => []TokenFaithful` |
| `DiscoveredIsTheScanners` | `Spec => ScannerOwnsDiscovered` |
| `OverlayImplemented` | `Spec => ImplementsOverlay` |

`TokenFaithful` is not inductive: it says that a record held under the current
token equals the host's, and a PUT that a dead call left behind is also sent under
a token. So the invariant `Inv` joins `TypeOK` and `TokenFaithful` with

- `PlanSound`: a planned row is of a well-formed, resolved row, whose host was in
  the scope and is the one its id names while that exists;
- `EditAtRow`, `TagsAtHost`: what a call is about to write is for the host of its
  row, taken from a read of that host;
- `OrphansSound`: each request left behind is one its call could have sent, with
  a faithful snapshot, for a row of a confirmed request;
- `RowsOnce`: a row that has been written, and one that is still to be sent or is
  left behind, are never the same.

Each action preserves `Inv` (one lemma each). The two action properties follow
from `Inv` and `[Next]_vars`: an accepted PUT carries the current token, so by
`TokenFaithful` its echo equals the host's fields, and by `OrphansSound` and
`RowsOnce` it is a `Curate` step of a row not yet written.

`BatchProofs`, from the same assumptions: `BatchInvHolds`, `BatchesAreAccounted`
(`BatchAccounted`), `TagSetsAreReplaced` (`TagSetReplaced`) and
`EveryStepAdvanced` (`EveryStepAdvances`). The first two properties speak of calls that have returned. `BatchInv` adds to `Inv` what holds at each
await: `Accounted`, that rows before the current one have their outcome and later
ones have not been written, and that a request left behind belongs to a row
reported as failed; and `Replaced`, that while tags are being removed every tag of
the host is one still to be removed or one that others gave it. `EveryStepAdvances`
needs the types only: the apply loop goes to rows after the current one
(`ApplyGoesOn`), and `Position` numbers the places of a call in the order of the
code.

`CurationProofs`, from `CallsAssumption`, `InventoriesAssumption` and
`RequestsAssumption` of `ToolCalls`:

| Theorem | States |
|---|---|
| `TypesHold` | `Spec => []TypeOK` |
| `BindingsSound` | `Spec => []BindingsFollowService` |
| `ReachHolds` | `Spec => ImplementsReach` |

No step of the server checks a scope. So the invariant `IInv` says of every write
on its way and every late one that it is `Warranted`: its call asks for it, and
what the call's checks established still holds. `Found` says what a call has
established at each request, and `OneWrite` that a call has one write outstanding
at most, and none once one was handled. `SoundBinding` keeps the network of a
binding that of its service.

`ConsistencyProofs`, from the same, `KindsAssumption`, which says that an entity
is of one of the ten kinds `client.py:477-489` found to take a tag, and
`PagesAssumption`, that a list has one order and pages have room. Its subject is a
call that reads several times while the inventory changes:

| Theorem | States | Invariant |
|---|---|---|
| `RelabelHolds` | `Spec => RelabelIsMerge` | `RelabelInv` |
| `UsageHolds` | `Spec => []UsageIsSeen` | `UsageInv` |
| `RepeatsHold` | `Spec => []RepeatMergesOnce` | `MergeInv` |

Each needs more than `IInv`. `RelabelInv`: while a call waits for its tag, the
label the tag has is one of those remembered as `shown`, and every label on its
way, late ones included, is the patch over one of them. `UsageInv`: an entity that
has carried the tag since the collections are read has been seen, or is of a kind
still to be read, or stands at or beyond the offset of the kind that is being read
(`Due`), unless that kind is torn; when none is left, it was seen, and so counted
(`CountsSeen`). `MergeInv`, as long as the world has not added or altered a host:
what a search has noted matches its selector, and what matches was noted or comes
on a later page (`ReadSoFar`); the hosts of a merge on its way are what its selectors
name as long as these exist (`Aimed`), if the call lost no host between pages
(`Untorn`); and once such a merge was done its two selectors never name two hosts
again (`NeverApart`). A second merge of the same request would need two. The steps
of that proof are that a search which ends with one record has found the only match
(`SettledMeans`), that a merge, which gives the addresses of the source to the
destination, makes a selector name the destination where it named the source, and
nothing else new (`MergeMovesMatches`), and that a retirement only takes hosts away
from what a selector names (`RetiringThins`).

Both rest on lemmas about pages: the places of a list's records are 0, 1, 2 and so
on (`BeforeProperties`), so a short page holds all that is left of it
(`ShortPageIsLast`), and a reading that goes on misses nothing between the old
offset and the new (`PageReads`); what joins the list pushes records on
(`BeforeGrows`), and may show one twice but hides none.

What a step does to the locals of a call is stated once (`Advances`) for the three.

`RequestProofs`, from `RequestAssumption`:

| Theorem | States |
|---|---|
| `RequestInv` | `Spec => []RInv` |
| `RequestTypes` | `Spec => []TypeOK` |
| `NeverHandledTwice` | `Spec => []HandledAtMostOnce` |
| `DataAlwaysGenuine` | `Spec => []DataIsGenuine` |
| `LimitedAlwaysExhausted` | `Spec => []LimitedOnlyWhenExhausted` |
| `SleepAlwaysBounded` | `Spec => []SleepIsBounded` |
| `EveryStepCounted` | `Spec => EveryStepCounts` |

None of the invariants is inductive: nothing in `HandledAtMostOnce` says that a
call about to send has had nothing handled (`NothingYet`), and `MaxSleep` says
nothing of how the sleeps so far compare with the attempts so far. `SleepSoFar`
does: after n retries at most n waits of `MaxWait`, and the pause only after the
last. `FinalIsFinal` keeps what is known of the response between its arrival and
its judgement, and `RetryLeft` that `attempt` stays within `MaxRetries`. With that a
retry uses up exactly the `MaxWait + 2` steps and ticks that `StepsLeft` allows for
it (`RetriesCount`).

`ScanProofs`, from `ScanAssumption`:

| Theorem | States |
|---|---|
| `ScanInvHolds` | `Spec => []ScanInv` |
| `ScanAlwaysExact` | `Spec => []ScanIsExact` |
| `ScanAlwaysBounded` | `Spec => []ScanIsBounded` |
| `AnswerInvHolds` | `Spec => [](ScanInv /\ AnswerInv)` |
| `ScanTypes` | `Spec => []TypeOK` |
| `FoundAlwaysGenuine` | `Spec => []FoundIsGenuine` |
| `VerdictAlwaysRight` | `Spec => []VerdictIsRight` |
| `SearchAlwaysComplete` | `Spec => []SearchIsComplete` |
| `ReplyAlwaysBounded` | `Spec => []ReplyIsBounded` |

`ScanInv` says that a scan under way has read full pages only and stays below the
ceiling (`Progress`), and, as long as no host changed its place and the server
heeds the offset (`Calm`), that every record still listed is where it was read,
that none was read twice, and that every steady host up to the offset was read.
`AnswerInv` adds where the records come from (`Genuine`): each was shown during
the call, and a host that kept its name was read under it. From both, the step
that ends a call gives a right answer, and nothing changes after it: an absent
match is absent from all records, and so from the steady hosts; two matches stand
at two places, and so are two hosts. These steps rest on lemmas about filters
(`PickedProperties`: an order-preserving bijection onto the places picked, by the
pigeonhole principle instead of induction) and slices (`SliceProperties`, for
ends of either sign).

`ServingProofs`, from `StartupAssumption` for startup, `RedactAssumption` for
redaction, and these with `ServingAssumption` for the messages:

| Theorem | States |
|---|---|
| `StartupInv` | `Spec => []SInv` |
| `StartupTypes` | `Spec => []TypeOK` |
| `AlwaysHardened` | `Spec => []HttpIsHardened` |
| `AlwaysGuarded` | `Spec => []VersionIsGuarded` |
| `RefusalsAlwaysFirst` | `Spec => []RefusalsComeFirst` |
| `ServingInv` | `ServeSpec => []ServInv` |
| `OnlyAdmittedRun` | `ServeSpec => []OnlyAdmittedCallsRun` |
| `RebindingAlwaysStopped` | `ServeSpec => []RebindingIsStopped` |
| `RedactHides` | `Masked` hides exactly what it must of every result |
| `AlwaysMasked` | `ServeSpec => []MaskedExactly` |

`SInv` adds to the types what each step of `main` leaves for the later ones
(`Passed`) and that the version gate is the only step that sends a request
(`OneRequest`). `AlwaysGuarded` rests on the lemma that the tuple comparison of
`compat.py` selects the releases 0.17.z with z >= 2 among all triples. `ServInv`
carries `SInv` on, and adds that what ran was admitted and what `redact` was given
is sent as its walk; `RebindingIsStopped` needs both parts, because without
an allowlist only the checks of startup keep the bound address on the machine.

`RedactHides` holds for results of any breadth, nested as deep as `Depth`, for
every `Depth` and every choice of keys and secrets. It takes an induction over the
nesting, and the library's induction theorems, which have an operator as parameter,
cannot be used. Instead, if some result were not hidden exactly there would be a
least level with such a result; level 0 is not it, since scalars have no keys, and
no other level is, since the ways into a container are those into its entries, one
step longer (`OnwardsAre`, `OpenAt`), and the entries lie one level below. The
least element is `Least` in `Recursion`, from well-foundedness. The same module
proves `RecursionOnNat`, that a recursive function has the value its equation gives;
`Nested`, `Walk` and `Ways` are three instances of it.

Only model-checked: liveness (`EveryCallReturns`, `RequestEnds`), which with
ENABLED is beyond the prover. What can be proved of it is: `EveryStepAdvances` and
`EveryStepCounts` say that only finitely many steps lie before the end of a call
(finitely many of its tags and rows, or a number of steps that `StepsLeft` gives).
What is left to TLC is that a call which has not ended has a step it can take, and
by fairness takes one.

## Not modelled

- The wording of messages and errors, and how the read tools reshape records into
  summaries.
- `get_instance_info`, `get_topology` and the topology export: they read one
  list or record and keep nothing. The listings without a limit (`list_networks`,
  `list_subnets`, `list_dependencies`, `list_tags`, `list_bindings`) are scans as
  in `Scan`, handed over whole.
- The tag-name lookups of `set_host_tags`, which read and change nothing.
- The pages of the lists that other lookups take: hosts in `HostWrites`, and tags,
  organizations, networks, subnets and dependencies in `Curation`, are read in one
  step. A shift between their pages may hide a record or an ambiguity, so that a
  lookup fails, or ends with one of several; no property of these two modules
  says which record a name must find, except `RepeatMergesOnce`, and hosts are read
  in pages there.
- The connection pool, TLS, uvicorn, the session manager and the MCP library.
- Deployment files, tests and documentation, which have no logic of the program;
  they were read for the claims the properties quote.

## Plan

Done, in this order: `Overlay`, `HostWrites` and the refinement; `Request`;
`Scan`; `Startup`; their proofs; `ToolCalls`, `TagTools`, `BindingTools`,
`MergeTool`, `Curation`, `Reach` and the second refinement with its proof; the
read tools in `Scan`; `Serving` and `Redact`; `BatchProofs`, `ScanProofs`,
`ServingProofs`, `ConsistencyProofs`, the proof of redaction; what can be
proved of termination; repeated merges while hosts are retired.

Left: `HostWrites` and `Curation` over one inventory, for a merge that retires a host
a batch is about to write; today a retirement by the world stands for it.
