-------------------------- MODULE HostWritesProofs --------------------------
(***************************************************************************)
(* Proofs about HostWrites, for every set of hosts, calls, requests,       *)
(* fields and values.                                                      *)
(*                                                                         *)
(* TokenFaithful is not inductive: the PUT that a call sends must be about *)
(* the host that its row was planned for, in scope, and a request given up *)
(* on must stay as good as one that is waited for.  Inv adds that.         *)
(***************************************************************************)
EXTENDS HostWrites, TLAPS

\* What planning establishes of the host h chosen for row i of call c.
Chosen(c, i, h) ==
    /\ i \in 1..Len(req[c].rows)
    /\ req[c].rows[i].wellFormed
    /\ h \in Hosts
    /\ InScope(h)
    /\ req[c].rows[i].sel.by = "id" =>
         h = req[c].rows[i].sel.key \/ req[c].rows[i].sel.key \notin alive

\* Every planned row of a batch has its host.
PlanSound ==
    \A c \in Calls : Edits(c) =>
      \A i \in Rows : result[c][i] = "planned" => Chosen(c, i, target[c][i])

\* Where an edit stands: it plans a row of its batch and has sent nothing yet,
\* or it applies a planned row.
AtRow(c) ==
    /\ pc[c] \in {"idle", "resolve"} =>
         /\ row[c] \in 1..Len(req[c].rows)
         /\ wrote[c] = {}
         /\ \A m \in orphans : m.call # c
    /\ pc[c] \in {"read", "put"} =>
         Edits(c) /\ req[c].confirm /\ result[c][row[c]] = "planned"
    /\ pc[c] = "put" => cur[c].id = target[c][row[c]]

EditAtRow == \A c \in Calls : AtRow(c)

\* Where set_host_tags stands: past resolution it has a host, in scope.
AtHost(c) ==
    /\ pc[c] \in {"fetch", "assign", "untag"} =>
         /\ req[c].tool = "settags"
         /\ row[c] = 1
         /\ cur[c].id \in Hosts /\ InScope(cur[c].id)
    /\ pc[c] = "refresh" => req[c].tool = "settags"
    /\ pc[c] = "assign" => req[c].tags # {}
    /\ pc[c] \in {"fetch", "untag"} => req[c].tags = {}
    /\ pc[c] \in {"idle", "resolve"} => row[c] = 1 \/ Edits(c)

TagsAtHost == \A c \in Calls : AtHost(c)

\* A PUT on its way is about the host its row was planned for, and while its
\* token is current it is exactly the patch.
PutSound(m) ==
    /\ Edits(m.call)
    /\ req[m.call].confirm
    /\ Chosen(m.call, m.row, m.id)
    /\ m.ver \in Nat /\ m.ver <= ver[m.id]
    /\ m.ver = ver[m.id] =>
         /\ m.f = Payload(req[m.call].rows[m.row].patch, field[m.id])
         /\ TokenCoversTags => m.tags = tagsOf[m.id]

TagsSound(m) ==
    /\ req[m.call].tool = "settags"
    /\ m.row = 1
    /\ InScope(m.id)
    /\ m.kind = "assign" => m.tags = req[m.call].tags /\ m.tags # {}
    /\ m.kind = "untag" => req[m.call].tags = {}

Sound(m) ==
    /\ m \in Message
    /\ m.kind = "put" => PutSound(m)
    /\ m.kind \in {"assign", "untag"} => TagsSound(m)

OrphansSound == \A m \in orphans : Sound(m)

\* A row still to be applied has not been, and no request of it is out; an
\* orphaned PUT has not been handled, and is the only one of its row.
Untouched(c, i) ==
    /\ i \notin wrote[c]
    /\ \A m \in orphans : ~(m.call = c /\ m.row = i)

RowsOnce ==
    /\ \A c \in Calls : Edits(c) /\ pc[c] # "cancelled" =>
         \A i \in Rows : result[c][i] \in {"pending", "planned"} => Untouched(c, i)
    /\ \A m \in orphans : Edits(m.call) =>
         /\ m.row \notin wrote[m.call]
         /\ \A n \in orphans : n.call = m.call /\ n.row = m.row => n = m

Inv ==
    /\ TypeOK
    /\ TokenFaithful
    /\ PlanSound
    /\ EditAtRow
    /\ TagsAtHost
    /\ OrphansSound
    /\ RowsOnce

-----------------------------------------------------------------------------
\* Facts about requests.

\* The scalars a PUT sends are a whole record, and echo what the patch does not
\* name; a patch names curated fields only.
LEMMA PayloadType ==
    ASSUME NEW patch \in Patches, NEW f \in [Fields -> Values]
    PROVE  /\ Payload(patch, f) \in [Fields -> Values]
           /\ \A x \in Discovered : Payload(patch, f)[x] = f[x]
<1>1. PICK D \in SUBSET Curated : patch \in [D -> Values]
  BY DEF Patches
<1>2. Payload(patch, f) \in [Fields -> Values]
  BY <1>1 DEF Payload
<1>3. \A x \in Discovered : x \notin D /\ x \in Fields
  BY HostsAssumption DEF Fields
<1> QED
  BY <1>1, <1>2, <1>3 DEF Payload

\* A row of a request has a selector, a patch and a verdict on its form.
LEMMA RowType ==
    ASSUME TypeOK, NEW c \in Calls
    PROVE  /\ req[c] \in Request
           /\ Len(req[c].rows) \in 1..MaxRows
           /\ \A i \in 1..Len(req[c].rows) :
                /\ req[c].rows[i] \in UpdateRow
                /\ i \in Rows
<1>1. req[c] \in Requests /\ req[c] \in Request
  BY RequestsAssumption DEF TypeOK
<1>2. Len(req[c].rows) \in 1..MaxRows
  BY <1>1, RequestsAssumption
<1>3. req[c].rows \in Seq(UpdateRow)
  BY <1>1 DEF Request
<1>4. \A i \in 1..Len(req[c].rows) : req[c].rows[i] \in UpdateRow
  BY <1>3
<1>5. 1..Len(req[c].rows) \subseteq Rows
  BY <1>2, HostsAssumption DEF Rows
<1> QED
  BY <1>1, <1>2, <1>4, <1>5

\* A write a call is waiting for is sound, and is about the row it works on.
LEMMA InFlightSound ==
    ASSUME Inv, NEW c \in Calls, NEW m \in InFlight(c)
    PROVE  /\ Sound(m)
           /\ m.call = c /\ m.row = row[c]
           /\ \/ pc[c] = "put" /\ m = PutMessage(c)
              \/ pc[c] \in {"assign", "untag"} /\ m.kind \in {"assign", "untag"}
<1> USE DEF Inv
<1>0. cur[c] \in Snapshots /\ row[c] \in Rows /\ todo[c] \in SUBSET Tags
  BY DEF TypeOK
<1>1. CASE pc[c] = "put"
  <2>1. m = PutMessage(c)
    BY <1>1 DEF InFlight
  <2>2. Edits(c) /\ req[c].confirm /\ Chosen(c, row[c], cur[c].id)
    BY <1>0, <1>1 DEF EditAtRow, AtRow, PlanSound
  <2>3. Row(c) \in UpdateRow /\ Row(c).patch \in Patches
    BY <2>2, RowType DEF Row, Chosen, UpdateRow
  <2>4. cur[c].f \in [Fields -> Values] /\ cur[c].tags \in SUBSET Tags
        /\ cur[c].ver \in Nat /\ cur[c].id \in Hosts
    BY <1>0, <2>2 DEF Snapshots, Chosen
  <2>5. m \in Message
    BY <1>0, <2>1, <2>3, <2>4, PayloadType DEF PutMessage, Message, Expected, EchoedTags
  <2>6. Faithful(cur[c].id, cur[c].f, cur[c].tags, cur[c].ver)
    BY <2>4, HostsAssumption DEF TokenFaithful
  <2>7. PutSound(m)
    BY <2>1, <2>2, <2>4, <2>6 DEF PutSound, PutMessage, Faithful, Expected, EchoedTags, Row
  <2> QED
    BY <1>1, <2>1, <2>5, <2>7 DEF Sound, PutMessage
<1>2. CASE pc[c] = "assign"
  <2>1. m = TagMessage(c, "assign", req[c].tags)
    BY <1>2 DEF InFlight
  <2>2. req[c].tags \in SUBSET Tags
    BY RowType DEF Request
  <2>3. req[c].tool = "settags" /\ cur[c].id \in Hosts /\ InScope(cur[c].id)
        /\ req[c].tags # {} /\ row[c] = 1
    BY <1>2 DEF TagsAtHost, AtHost
  <2> QED
    BY <1>0, <1>2, <2>1, <2>2, <2>3
    DEF Sound, TagsSound, TagMessage, Message, Snapshots, NoToken
<1>3. CASE pc[c] = "untag"
  <2>1. PICK t \in todo[c] : m = TagMessage(c, "untag", {t})
    BY <1>3 DEF InFlight
  <2>2. {t} \in SUBSET Tags
    BY <1>0
  <2>3. req[c].tool = "settags" /\ cur[c].id \in Hosts /\ InScope(cur[c].id)
        /\ req[c].tags = {} /\ row[c] = 1
    BY <1>3 DEF TagsAtHost, AtHost
  <2> QED
    BY <1>0, <1>3, <2>1, <2>2, <2>3
    DEF Sound, TagsSound, TagMessage, Message, Snapshots, NoToken
<1> QED
  BY <1>1, <1>2, <1>3 DEF InFlight
-----------------------------------------------------------------------------
\* What every step does to the inventory: an updated_at never goes back, and a
\* host whose updated_at has not moved has not changed.
InventoryMoves ==
    /\ alive' \subseteq alive
    /\ field' \in [Hosts -> [Fields -> Values]]
    /\ tagsOf' \in [Hosts -> SUBSET Tags]
    /\ ver' \in [Hosts -> Nat]
    /\ \A h \in Hosts :
         /\ ver[h] <= ver'[h]
         /\ ver'[h] = ver[h] =>
              /\ field'[h] = field[h]
              /\ TokenCoversTags => tagsOf'[h] = tagsOf[h]

\* A step that leaves the inventory alone moves it trivially.
LEMMA StillMoves ==
    ASSUME TypeOK, UNCHANGED inventory
    PROVE  InventoryMoves
  BY DEF TypeOK, inventory, InventoryMoves

\* A sound write that is handled moves the inventory.
LEMMA ServeMoves ==
    ASSUME TypeOK, NEW m, Sound(m), Serve(m)
    PROVE  /\ InventoryMoves
           /\ alive' = alive /\ env' = env
           /\ fresh' \in [Calls -> SUBSET Tags]
           /\ wrote' \in [Calls -> SUBSET Rows]
<1>1. m \in Message /\ m.id \in Hosts /\ m.call \in Calls /\ m.row \in Rows
      /\ m.tags \in SUBSET Tags /\ m.f \in [Fields -> Values]
  BY DEF Sound, Message
<1>2. alive' = alive /\ env' = env /\ wrote' \in [Calls -> SUBSET Rows]
  BY <1>1 DEF Serve, TypeOK
<1>3. ASSUME NEW W, NEW T \in SUBSET Tags, Retag(W, m.id, T)
      PROVE  /\ fresh' \in [Calls -> SUBSET Tags]
             /\ tagsOf' = [tagsOf EXCEPT ![m.id] = T]
  BY <1>1, <1>3 DEF Retag, TypeOK
<1>4. CASE ServePut(m)
  <2>1. Retag(Calls \ {m.call}, m.id, m.tags)
    BY <1>4 DEF ServePut
  <2>2. fresh' \in [Calls -> SUBSET Tags] /\ tagsOf' = [tagsOf EXCEPT ![m.id] = m.tags]
    BY <1>1, <1>3, <2>1
  <2>3. InventoryMoves
    BY <1>1, <1>2, <1>4, <2>2 DEF ServePut, TypeOK, InventoryMoves
  <2> QED
    BY <1>2, <2>2, <2>3
<1>5. CASE ServeTags(m)
  <2> DEFINE T == IF m.kind = "untag" THEN tagsOf[m.id] \ m.tags
                  ELSE IF m.tags = {} THEN tagsOf[m.id] ELSE m.tags
  <2>1. T \in SUBSET Tags
    BY <1>1 DEF TypeOK
  <2>2. Retag(Calls \ {m.call}, m.id, T) /\ ver' = TagsMoveToken(m.id) /\ field' = field
    BY <1>5 DEF ServeTags
  <2> HIDE DEF T
  <2>3. fresh' \in [Calls -> SUBSET Tags] /\ tagsOf' = [tagsOf EXCEPT ![m.id] = T]
    BY <1>1, <1>3, <2>1, <2>2
  <2>4. InventoryMoves
    BY <1>1, <1>2, <2>1, <2>2, <2>3, HostsAssumption
    DEF TagsMoveToken, TypeOK, InventoryMoves
  <2> QED
    BY <1>2, <2>3, <2>4
<1> QED
  BY <1>4, <1>5 DEF Serve

\* So does a step of the world.
LEMMA WorldMoves ==
    ASSUME TypeOK, World
    PROVE  /\ InventoryMoves
           /\ env' \in 0..MaxEnv
           /\ fresh' \in [Calls -> SUBSET Tags]
<1>1. env' \in 0..MaxEnv
  BY HostsAssumption DEF World, TypeOK
<1>2. PICK h \in Hosts :
        Scanned(h) \/ OperatorEdits(h) \/ OperatorTags(h) \/ Retire(h)
  BY DEF World
<1>3. ASSUME NEW names \in SUBSET Fields, HostChanges(h, names)
      PROVE  InventoryMoves /\ fresh' = fresh
  <2>1. PICK f \in names : \E v \in Values \ {field[h][f]} :
          field' = [field EXCEPT ![h][f] = v]
    BY <1>3 DEF HostChanges
  <2>2. field' \in [Hosts -> [Fields -> Values]]
        /\ \A g \in Hosts \ {h} : field'[g] = field[g]
    BY <2>1 DEF TypeOK
  <2> QED
    BY <1>3, <2>2 DEF HostChanges, TypeOK, InventoryMoves
<1>4. CASE Scanned(h) \/ OperatorEdits(h)
  BY <1>1, <1>3, <1>4 DEF Scanned, OperatorEdits, Fields, TypeOK
<1>5. CASE OperatorTags(h)
  <2>1. PICK T \in SUBSET Tags : Retag(Calls, h, T)
    BY <1>5 DEF OperatorTags
  <2>2. fresh' \in [Calls -> SUBSET Tags] /\ tagsOf' = [tagsOf EXCEPT ![h] = T]
    BY <2>1 DEF Retag, TypeOK
  <2>3. InventoryMoves
    BY <1>5, <2>2, HostsAssumption DEF OperatorTags, TagsMoveToken, TypeOK, InventoryMoves
  <2> QED
    BY <1>1, <2>2, <2>3
<1>6. CASE Retire(h)
  BY <1>1, <1>6 DEF Retire, TypeOK, InventoryMoves
<1> QED
  BY <1>2, <1>4, <1>5, <1>6

-----------------------------------------------------------------------------
\* Each conjunct of Inv holds after a step that moves the inventory, under a
\* condition on what the step does to the calls.

LEMMA ChosenKept ==
    ASSUME TypeOK, InventoryMoves, req' = req,
           NEW c \in Calls, NEW i, NEW h, Chosen(c, i, h)
    PROVE  Chosen(c, i, h)'
  BY DEF Chosen, InventoryMoves, InScope

LEMMA SoundKept ==
    ASSUME TypeOK, InventoryMoves, req' = req, NEW m, Sound(m)
    PROVE  Sound(m)'
<1>1. m \in Message /\ m.call \in Calls /\ m.id \in Hosts
  BY DEF Sound, Message
<1>2. CASE m.kind = "put"
  <2>1. PutSound(m)
    BY <1>2 DEF Sound
  <2>2. Chosen(m.call, m.row, m.id)'
    BY <1>1, <2>1, ChosenKept DEF PutSound
  <2>3. ver[m.id] \in Nat /\ ver'[m.id] \in Nat /\ ver[m.id] <= ver'[m.id]
    BY <1>1 DEF TypeOK, InventoryMoves
  <2>4. m.ver <= ver'[m.id] /\ (m.ver = ver'[m.id] => ver'[m.id] = ver[m.id])
    BY <2>1, <2>3 DEF PutSound
  <2>5. PutSound(m)'
    BY <1>1, <2>1, <2>2, <2>4 DEF PutSound, Edits, InventoryMoves, Payload
  <2> QED
    BY <1>1, <1>2, <2>5 DEF Sound, Message
<1>3. CASE m.kind # "put"
  BY <1>1, <1>3 DEF Sound, TagsSound, InScope, Message
<1> QED
  BY <1>2, <1>3

LEMMA TokenKept ==
    ASSUME TypeOK, TokenFaithful, InventoryMoves,
           \A d \in Calls :
             \/ cur'[d] = cur[d]
             \/ UNCHANGED inventory /\ \E h \in Hosts : cur'[d] = Snapshot(d, h)
    PROVE  TokenFaithful'
<1> SUFFICES ASSUME NEW d \in Calls, cur'[d].id # NoHost
             PROVE  Faithful(cur[d].id, cur[d].f, cur[d].tags, cur[d].ver)'
  BY DEF TokenFaithful
<1>1. CASE cur'[d] = cur[d]
  <2>1. cur[d] \in Snapshots
    BY DEF TypeOK
  <2>2. cur[d].id \in Hosts /\ cur[d].ver \in Nat
    BY <1>1, <2>1 DEF Snapshots
  <2>3. Faithful(cur[d].id, cur[d].f, cur[d].tags, cur[d].ver)
    BY <1>1 DEF TokenFaithful
  <2>4. ver[cur[d].id] \in Nat /\ ver'[cur[d].id] \in Nat /\ ver[cur[d].id] <= ver'[cur[d].id]
    BY <2>2 DEF TypeOK, InventoryMoves
  <2>5. /\ cur[d].ver <= ver'[cur[d].id]
        /\ cur[d].ver = ver'[cur[d].id] =>
             cur[d].ver = ver[cur[d].id] /\ ver'[cur[d].id] = ver[cur[d].id]
    BY <2>2, <2>3, <2>4 DEF Faithful
  <2>6. cur[d].ver = ver'[cur[d].id] =>
          /\ field'[cur[d].id] = cur[d].f
          /\ TokenCoversTags => tagsOf'[cur[d].id] = cur[d].tags
    BY <2>2, <2>3, <2>5 DEF Faithful, InventoryMoves
  <2> QED
    BY <1>1, <2>5, <2>6 DEF Faithful
<1>2. CASE UNCHANGED inventory /\ \E h \in Hosts : cur'[d] = Snapshot(d, h)
  BY <1>2 DEF Snapshot, Faithful, inventory, TypeOK
<1> QED
  BY <1>1, <1>2

LEMMA PlansKept ==
    ASSUME TypeOK, PlanSound, InventoryMoves, req' = req,
           \A d \in Calls : Edits(d) => \A i \in Rows :
             result'[d][i] = "planned" =>
               \/ result[d][i] = "planned" /\ target'[d][i] = target[d][i]
               \/ Chosen(d, i, target'[d][i])
    PROVE  PlanSound'
<1> SUFFICES ASSUME NEW d \in Calls, Edits(d)', NEW i \in Rows, result'[d][i] = "planned"
             PROVE  Chosen(d, i, target[d][i])'
  BY DEF PlanSound
<1>1. Edits(d)
  BY DEF Edits
<1>2. Chosen(d, i, target'[d][i])
  BY <1>1 DEF PlanSound
<1> DEFINE h == target'[d][i]
<1>3. Chosen(d, i, h)
  BY <1>2
<1> HIDE DEF h
<1>4. /\ i \in 1..Len(req'[d].rows)
      /\ req'[d].rows[i].wellFormed
      /\ h \in Hosts
      /\ InScope(h)
      /\ req'[d].rows[i].sel.by = "id" =>
           h = req'[d].rows[i].sel.key \/ req'[d].rows[i].sel.key \notin alive'
  BY <1>3 DEF Chosen, InventoryMoves
<1> QED
  BY <1>4 DEF h, Chosen, InScope

LEMMA OrphansKept ==
    ASSUME TypeOK, InventoryMoves, req' = req, \A m \in orphans' : Sound(m)
    PROVE  OrphansSound'
  BY SoundKept DEF OrphansSound
\* Where the apply loop leaves a call: returned, or at a planned row.
Advanced(c) ==
    \/ pc' = [pc EXCEPT ![c] = "done"] /\ row' = row
    \/ \E j \in Rows :
         /\ pc' = [pc EXCEPT ![c] = "read"]
         /\ row' = [row EXCEPT ![c] = j]
         /\ req[c].confirm
         /\ result'[c][j] = "planned"

LEMMA ApplyAdvances ==
    ASSUME NEW c \in Calls, NEW i, ApplyAfter(c, i)
    PROVE  Advanced(c)
  BY DEF ApplyAfter, Return, ApplyFirst, PlannedAfter, Advanced

LEMMA AdvancedType ==
    ASSUME TypeOK, NEW c \in Calls, Advanced(c)
    PROVE  /\ row' \in [Calls -> Rows]
           /\ pc' \in [Calls -> {"idle", "resolve", "read", "put", "assign",
                                 "untag", "fetch", "refresh", "done", "cancelled"}]
           /\ \A d \in Calls : d # c => row'[d] = row[d] /\ pc'[d] = pc[d]
           /\ \/ pc'[c] = "done"
              \/ pc'[c] = "read" /\ req[c].confirm /\ result'[c][row'[c]] = "planned"
<1>1. /\ row \in [Calls -> Rows]
      /\ pc \in [Calls -> {"idle", "resolve", "read", "put", "assign", "untag",
                           "fetch", "refresh", "done", "cancelled"}]
  BY DEF TypeOK
<1>2. CASE pc' = [pc EXCEPT ![c] = "done"] /\ row' = row
  BY <1>1, <1>2
<1>3. ASSUME NEW j \in Rows, pc' = [pc EXCEPT ![c] = "read"],
             row' = [row EXCEPT ![c] = j], req[c].confirm, result'[c][j] = "planned"
      PROVE  /\ row' \in [Calls -> Rows] /\ row'[c] = j
             /\ pc' \in [Calls -> {"idle", "resolve", "read", "put", "assign",
                                   "untag", "fetch", "refresh", "done", "cancelled"}]
             /\ \A d \in Calls : d # c => row'[d] = row[d] /\ pc'[d] = pc[d]
             /\ pc'[c] = "read"
  BY <1>1, <1>3
<1> QED
  BY <1>2, <1>3 DEF Advanced

\* An outcome changes the result of the row worked on, and of no other.
LEMMA OutcomeType ==
    ASSUME TypeOK, NEW c \in Calls,
           NEW what \in {"planned", "noop", "error", "applied", "failed"},
           Outcome(c, what)
    PROVE  /\ result' \in [Calls -> [Rows -> {"pending", "planned", "noop",
                                              "error", "applied", "failed"}]]
           /\ result'[c][row[c]] = what
           /\ \A d \in Calls : \A i \in Rows :
                result'[d][i] = IF d = c /\ i = row[c] THEN what ELSE result[d][i]
<1>1. row[c] \in Rows /\ result \in [Calls -> [Rows -> {"pending", "planned",
        "noop", "error", "applied", "failed"}]]
  BY DEF TypeOK
<1> QED
  BY <1>1 DEF Outcome

\* The step is one of call c: the other calls stay where they are.
OthersStay(c) ==
    \A d \in Calls : d # c =>
      /\ pc'[d] = pc[d] /\ row'[d] = row[d] /\ cur'[d] = cur[d]
      /\ \A i \in Rows : result'[d][i] = result[d][i] /\ target'[d][i] = target[d][i]

LEMMA AtRowOthers ==
    ASSUME TypeOK, EditAtRow, NEW c \in Calls, req' = req, OthersStay(c), AtRow(c)',
           \A d \in Calls : d # c /\ pc[d] \in {"idle", "resolve"} =>
             wrote'[d] = wrote[d] /\ \A m \in orphans' : m.call # d
    PROVE  EditAtRow'
<1> SUFFICES ASSUME NEW d \in Calls, d # c
             PROVE  AtRow(d)'
  BY DEF EditAtRow
<1>1. row[d] \in Rows /\ AtRow(d)
  BY DEF TypeOK, EditAtRow
<1> QED
  BY <1>1 DEF AtRow, OthersStay, Edits

LEMMA AtHostOthers ==
    ASSUME TypeOK, TagsAtHost, NEW c \in Calls, req' = req, OthersStay(c), AtHost(c)'
    PROVE  TagsAtHost'
<1> SUFFICES ASSUME NEW d \in Calls, d # c
             PROVE  AtHost(d)'
  BY DEF TagsAtHost
<1> QED
  BY DEF TagsAtHost, AtHost, OthersStay, Edits, InScope

\* RowsOnce holds after a step that sends and handles nothing and that turns no
\* other row into one still to be applied.
LEMMA RowsOnceStill ==
    ASSUME TypeOK, RowsOnce, req' = req, wrote' = wrote, orphans' = orphans,
           \A d \in Calls : Edits(d) /\ pc'[d] # "cancelled" =>
             \A i \in Rows : result'[d][i] \in {"pending", "planned"} =>
               Untouched(d, i)
    PROVE  RowsOnce'
  BY DEF RowsOnce, Untouched, Edits

\* A step of call c that may leave its write in flight with the server, and
\* that ends the row or the call.
LEMMA OrphaningKeeps ==
    ASSUME Inv, NEW c \in Calls, UNCHANGED <<inventory, req, wrote>>, OthersStay(c),
           \/ orphans' = orphans
           \/ \E m \in InFlight(c) : orphans' = orphans \union {m},
           pc[c] # "cancelled",
           Edits(c) /\ pc'[c] # "cancelled" =>
             \A i \in Rows : result'[c][i] \in {"pending", "planned"} =>
               i # row[c] /\ result'[c][i] = result[c][i]
    PROVE  /\ orphans' \subseteq Message
           /\ OrphansSound'
           /\ RowsOnce'
           /\ \A d \in Calls : d # c /\ pc[d] \in {"idle", "resolve"} =>
                \A m \in orphans' : m.call # d
<1> USE DEF Inv
<1>0. InventoryMoves
  BY StillMoves
<1>1. ASSUME NEW m \in orphans', m \notin orphans
      PROVE  /\ m \in InFlight(c) /\ orphans' = orphans \union {m}
             /\ Sound(m) /\ m \in Message /\ m.call = c /\ m.row = row[c]
             /\ Edits(c) => pc[c] = "put"
  <2>1. m \in InFlight(c) /\ orphans' = orphans \union {m}
    BY <1>1
  <2>2. Sound(m) /\ m.call = c /\ m.row = row[c]
        /\ (pc[c] = "put" \/ pc[c] \in {"assign", "untag"})
    BY <2>1, InFlightSound
  <2>3. pc[c] \in {"assign", "untag"} => ~Edits(c)
    BY DEF TagsAtHost, AtHost, Edits
  <2> QED
    BY <2>1, <2>2, <2>3 DEF Sound
<1>2. orphans' \subseteq Message
  BY <1>1 DEF TypeOK
<1>3. OrphansSound'
  BY <1>0, <1>1, OrphansKept DEF OrphansSound
<1>4. \A d \in Calls : d # c /\ pc[d] \in {"idle", "resolve"} =>
        \A m \in orphans' : m.call # d
  BY <1>1 DEF EditAtRow, AtRow
<1>5. ASSUME Edits(c), pc[c] = "put"
      PROVE  Untouched(c, row[c])
  BY <1>5 DEF EditAtRow, AtRow, RowsOnce, TypeOK
<1>6. ASSUME NEW d \in Calls, Edits(d), pc'[d] # "cancelled", NEW i \in Rows,
             result'[d][i] \in {"pending", "planned"}
      PROVE  Untouched(d, i)'
  <2>1. Untouched(d, i) /\ ~(d = c /\ i = row[c])
    BY <1>6 DEF RowsOnce, OthersStay
  <2> QED
    BY <1>1, <2>1 DEF Untouched
<1>7. ASSUME NEW m \in orphans', Edits(m.call)
      PROVE  /\ m.row \notin wrote[m.call]
             /\ \A n \in orphans' : n.call = m.call /\ n.row = m.row => n = m
  <2>1. CASE m \in orphans /\ orphans' = orphans
    BY <1>7, <2>1 DEF RowsOnce
  <2>2. CASE m \in orphans /\ orphans' # orphans
    <3>1. PICK n \in InFlight(c) : orphans' = orphans \union {n} /\ n \notin orphans
      BY <2>2
    <3>2. n.call = m.call /\ n.row = m.row => FALSE
      BY <1>1, <1>5, <1>7, <2>2, <3>1 DEF Untouched
    <3> QED
      BY <1>7, <2>2, <3>1, <3>2 DEF RowsOnce
  <2>3. CASE m \notin orphans
    BY <1>1, <1>5, <1>7, <2>3 DEF Untouched
  <2> QED
    BY <2>1, <2>2, <2>3
<1>8. RowsOnce'
  BY <1>6, <1>7 DEF RowsOnce, Edits
<1> QED
  BY <1>2, <1>3, <1>4, <1>8

-----------------------------------------------------------------------------
\* One lemma per action: it preserves Inv.

LEMMA StartKeeps ==
    ASSUME Inv, NEW c \in Calls, Start(c)
    PROVE  Inv'
<1> USE DEF Inv
<1>0. InventoryMoves /\ pc' = [pc EXCEPT ![c] = "resolve"] /\ pc[c] = "idle"
  BY StillMoves DEF Start
<1>1. TypeOK'
  BY <1>0 DEF Start, TypeOK, inventory
<1>2. TokenFaithful'
  BY <1>0, TokenKept DEF Start
<1>3. PlanSound'
  BY <1>0, PlansKept DEF Start
<1>4. EditAtRow'
  BY <1>0 DEF Start, EditAtRow, AtRow, Edits, TypeOK
<1>5. TagsAtHost'
  BY <1>0 DEF Start, TagsAtHost, AtHost, Edits, InScope, TypeOK
<1>6. OrphansSound'
  BY <1>0, OrphansKept DEF Start, OrphansSound
<1>7. RowsOnce'
  <2>1. \A d \in Calls : pc'[d] # "cancelled" => pc[d] # "cancelled"
    BY <1>0 DEF TypeOK
  <2> QED
    BY <2>1, RowsOnceStill DEF Start, RowsOnce
<1> QED
  BY <1>1, <1>2, <1>3, <1>4, <1>5, <1>6, <1>7

\* The two steps of the planning loop: what they have in common.
LEMMA PlanStepKeeps ==
    ASSUME Inv, NEW c \in Calls, pc[c] = "resolve", Edits(c), PlanNext(c),
           NEW what \in {"planned", "noop", "error"}, Outcome(c, what),
           UNCHANGED <<inventory, env, orphans, req, todo, wrote, fresh>>,
           target' \in [Calls -> [Rows -> Hosts \union {NoHost}]],
           \A d \in Calls : \A i \in Rows :
             ~(d = c /\ i = row[c]) => target'[d][i] = target[d][i],
           what = "planned" => Chosen(c, row[c], target'[c][row[c]]),
           cur' \in [Calls -> Snapshots],
           \A d \in Calls : d # c => cur'[d] = cur[d],
           \A d \in Calls :
             \/ cur'[d] = cur[d]
             \/ \E h \in Hosts : cur'[d] = Snapshot(d, h)
    PROVE  Inv'
<1> USE DEF Inv
<1>0. InventoryMoves
  BY StillMoves
<1>a. /\ result' \in [Calls -> [Rows -> {"pending", "planned", "noop", "error",
                                         "applied", "failed"}]]
      /\ result'[c][row[c]] = what
      /\ \A d \in Calls : \A i \in Rows :
           result'[d][i] = IF d = c /\ i = row[c] THEN what ELSE result[d][i]
  BY OutcomeType
<1>b. \/ Advanced(c)
      \/ row[c] < Len(req[c].rows) /\ row' = [row EXCEPT ![c] = @ + 1] /\ pc' = pc
  BY ApplyAdvances DEF PlanNext
<1>c. Len(req[c].rows) \in 1..MaxRows /\ MaxRows \in Nat /\ row[c] \in 1..Len(req[c].rows)
  BY RowType, HostsAssumption DEF EditAtRow, AtRow
<1>d. /\ row' \in [Calls -> Rows]
      /\ pc' \in [Calls -> {"idle", "resolve", "read", "put", "assign", "untag",
                            "fetch", "refresh", "done", "cancelled"}]
      /\ \A d \in Calls : d # c => row'[d] = row[d] /\ pc'[d] = pc[d]
      /\ \/ pc'[c] = "done"
         \/ pc'[c] = "resolve" /\ row'[c] \in 1..Len(req[c].rows)
         \/ pc'[c] = "read" /\ req[c].confirm /\ result'[c][row'[c]] = "planned"
  <2>1. CASE Advanced(c)
    BY <2>1, AdvancedType
  <2>2. CASE row[c] < Len(req[c].rows) /\ row' = [row EXCEPT ![c] = @ + 1] /\ pc' = pc
    <3>1. row[c] + 1 \in 1..Len(req[c].rows) /\ row[c] + 1 \in Rows
      BY <1>c, <2>2 DEF Rows
    <3> QED
      BY <2>2, <3>1 DEF TypeOK
  <2> QED
    BY <1>b, <2>1, <2>2
<1>e. OthersStay(c)
  BY <1>a, <1>d DEF OthersStay
<1>1. TypeOK'
  BY <1>a, <1>d DEF TypeOK, inventory
<1>2. TokenFaithful'
  BY <1>0, TokenKept
<1>3. PlanSound'
  BY <1>0, <1>a, PlansKept DEF PlanSound
<1>4. EditAtRow'
  <2>1. AtRow(c)'
    BY <1>d DEF EditAtRow, AtRow, Edits
  <2> QED
    BY <1>e, <2>1, AtRowOthers DEF EditAtRow, AtRow
<1>5. TagsAtHost'
  <2>1. AtHost(c)'
    BY <1>d DEF AtHost, Edits
  <2> QED
    BY <1>e, <2>1, AtHostOthers
<1>6. OrphansSound'
  BY <1>0, OrphansKept DEF OrphansSound
<1>7. RowsOnce'
  <2>1. \A i \in Rows : Untouched(c, i)
    BY DEF EditAtRow, AtRow, Untouched
  <2> QED
    BY <1>e, <2>1, RowsOnceStill DEF RowsOnce, OthersStay
<1> QED
  BY <1>1, <1>2, <1>3, <1>4, <1>5, <1>6, <1>7

LEMMA PlanRowKeeps ==
    ASSUME Inv, NEW c \in Calls, PlanRow(c)
    PROVE  Inv'
<1>1. PICK h \in Hosts :
        /\ Resolves(c, h)
        /\ Outcome(c, Verdict(c, h))
        /\ target' = [target EXCEPT ![c][row[c]] = h]
        /\ cur' = [cur EXCEPT ![c] = Snapshot(c, h)]
  BY DEF PlanRow
<1>2. TypeOK /\ row[c] \in Rows /\ row[c] \in 1..Len(req[c].rows) /\ pc[c] = "resolve"
  BY DEF Inv, TypeOK, EditAtRow, AtRow, PlanRow
<1>3. Verdict(c, h) \in {"planned", "noop", "error"}
  BY DEF Verdict
<1>4. Snapshot(c, h) \in Snapshots
  BY <1>2 DEF Snapshot, Snapshots, TypeOK
<1>5. /\ target' \in [Calls -> [Rows -> Hosts \union {NoHost}]]
      /\ target'[c][row[c]] = h
      /\ \A d \in Calls : \A i \in Rows :
           ~(d = c /\ i = row[c]) => target'[d][i] = target[d][i]
  BY <1>1, <1>2 DEF TypeOK
<1>6. cur' \in [Calls -> Snapshots] /\ cur'[c] = Snapshot(c, h)
      /\ \A d \in Calls : d # c => cur'[d] = cur[d]
  BY <1>1, <1>2, <1>4 DEF TypeOK
<1>7. Chosen(c, row[c], h)
  <2>1. req[c].rows[row[c]].sel.by = "id" =>
          h = req[c].rows[row[c]].sel.key \/ req[c].rows[row[c]].sel.key \notin alive
    BY <1>1 DEF Resolves, Matching, Row
  <2> QED
    BY <1>1, <1>2, <2>1 DEF Resolves, Chosen, Row
<1> QED
  BY <1>1, <1>2, <1>3, <1>5, <1>6, <1>7, PlanStepKeeps DEF PlanRow

LEMMA RefuseRowKeeps ==
    ASSUME Inv, NEW c \in Calls, RefuseRow(c)
    PROVE  Inv'
  BY PlanStepKeeps DEF RefuseRow, Inv, TypeOK
LEMMA ReadCurrentKeeps ==
    ASSUME Inv, NEW c \in Calls, ReadCurrent(c)
    PROVE  Inv'
<1> USE DEF Inv
<1> DEFINE h == target[c][row[c]]
<1>0. InventoryMoves
  BY StillMoves DEF ReadCurrent
<1>a. /\ h \in Hosts /\ Edits(c) /\ req[c].confirm /\ result[c][row[c]] = "planned"
      /\ row[c] \in Rows
  BY DEF ReadCurrent, EditAtRow, AtRow, PlanSound, Chosen, TypeOK
<1>b. Snapshot(c, h) \in Snapshots /\ Snapshot(c, h).id = h
  BY <1>a DEF Snapshot, Snapshots, TypeOK
<1>c. /\ cur' \in [Calls -> Snapshots] /\ cur'[c] = Snapshot(c, h)
      /\ \A d \in Calls : d # c => cur'[d] = cur[d]
  BY <1>b DEF ReadCurrent, TypeOK
<1>d. /\ pc' \in [Calls -> {"idle", "resolve", "read", "put", "assign", "untag",
                            "fetch", "refresh", "done", "cancelled"}]
      /\ pc'[c] = "put"
      /\ \A d \in Calls : d # c => pc'[d] = pc[d]
  BY DEF ReadCurrent, TypeOK
<1>e. OthersStay(c)
  BY <1>c, <1>d DEF ReadCurrent, OthersStay
<1>1. TypeOK'
  BY <1>c, <1>d DEF ReadCurrent, TypeOK, inventory
<1>2. TokenFaithful'
  BY <1>0, <1>a, <1>c, TokenKept DEF ReadCurrent
<1>3. PlanSound'
  BY <1>0, PlansKept DEF ReadCurrent
<1>4. EditAtRow'
  <2>1. AtRow(c)'
    BY <1>a, <1>b, <1>c, <1>d DEF ReadCurrent, AtRow, Edits
  <2> QED
    BY <1>e, <2>1, AtRowOthers DEF ReadCurrent, EditAtRow, AtRow
<1>5. TagsAtHost'
  <2>1. AtHost(c)'
    BY <1>d DEF AtHost
  <2> QED
    BY <1>e, <2>1, AtHostOthers DEF ReadCurrent
<1>6. OrphansSound'
  BY <1>0, OrphansKept DEF ReadCurrent, OrphansSound
<1>7. RowsOnce'
  <2>1. pc[c] = "read"
    BY DEF ReadCurrent
  <2> QED
    BY <1>d, <2>1, RowsOnceStill DEF ReadCurrent, RowsOnce
<1> QED
  BY <1>1, <1>2, <1>3, <1>4, <1>5, <1>6, <1>7

LEMMA PutAppliedKeeps ==
    ASSUME Inv, NEW c \in Calls, PutApplied(c)
    PROVE  Inv'
<1> USE DEF Inv
<1> DEFINE m == PutMessage(c)
<1>a. m \in InFlight(c)
  BY DEF PutApplied, InFlight
<1>b. Sound(m) /\ m.call = c /\ m.row = row[c]
  BY <1>a, InFlightSound
<1>c. Serve(m)
  BY DEF PutApplied
<1>d. Edits(c) /\ req[c].confirm /\ result[c][row[c]] = "planned" /\ row[c] \in Rows
      /\ pc[c] = "put"
  BY DEF PutApplied, EditAtRow, AtRow, TypeOK
<1>e. wrote' = [wrote EXCEPT ![c] = @ \union {row[c]}]
  BY <1>b, <1>c DEF Serve
<1> HIDE DEF m
<1>f. /\ InventoryMoves /\ alive' = alive /\ env' = env
      /\ fresh' \in [Calls -> SUBSET Tags] /\ wrote' \in [Calls -> SUBSET Rows]
  BY <1>b, <1>c, ServeMoves
<1>g. /\ result' \in [Calls -> [Rows -> {"pending", "planned", "noop", "error",
                                         "applied", "failed"}]]
      /\ result'[c][row[c]] = "applied"
      /\ \A d \in Calls : \A i \in Rows :
           result'[d][i] = IF d = c /\ i = row[c] THEN "applied" ELSE result[d][i]
  BY OutcomeType DEF PutApplied
<1>h. /\ row' \in [Calls -> Rows]
      /\ pc' \in [Calls -> {"idle", "resolve", "read", "put", "assign", "untag",
                            "fetch", "refresh", "done", "cancelled"}]
      /\ \A d \in Calls : d # c => row'[d] = row[d] /\ pc'[d] = pc[d]
      /\ \/ pc'[c] = "done"
         \/ pc'[c] = "read" /\ req[c].confirm /\ result'[c][row'[c]] = "planned"
  BY ApplyAdvances, AdvancedType DEF PutApplied
<1>i. OthersStay(c)
  BY <1>g, <1>h DEF PutApplied, OthersStay
<1>1. TypeOK'
  BY <1>f, <1>g, <1>h DEF PutApplied, TypeOK, InventoryMoves
<1>2. TokenFaithful'
  BY <1>f, TokenKept DEF PutApplied
<1>3. PlanSound'
  BY <1>f, <1>g, PlansKept DEF PutApplied
<1>4. EditAtRow'
  <2>1. AtRow(c)'
    BY <1>d, <1>h DEF PutApplied, AtRow, Edits
  <2>2. \A d \in Calls : d # c => wrote'[d] = wrote[d]
    BY <1>e DEF TypeOK
  <2> QED
    BY <1>i, <2>1, <2>2, AtRowOthers DEF PutApplied, EditAtRow, AtRow
<1>5. TagsAtHost'
  <2>1. AtHost(c)'
    BY <1>h DEF AtHost
  <2> QED
    BY <1>i, <2>1, AtHostOthers DEF PutApplied
<1>6. OrphansSound'
  BY <1>f, OrphansKept DEF PutApplied, OrphansSound
<1>7. RowsOnce'
  <2>0. /\ wrote'[c] = wrote[c] \union {row[c]}
        /\ \A d \in Calls : d # c => wrote'[d] = wrote[d]
    BY <1>e DEF TypeOK
  <2>1. Untouched(c, row[c])
    BY <1>d DEF RowsOnce
  <2>2. ASSUME NEW d \in Calls, Edits(d), pc'[d] # "cancelled", NEW i \in Rows,
               result'[d][i] \in {"pending", "planned"}
        PROVE  Untouched(d, i)'
    <3>1. ~(d = c /\ i = row[c]) /\ Untouched(d, i)
      BY <1>d, <1>g, <1>h, <2>2 DEF RowsOnce
    <3> QED
      BY <2>0, <3>1 DEF Untouched, PutApplied
  <2>3. ASSUME NEW n \in orphans, Edits(n.call)
        PROVE  n.row \notin wrote'[n.call]
    <3>1. n.call \in Calls /\ n.row \notin wrote[n.call]
      BY <2>3 DEF RowsOnce, TypeOK, Message
    <3> QED
      BY <2>0, <2>1, <3>1 DEF Untouched
  <2> QED
    BY <2>2, <2>3 DEF RowsOnce, PutApplied, Edits
<1> QED
  BY <1>1, <1>2, <1>3, <1>4, <1>5, <1>6, <1>7

LEMMA RowFailsKeeps ==
    ASSUME Inv, NEW c \in Calls, RowFails(c)
    PROVE  Inv'
<1> USE DEF Inv
<1>0. InventoryMoves
  BY StillMoves DEF RowFails
<1>d. Edits(c) /\ req[c].confirm /\ pc[c] \in {"read", "put"}
  BY DEF RowFails, EditAtRow, AtRow
<1>g. /\ result' \in [Calls -> [Rows -> {"pending", "planned", "noop", "error",
                                         "applied", "failed"}]]
      /\ result'[c][row[c]] = "failed"
      /\ \A d \in Calls : \A i \in Rows :
           result'[d][i] = IF d = c /\ i = row[c] THEN "failed" ELSE result[d][i]
  BY OutcomeType DEF RowFails
<1>h. /\ row' \in [Calls -> Rows]
      /\ pc' \in [Calls -> {"idle", "resolve", "read", "put", "assign", "untag",
                            "fetch", "refresh", "done", "cancelled"}]
      /\ \A d \in Calls : d # c => row'[d] = row[d] /\ pc'[d] = pc[d]
      /\ \/ pc'[c] = "done"
         \/ pc'[c] = "read" /\ req[c].confirm /\ result'[c][row'[c]] = "planned"
  BY ApplyAdvances, AdvancedType DEF RowFails
<1>i. OthersStay(c)
  BY <1>g, <1>h DEF RowFails, OthersStay
<1>j. /\ orphans' \subseteq Message
      /\ OrphansSound'
      /\ RowsOnce'
      /\ \A d \in Calls : d # c /\ pc[d] \in {"idle", "resolve"} =>
           \A m \in orphans' : m.call # d
  BY <1>d, <1>g, <1>i, OrphaningKeeps DEF RowFails
<1>1. TypeOK'
  BY <1>g, <1>h, <1>j DEF RowFails, TypeOK, inventory
<1>2. TokenFaithful'
  BY <1>0, TokenKept DEF RowFails
<1>3. PlanSound'
  BY <1>0, <1>g, PlansKept DEF RowFails
<1>4. EditAtRow'
  <2>1. AtRow(c)'
    BY <1>d, <1>h DEF RowFails, AtRow, Edits
  <2> QED
    BY <1>i, <1>j, <2>1, AtRowOthers DEF RowFails
<1>5. TagsAtHost'
  <2>1. AtHost(c)'
    BY <1>h DEF AtHost
  <2> QED
    BY <1>i, <2>1, AtHostOthers DEF RowFails
<1> QED
  BY <1>1, <1>2, <1>3, <1>4, <1>5, <1>j
LEMMA TagTargetKeeps ==
    ASSUME Inv, NEW c \in Calls, TagTarget(c)
    PROVE  Inv'
<1> USE DEF Inv
<1>0. InventoryMoves
  BY StillMoves DEF TagTarget
<1>a. PICK h \in Hosts :
        /\ Resolves(c, h)
        /\ target' = [target EXCEPT ![c][1] = h]
        /\ cur' = [cur EXCEPT ![c] = Snapshot(c, h)]
        /\ \E at \in IF WritesTags(c) = "untag" THEN {Removes(tagsOf[h]), "fetch"}
                     ELSE {WritesTags(c)} :
             /\ pc' = [pc EXCEPT ![c] = at]
             /\ todo' = [todo EXCEPT ![c] = IF at = "fetch" THEN {} ELSE tagsOf[h]]
  BY DEF TagTarget
<1>b. /\ pc[c] = "resolve" /\ req[c].tool = "settags" /\ ~Edits(c) /\ row[c] = 1
  BY DEF TagTarget, Edits, TagsAtHost, AtHost
<1>c. Snapshot(c, h) \in Snapshots /\ Snapshot(c, h).id = h
  BY DEF Snapshot, Snapshots, TypeOK
<1>d. /\ cur' \in [Calls -> Snapshots] /\ cur'[c] = Snapshot(c, h)
      /\ \A d \in Calls : d # c => cur'[d] = cur[d]
  BY <1>a, <1>c DEF TypeOK
<1>e. /\ pc' \in [Calls -> {"idle", "resolve", "read", "put", "assign", "untag",
                            "fetch", "refresh", "done", "cancelled"}]
      /\ pc'[c] \in {"fetch", "refresh", "assign", "untag"}
      /\ pc'[c] = "assign" => req[c].tags # {}
      /\ pc'[c] \in {"fetch", "untag"} => req[c].tags = {}
      /\ \A d \in Calls : d # c => pc'[d] = pc[d]
  <2>1. PICK at : /\ at \in IF WritesTags(c) = "untag" THEN {Removes(tagsOf[h]), "fetch"}
                           ELSE {WritesTags(c)}
                  /\ pc' = [pc EXCEPT ![c] = at]
    BY <1>a
  <2>2. /\ at \in {"fetch", "refresh", "assign", "untag"}
        /\ at = "assign" => req[c].tags # {}
        /\ at \in {"fetch", "untag"} => req[c].tags = {}
    BY <2>1 DEF WritesTags, Removes
  <2> QED BY <2>1, <2>2 DEF TypeOK
<1>f. 1 \in Rows
  BY <1>b DEF TypeOK
<1>g. /\ target' \in [Calls -> [Rows -> Hosts \union {NoHost}]]
      /\ \A d \in Calls : d # c => \A i \in Rows : target'[d][i] = target[d][i]
  BY <1>a, <1>f DEF TypeOK
<1>h. todo' \in [Calls -> SUBSET Tags]
  <2>1. PICK T \in SUBSET Tags : todo' = [todo EXCEPT ![c] = T]
    BY <1>a DEF TypeOK
  <2> QED BY <2>1 DEF TypeOK
<1>i. OthersStay(c)
  BY <1>d, <1>e, <1>g DEF TagTarget, OthersStay
<1>1. TypeOK'
  BY <1>d, <1>e, <1>g, <1>h DEF TagTarget, TypeOK, inventory
<1>2. TokenFaithful'
  BY <1>0, <1>d, TokenKept DEF TagTarget
<1>3. PlanSound'
  BY <1>0, <1>b, <1>g, PlansKept DEF TagTarget
<1>4. EditAtRow'
  <2>1. AtRow(c)'
    BY <1>e DEF AtRow
  <2> QED
    BY <1>i, <2>1, AtRowOthers DEF TagTarget, EditAtRow, AtRow
<1>5. TagsAtHost'
  <2>1. InScope(h)
    BY <1>a DEF Resolves
  <2>2. AtHost(c)'
    BY <1>b, <1>c, <1>d, <1>e, <2>1 DEF TagTarget, AtHost, InScope
  <2> QED
    BY <1>i, <2>2, AtHostOthers DEF TagTarget
<1>6. OrphansSound'
  BY <1>0, OrphansKept DEF TagTarget, OrphansSound
<1>7. RowsOnce'
  BY <1>b, <1>e, RowsOnceStill DEF TagTarget, RowsOnce
<1> QED
  BY <1>1, <1>2, <1>3, <1>4, <1>5, <1>6, <1>7

LEMMA FetchTagsKeeps ==
    ASSUME Inv, NEW c \in Calls, FetchTags(c)
    PROVE  Inv'
<1> USE DEF Inv
<1>0. InventoryMoves
  BY StillMoves DEF FetchTags
<1>a. /\ pc[c] = "fetch" /\ req[c].tool = "settags" /\ ~Edits(c) /\ row[c] = 1
      /\ req[c].tags = {} /\ cur[c].id \in Hosts /\ InScope(cur[c].id)
  BY DEF FetchTags, Edits, TagsAtHost, AtHost
<1>b. /\ pc' \in [Calls -> {"idle", "resolve", "read", "put", "assign", "untag",
                            "fetch", "refresh", "done", "cancelled"}]
      /\ pc'[c] \in {"refresh", "untag"}
      /\ \A d \in Calls : d # c => pc'[d] = pc[d]
  BY DEF FetchTags, Removes, TypeOK
<1>c. todo' \in [Calls -> SUBSET Tags]
  BY <1>a DEF FetchTags, TypeOK
<1>d. OthersStay(c)
  BY <1>b DEF FetchTags, OthersStay
<1>1. TypeOK'
  BY <1>b, <1>c DEF FetchTags, TypeOK, inventory
<1>2. TokenFaithful'
  BY <1>0, TokenKept DEF FetchTags
<1>3. PlanSound'
  BY <1>0, PlansKept DEF FetchTags
<1>4. EditAtRow'
  <2>1. AtRow(c)'
    BY <1>b DEF AtRow
  <2> QED
    BY <1>d, <2>1, AtRowOthers DEF FetchTags, EditAtRow, AtRow
<1>5. TagsAtHost'
  <2>1. AtHost(c)'
    BY <1>a, <1>b DEF FetchTags, AtHost, InScope
  <2> QED
    BY <1>d, <2>1, AtHostOthers DEF FetchTags
<1>6. OrphansSound'
  BY <1>0, OrphansKept DEF FetchTags, OrphansSound
<1>7. RowsOnce'
  BY <1>a, <1>b, RowsOnceStill DEF FetchTags, RowsOnce
<1> QED
  BY <1>1, <1>2, <1>3, <1>4, <1>5, <1>6, <1>7

LEMMA TagsWrittenKeeps ==
    ASSUME Inv, NEW c \in Calls, TagsWritten(c)
    PROVE  Inv'
<1> USE DEF Inv
<1>a. PICK m \in InFlight(c) :
        Serve(m) /\ todo' = [todo EXCEPT ![c] = @ \ m.tags]
  BY DEF TagsWritten
<1>b. Sound(m) /\ m.call = c /\ m.row = row[c]
  BY InFlightSound
<1>c. /\ InventoryMoves /\ alive' = alive /\ env' = env
      /\ fresh' \in [Calls -> SUBSET Tags] /\ wrote' \in [Calls -> SUBSET Rows]
  BY <1>a, <1>b, ServeMoves
<1>d. \A d \in Calls : d # c => wrote'[d] = wrote[d]
  BY <1>a, <1>b DEF Serve, TypeOK
<1>e. /\ pc[c] \in {"assign", "untag"} /\ req[c].tool = "settags" /\ ~Edits(c)
      /\ row[c] = 1 /\ cur[c].id \in Hosts /\ InScope(cur[c].id)
      /\ pc[c] = "untag" => req[c].tags = {}
  BY DEF TagsWritten, TagsAtHost, AtHost, Edits
<1>f. /\ pc' \in [Calls -> {"idle", "resolve", "read", "put", "assign", "untag",
                            "fetch", "refresh", "done", "cancelled"}]
      /\ pc'[c] = "refresh" \/ (pc'[c] = "untag" /\ pc[c] = "untag")
      /\ \A d \in Calls : d # c => pc'[d] = pc[d]
  BY <1>e DEF TagsWritten, TypeOK
<1>g. todo' \in [Calls -> SUBSET Tags]
  BY <1>a DEF TypeOK
<1>i. OthersStay(c)
  BY <1>f DEF TagsWritten, OthersStay
<1>1. TypeOK'
  BY <1>c, <1>f, <1>g DEF TagsWritten, TypeOK, InventoryMoves
<1>2. TokenFaithful'
  BY <1>c, TokenKept DEF TagsWritten
<1>3. PlanSound'
  BY <1>c, PlansKept DEF TagsWritten
<1>4. EditAtRow'
  <2>1. AtRow(c)'
    BY <1>f DEF AtRow
  <2> QED
    BY <1>d, <1>i, <2>1, AtRowOthers DEF TagsWritten, EditAtRow, AtRow
<1>5. TagsAtHost'
  <2>1. AtHost(c)'
    BY <1>e, <1>f DEF TagsWritten, AtHost, InScope
  <2> QED
    BY <1>i, <2>1, AtHostOthers DEF TagsWritten
<1>6. OrphansSound'
  BY <1>c, OrphansKept DEF TagsWritten, OrphansSound
<1>7. RowsOnce'
  <2>1. ASSUME NEW d \in Calls, Edits(d)
        PROVE  d # c /\ wrote'[d] = wrote[d] /\ pc'[d] = pc[d]
    BY <1>d, <1>e, <1>f, <2>1
  <2>2. \A n \in orphans : n.call \in Calls
    BY DEF TypeOK, Message
  <2> QED
    BY <2>1, <2>2 DEF TagsWritten, RowsOnce, Untouched, Edits
<1> QED
  BY <1>1, <1>2, <1>3, <1>4, <1>5, <1>6, <1>7

\* The steps that end a call without handling anything.
LEMMA EndingKeeps ==
    ASSUME Inv, NEW c \in Calls, NEW end \in {"done", "cancelled"},
           pc[c] # "cancelled",
           pc' = [pc EXCEPT ![c] = end],
           ~Edits(c) \/ end = "cancelled",
           UNCHANGED <<inventory, env, req, row, cur, target, todo, wrote, fresh>>,
           result' \in [Calls -> [Rows -> {"pending", "planned", "noop", "error",
                                           "applied", "failed"}]],
           \A d \in Calls : d # c \/ Edits(d) =>
             \A i \in Rows : result'[d][i] = result[d][i],
           \/ orphans' = orphans
           \/ \E m \in InFlight(c) : orphans' = orphans \union {m}
    PROVE  Inv'
<1> USE DEF Inv
<1>0. InventoryMoves
  BY StillMoves
<1>a. /\ pc' \in [Calls -> {"idle", "resolve", "read", "put", "assign", "untag",
                            "fetch", "refresh", "done", "cancelled"}]
      /\ pc'[c] = end
      /\ \A d \in Calls : d # c => pc'[d] = pc[d]
  BY DEF TypeOK
<1>b. OthersStay(c)
  BY <1>a DEF OthersStay
<1>c. /\ orphans' \subseteq Message
      /\ OrphansSound'
      /\ RowsOnce'
      /\ \A d \in Calls : d # c /\ pc[d] \in {"idle", "resolve"} =>
           \A m \in orphans' : m.call # d
  BY <1>a, <1>b, OrphaningKeeps
<1>1. TypeOK'
  BY <1>a, <1>c DEF TypeOK, inventory
<1>2. TokenFaithful'
  BY <1>0, TokenKept
<1>3. PlanSound'
  BY <1>0, PlansKept
<1>4. EditAtRow'
  <2>1. AtRow(c)'
    BY <1>a DEF AtRow
  <2> QED
    BY <1>b, <1>c, <2>1, AtRowOthers
<1>5. TagsAtHost'
  <2>1. AtHost(c)'
    BY <1>a DEF AtHost
  <2> QED
    BY <1>b, <2>1, AtHostOthers
<1> QED
  BY <1>1, <1>2, <1>3, <1>4, <1>5, <1>c

LEMMA EndKeeps ==
    ASSUME Inv, NEW c \in Calls, Refresh(c) \/ TagsFail(c) \/ Cancelled(c)
    PROVE  Inv'
<1>0. TypeOK
  BY DEF Inv
<1>1. CASE Refresh(c)
  <2>1. pc[c] = "refresh"
    BY <1>1 DEF Refresh
  <2>2. Outcome(c, "applied")
    BY <1>1 DEF Refresh
  <2>3. ~Edits(c)
    BY <2>1 DEF Inv, TagsAtHost, AtHost, Edits
  <2>4. /\ result' \in [Calls -> [Rows -> {"pending", "planned", "noop", "error",
                                           "applied", "failed"}]]
        /\ \A d \in Calls : d # c \/ Edits(d) =>
             \A i \in Rows : result'[d][i] = result[d][i]
    BY <1>0, <2>2, <2>3, OutcomeType
  <2>5. pc' = [pc EXCEPT ![c] = "done"] /\ orphans' = orphans
        /\ UNCHANGED <<inventory, env, req, row, cur, target, todo, wrote, fresh>>
    BY <1>1 DEF Refresh
  <2> QED
    BY <2>1, <2>3, <2>4, <2>5, EndingKeeps
<1>2. CASE TagsFail(c)
  <2>1. Outcome(c, "failed") /\ ~Edits(c) /\ pc[c] # "cancelled"
    BY <1>2 DEF TagsFail, Edits
  <2>2. /\ result' \in [Calls -> [Rows -> {"pending", "planned", "noop", "error",
                                           "applied", "failed"}]]
        /\ \A d \in Calls : d # c \/ Edits(d) =>
             \A i \in Rows : result'[d][i] = result[d][i]
    BY <1>0, <2>1, OutcomeType
  <2> QED
    BY <1>2, <2>1, <2>2, EndingKeeps DEF TagsFail
<1>3. CASE Cancelled(c)
  BY <1>0, <1>3, EndingKeeps DEF Cancelled, TypeOK
<1> QED
  BY <1>1, <1>2, <1>3

LEMMA OrphanLandsKeeps ==
    ASSUME Inv, OrphanLands
    PROVE  Inv'
<1> USE DEF Inv
<1>a. PICK m \in orphans : Serve(m) /\ orphans' = orphans \ {m} /\ UNCHANGED progress
  BY DEF OrphanLands
<1>b. Sound(m) /\ m.call \in Calls /\ m.row \in Rows
  BY DEF OrphansSound, TypeOK, Message
<1>c. /\ InventoryMoves /\ alive' = alive /\ env' = env
      /\ fresh' \in [Calls -> SUBSET Tags] /\ wrote' \in [Calls -> SUBSET Rows]
  BY <1>a, <1>b, ServeMoves
<1>d. /\ wrote'[m.call] = wrote[m.call] \union {m.row}
      /\ \A d \in Calls : d # m.call => wrote'[d] = wrote[d]
  BY <1>a, <1>b DEF Serve, TypeOK
<1>e. UNCHANGED <<req, pc, row, cur, target, result, todo>>
  BY <1>a DEF progress
<1>1. TypeOK'
  BY <1>a, <1>c, <1>e DEF TypeOK, InventoryMoves
<1>2. TokenFaithful'
  BY <1>c, <1>e, TokenKept
<1>3. PlanSound'
  BY <1>c, <1>e, PlansKept
<1>4. EditAtRow'
  BY <1>a, <1>d, <1>e DEF EditAtRow, AtRow, Edits
<1>5. TagsAtHost'
  BY <1>e DEF TagsAtHost, AtHost, Edits, InScope
<1>6. OrphansSound'
  BY <1>a, <1>c, <1>e, OrphansKept DEF OrphansSound
<1>7. RowsOnce'
  <2>1. ASSUME NEW d \in Calls, Edits(d), pc[d] # "cancelled", NEW i \in Rows,
               result[d][i] \in {"pending", "planned"}
        PROVE  i \notin wrote'[d] /\ \A n \in orphans' : ~(n.call = d /\ n.row = i)
    BY <1>a, <1>d, <2>1 DEF RowsOnce, Untouched
  <2>2. ASSUME NEW n \in orphans', Edits(n.call)
        PROVE  /\ n.row \notin wrote'[n.call]
               /\ \A k \in orphans' : k.call = n.call /\ k.row = n.row => k = n
    <3>1. n \in orphans /\ n # m /\ n.call \in Calls
      BY <1>a, <2>2 DEF TypeOK, Message
    <3>2. ~(n.call = m.call /\ n.row = m.row)
      BY <2>2, <3>1 DEF RowsOnce
    <3> QED
      BY <1>a, <1>d, <2>2, <3>1, <3>2 DEF RowsOnce
  <2> QED
    BY <1>e, <2>1, <2>2 DEF RowsOnce, Untouched, Edits
<1> QED
  BY <1>1, <1>2, <1>3, <1>4, <1>5, <1>6, <1>7

LEMMA WorldKeeps ==
    ASSUME Inv, World
    PROVE  Inv'
<1> USE DEF Inv
<1>a. InventoryMoves /\ env' \in 0..MaxEnv /\ fresh' \in [Calls -> SUBSET Tags]
  BY WorldMoves
<1>b. UNCHANGED <<orphans, wrote, req, pc, row, cur, target, result, todo>>
  BY DEF World, progress
<1>1. TypeOK'
  BY <1>a, <1>b DEF TypeOK, InventoryMoves
<1>2. TokenFaithful'
  BY <1>a, <1>b, TokenKept
<1>3. PlanSound'
  BY <1>a, <1>b, PlansKept
<1>4. EditAtRow'
  BY <1>b DEF EditAtRow, AtRow, Edits
<1>5. TagsAtHost'
  BY <1>b DEF TagsAtHost, AtHost, Edits, InScope
<1>6. OrphansSound'
  BY <1>a, <1>b, OrphansKept DEF OrphansSound
<1>7. RowsOnce'
  BY <1>b DEF RowsOnce, Untouched, Edits
<1> QED
  BY <1>1, <1>2, <1>3, <1>4, <1>5, <1>6, <1>7

LEMMA StutterKeeps ==
    ASSUME Inv, UNCHANGED vars
    PROVE  Inv'
<1> USE DEF Inv, vars
<1>0. InventoryMoves
  BY StillMoves DEF inventory
<1>1. TypeOK'
  BY DEF TypeOK
<1>2. TokenFaithful'
  BY <1>0, TokenKept
<1>3. PlanSound'
  BY <1>0, PlansKept
<1>4. EditAtRow'
  BY DEF EditAtRow, AtRow, Edits
<1>5. TagsAtHost'
  BY DEF TagsAtHost, AtHost, Edits, InScope
<1>6. OrphansSound'
  BY <1>0, OrphansKept DEF OrphansSound
<1>7. RowsOnce'
  BY DEF RowsOnce, Untouched, Edits
<1> QED
  BY <1>1, <1>2, <1>3, <1>4, <1>5, <1>6, <1>7
-----------------------------------------------------------------------------
\* The invariant.

LEMMA InitInv ==
    ASSUME Init
    PROVE  Inv
<1>1. TypeOK
  <2>1. field \in [Hosts -> [Fields -> Values]] /\ tagsOf \in [Hosts -> SUBSET Tags]
    BY HostsAssumption DEF Init
  <2>2. \A c \in Calls : req[c] \in Requests /\ 1 \in Rows
    <3>1. \A c \in Calls : req[c] \in Requests
      BY DEF Init
    <3> QED
      BY <3>1, RequestsAssumption, HostsAssumption DEF Rows
  <2>3. cur \in [Calls -> Snapshots]
    BY HostsAssumption DEF Init, Snapshots
  <2>4. /\ req \in [Calls -> Requests]
        /\ row \in [Calls -> Rows]
        /\ target \in [Calls -> [Rows -> Hosts \union {NoHost}]]
        /\ result \in [Calls -> [Rows -> {"pending", "planned", "noop", "error",
                                          "applied", "failed"}]]
    BY <2>2 DEF Init
  <2>5. /\ alive \subseteq Hosts /\ ver \in [Hosts -> Nat] /\ env \in 0..MaxEnv
        /\ orphans \subseteq Message
        /\ pc \in [Calls -> {"idle", "resolve", "read", "put", "assign", "untag",
                             "fetch", "refresh", "done", "cancelled"}]
    BY HostsAssumption DEF Init
  <2>6. /\ todo \in [Calls -> SUBSET Tags]
        /\ wrote \in [Calls -> SUBSET Rows]
        /\ fresh \in [Calls -> SUBSET Tags]
    BY DEF Init
  <2> QED
    BY <2>1, <2>3, <2>4, <2>5, <2>6 DEF TypeOK
<1>2. \A c \in Calls : Len(req[c].rows) \in 1..MaxRows
  BY <1>1, RowType
<1>3. TokenFaithful /\ PlanSound /\ OrphansSound /\ RowsOnce
  BY DEF Init, TokenFaithful, PlanSound, OrphansSound, RowsOnce, Untouched
<1>4. EditAtRow
  BY <1>2, HostsAssumption DEF Init, EditAtRow, AtRow
<1>5. TagsAtHost
  BY DEF Init, TagsAtHost, AtHost
<1> QED
  BY <1>1, <1>3, <1>4, <1>5 DEF Inv

LEMMA NextInv ==
    ASSUME Inv, [Next]_vars
    PROVE  Inv'
<1>1. CASE UNCHANGED vars
  BY <1>1, StutterKeeps
<1>2. ASSUME NEW c \in Calls, CallStep(c) \/ Cancelled(c)
      PROVE  Inv'
  BY <1>2, StartKeeps, PlanRowKeeps, RefuseRowKeeps, ReadCurrentKeeps, PutAppliedKeeps,
     RowFailsKeeps, TagTargetKeeps, FetchTagsKeeps, TagsWrittenKeeps, EndKeeps DEF CallStep
<1>3. CASE OrphanLands
  BY <1>3, OrphanLandsKeeps
<1>4. CASE World
  BY <1>4, WorldKeeps
<1> QED
  BY <1>1, <1>2, <1>3, <1>4 DEF Next, Finished

\* Inv holds in every reachable state.
THEOREM InvHolds == Spec => []Inv
  BY InitInv, NextInv, PTL DEF Spec

\* Every variable keeps its type, whatever the hosts, calls and requests.
THEOREM TypeCorrect == Spec => []TypeOK
<1>1. Inv => TypeOK
  BY DEF Inv
<1> QED
  BY <1>1, InvHolds, PTL

\* The record and the token a call holds always belong to each other, whatever
\* scans, operators and other calls do between its read and its PUT.
THEOREM TokensAreFaithful == Spec => []TokenFaithful
<1>1. Inv => TokenFaithful
  BY DEF Inv
<1> QED
  BY <1>1, InvHolds, PTL
-----------------------------------------------------------------------------
\* What a handled write does, in the terms of the promise.

\* A PUT the server accepts is exactly its patch on the host as it is now.
LEMMA AcceptedPut ==
    ASSUME Inv, NEW m, Sound(m), Serve(m), m.kind = "put"
    PROVE  /\ PutSound(m)
           /\ m.f = Payload(req[m.call].rows[m.row].patch, field[m.id])
           /\ TokenCoversTags => m.tags = tagsOf[m.id]
           /\ field' = [field EXCEPT ![m.id] = m.f]
           /\ tagsOf' = [tagsOf EXCEPT ![m.id] = m.tags]
<1>1. PutSound(m) /\ ServePut(m)
  BY DEF Sound, Serve, ServeTags
<1>2. m.ver = ver[m.id]
  BY <1>1 DEF ServePut, PutSound, NoToken
<1> QED
  BY <1>1, <1>2 DEF PutSound, ServePut, Retag

\* No write of Arborist changes a discovered field.
LEMMA ServeOwns ==
    ASSUME Inv, NEW m, Sound(m), Serve(m)
    PROVE  \A h \in Hosts : \A f \in Discovered : field'[h][f] = field[h][f]
<1>1. TypeOK /\ m \in Message /\ m.id \in Hosts /\ m.call \in Calls
  BY DEF Inv, Sound, Message
<1>2. CASE m.kind = "put"
  <2>1. /\ Chosen(m.call, m.row, m.id)
        /\ m.f = Payload(req[m.call].rows[m.row].patch, field[m.id])
        /\ field' = [field EXCEPT ![m.id] = m.f]
    BY <1>2, AcceptedPut DEF PutSound
  <2>2. req[m.call].rows[m.row].patch \in Patches
    BY <1>1, <2>1, RowType DEF Chosen, UpdateRow
  <2>3. field[m.id] \in [Fields -> Values]
    BY <1>1 DEF TypeOK
  <2>4. \A f \in Discovered : m.f[f] = field[m.id][f]
    BY <2>1, <2>2, <2>3, PayloadType
  <2> QED
    BY <1>1, <2>1, <2>4 DEF TypeOK
<1>3. CASE m.kind # "put"
  BY <1>3 DEF Serve, ServePut, ServeTags
<1> QED
  BY <1>2, <1>3

\* A handled write that has not been handled before is a Curate or a SetTags.
LEMMA ServePromised ==
    ASSUME Inv, NEW m, Sound(m), Serve(m), req' = req,
           Edits(m.call) => m.row \notin wrote[m.call]
    PROVE  Promise!Next
<1>1. TypeOK /\ m \in Message /\ m.id \in Hosts /\ m.call \in Calls /\ m.row \in Rows
      /\ m.id \in alive
  BY DEF Inv, Sound, Message, Serve
<1>2. /\ alive' = alive /\ env' = env
      /\ wrote' = [wrote EXCEPT ![m.call] = @ \union {m.row}]
  BY DEF Serve
<1>3. CASE m.kind = "put"
  <2>1. /\ PutSound(m)
        /\ m.f = Payload(req[m.call].rows[m.row].patch, field[m.id])
        /\ TokenCoversTags => m.tags = tagsOf[m.id]
        /\ field' = [field EXCEPT ![m.id] = m.f]
        /\ tagsOf' = [tagsOf EXCEPT ![m.id] = m.tags]
    BY <1>3, AcceptedPut
  <2>2. Chosen(m.call, m.row, m.id) /\ Edits(m.call) /\ req[m.call].confirm
    BY <2>1 DEF PutSound
  <2>3. DOMAIN field[m.id] = Fields
    BY <1>1 DEF TypeOK
  <2>4. m.f = Promise!Overlaid(req[m.call].rows[m.row].patch, field[m.id])
    BY <2>1, <2>3 DEF Payload, Promise!Overlaid
  <2>5. field' = [field EXCEPT ![m.id] =
                    Promise!Overlaid(req[m.call].rows[m.row].patch, @)]
    BY <2>1, <2>4
  <2>6. /\ \A g \in DOMAIN tagsOf \ {m.id} : tagsOf'[g] = tagsOf[g]
        /\ TokenCoversTags => tagsOf' = tagsOf
    BY <1>1, <2>1 DEF TypeOK
  <2>7. m.row \in 1..Len(req[m.call].rows) \ wrote[m.call]
    BY <2>2 DEF Chosen
  <2>8. Promise!Curate(m.call, m.row, m.id)
    BY <1>1, <1>2, <2>2, <2>5, <2>6, <2>7
    DEF Promise!Curate, Promise!Allowed, Promise!Names, Chosen, InScope, Edits
  <2> QED
    BY <1>1, <2>7, <2>8 DEF Promise!Next
<1>4. CASE m.kind # "put"
  <2>1. TagsSound(m) /\ ServeTags(m)
    BY <1>1, <1>4 DEF Sound, Serve, ServePut, Message
  <2> DEFINE T == IF m.kind = "untag" THEN tagsOf[m.id] \ m.tags
                  ELSE IF m.tags = {} THEN tagsOf[m.id] ELSE m.tags
  <2>2. tagsOf' = [tagsOf EXCEPT ![m.id] = T] /\ field' = field
    BY <2>1 DEF ServeTags, Retag
  <2>3. /\ T \in SUBSET (tagsOf[m.id] \union req[m.call].tags)
        /\ IF req[m.call].tags = {} THEN T \subseteq tagsOf[m.id]
           ELSE T = req[m.call].tags
    BY <1>1, <1>4, <2>1 DEF TagsSound, ServeTags
  <2> HIDE DEF T
  <2>4. Promise!SetTags(m.call, m.id)
    BY <1>1, <1>2, <2>1, <2>2, <2>3
    DEF Promise!SetTags, Promise!Allowed, TagsSound, InScope
  <2> QED
    BY <1>1, <2>4 DEF Promise!Next
<1> QED
  BY <1>3, <1>4

\* Which steps have a write handled: the others leave the inventory alone.
LEMMA StepServes ==
    ASSUME Inv, Next
    PROVE  \/ \E m \in Message : Sound(m) /\ Serve(m) /\ req' = req
                                 /\ (Edits(m.call) => m.row \notin wrote[m.call])
           \/ World
           \/ UNCHANGED <<alive, field, tagsOf, req, wrote, env>>
<1>1. ASSUME NEW c \in Calls, PutApplied(c)
      PROVE  \E m \in Message : Sound(m) /\ Serve(m) /\ req' = req
                                /\ (Edits(m.call) => m.row \notin wrote[m.call])
  <2>1. PutMessage(c) \in InFlight(c) /\ Serve(PutMessage(c)) /\ req' = req
    BY <1>1 DEF PutApplied, InFlight
  <2>2. Sound(PutMessage(c)) /\ PutMessage(c).call = c /\ PutMessage(c).row = row[c]
    BY <2>1, InFlightSound
  <2>3. row[c] \notin wrote[c]
    BY <1>1 DEF PutApplied, Inv, TypeOK, EditAtRow, AtRow, RowsOnce, Untouched
  <2> QED
    BY <2>1, <2>2, <2>3 DEF Sound
<1>2. ASSUME NEW c \in Calls, TagsWritten(c)
      PROVE  \E m \in Message : Sound(m) /\ Serve(m) /\ req' = req
                                /\ (Edits(m.call) => m.row \notin wrote[m.call])
  <2>1. PICK m \in InFlight(c) : Serve(m) /\ req' = req
    BY <1>2 DEF TagsWritten
  <2>2. Sound(m) /\ m.call = c
    BY <2>1, InFlightSound
  <2>3. ~Edits(c)
    BY <1>2 DEF TagsWritten, Inv, TagsAtHost, AtHost, Edits
  <2> QED
    BY <2>1, <2>2, <2>3 DEF Sound
<1>3. CASE OrphanLands
  <2>1. PICK m \in orphans : Serve(m) /\ req' = req
    BY <1>3 DEF OrphanLands, progress
  <2> QED
    BY <2>1 DEF Inv, OrphansSound, RowsOnce, Sound
<1>4. ASSUME NEW c \in Calls,
             \/ Start(c) \/ PlanRow(c) \/ RefuseRow(c) \/ ReadCurrent(c) \/ RowFails(c)
             \/ TagTarget(c) \/ FetchTags(c) \/ Refresh(c) \/ TagsFail(c) \/ Cancelled(c)
      PROVE  UNCHANGED <<alive, field, tagsOf, req, wrote, env>>
  BY <1>4 DEF Start, PlanRow, RefuseRow, ReadCurrent, RowFails, TagTarget, FetchTags, Refresh,
     TagsFail, Cancelled, inventory
<1>5. CASE Finished
  BY <1>5 DEF Finished, vars
<1> QED
  BY <1>1, <1>2, <1>3, <1>4, <1>5 DEF Next, CallStep

\* No step but the world's own changes a discovered value of any host.
THEOREM DiscoveredIsTheScanners == Spec => ScannerOwnsDiscovered
<1>1. ASSUME Inv, [Next]_vars
      PROVE  [env' = env => \A h \in Hosts : \A f \in Discovered :
                              field'[h][f] = field[h][f]]_vars
  <2>1. CASE Next
    <3>1. World => env' # env
      BY <1>1 DEF World, Inv, TypeOK
    <3> QED
      BY <1>1, <2>1, <3>1, StepServes, ServeOwns
  <2> QED
    BY <1>1, <2>1
<1> QED
  BY <1>1, InvHolds, PTL DEF Spec, ScannerOwnsDiscovered

\* HostWrites implements Overlay: every handled write is one row of a confirmed
\* request, applied once, in scope, as exactly its patch.
THEOREM OverlayImplemented == Spec => ImplementsOverlay
<1>1. Init => Promise!Init
  BY DEF Init, Promise!Init
<1>2. ASSUME Inv, [Next]_vars
      PROVE  [Promise!Next]_Promise!ovars
  <2>1. CASE UNCHANGED vars
    BY <2>1 DEF vars, Promise!ovars
  <2>2. CASE Next
    <3>1. World => Promise!World
      BY <1>2 DEF World, Scanned, OperatorEdits, HostChanges, OperatorTags, Retire,
         progress, Promise!World
    <3> QED
      BY <1>2, <2>2, <3>1, StepServes, ServePromised DEF Promise!Next, Promise!ovars
  <2> QED
    BY <1>2, <2>1, <2>2
<1> QED
  BY <1>1, <1>2, InvHolds, PTL DEF Spec, ImplementsOverlay, Promise!Spec
=============================================================================
