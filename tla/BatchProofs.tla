----------------------------- MODULE BatchProofs -----------------------------
(***************************************************************************)
(* What the host-writing tools report is what happened: the two properties *)
(* of HostWrites about whole calls, for every inventory and every request. *)
(*                                                                         *)
(* They speak of calls that have returned, and so are not inductive: the   *)
(* invariants here say what holds of a call at each of its awaits, and     *)
(* that a request given up on belongs to a row reported as failed.         *)
(***************************************************************************)
EXTENDS HostWritesProofs

\* How far the rows of a batch are accounted for.
Accounted(c) ==
    Edits(c) =>
      /\ ~req[c].confirm => wrote[c] = {}
      /\ pc[c] # "cancelled" =>
           /\ \A i \in Rows : i \in wrote[c] => result[c][i] \in {"applied", "failed"}
           /\ \A i \in Rows : result[c][i] = "applied" => i \in wrote[c]
           /\ \A m \in orphans : m.call = c => result[c][m.row] = "failed"
           /\ pc[c] \in {"idle", "resolve"} =>
                \A i \in Rows : i < row[c] => result[c][i] # "pending"
           /\ pc[c] \in {"read", "put", "done"} =>
                \A i \in 1..Len(req[c].rows) : result[c][i] # "pending"
           /\ pc[c] \in {"read", "put"} =>
                \A i \in Rows : i < row[c] => result[c][i] # "planned"
           /\ pc[c] = "done" /\ req[c].confirm => \A i \in Rows : result[c][i] # "planned"

\* The host of a set_host_tags that has written its last tag, or a tag it has
\* yet to remove.
Replaced(c) ==
    req[c].tool = "settags" =>
      /\ \A m \in orphans :
           m.call = c => pc[c] = "cancelled" \/ (pc[c] = "done" /\ result[c][1] = "failed")
      /\ pc[c] = "refresh" => row[c] = 1
      /\ pc[c] = "untag" => tagsOf[cur[c].id] \subseteq todo[c] \union fresh[c]
      /\ pc[c] = "refresh" \/ (pc[c] = "done" /\ result[c][1] = "applied") =>
           /\ cur[c].id \in Hosts
           /\ tagsOf[cur[c].id] \subseteq req[c].tags \union fresh[c]

BatchInv == Inv /\ \A c \in Calls : Accounted(c) /\ Replaced(c)

-----------------------------------------------------------------------------
\* Where nothing of a call changes, its account stands.
LEMMA AccountStands ==
    ASSUME NEW d \in Calls, Accounted(d), TypeOK, req' = req,
           pc'[d] = pc[d], row'[d] = row[d], wrote'[d] = wrote[d],
           \A i \in Rows : result'[d][i] = result[d][i],
           \A m \in orphans' : m.call = d => m \in orphans
    PROVE  Accounted(d)'
<1>1. \A m \in orphans : m.row \in Rows
  BY DEF TypeOK, Message
<1>2. Edits(d)' <=> Edits(d)
  BY DEF Edits
<1>3. \A i \in 1..Len(req[d].rows) : i \in Rows
  BY RowType
<1> QED BY <1>1, <1>2, <1>3 DEF Accounted

\* Whoever changes the tags of the host of d credits d with the new ones.
Credits(d) ==
    /\ fresh[d] \subseteq fresh'[d]
    /\ cur[d].id \in Hosts =>
         tagsOf'[cur[d].id] \subseteq tagsOf[cur[d].id] \union fresh'[d]

LEMMA RetagCredits ==
    ASSUME TypeOK, NEW watching, NEW h \in Hosts, NEW T \in SUBSET Tags, Retag(watching, h, T),
           NEW d \in Calls, d \in watching, req[d].tool = "settags"
    PROVE  Credits(d)
<1>1. /\ tagsOf' = [tagsOf EXCEPT ![h] = T]
      /\ fresh'[d] = IF cur[d].id = h THEN fresh[d] \union (T \ tagsOf[h]) ELSE fresh[d]
  BY DEF Retag
<1>2. tagsOf \in [Hosts -> SUBSET Tags]
  BY DEF TypeOK
<1>3. CASE cur[d].id = h
  <2>1. tagsOf'[h] = T /\ fresh'[d] = fresh[d] \union (T \ tagsOf[h])
    BY <1>1, <1>2, <1>3
  <2> QED BY <1>3, <2>1 DEF Credits
<1>4. CASE cur[d].id # h
  <2>1. cur[d].id \in Hosts => tagsOf'[cur[d].id] = tagsOf[cur[d].id]
    BY <1>1, <1>2, <1>4
  <2> QED BY <1>1, <1>4, <2>1 DEF Credits
<1> QED BY <1>3, <1>4

LEMMA ServeCredits ==
    ASSUME TypeOK, NEW m \in Message, Serve(m), NEW d \in Calls, d # m.call,
           req[d].tool = "settags"
    PROVE  Credits(d)
<1>1. m.id \in Hosts /\ m.tags \in SUBSET Tags /\ tagsOf[m.id] \in SUBSET Tags
  BY DEF TypeOK, Message
<1>2. \E T \in SUBSET Tags : Retag(Calls \ {m.call}, m.id, T)
  <2>1. CASE ServePut(m)
    BY <1>1, <2>1 DEF ServePut
  <2>2. CASE ServeTags(m)
    <3>1. (IF m.kind = "untag" THEN tagsOf[m.id] \ m.tags
           ELSE IF m.tags = {} THEN tagsOf[m.id] ELSE m.tags) \in SUBSET Tags
      BY <1>1
    <3> QED BY <2>2, <3>1 DEF ServeTags
  <2> QED BY <2>1, <2>2 DEF Serve
<1> QED BY <1>1, <1>2, RetagCredits

LEMMA StillCredits ==
    ASSUME NEW d \in Calls, tagsOf' = tagsOf, fresh' = fresh
    PROVE  Credits(d)
BY DEF Credits

\* Where a call stays and is credited, what it replaced stays replaced.
LEMMA ReplacedStands ==
    ASSUME NEW d \in Calls, Replaced(d), TypeOK, TagsAtHost, req' = req,
           req[d].tool = "settags" => Credits(d),
           pc'[d] = pc[d], row'[d] = row[d], cur'[d] = cur[d], todo'[d] = todo[d],
           \A i \in Rows : result'[d][i] = result[d][i],
           \A m \in orphans' : m.call = d => m \in orphans
    PROVE  Replaced(d)'
<1>1. 1 \in Rows
  BY RowType, HostsAssumption DEF Rows
<1>2. result'[d][1] = result[d][1]
  BY <1>1
<1>3. pc[d] = "untag" => cur[d].id \in Hosts
  BY DEF TagsAtHost, AtHost
<1> QED BY <1>2, <1>3 DEF Replaced, Credits

-----------------------------------------------------------------------------
\* Where the apply loop leaves a batch of which the rows up to i are settled.
LEMMA ApplySettles ==
    ASSUME TypeOK, NEW c \in Calls, NEW i \in Nat, ApplyAfter(c, i),
           \A j \in Rows : j <= i => result'[c][j] # "planned"
    PROVE  \/ /\ pc'[c] = "done"
              /\ req[c].confirm => \A j \in Rows : result'[c][j] # "planned"
           \/ /\ pc'[c] = "read" /\ row'[c] \in Rows /\ req[c].confirm
              /\ \A j \in Rows : j < row'[c] => result'[c][j] # "planned"
<1> DEFINE left == IF req[c].confirm THEN PlannedAfter(result'[c], i) ELSE {}
<1>1. pc \in [Calls -> {"idle", "resolve", "read", "put", "assign", "untag",
                        "fetch", "refresh", "done", "cancelled"}] /\ row \in [Calls -> Rows]
  BY DEF TypeOK
<1>2. Rows \subseteq Nat
  BY HostsAssumption DEF Rows
<1>3. req[c].confirm => \A j \in Rows : result'[c][j] = "planned" <=> j \in left
  BY <1>2 DEF PlannedAfter
<1>4. CASE left = {}
  <2>1. pc'[c] = "done"
    BY <1>1, <1>4 DEF ApplyAfter, Return
  <2> QED BY <1>3, <1>4, <2>1
<1>5. CASE left # {}
  <2>1. PICK j \in left : /\ \A k \in left : j <= k
                          /\ pc' = [pc EXCEPT ![c] = "read"]
                          /\ row' = [row EXCEPT ![c] = j]
    BY <1>5 DEF ApplyAfter, ApplyFirst
  <2>2. req[c].confirm /\ j \in Rows
    BY DEF PlannedAfter
  <2>3. pc'[c] = "read" /\ row'[c] = j
    BY <1>1, <2>1
  <2>4. \A k \in Rows : k < j => k \notin left
    BY <1>2, <2>1, <2>2
  <2> HIDE DEF left
  <2> QED BY <1>3, <2>2, <2>3, <2>4
<1> QED BY <1>4, <1>5

\* The planning loop, one row on.
LEMMA PlanAccounts ==
    ASSUME BatchInv, NEW c \in Calls, pc[c] = "resolve", Edits(c), PlanNext(c),
           NEW what \in {"planned", "noop", "error"}, Outcome(c, what),
           UNCHANGED <<orphans, req, wrote>>
    PROVE  Accounted(c)'
<1>1. /\ TypeOK /\ AtRow(c) /\ Accounted(c)
  BY DEF BatchInv, Inv, EditAtRow
<1>2. /\ row[c] \in 1..Len(req[c].rows) /\ wrote[c] = {}
      /\ \A m \in orphans : m.call # c
      /\ \A i \in Rows : i < row[c] => result[c][i] # "pending"
      /\ \A i \in Rows : result[c][i] # "applied"
  BY <1>1 DEF AtRow, Accounted
<1>3. /\ result'[c][row[c]] = what
      /\ \A i \in Rows : result'[c][i] = IF i = row[c] THEN what ELSE result[c][i]
  BY <1>1, OutcomeType
<1>4. Len(req[c].rows) \in Nat /\ (\A i \in 1..Len(req[c].rows) : i \in Rows) /\ Rows \subseteq Nat
  BY <1>1, RowType, HostsAssumption DEF Rows
<1>5. row[c] \in Rows /\ row[c] \in Nat
  BY <1>2, <1>4
<1>6. \A i \in Rows : i <= row[c] => result'[c][i] # "pending"
  BY <1>2, <1>3, <1>4, <1>5
<1>7. \A i \in Rows : result'[c][i] # "applied"
  BY <1>2, <1>3
<1>8. Edits(c)' /\ req' = req
  BY DEF Edits
<1>9. CASE row[c] < Len(req[c].rows) /\ row' = [row EXCEPT ![c] = @ + 1] /\ pc' = pc
  <2>1. row'[c] = row[c] + 1 /\ pc'[c] = "resolve"
    BY <1>1, <1>9 DEF TypeOK
  <2>2. \A i \in Rows : i < row'[c] => result'[c][i] # "pending"
    BY <1>4, <1>5, <1>6, <2>1
  <2> QED BY <1>2, <1>7, <1>8, <2>1, <2>2 DEF Accounted
<1>10. CASE row[c] = Len(req[c].rows) /\ ApplyAfter(c, 0)
  <2>1. \A j \in Rows : j <= 0 => result'[c][j] # "planned"
    BY HostsAssumption DEF Rows
  <2>2. \/ /\ pc'[c] = "done"
           /\ req[c].confirm => \A j \in Rows : result'[c][j] # "planned"
        \/ /\ pc'[c] = "read" /\ row'[c] \in Rows /\ req[c].confirm
           /\ \A j \in Rows : j < row'[c] => result'[c][j] # "planned"
    BY <1>1, <1>10, <2>1, ApplySettles
  <2>3. \A i \in 1..Len(req[c].rows) : result'[c][i] # "pending"
    BY <1>4, <1>6, <1>10
  <2> QED BY <1>2, <1>7, <1>8, <2>2, <2>3 DEF Accounted
<1> QED BY <1>9, <1>10 DEF PlanNext

LEMMA ReadAccounts ==
    ASSUME BatchInv, NEW c \in Calls, ReadCurrent(c)
    PROVE  Accounted(c)'
<1>1. TypeOK /\ Accounted(c)
  BY DEF BatchInv, Inv
<1>2. pc[c] = "read" /\ pc'[c] = "put"
  BY <1>1 DEF ReadCurrent, TypeOK
<1>3. UNCHANGED <<orphans, req, row, result, wrote>>
  BY DEF ReadCurrent
<1> QED BY <1>1, <1>2, <1>3 DEF Accounted, Edits

\* A row of the apply loop is settled, as applied and written or as failed.
LEMMA SettledAccounts ==
    ASSUME BatchInv, NEW c \in Calls, pc[c] \in {"read", "put"}, req' = req,
           NEW what \in {"applied", "failed"}, Outcome(c, what), ApplyAfter(c, row[c]),
           wrote'[c] = IF what = "applied" THEN wrote[c] \union {row[c]} ELSE wrote[c],
           \A m \in orphans' : m.call = c =>
             m \in orphans \/ (m.row = row[c] /\ what = "failed")
    PROVE  Accounted(c)'
<1>1. TypeOK /\ AtRow(c) /\ Accounted(c)
  BY DEF BatchInv, Inv, EditAtRow
<1>2. Edits(c) /\ req[c].confirm /\ result[c][row[c]] = "planned" /\ row[c] \in Rows
  BY <1>1 DEF AtRow, TypeOK
<1>3. /\ result'[c][row[c]] = what
      /\ \A i \in Rows : result'[c][i] = IF i = row[c] THEN what ELSE result[c][i]
  BY <1>1, OutcomeType
<1>4. Rows \subseteq Nat /\ (\A i \in 1..Len(req[c].rows) : i \in Rows)
      /\ (\A m \in orphans : m.row \in Rows)
  BY <1>1, RowType, HostsAssumption DEF Rows, TypeOK, Message
<1>5. /\ \A i \in Rows : i \in wrote[c] => result[c][i] \in {"applied", "failed"}
      /\ \A i \in Rows : result[c][i] = "applied" => i \in wrote[c]
      /\ \A m \in orphans : m.call = c => result[c][m.row] = "failed"
      /\ \A i \in 1..Len(req[c].rows) : result[c][i] # "pending"
      /\ \A i \in Rows : i < row[c] => result[c][i] # "planned"
  BY <1>1, <1>2 DEF Accounted
<1>6. \A j \in Rows : j <= row[c] => result'[c][j] # "planned"
  <2>1. \A i, j \in Rows : j <= i => j = i \/ j < i
    BY HostsAssumption DEF Rows
  <2>2. what # "planned"
    OBVIOUS
  <2>3. ASSUME NEW j \in Rows, j <= row[c]
        PROVE  result'[c][j] # "planned"
    <3>1. CASE j = row[c]
      BY <1>3, <2>2, <3>1
    <3>2. CASE j < row[c]
      <4>1. result[c][j] # "planned"
        BY <1>5, <3>2
      <4>2. result'[c][j] = IF j = row[c] THEN what ELSE result[c][j]
        BY <1>3
      <4> QED BY <2>2, <4>1, <4>2
    <3> QED BY <1>2, <2>1, <2>3, <3>1, <3>2
  <2> QED BY <2>3
<1>7. \/ /\ pc'[c] = "done"
         /\ req[c].confirm => \A j \in Rows : result'[c][j] # "planned"
      \/ /\ pc'[c] = "read" /\ row'[c] \in Rows /\ req[c].confirm
         /\ \A j \in Rows : j < row'[c] => result'[c][j] # "planned"
  <2>1. row[c] \in Nat
    BY <1>2, <1>4
  <2> QED BY <1>1, <1>6, <2>1, ApplySettles
<1>8. \A i \in Rows : i \in wrote'[c] => result'[c][i] \in {"applied", "failed"}
  BY <1>3, <1>5
<1>9. \A i \in Rows : result'[c][i] = "applied" => i \in wrote'[c]
  BY <1>3, <1>5
<1>10. ASSUME NEW m \in orphans', m.call = c
       PROVE  result'[c][m.row] = "failed"
  <2>1. CASE m \in orphans
    <3>1. m.row \in Rows /\ result[c][m.row] = "failed"
      BY <1>4, <1>5, <1>10, <2>1
    <3> QED BY <1>2, <1>3, <3>1
  <2>2. CASE m.row = row[c] /\ what = "failed"
    BY <1>3, <2>2
  <2> QED BY <1>10, <2>1, <2>2
<1>11. \A i \in 1..Len(req[c].rows) : result'[c][i] # "pending"
  BY <1>3, <1>4, <1>5
<1> QED BY <1>2, <1>7, <1>8, <1>9, <1>10, <1>11 DEF Accounted, Edits

-----------------------------------------------------------------------------
\* The two parts of the invariant, at a step of call c.

\* An edit replaces no tags, and set_host_tags has no rows to account for.
LEMMA EditReplaces ==
    ASSUME NEW c \in Calls, Edits(c), req' = req
    PROVE  Replaced(c)'
BY DEF Edits, Replaced

LEMMA TagsAccount ==
    ASSUME NEW c \in Calls, req[c].tool = "settags", req' = req
    PROVE  Accounted(c)'
BY DEF Edits, Accounted

Tallied(c) == Accounted(c) /\ Replaced(c)

\* The other calls are where they were.
LEMMA OthersTallied ==
    ASSUME BatchInv, NEW c \in Calls, req' = req, OthersStay(c), Tallied(c)',
           NEW d \in Calls,
           d # c => /\ wrote'[d] = wrote[d] /\ todo'[d] = todo[d]
                    /\ req[d].tool = "settags" => Credits(d)
                    /\ \A m \in orphans' : m.call = d => m \in orphans
    PROVE  Tallied(d)'
<1>1. CASE d = c
  BY <1>1
<1>2. CASE d # c
  <2>1. TypeOK /\ TagsAtHost /\ Accounted(d) /\ Replaced(d)
    BY DEF BatchInv, Inv
  <2>2. /\ pc'[d] = pc[d] /\ row'[d] = row[d] /\ cur'[d] = cur[d]
        /\ \A i \in Rows : result'[d][i] = result[d][i]
    BY <1>2 DEF OthersStay
  <2>3. Accounted(d)'
    BY <1>2, <2>1, <2>2, AccountStands
  <2>4. Replaced(d)'
    BY <1>2, <2>1, <2>2, ReplacedStands
  <2> QED BY <2>3, <2>4 DEF Tallied
<1> QED BY <1>1, <1>2

\* The same for a step of c that has no write handled.
LEMMA QuietTallied ==
    ASSUME BatchInv, NEW c \in Calls, OthersStay(c), Tallied(c)', NEW d \in Calls,
           UNCHANGED <<req, tagsOf, fresh, wrote>>,
           d # c => todo'[d] = todo[d],
           orphans' = orphans \/ \E m \in InFlight(c) : orphans' = orphans \union {m}
    PROVE  Tallied(d)'
<1>1. \A m \in orphans' : m \in orphans \/ m.call = c
  BY InFlightSound DEF BatchInv
<1>2. Credits(d)
  BY StillCredits
<1> QED BY <1>1, <1>2, OthersTallied

-----------------------------------------------------------------------------
\* Each action.

LEMMA StartTallied ==
    ASSUME BatchInv, NEW c \in Calls, Start(c), NEW d \in Calls
    PROVE  Tallied(d)'
<1>1. TypeOK /\ Accounted(c) /\ Replaced(c) /\ AtRow(c)
  BY DEF BatchInv, Inv, EditAtRow
<1>2. /\ pc[c] = "idle" /\ pc'[c] = "resolve"
      /\ UNCHANGED <<orphans, req, row, result, wrote, cur>>
  BY <1>1 DEF Start, TypeOK
<1>3. Accounted(c)'
  BY <1>1, <1>2 DEF Accounted, Edits
<1>4. Replaced(c)'
  BY <1>1, <1>2 DEF Replaced, AtRow
<1>5. OthersStay(c)
  BY <1>1 DEF Start, OthersStay, TypeOK
<1> QED BY <1>3, <1>4, <1>5, QuietTallied DEF Start, inventory, Tallied

LEMMA PlanTallied ==
    ASSUME BatchInv, NEW c \in Calls, PlanRow(c) \/ RefuseRow(c), NEW d \in Calls
    PROVE  Tallied(d)'
<1>1. TypeOK
  BY DEF BatchInv, Inv
<1>2. /\ pc[c] = "resolve" /\ Edits(c) /\ PlanNext(c)
      /\ UNCHANGED <<inventory, orphans, req, todo, wrote, fresh>>
  BY DEF PlanRow, RefuseRow
<1>3. PICK what \in {"planned", "noop", "error"} : Outcome(c, what)
  BY DEF PlanRow, RefuseRow, Verdict
<1>4. Tallied(c)'
  BY <1>2, <1>3, PlanAccounts, EditReplaces DEF Tallied
<1>5. OthersStay(c)
  <2>1. \A e \in Calls : e # c => pc'[e] = pc[e] /\ row'[e] = row[e]
    <3>1. CASE row' = [row EXCEPT ![c] = @ + 1] /\ pc' = pc
      BY <1>1, <3>1 DEF TypeOK
    <3>2. CASE ApplyAfter(c, 0)
      BY <1>1, <3>2, ApplyAdvances, AdvancedType
    <3> QED BY <1>2, <3>1, <3>2 DEF PlanNext
  <2>2. \A e \in Calls : e # c => \A i \in Rows : result'[e][i] = result[e][i]
    BY <1>1, <1>3, OutcomeType
  <2>3. \A e \in Calls : e # c =>
          cur'[e] = cur[e] /\ \A i \in Rows : target'[e][i] = target[e][i]
    BY <1>1 DEF PlanRow, RefuseRow, TypeOK
  <2> QED BY <2>1, <2>2, <2>3 DEF OthersStay
<1> QED BY <1>2, <1>4, <1>5, QuietTallied DEF inventory

LEMMA ReadTallied ==
    ASSUME BatchInv, NEW c \in Calls, ReadCurrent(c), NEW d \in Calls
    PROVE  Tallied(d)'
<1>1. TypeOK /\ Edits(c)
  BY DEF BatchInv, Inv, EditAtRow, AtRow, ReadCurrent
<1>2. Tallied(c)'
  BY <1>1, ReadAccounts, EditReplaces DEF ReadCurrent, Tallied
<1>3. OthersStay(c)
  BY <1>1 DEF ReadCurrent, OthersStay, TypeOK
<1> QED BY <1>2, <1>3, QuietTallied DEF ReadCurrent, inventory

LEMMA PutTallied ==
    ASSUME BatchInv, NEW c \in Calls, PutApplied(c), NEW d \in Calls
    PROVE  Tallied(d)'
<1>1. TypeOK /\ Edits(c) /\ pc[c] = "put" /\ Inv
  BY DEF BatchInv, Inv, EditAtRow, AtRow, PutApplied
<1>2. /\ PutMessage(c).call = c /\ PutMessage(c).row = row[c]
      /\ PutMessage(c) \in Message
  BY <1>1, InFlightSound DEF InFlight, Sound
<1>3. wrote' = [wrote EXCEPT ![c] = @ \union {row[c]}]
  BY <1>2 DEF PutApplied, Serve
<1>4. /\ wrote'[c] = wrote[c] \union {row[c]}
      /\ \A e \in Calls : e # c => wrote'[e] = wrote[e]
  BY <1>1, <1>3 DEF TypeOK
<1>5. Tallied(c)'
  BY <1>1, <1>4, SettledAccounts, EditReplaces DEF PutApplied, Tallied
<1>6. OthersStay(c)
  BY <1>1, ApplyAdvances, AdvancedType, OutcomeType DEF PutApplied, OthersStay
<1>7. d # c /\ req[d].tool = "settags" => Credits(d)
  BY <1>1, <1>2, ServeCredits DEF PutApplied
<1> QED BY <1>4, <1>5, <1>6, <1>7, OthersTallied DEF PutApplied

LEMMA FailTallied ==
    ASSUME BatchInv, NEW c \in Calls, RowFails(c), NEW d \in Calls
    PROVE  Tallied(d)'
<1>1. TypeOK /\ Edits(c) /\ Inv
  BY DEF BatchInv, Inv, EditAtRow, AtRow, RowFails
<1>2. \A m \in orphans' : m \in orphans \/ m.row = row[c]
  BY <1>1, InFlightSound DEF RowFails
<1>3. Tallied(c)'
  BY <1>1, <1>2, SettledAccounts, EditReplaces DEF RowFails, Tallied
<1>4. OthersStay(c)
  BY <1>1, ApplyAdvances, AdvancedType, OutcomeType DEF RowFails, OthersStay
<1> QED BY <1>3, <1>4, QuietTallied DEF RowFails, inventory

LEMMA TargetTallied ==
    ASSUME BatchInv, NEW c \in Calls, TagTarget(c), NEW d \in Calls
    PROVE  Tallied(d)'
<1>1. /\ TypeOK /\ Replaced(c) /\ req[c].tool = "settags"
      /\ row[c] = 1 /\ \A m \in orphans : m.call # c
  BY DEF BatchInv, Inv, EditAtRow, AtRow, TagsAtHost, AtHost, TagTarget, Edits
<1>2. PICK h \in Hosts :
        /\ target' = [target EXCEPT ![c][1] = h]
        /\ cur' = [cur EXCEPT ![c] = Snapshot(c, h)]
        /\ \E at \in IF WritesTags(c) = "untag" THEN {Removes(tagsOf[h]), "fetch"}
                     ELSE {WritesTags(c)} :
             /\ pc' = [pc EXCEPT ![c] = at]
             /\ todo' = [todo EXCEPT ![c] = IF at = "fetch" THEN {} ELSE tagsOf[h]]
  BY DEF TagTarget
<1>3. cur'[c].id = h
  BY <1>1, <1>2 DEF Snapshot, TypeOK
<1>4. /\ pc'[c] \in {"assign", "untag", "fetch"} \/ (pc'[c] = "refresh" /\ tagsOf[h] = {})
      /\ pc'[c] # "fetch" => todo'[c] = tagsOf[h]
      /\ \A e \in Calls : e # c => pc'[e] = pc[e] /\ todo'[e] = todo[e]
  <2>1. PICK at : /\ at \in IF WritesTags(c) = "untag" THEN {Removes(tagsOf[h]), "fetch"}
                           ELSE {WritesTags(c)}
                  /\ pc' = [pc EXCEPT ![c] = at]
                  /\ todo' = [todo EXCEPT ![c] = IF at = "fetch" THEN {} ELSE tagsOf[h]]
    BY <1>2
  <2>2. at \in {"assign", "untag", "fetch"} \/ (at = "refresh" /\ tagsOf[h] = {})
    BY <2>1 DEF WritesTags, Removes
  <2> QED BY <1>1, <2>1, <2>2 DEF TypeOK
<1>5. UNCHANGED <<orphans, req, tagsOf, row, result, wrote, fresh>>
  BY DEF TagTarget, inventory
<1>6. Replaced(c)'
  BY <1>1, <1>3, <1>4, <1>5 DEF Replaced
<1>7. OthersStay(c)
  <2>1. 1 \in Rows
    BY <1>1 DEF TypeOK
  <2>2. \A e \in Calls : e # c =>
          /\ pc'[e] = pc[e] /\ cur'[e] = cur[e]
          /\ \A i \in Rows : target'[e][i] = target[e][i]
    BY <1>1, <1>2, <1>4, <2>1 DEF TypeOK
  <2> QED BY <1>5, <2>2 DEF OthersStay
<1>8. d # c => todo'[d] = todo[d]
  BY <1>4
<1> QED BY <1>1, <1>5, <1>6, <1>7, <1>8, TagsAccount, QuietTallied DEF Tallied

LEMMA FetchTallied ==
    ASSUME BatchInv, NEW c \in Calls, FetchTags(c), NEW d \in Calls
    PROVE  Tallied(d)'
<1>1. /\ TypeOK /\ Replaced(c) /\ pc[c] = "fetch" /\ req[c].tool = "settags"
      /\ row[c] = 1 /\ cur[c].id \in Hosts
  BY DEF BatchInv, Inv, TagsAtHost, AtHost, FetchTags
<1>2. \A m \in orphans : m.call # c
  BY <1>1 DEF Replaced
<1>3. /\ todo'[c] = tagsOf[cur[c].id]
      /\ pc'[c] = "untag" \/ (pc'[c] = "refresh" /\ tagsOf[cur[c].id] = {})
      /\ \A e \in Calls : e # c => pc'[e] = pc[e] /\ todo'[e] = todo[e]
      /\ UNCHANGED <<orphans, req, tagsOf, row, cur, target, result, wrote, fresh>>
  BY <1>1 DEF FetchTags, Removes, TypeOK, inventory
<1>4. Replaced(c)'
  BY <1>1, <1>2, <1>3 DEF Replaced
<1>5. OthersStay(c)
  BY <1>3 DEF OthersStay
<1> QED BY <1>1, <1>3, <1>4, <1>5, TagsAccount, QuietTallied DEF Tallied

LEMMA WrittenTallied ==
    ASSUME BatchInv, NEW c \in Calls, TagsWritten(c), NEW d \in Calls
    PROVE  Tallied(d)'
<1>1. /\ TypeOK /\ Inv /\ Replaced(c)
      /\ pc[c] \in {"assign", "untag"} /\ req[c].tool = "settags"
      /\ cur[c].id \in Hosts
      /\ pc[c] = "assign" => req[c].tags # {}
      /\ pc[c] = "untag" => req[c].tags = {}
      /\ row[c] = 1
  BY DEF BatchInv, Inv, TagsAtHost, AtHost, TagsWritten
<1>2. PICK m \in InFlight(c) : Serve(m) /\ todo' = [todo EXCEPT ![c] = @ \ m.tags]
  BY DEF TagsWritten
<1>3. m.call = c /\ m \in Message /\ m.id = cur[c].id /\ m.row = 1
  BY <1>1, <1>2, InFlightSound DEF Sound, InFlight, TagMessage
<1>4. /\ m.kind = pc[c] /\ m.tags \in SUBSET Tags
      /\ pc[c] = "assign" => m.tags = req[c].tags
  BY <1>1, <1>2, <1>3 DEF InFlight, TagMessage, Message
<1>5. /\ todo'[c] = todo[c] \ m.tags
      /\ \A e \in Calls : e # c => todo'[e] = todo[e]
  BY <1>1, <1>2 DEF TypeOK
<1>6. /\ \/ pc'[c] = "refresh" /\ (pc[c] = "untag" => todo'[c] = {})
         \/ pc'[c] = "untag" /\ pc[c] = "untag"
      /\ \A e \in Calls : e # c => pc'[e] = pc[e]
  <2>1. pc' = [pc EXCEPT ![c] = IF pc[c] = "untag" /\ todo'[c] # {}
                                THEN "untag" ELSE "refresh"]
    BY DEF TagsWritten
  <2>2. /\ pc'[c] = IF pc[c] = "untag" /\ todo'[c] # {} THEN "untag" ELSE "refresh"
        /\ \A e \in Calls : e # c => pc'[e] = pc[e]
    BY <1>1, <2>1 DEF TypeOK
  <2> QED BY <2>2
<1>7. UNCHANGED <<orphans, req, row, cur, target, result>>
  BY DEF TagsWritten
<1>8. fresh'[c] = fresh[c]
  BY <1>1, <1>2, <1>3, <1>4 DEF Serve, ServePut, ServeTags, Retag
<1>9. tagsOf'[cur[c].id] = IF pc[c] = "untag" THEN tagsOf[cur[c].id] \ m.tags
                           ELSE req[c].tags
  <2>1. tagsOf' = [tagsOf EXCEPT ![m.id] = IF m.kind = "untag" THEN tagsOf[m.id] \ m.tags
                                          ELSE IF m.tags = {} THEN tagsOf[m.id] ELSE m.tags]
    BY <1>1, <1>2, <1>4 DEF Serve, ServePut, ServeTags, Retag
  <2>2. tagsOf'[m.id] = IF m.kind = "untag" THEN tagsOf[m.id] \ m.tags
                        ELSE IF m.tags = {} THEN tagsOf[m.id] ELSE m.tags
    BY <1>1, <1>3, <2>1 DEF TypeOK
  <2> QED BY <1>1, <1>3, <1>4, <2>2
<1>10. Replaced(c)'
  <2>1. \A n \in orphans : n.call # c
    BY <1>1 DEF Replaced
  <2>2. pc'[c] = "untag" => tagsOf'[cur[c].id] \subseteq todo'[c] \union fresh[c]
    BY <1>1, <1>5, <1>6, <1>9 DEF Replaced
  <2>3. pc'[c] = "refresh" => tagsOf'[cur[c].id] \subseteq req[c].tags \union fresh[c]
    <3>1. CASE pc[c] = "assign"
      BY <1>1, <1>9, <3>1
    <3>2. CASE pc[c] = "untag"
      BY <1>1, <1>5, <1>6, <1>9, <3>2 DEF Replaced
    <3> QED BY <1>1, <3>1, <3>2
  <2> QED BY <1>1, <1>6, <1>7, <1>8, <2>1, <2>2, <2>3 DEF Replaced
<1>11. OthersStay(c)
  BY <1>6, <1>7 DEF OthersStay
<1>12. d # c => wrote'[d] = wrote[d]
  BY <1>1, <1>2, <1>3 DEF Serve, TypeOK
<1>13. d # c /\ req[d].tool = "settags" => Credits(d)
  BY <1>1, <1>2, <1>3, ServeCredits
<1> QED
  BY <1>1, <1>5, <1>7, <1>10, <1>11, <1>12, <1>13, TagsAccount, OthersTallied DEF Tallied

LEMMA RefreshTallied ==
    ASSUME BatchInv, NEW c \in Calls, Refresh(c), NEW d \in Calls
    PROVE  Tallied(d)'
<1>1. /\ TypeOK /\ Replaced(c) /\ pc[c] = "refresh" /\ req[c].tool = "settags"
  BY DEF BatchInv, Inv, TagsAtHost, AtHost, Refresh
<1>2. /\ pc'[c] = "done" /\ \A e \in Calls : e # c => pc'[e] = pc[e]
      /\ UNCHANGED <<orphans, req, tagsOf, row, cur, target, todo, wrote, fresh>>
  BY <1>1 DEF Refresh, TypeOK, inventory
<1>3. Replaced(c)'
  <2>1. /\ cur[c].id \in Hosts
        /\ tagsOf[cur[c].id] \subseteq req[c].tags \union fresh[c]
        /\ \A m \in orphans : m.call # c
    BY <1>1 DEF Replaced
  <2> QED BY <1>2, <2>1 DEF Replaced
<1>4. OthersStay(c)
  BY <1>1, <1>2, OutcomeType DEF Refresh, OthersStay
<1> QED BY <1>1, <1>2, <1>3, <1>4, TagsAccount, QuietTallied DEF Tallied

LEMMA TagsFailTallied ==
    ASSUME BatchInv, NEW c \in Calls, TagsFail(c), NEW d \in Calls
    PROVE  Tallied(d)'
<1>1. /\ TypeOK /\ Replaced(c) /\ req[c].tool = "settags" /\ row[c] = 1
  BY DEF BatchInv, Inv, TagsAtHost, AtHost, TagsFail, Replaced, Edits
<1>2. /\ pc'[c] = "done" /\ \A e \in Calls : e # c => pc'[e] = pc[e]
      /\ UNCHANGED <<req, tagsOf, row, cur, target, todo, wrote, fresh>>
  BY <1>1 DEF TagsFail, TypeOK, inventory
<1>3. result'[c][1] = "failed"
  BY <1>1, OutcomeType DEF TagsFail
<1>4. Replaced(c)'
  BY <1>1, <1>2, <1>3 DEF Replaced
<1>5. OthersStay(c)
  BY <1>1, <1>2, OutcomeType DEF TagsFail, OthersStay
<1> QED BY <1>1, <1>2, <1>4, <1>5, TagsAccount, QuietTallied DEF TagsFail, Tallied

LEMMA CancelTallied ==
    ASSUME BatchInv, NEW c \in Calls, Cancelled(c), NEW d \in Calls
    PROVE  Tallied(d)'
<1>1. TypeOK /\ Accounted(c) /\ Replaced(c)
  BY DEF BatchInv, Inv
<1>2. /\ pc'[c] = "cancelled" /\ \A e \in Calls : e # c => pc'[e] = pc[e]
      /\ UNCHANGED <<req, tagsOf, row, cur, target, result, todo, wrote, fresh>>
  BY <1>1 DEF Cancelled, TypeOK, inventory
<1>3. Tallied(c)'
  <2>1. Accounted(c)'
    BY <1>1, <1>2 DEF Accounted, Edits
  <2>2. Replaced(c)'
    BY <1>2 DEF Replaced
  <2> QED BY <2>1, <2>2 DEF Tallied
<1>4. OthersStay(c)
  BY <1>2 DEF OthersStay
<1> QED BY <1>2, <1>3, <1>4, QuietTallied DEF Cancelled

LEMMA OrphanTallied ==
    ASSUME BatchInv, OrphanLands, NEW d \in Calls
    PROVE  Tallied(d)'
<1>1. TypeOK /\ TagsAtHost /\ Accounted(d) /\ Replaced(d) /\ AtRow(d)
  BY DEF BatchInv, Inv, EditAtRow
<1>2. PICK m \in orphans : Serve(m) /\ orphans' = orphans \ {m} /\ UNCHANGED progress
  BY DEF OrphanLands
<1>3. m \in Message /\ m.call \in Calls /\ m.row \in Rows /\ Sound(m)
  BY <1>1, <1>2 DEF TypeOK, Message, BatchInv, Inv, OrphansSound
<1>4. UNCHANGED <<req, pc, row, cur, target, result, todo>>
  BY <1>2 DEF progress
<1>5. /\ wrote'[m.call] = wrote[m.call] \union {m.row}
      /\ d # m.call => wrote'[d] = wrote[d]
  BY <1>1, <1>2, <1>3 DEF Serve, TypeOK
<1>6. CASE d # m.call
  <2>1. req[d].tool = "settags" => Credits(d)
    BY <1>1, <1>2, <1>3, <1>6, ServeCredits
  <2>2. Accounted(d)'
    BY <1>1, <1>2, <1>4, <1>5, <1>6, AccountStands
  <2>3. Replaced(d)'
    BY <1>1, <1>2, <1>4, <2>1, ReplacedStands
  <2> QED BY <2>2, <2>3 DEF Tallied
<1>7. CASE d = m.call
  <2>1. Edits(d) => req[d].confirm
    BY <1>3, <1>7 DEF Sound, PutSound, TagsSound, Edits, Message
  <2>2. Accounted(d)'
    BY <1>1, <1>2, <1>3, <1>4, <1>5, <1>7, <2>1 DEF Accounted, Edits
  <2>3. Replaced(d)'
    BY <1>1, <1>2, <1>4, <1>7 DEF Replaced
  <2> QED BY <2>2, <2>3 DEF Tallied
<1> QED BY <1>6, <1>7

LEMMA WorldTallied ==
    ASSUME BatchInv, World, NEW d \in Calls
    PROVE  Tallied(d)'
<1>1. TypeOK /\ TagsAtHost /\ Accounted(d) /\ Replaced(d)
  BY DEF BatchInv, Inv
<1>2. UNCHANGED <<orphans, req, pc, row, cur, target, result, todo, wrote>>
  BY DEF World, progress
<1>3. req[d].tool = "settags" => Credits(d)
  <2>1. PICK h \in Hosts : Scanned(h) \/ OperatorEdits(h) \/ OperatorTags(h) \/ Retire(h)
    BY DEF World
  <2>2. CASE OperatorTags(h)
    BY <1>1, <2>2, RetagCredits DEF OperatorTags
  <2>3. CASE ~OperatorTags(h)
    BY <2>1, <2>3, StillCredits DEF Scanned, OperatorEdits, HostChanges, Retire
  <2> QED BY <2>2, <2>3
<1> QED BY <1>1, <1>2, <1>3, AccountStands, ReplacedStands DEF Tallied

LEMMA StutterTallied ==
    ASSUME BatchInv, UNCHANGED vars, NEW d \in Calls
    PROVE  Tallied(d)'
<1>1. TypeOK /\ TagsAtHost /\ Accounted(d) /\ Replaced(d)
  BY DEF BatchInv, Inv
<1> QED BY <1>1, StillCredits, AccountStands, ReplacedStands DEF vars, Tallied

-----------------------------------------------------------------------------
LEMMA InitTallied ==
    ASSUME Init
    PROVE  BatchInv
<1>1. \A i \in Rows : ~(i < 1)
  BY HostsAssumption DEF Rows
<1>2. Inv
  BY InitInv
<1>3. ASSUME NEW c \in Calls
      PROVE  Accounted(c) /\ Replaced(c)
  BY <1>1 DEF Init, Accounted, Replaced
<1> QED BY <1>2, <1>3 DEF BatchInv

LEMMA NextTallied ==
    ASSUME BatchInv, [Next]_vars
    PROVE  BatchInv'
<1>1. Inv'
  BY NextInv DEF BatchInv
<1>2. ASSUME NEW d \in Calls
      PROVE  Tallied(d)'
  <2>1. CASE UNCHANGED vars
    BY <2>1, StutterTallied
  <2>2. ASSUME NEW c \in Calls, CallStep(c) \/ Cancelled(c)
        PROVE  Tallied(d)'
    BY <2>2, StartTallied, PlanTallied, ReadTallied, PutTallied, FailTallied, TargetTallied,
       FetchTallied, WrittenTallied, RefreshTallied, TagsFailTallied, CancelTallied DEF CallStep
  <2> QED BY <2>1, <2>2, OrphanTallied, WorldTallied DEF Next, Finished
<1> QED BY <1>1, <1>2 DEF BatchInv, Tallied

\* BatchInv holds in every reachable state.
THEOREM BatchInvHolds == Spec => []BatchInv
  BY InitTallied, NextTallied, PTL DEF Spec

\* When a batch returns, every row is accounted for: a row is reported applied
\* only if the server applied it, a row the server applied is reported applied
\* or failed, and a plan-only call has written nothing, whatever times out and
\* is handled late (write.py:198-228).
THEOREM BatchesAreAccounted == Spec => []BatchAccounted
<1>1. BatchInv => BatchAccounted
  <2> SUFFICES ASSUME BatchInv, NEW c \in Calls, pc[c] = "done", Edits(c)
               PROVE  /\ \A i \in 1..Len(req[c].rows) :
                           /\ result[c][i] # "pending"
                           /\ result[c][i] = "applied" => i \in wrote[c]
                           /\ i \in wrote[c] => result[c][i] \in {"applied", "failed"}
                           /\ req[c].confirm => result[c][i] # "planned"
                      /\ ~req[c].confirm => wrote[c] = {}
    BY DEF BatchAccounted
  <2>1. Accounted(c) /\ \A i \in 1..Len(req[c].rows) : i \in Rows
    BY RowType DEF BatchInv, Inv
  <2> QED BY <2>1 DEF Accounted
<1> QED BY <1>1, BatchInvHolds, PTL

\* After set_host_tags the host carries the tags asked for, plus at most those
\* others gave it meanwhile; a clear really clears (write.py:140-153).
THEOREM TagSetsAreReplaced == Spec => []TagSetReplaced
<1>1. BatchInv => TagSetReplaced
  BY DEF BatchInv, Replaced, TagSetReplaced
<1> QED BY <1>1, BatchInvHolds, PTL

-----------------------------------------------------------------------------
\* Every step of a call brings it nearer its end.

\* The position of a call that stands at the place and row given.
PlaceOf(where, r) ==
    CASE where = "idle"              -> 0
      [] where = "resolve"           -> r
      [] where = "read"              -> MaxRows + 2 * r - 1
      [] where = "put"               -> MaxRows + 2 * r
      [] where = "fetch"             -> MaxRows + 1
      [] where \in {"assign", "untag"} -> MaxRows + 2
      [] where = "refresh"           -> MaxRows + 3
      [] where \in {"done", "cancelled"} -> 3 * MaxRows + 2

LEMMA PositionIs ==
    \A c \in Calls : /\ Position(c) = PlaceOf(pc[c], row[c])
                     /\ Position(c)' = PlaceOf(pc'[c], row'[c])
BY DEF Position, PlaceOf, Ended

LEMMA PlacesInOrder ==
    ASSUME NEW r \in Rows
    PROVE  /\ r \in 1..MaxRows /\ MaxRows \in Nat
           /\ PlaceOf("idle", r) = 0
           /\ PlaceOf("resolve", r) = r
           /\ PlaceOf("read", r) = MaxRows + 2 * r - 1
           /\ PlaceOf("put", r) = MaxRows + 2 * r
           /\ PlaceOf("fetch", r) = MaxRows + 1
           /\ PlaceOf("assign", r) = MaxRows + 2
           /\ PlaceOf("untag", r) = MaxRows + 2
           /\ PlaceOf("refresh", r) = MaxRows + 3
           /\ PlaceOf("done", r) = 3 * MaxRows + 2
           /\ PlaceOf("cancelled", r) = 3 * MaxRows + 2
BY HostsAssumption DEF Rows, PlaceOf

\* What the types say of one call.
LEMMA PlaceType ==
    ASSUME TypeOK, NEW c \in Calls
    PROVE  /\ row[c] \in Rows
           /\ pc \in [Calls -> {"idle", "resolve", "read", "put", "assign",
                                "untag", "fetch", "refresh", "done", "cancelled"}]
           /\ row \in [Calls -> Rows]
           /\ todo \in [Calls -> SUBSET Tags]
BY DEF TypeOK

\* Before its end a call has steps ahead of it.
LEMMA EndIsLast ==
    ASSUME TypeOK, NEW c \in Calls, pc[c] \notin {"done", "cancelled"},
           row'[c] \in Rows, pc'[c] \in {"done", "cancelled"}
    PROVE  Nearer(c)
<1>1. /\ row[c] \in Rows
      /\ pc[c] \in {"idle", "resolve", "read", "put", "assign", "untag", "fetch",
                 "refresh"}
  BY PlaceType
<1>2. Position(c)' = 3 * MaxRows + 2
  BY PositionIs, PlacesInOrder
<1>3. Position(c) \in Int /\ Position(c) <= 3 * MaxRows + 1
  BY <1>1, PositionIs, PlacesInOrder
<1>4. MaxRows \in Nat
  BY HostsAssumption
<1> QED BY <1>2, <1>3, <1>4 DEF Nearer

\* The apply loop goes from row i to its end, or to a later row.
LEMMA ApplyGoesOn ==
    ASSUME TypeOK, NEW c \in Calls, NEW i \in Nat, ApplyAfter(c, i)
    PROVE  /\ row'[c] \in Rows
           /\ pc'[c] = "done" \/ (pc'[c] = "read" /\ row'[c] > i)
<1> DEFINE left == IF req[c].confirm THEN PlannedAfter(result'[c], i) ELSE {}
<1>1. CASE left = {}
  BY <1>1, PlaceType DEF ApplyAfter, Return
<1>2. CASE left # {}
  <2>1. PICK j \in left : pc' = [pc EXCEPT ![c] = "read"] /\ row' = [row EXCEPT ![c] = j]
    BY <1>2 DEF ApplyAfter, ApplyFirst
  <2>2. j \in Rows /\ j > i
    BY DEF PlannedAfter
  <2> HIDE DEF left
  <2> QED BY <2>1, <2>2, PlaceType
<1> QED BY <1>1, <1>2

LEMMA PlanGoesOn ==
    ASSUME TypeOK, NEW c \in Calls, pc[c] = "resolve", PlanNext(c)
    PROVE  Nearer(c)
<1>1. row[c] \in Rows /\ Position(c) = row[c]
  BY PlaceType, PositionIs, PlacesInOrder
<1>2. CASE row[c] < Len(req[c].rows)
  <2>1. row'[c] = row[c] + 1 /\ pc'[c] = "resolve"
    BY <1>2, PlaceType DEF PlanNext
  <2>2. row'[c] \in Rows
    BY <1>1, <1>2, <2>1, RowType, HostsAssumption DEF Rows
  <2>3. Position(c)' = row[c] + 1
    BY <2>1, <2>2, PositionIs, PlacesInOrder
  <2> QED BY <1>1, <2>3, PlacesInOrder DEF Nearer
<1>3. CASE ApplyAfter(c, 0)
  <2>1. row'[c] \in Rows /\ (pc'[c] = "done" \/ pc'[c] = "read")
    BY <1>3, ApplyGoesOn
  <2>2. CASE pc'[c] = "done"
    BY <2>1, <2>2, EndIsLast
  <2>3. CASE pc'[c] = "read"
    <3>1. Position(c)' = MaxRows + 2 * row'[c] - 1
      BY <2>1, <2>3, PositionIs, PlacesInOrder
    <3>2. row[c] \in 1..MaxRows /\ row'[c] \in 1..MaxRows /\ MaxRows \in Nat
      BY <1>1, <2>1, PlacesInOrder
    <3> QED BY <1>1, <3>1, <3>2 DEF Nearer
  <2> QED BY <2>1, <2>2, <2>3
<1> QED BY <1>2, <1>3 DEF PlanNext

LEMMA RowGoesOn ==
    ASSUME TypeOK, NEW c \in Calls, pc[c] \in {"read", "put"}, ApplyAfter(c, row[c])
    PROVE  Nearer(c)
<1>1. row[c] \in Rows /\ row[c] \in 1..MaxRows /\ MaxRows \in Nat
  BY PlaceType, PlacesInOrder
<1>2. row'[c] \in Rows /\ (pc'[c] = "done" \/ (pc'[c] = "read" /\ row'[c] > row[c]))
  BY <1>1, ApplyGoesOn
<1>3. CASE pc'[c] = "done"
  BY <1>2, <1>3, EndIsLast
<1>4. CASE pc'[c] = "read" /\ row'[c] > row[c]
  <2>1. Position(c)' = MaxRows + 2 * row'[c] - 1 /\ row'[c] \in 1..MaxRows
    BY <1>2, <1>4, PositionIs, PlacesInOrder
  <2>2. Position(c) \in {MaxRows + 2 * row[c] - 1, MaxRows + 2 * row[c]}
    BY <1>1, PositionIs, PlacesInOrder
  <2> QED BY <1>1, <1>4, <2>1, <2>2 DEF Nearer
<1> QED BY <1>2, <1>3, <1>4

LEMMA EditStepNearer ==
    ASSUME TypeOK, NEW c \in Calls,
           Start(c) \/ PlanRow(c) \/ RefuseRow(c) \/ ReadCurrent(c) \/ PutApplied(c) \/ RowFails(c)
    PROVE  Nearer(c)
<1>1. CASE Start(c)
  <2>1. pc[c] = "idle" /\ pc'[c] = "resolve" /\ row' = row /\ row[c] \in Rows
    BY <1>1, PlaceType DEF Start
  <2>2. Position(c) = 0 /\ Position(c)' = row[c] /\ row[c] \in 1..MaxRows
    BY <2>1, PositionIs, PlacesInOrder
  <2> QED BY <2>2, HostsAssumption DEF Nearer
<1>2. CASE PlanRow(c) \/ RefuseRow(c)
  BY <1>2, PlanGoesOn DEF PlanRow, RefuseRow
<1>3. CASE ReadCurrent(c)
  <2>1. pc[c] = "read" /\ pc'[c] = "put" /\ row' = row /\ row[c] \in Rows
    BY <1>3, PlaceType DEF ReadCurrent
  <2>2. /\ Position(c) = MaxRows + 2 * row[c] - 1 /\ Position(c)' = MaxRows + 2 * row[c]
        /\ row[c] \in 1..MaxRows /\ MaxRows \in Nat
    BY <2>1, PositionIs, PlacesInOrder
  <2> QED BY <2>2 DEF Nearer
<1>4. CASE PutApplied(c) \/ RowFails(c)
  BY <1>4, RowGoesOn DEF PutApplied, RowFails
<1> QED BY <1>1, <1>2, <1>3, <1>4

LEMMA WrittenNearer ==
    ASSUME TypeOK, NEW c \in Calls, TagsWritten(c)
    PROVE  Nearer(c)
<1>1. /\ row' = row /\ row[c] \in Rows /\ pc[c] \in {"assign", "untag"}
      /\ row[c] \in 1..MaxRows /\ MaxRows \in Nat
  BY PlaceType, PlacesInOrder DEF TagsWritten
<1>2. Position(c) = MaxRows + 2
  BY <1>1, PositionIs, PlacesInOrder
<1>3. pc'[c] = IF pc[c] = "untag" /\ todo'[c] # {} THEN "untag" ELSE "refresh"
  BY PlaceType DEF TagsWritten
<1>4. CASE pc[c] = "untag" /\ todo'[c] # {}
  <2>1. PICK m \in InFlight(c) : todo' = [todo EXCEPT ![c] = @ \ m.tags]
    BY DEF TagsWritten
  <2>2. PICK t \in todo[c] : m = TagMessage(c, "untag", {t})
    BY <1>4 DEF InFlight
  <2>3. todo'[c] = todo[c] \ {t}
    <3>1. m.tags = {t}
      BY <2>2 DEF TagMessage
    <3> QED BY <2>1, <3>1, PlaceType
  <2>4. Position(c)' = MaxRows + 2
    BY <1>1, <1>3, <1>4, PositionIs, PlacesInOrder
  <2> QED BY <1>2, <2>2, <2>3, <2>4 DEF Nearer
<1>5. CASE ~(pc[c] = "untag" /\ todo'[c] # {})
  <2>1. Position(c)' = MaxRows + 3
    BY <1>1, <1>3, <1>5, PositionIs, PlacesInOrder
  <2> QED BY <1>1, <1>2, <2>1 DEF Nearer
<1> QED BY <1>4, <1>5

LEMMA TagStepNearer ==
    ASSUME TypeOK, NEW c \in Calls,
           TagTarget(c) \/ FetchTags(c) \/ Refresh(c) \/ TagsFail(c) \/ Cancelled(c)
    PROVE  Nearer(c)
<1>1. CASE TagTarget(c)
  <2>1. /\ pc[c] = "resolve" /\ row' = row /\ row[c] \in Rows
        /\ pc'[c] \in {"fetch", "assign", "untag", "refresh"}
    BY <1>1, PlaceType DEF TagTarget, WritesTags, Removes
  <2>2. /\ Position(c) = row[c] /\ Position(c)' \in (MaxRows + 1)..(MaxRows + 3)
        /\ row[c] \in 1..MaxRows /\ MaxRows \in Nat
    BY <2>1, PositionIs, PlacesInOrder
  <2> QED BY <2>2 DEF Nearer
<1>2. CASE Refresh(c) \/ TagsFail(c) \/ Cancelled(c)
  <2>1. /\ pc[c] \notin {"done", "cancelled"} /\ row' = row /\ row[c] \in Rows
        /\ pc'[c] \in {"done", "cancelled"}
    BY <1>2, PlaceType DEF Refresh, TagsFail, Cancelled
  <2> QED BY <2>1, EndIsLast
<1>3. CASE FetchTags(c)
  <2>1. /\ pc[c] = "fetch" /\ row' = row /\ row[c] \in Rows /\ pc'[c] \in {"untag", "refresh"}
    BY <1>3, PlaceType DEF FetchTags, Removes
  <2>2. /\ Position(c) = MaxRows + 1 /\ Position(c)' \in (MaxRows + 2)..(MaxRows + 3)
        /\ MaxRows \in Nat
    BY <2>1, PositionIs, PlacesInOrder
  <2> QED BY <2>2 DEF Nearer
<1> QED BY <1>1, <1>2, <1>3

LEMMA StepNearer ==
    ASSUME TypeOK, NEW c \in Calls, CallStep(c) \/ Cancelled(c)
    PROVE  Nearer(c)
BY EditStepNearer, WrittenNearer, TagStepNearer DEF CallStep

\* The steps of one call leave the others where they stand.
LEMMA OthersStand ==
    ASSUME TypeOK, NEW c \in Calls, NEW d \in Calls \ {c}, CallStep(d) \/ Cancelled(d)
    PROVE  pc'[c] = pc[c] /\ row'[c] = row[c] /\ todo'[c] = todo[c]
<1>1. CASE PlanRow(d) \/ RefuseRow(d)
  <2>1. PlanNext(d) /\ todo' = todo
    BY <1>1 DEF PlanRow, RefuseRow
  <2>2. CASE ApplyAfter(d, 0)
    BY <2>1, <2>2, ApplyAdvances, AdvancedType
  <2>3. CASE row' = [row EXCEPT ![d] = @ + 1] /\ pc' = pc
    BY <2>1, <2>3, PlaceType
  <2> QED BY <2>1, <2>2, <2>3 DEF PlanNext
<1>2. CASE PutApplied(d) \/ RowFails(d)
  <2>1. ApplyAfter(d, row[d]) /\ todo' = todo
    BY <1>2 DEF PutApplied, RowFails
  <2> QED BY <2>1, ApplyAdvances, AdvancedType
<1>3. CASE Start(d) \/ ReadCurrent(d) \/ Refresh(d) \/ TagsFail(d) \/ Cancelled(d)
  BY <1>3, PlaceType DEF Start, ReadCurrent, Refresh, TagsFail, Cancelled
<1>4. CASE TagTarget(d) \/ FetchTags(d)
  BY <1>4, PlaceType DEF TagTarget, FetchTags
<1>5. CASE TagsWritten(d)
  BY <1>5, PlaceType DEF TagsWritten
<1> QED BY <1>1, <1>2, <1>3, <1>4, <1>5 DEF CallStep

\* No step of a call repeats a row or a tag, and nothing that others do sets a
\* call back (write.py:146-153, 169-228).
THEOREM EveryStepAdvanced == Spec => EveryStepAdvances
<1>1. ASSUME TypeOK, [Next]_vars, NEW c \in Calls
      PROVE  IF CallStep(c) \/ Cancelled(c)
             THEN Nearer(c)
             ELSE UNCHANGED <<Position(c), todo[c]>>
  <2>1. CASE CallStep(c) \/ Cancelled(c)
    BY <1>1, <2>1, StepNearer
  <2>2. CASE ~(CallStep(c) \/ Cancelled(c))
    <3>1. pc'[c] = pc[c] /\ row'[c] = row[c] /\ todo'[c] = todo[c]
      <4>1. ASSUME NEW d \in Calls \ {c}, CallStep(d) \/ Cancelled(d)
            PROVE  pc'[c] = pc[c] /\ row'[c] = row[c] /\ todo'[c] = todo[c]
        BY <1>1, <4>1, OthersStand
      <4>2. CASE OrphanLands \/ World \/ Finished \/ UNCHANGED vars
        BY <4>2 DEF OrphanLands, World, Finished, progress, vars
      <4> QED BY <1>1, <2>2, <4>1, <4>2 DEF Next
    <3>2. Position(c)' = Position(c)
      BY <3>1, PositionIs
    <3> QED BY <2>2, <3>1, <3>2
  <2> QED BY <2>1, <2>2
<1>2. TypeOK /\ [Next]_vars =>
        [\A c \in Calls : IF CallStep(c) \/ Cancelled(c)
                          THEN Nearer(c)
                          ELSE UNCHANGED <<Position(c), todo[c]>>]_vars
  BY <1>1
<1> QED BY TypeCorrect, <1>2, PTL DEF Spec, EveryStepAdvances
=============================================================================
