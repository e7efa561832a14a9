-------------------------- MODULE ConsistencyProofs --------------------------
(***************************************************************************)
(* What a call of Curation makes of several readings of an inventory that  *)
(* keeps changing: a relabelling is a merge with a label the tag had, the  *)
(* plan of a deletion counts every lasting use, and a repeated merge       *)
(* retires no second host.  Each needs an invariant of its own that ties   *)
(* what the call has read, and the write it may have on its way, to the    *)
(* inventory as it is and as it was.  The last two rest on what a list     *)
(* read in pages shows.                                                    *)
(*                                                                         *)
(* What a step does to the locals of a call is stated once, by Advances    *)
(* and the lemmas that follow it; the three invariants rest on that.       *)
(***************************************************************************)
EXTENDS CurationProofs, FiniteSetTheorems

-----------------------------------------------------------------------------
(***************************************************************************)
(* Lists read in pages: the places of a list's records are 0, 1, 2 and so  *)
(* on, so that a short page holds all that is left of the list.            *)
(***************************************************************************)

LEMMA BeforeProperties ==
    ASSUME NEW S \in SUBSET Entities
    PROVE  /\ IsFiniteSet(S) /\ Cardinality(S) \in Nat
           /\ \A e \in S : Before(e, S) \in 0 .. (Cardinality(S) - 1)
           /\ \A e, f \in S : Rank[e] < Rank[f] => Before(e, S) < Before(f, S)
           /\ \A k \in 0 .. (Cardinality(S) - 1) : \E e \in S : Before(e, S) = k
<1> DEFINE ahead(e) == {f \in S : Rank[f] < Rank[e]}
           c == Cardinality(S)
<1>0. \A e \in S : Rank[e] \in Nat
  BY PagesAssumption
<1>1. IsFiniteSet(S) /\ c \in Nat
  BY PagesAssumption, FS_Subset, FS_CardinalityType
<1>2. \A e : IsFiniteSet(ahead(e)) /\ Cardinality(ahead(e)) \in Nat
  <2>1. TAKE e
  <2>2. ahead(e) \in SUBSET S
    OBVIOUS
  <2> HIDE DEF ahead
  <2>3. QED
    BY <1>1, <2>2, FS_Subset, FS_CardinalityType
<1>3. \A e \in S : Cardinality(ahead(e)) < c
  <2>1. TAKE e \in S
  <2>2. ahead(e) \in SUBSET S /\ e \notin ahead(e)
    BY <1>0
  <2> HIDE DEF ahead
  <2>3. Cardinality(ahead(e)) <= c /\ Cardinality(ahead(e)) # c
    BY <1>1, <2>2, FS_Subset
  <2> HIDE DEF c
  <2>4. QED
    BY <1>1, <1>2, <2>3
<1>4. ASSUME NEW e \in S, NEW f \in S, Rank[e] < Rank[f]
      PROVE  Cardinality(ahead(e)) < Cardinality(ahead(f))
  <2>1. ahead(e) \in SUBSET ahead(f) /\ e \in ahead(f) /\ e \notin ahead(e)
    BY <1>0, <1>4
  <2> HIDE DEF ahead
  <2>2. /\ Cardinality(ahead(e)) <= Cardinality(ahead(f))
        /\ Cardinality(ahead(e)) # Cardinality(ahead(f))
    BY <1>2, <2>1, FS_Subset
  <2>3. QED
    BY <1>2, <2>2
<1>5. ASSUME NEW k \in 0 .. (c - 1), \A e \in S : Cardinality(ahead(e)) # k
      PROVE  FALSE
  <2> DEFINE T == (0 .. (c - 1)) \ {k}
             g == [e \in S |-> Cardinality(ahead(e))]
  <2>1. IsFiniteSet(T) /\ Cardinality(T) < c
    <3> DEFINE I == 0 .. (c - 1)
    <3>1. IsFiniteSet(I) /\ Cardinality(I) = c
      <4> HIDE DEF c
      <4>1. c - 1 \in Int /\ (0 > c - 1 <=> c = 0) /\ c - 1 - 0 + 1 = c
        BY <1>1
      <4>2. QED
        BY <1>1, <4>1, FS_Interval
    <3>2. k \in I
      OBVIOUS
    <3> HIDE DEF I
    <3>3. IsFiniteSet(I \ {k}) /\ Cardinality(I \ {k}) = Cardinality(I) - 1
      BY <3>1, <3>2, FS_RemoveElement
    <3> HIDE DEF c
    <3>4. QED
      BY <1>1, <3>1, <3>3 DEF I
  <2>2. g \in [S -> T]
    <3> HIDE DEF ahead, c
    <3>1. \A e \in S : Cardinality(ahead(e)) \in (0 .. (c - 1)) \ {k}
      BY <1>1, <1>2, <1>3, <1>5
    <3>2. QED
      BY <3>1
  <2> HIDE DEF T, g
  <2>3. PICK e, f \in S : e # f /\ g[e] = g[f]
    BY <1>1, <2>1, <2>2, FS_PigeonHole
  <2>4. Cardinality(ahead(e)) = Cardinality(ahead(f))
    BY <2>3 DEF g
  <2>5. Rank[e] < Rank[f] \/ Rank[f] < Rank[e]
    BY <1>0, <2>3, PagesAssumption
  <2> HIDE DEF ahead
  <2>6. QED
    BY <1>2, <1>4, <2>4, <2>5
<1>6. \A e \in S : Cardinality(ahead(e)) \in 0 .. (c - 1)
  <2> HIDE DEF ahead, c
  <2>1. QED
    BY <1>1, <1>2, <1>3
<1>7. QED
  BY <1>1, <1>4, <1>5, <1>6 DEF Before

\* In a list that lost nothing, no record moved forward.
LEMMA BeforeGrows ==
    ASSUME NEW T \in SUBSET Entities, NEW S \in SUBSET T, NEW e \in S
    PROVE  Before(e, S) \in Nat /\ Before(e, T) \in Nat /\ Before(e, S) <= Before(e, T)
<1> DEFINE P == {f \in S : Rank[f] < Rank[e]}
           Q == {f \in T : Rank[f] < Rank[e]}
<1>1. P \in SUBSET Q /\ Q \in SUBSET Entities
  OBVIOUS
<1> HIDE DEF P, Q
<1>2. IsFiniteSet(Q)
  BY <1>1, PagesAssumption, FS_Subset
<1>3. IsFiniteSet(P) /\ Cardinality(P) <= Cardinality(Q)
  BY <1>1, <1>2, FS_Subset
<1>4. Cardinality(P) \in Nat /\ Cardinality(Q) \in Nat
  BY <1>2, <1>3, FS_CardinalityType
<1>5. QED
  BY <1>3, <1>4 DEF Before, P, Q

LEMMA ShortPageIsLast ==
    ASSUME NEW S \in SUBSET Entities, NEW from \in Nat,
           NEW P, P = {e \in S : Before(e, S) \in from .. (from + PageSize - 1)},
           Cardinality(P) < PageSize,
           NEW e \in S, Before(e, S) >= from
    PROVE  e \in P
<1> DEFINE I == from .. (from + PageSize - 1)
<1>1. PageSize \in Nat /\ PageSize > 0
  BY PagesAssumption
<1>2. SUFFICES ASSUME e \notin P PROVE FALSE
  OBVIOUS
<1>3. PICK b \in Nat : b = Before(e, S) /\ b < Cardinality(S) /\ Cardinality(S) \in Nat
  BY BeforeProperties
<1>4. b >= from + PageSize
  BY <1>1, <1>2, <1>3
<1>5. \A k \in I : k \in 0 .. (Cardinality(S) - 1)
  BY <1>1, <1>3, <1>4
<1>6. \A k \in I : \E x \in S : Before(x, S) = k
  BY <1>5, BeforeProperties
<1>7. \A k \in I : \E x \in P : Before(x, S) = k
  BY <1>6
<1> DEFINE g == [k \in I |-> CHOOSE x \in P : Before(x, S) = k]
<1>8. IsFiniteSet(I) /\ Cardinality(I) = PageSize
  <2>1. PICK last \in Int : last = from + PageSize - 1
    BY <1>1
  <2>2. ~(from > last) /\ last - from + 1 = PageSize /\ from \in Int
    BY <1>1, <2>1
  <2>3. IsFiniteSet(from .. last) /\ Cardinality(from .. last) = PageSize
    BY <2>2, FS_Interval
  <2>4. QED
    BY <2>1, <2>3
<1>9. IsFiniteSet(P)
  BY BeforeProperties, FS_Subset
<1>10. g \in [I -> P] /\ \A k \in I : Before(g[k], S) = k
  BY <1>7
<1> HIDE DEF I, g
<1>11. PICK k, l \in I : k # l /\ g[k] = g[l]
  BY <1>8, <1>9, <1>10, FS_PigeonHole
<1>12. QED
  BY <1>10, <1>11

\* What a list still holds from an offset on is on the page there, or after it.
LEMMA PageReads ==
    ASSUME NEW c \in Calls, call[c].offset \in Nat,
           NEW e \in Listed(c), Before(e, Listed(c)) >= call[c].offset
    PROVE  \/ e \in NextPage(c)
           \/ ~LastPage(c) /\ Before(e, Listed(c)) >= call[c].offset + PageSize
<1> DEFINE L == Listed(c)
           from == call[c].offset
<1>1. L \in SUBSET Entities /\ e \in L /\ from \in Nat
  BY DEF Listed
<1>2. NextPage(c) = {x \in L : Before(x, L) \in from .. (from + PageSize - 1)}
  BY DEF NextPage
<1>3. Before(e, L) \in Nat /\ PageSize \in Nat
  BY <1>1, BeforeProperties, PagesAssumption
<1>4. CASE LastPage(c)
  <2>1. Cardinality(NextPage(c)) < PageSize /\ Before(e, L) >= from
    BY <1>4 DEF LastPage
  <2>2. PICK P : P = {x \in L : Before(x, L) \in from .. (from + PageSize - 1)}
    OBVIOUS
  <2>3. P = NextPage(c) /\ Cardinality(P) < PageSize
    BY <1>2, <2>1, <2>2
  <2> HIDE DEF L, from
  <2>4. e \in P
    BY <1>1, <2>1, <2>2, <2>3, ShortPageIsLast
  <2>5. QED
    BY <2>3, <2>4
<1>5. CASE ~LastPage(c) /\ Before(e, L) < from + PageSize
  <2>1. Before(e, L) \in from .. (from + PageSize - 1)
    <3>1. Before(e, L) >= from
      OBVIOUS
    <3> HIDE DEF L, from
    <3>2. QED
      BY <1>1, <1>3, <1>5, <3>1
  <2>2. QED
    BY <1>1, <1>2, <2>1
<1>6. QED
  BY <1>1, <1>3, <1>4, <1>5

\* Record e was noted, from one page at least.
Saw(e, noted) == \E u \in noted : u[1] = e

LEMMA NotedSeen ==
    ASSUME NEW c \in Calls, NEW E \in SUBSET Entities
    PROVE  /\ \A e : Saw(e, Noted(c, E)) <=> (Saw(e, call[c].seen) \/ e \in E)
           /\ IsFiniteSet(call[c].seen) => IsFiniteSet(Noted(c, E))
<1> DEFINE o == call[c].offset
           N == {<<e, o>> : e \in E}
           g == [e \in E |-> <<e, o>>]
<1>1. Noted(c, E) = call[c].seen \union N
  BY DEF Noted
<1>2. \A e : (\E u \in N : u[1] = e) <=> e \in E
  <2>1. \A e \in E : <<e, o>> \in N /\ <<e, o>>[1] = e
    OBVIOUS
  <2>2. \A u \in N : u[1] \in E
    OBVIOUS
  <2> HIDE DEF N, o
  <2>3. QED
    BY <2>1, <2>2
<1>3. IsFiniteSet(N)
  <2>1. g \in Surjection(E, N)
    BY DEF Surjection
  <2>2. IsFiniteSet(E)
    BY PagesAssumption, FS_Subset
  <2> HIDE DEF N, g
  <2>3. QED
    BY <2>1, <2>2, FS_Surjection
<1> HIDE DEF N, o, g
<1>4. \A e : Saw(e, Noted(c, E)) <=> (Saw(e, call[c].seen) \/ e \in E)
  BY <1>1, <1>2 DEF Saw
<1>5. IsFiniteSet(call[c].seen) => IsFiniteSet(Noted(c, E))
  BY <1>1, <1>3, FS_Union
<1>6. QED
  BY <1>4, <1>5

-----------------------------------------------------------------------------
\* Where the locals of a call that reads, sends or gives up come from.

SendsLabel(c) ==
    /\ At(c, "label")
    /\ label[TagOf(c)] # None
    /\ call'[c].send = LabelMessage(c)
    /\ call'[c].found = call[c].found

\* The answer that is handled settles which host c's selector means.
Settles(c, h) ==
    \/ At(c, "host") /\ h \in alive /\ h = Selector(c).key
    \/ At(c, "hosts") /\ LastPage(c) /\ OnlyMatch(Matched(c), h)

SendsMerge(c) ==
    /\ call[c].found # <<>>
    /\ call'[c].send.dest = call[c].found[1]
    /\ call'[c].send.dest # call'[c].send.src
    /\ Settles(c, call'[c].send.src)

\* The next page is due.
TurnsPage(c) ==
    /\ At(c, "hosts") /\ call'[c].at = "hosts"
    /\ ~LastPage(c)
    /\ call'[c].found = call[c].found
    /\ call'[c].seen = Matched(c)
    /\ call'[c].offset = call[c].offset + PageSize

\* A selector is looked up from the start.
StartsLookup(c) ==
    /\ call'[c].offset = 0 /\ call'[c].seen = {}
    /\ call'[c].at = "host" =>
         (IF call'[c].found = <<>> THEN req[c].dest ELSE req[c].src).by = "id"
    /\ \/ call'[c].found = <<>>
       \/ At(c, "host") /\ call'[c].found = call[c].found
       \/ /\ call[c].found = <<>>
          /\ \E h \in Hosts : call'[c].found = <<h>> /\ Settles(c, h)

Advances(c) ==
    /\ ~At(c, "done")
    /\ call'[c].at = "label" => ~At(c, "label")
    /\ call'[c].at = "usage" =>
         \/ At(c, "usage") /\ ~EndsUsage(c) /\ call'[c] = ReadUsage(c)
         \/ /\ ~At(c, "usage") /\ call'[c].left = Sources
            /\ call'[c].offset = 0 /\ call'[c].seen = {}
    /\ call'[c].at \in {"host", "hosts"} => TurnsPage(c) \/ StartsLookup(c)
    /\ call'[c].at = "send" =>
         /\ call'[c].send.kind = "label" => SendsLabel(c)
         /\ call'[c].send.kind = "merge" => SendsMerge(c)
    /\ call'[c].at = "done" /\ call'[c].outcome = "plan" /\ Uses(c, {"delete_tag"}) =>
         /\ At(c, "usage") /\ EndsUsage(c)
         /\ call'[c].seen = ReadUsage(c).seen

OnlyCall(c) == \A d \in Calls \ {c} : call'[d] = call[d]

\* A step of a call that changes nothing but its own locals.
Turns(c) == OnlyCall(c) /\ Advances(c)

-----------------------------------------------------------------------------
\* The three ways in which a reading step leaves the locals of its call.

LEMMA GoesTurns ==
    ASSUME IInv, NEW c \in Calls, ~At(c, "done"),
           NEW to \in {"org", "nets", "tag", "scope", "binding", "service"}, Goes(c, to)
    PROVE  Turns(c)
<1>1. call'[c].at = to /\ OnlyCall(c)
  BY DEF Goes, OnlyCall, IInv, TypeOK, Local
<1>2. QED
  BY <1>1 DEF Turns, Advances

LEMMA EndsTurns ==
    ASSUME IInv, NEW c \in Calls, ~At(c, "done"), NEW how, Ends(c, how),
           how = "plan" => ~Uses(c, {"delete_tag"})
    PROVE  Turns(c)
<1>1. call'[c].at = "done" /\ call'[c].outcome = how /\ OnlyCall(c)
  BY DEF Ends, OnlyCall, IInv, TypeOK, Local
<1>2. QED
  BY <1>1 DEF Turns, Advances

LEMMA SendsTurns ==
    ASSUME IInv, NEW c \in Calls, ~At(c, "done"), NEW m, Sends(c, m),
           m.kind \notin {"label", "merge"}
    PROVE  Turns(c)
<1>1. call'[c].at = "send" /\ call'[c].send = m /\ OnlyCall(c)
  BY DEF Sends, OnlyCall, IInv, TypeOK, Local
<1>2. QED
  BY <1>1 DEF Turns, Advances

LEMMA TagTurns ==
    ASSUME IInv, NEW c \in Calls, TagStep(c)
    PROVE  Turns(c)
<1>0. call[c] \in Local /\ Found(c, call[c]) /\ call \in [Calls -> Local]
  BY DEF IInv, TypeOK
<1>1. CASE BeginCreate(c) \/ FindOrg(c) \/ FromNetwork(c)
  <2>1. /\ ~At(c, "done")
        /\ Goes(c, "org") \/ Goes(c, "nets") \/ Sends(c, NewTagMessage(c))
    BY <1>1 DEF BeginCreate, FindOrg, FromNetwork, Reads, At
  <2>2. NewTagMessage(c).kind = "new"
    BY DEF NewTagMessage
  <2>3. QED
    BY <2>1, <2>2, GoesTurns, SendsTurns
<1>2. CASE BeginTag(c)
  BY <1>2, GoesTurns DEF BeginTag, Reads, At
<1>3. CASE ResolveForUpdate(c)
  <2>1. PICK t \in Tags : /\ Resolves(c, t)
                          /\ \/ Ends(c, "refused") \/ Ends(c, "unchanged")
                             \/ Finds(c, t, "label")
    BY <1>3 DEF ResolveForUpdate
  <2>2. At(c, "tag")
    BY <2>1 DEF Resolves, Reads
  <2>3. CASE Ends(c, "refused") \/ Ends(c, "unchanged")
    BY <2>2, <2>3, EndsTurns DEF At
  <2>4. CASE Finds(c, t, "label")
    <3>1. call'[c].at = "label" /\ OnlyCall(c)
      BY <1>0, <2>4 DEF Finds, OnlyCall, Local
    <3>2. QED
      BY <2>2, <3>1 DEF Turns, Advances, At
  <2>5. QED
    BY <2>1, <2>3, <2>4
<1>4. CASE ReadLabel(c)
  <2>1. At(c, "label") /\ label[TagOf(c)] # None /\ Sends(c, LabelMessage(c))
    BY <1>4 DEF ReadLabel, Reads
  <2>2. /\ call'[c].at = "send" /\ call'[c].send = LabelMessage(c)
        /\ call'[c].found = call[c].found /\ OnlyCall(c)
    BY <1>0, <2>1 DEF Sends, OnlyCall, Local
  <2>3. LabelMessage(c).kind = "label"
    BY DEF LabelMessage
  <2>4. QED
    BY <2>1, <2>2, <2>3 DEF Turns, Advances, SendsLabel, At
<1>5. CASE ResolveForDelete(c)
  <2>1. PICK t \in Tags : /\ Resolves(c, t)
                          /\ call' = [call EXCEPT ![c].at = "usage", ![c].found = <<t>>,
                                                  ![c].left = Sources]
    BY <1>5 DEF ResolveForDelete
  <2>2. At(c, "tag")
    BY <2>1 DEF Resolves, Reads
  <2>3. /\ call'[c].at = "usage" /\ call'[c].left = Sources /\ OnlyCall(c)
        /\ call'[c].offset = 0 /\ call'[c].seen = {}
    BY <1>0, <2>1, <2>2 DEF OnlyCall, Local, Found, At
  <2>4. QED
    BY <2>2, <2>3 DEF Turns, Advances, At
<1>6. CASE ReadSource(c)
  <2>1. At(c, "usage") /\ ~EndsUsage(c) /\ call' = [call EXCEPT ![c] = ReadUsage(c)]
    BY <1>6 DEF ReadSource, Reads
  <2>2. call'[c].at = "usage" /\ call'[c] = ReadUsage(c) /\ OnlyCall(c)
    BY <1>0, <2>1, UsageTypes DEF OnlyCall, At
  <2>3. QED
    BY <2>1, <2>2 DEF Turns, Advances, At
<1>7. CASE ReadLastSource(c)
  <2> DEFINE r == ReadUsage(c)
             m == DropMessage(c, TagOf(c))
  <2>1. /\ At(c, "usage") /\ EndsUsage(c)
        /\ call' = [call EXCEPT ![c] =
             IF scope # NoScope
             THEN [r EXCEPT !.at = "done", !.outcome = "refused"]
             ELSE IF ~req[c].confirm
             THEN [r EXCEPT !.at = "done", !.outcome = "plan"]
             ELSE [r EXCEPT !.at = "send", !.send = m]]
    BY <1>7 DEF ReadLastSource, Reads
  <2>2. r \in Local
    BY <1>0, <2>1, UsageTypes DEF At
  <2>3. m.kind = "drop"
    BY DEF DropMessage
  <2> HIDE DEF r, m
  <2>4. /\ OnlyCall(c)
        /\ call'[c].seen = r.seen
        /\ call'[c].at \in {"done", "send"}
        /\ call'[c].at = "send" => call'[c].send = m
    BY <1>0, <2>1, <2>2 DEF OnlyCall, Local
  <2>5. QED
    BY <2>1, <2>3, <2>4 DEF Turns, Advances, At, r
<1>8. CASE BeginBulk(c)
  <2>1. /\ Uses(c, BulkTools) /\ At(c, "idle")
        /\ \/ Ends(c, "refused") \/ Goes(c, "tag")
           \/ call' = [call EXCEPT ![c].at = "scope", ![c].left = ToCheck(c)]
    BY <1>8 DEF BeginBulk, Reads
  <2>2. CASE Ends(c, "refused") \/ Goes(c, "tag")
    BY <2>1, <2>2, EndsTurns, GoesTurns DEF At
  <2>3. CASE call' = [call EXCEPT ![c].at = "scope", ![c].left = ToCheck(c)]
    <3>1. call'[c].at = "scope" /\ OnlyCall(c)
      BY <1>0, <2>3 DEF OnlyCall, Local
    <3>2. QED
      BY <2>1, <3>1 DEF Turns, Advances, At
  <2>4. QED
    BY <2>1, <2>2, <2>3
<1>9. CASE CheckEntity(c)
  <2>1. /\ At(c, "scope")
        /\ call' = [call EXCEPT ![c].left = Tail(@),
                       ![c].at = IF Len(call[c].left) = 1 THEN "tag" ELSE "scope"]
    BY <1>9 DEF CheckEntity, Reads
  <2>2. call'[c].at \in {"tag", "scope"} /\ OnlyCall(c)
    BY <1>0, <2>1 DEF OnlyCall, Local
  <2>3. QED
    BY <2>1, <2>2 DEF Turns, Advances, At
<1>10. CASE CheckListing(c)
  BY <1>10, GoesTurns DEF CheckListing, Reads, At
<1>11. CASE ResolveForBulk(c)
  <2>1. PICK t \in Tags : Resolves(c, t) /\ Sends(c, BulkMessage(c, t))
    BY <1>11 DEF ResolveForBulk
  <2>2. BulkMessage(c, t).kind = "bulk" /\ ~At(c, "done")
    BY <2>1 DEF BulkMessage, Resolves, Reads, At
  <2>3. QED
    BY <2>1, <2>2, SendsTurns
<1>12. QED
  BY <1>1, <1>2, <1>3, <1>4, <1>5, <1>6, <1>7, <1>8, <1>9, <1>10, <1>11 DEF TagStep

LEMMA BindingTurns ==
    ASSUME IInv, NEW c \in Calls, BindingStep(c)
    PROVE  Turns(c)
<1>0. Found(c, call[c])
  BY DEF IInv
<1>1. CASE BeginBinding(c)
  BY <1>1, GoesTurns DEF BeginBinding, Reads, At
<1>2. CASE GetBinding(c)
  <2>1. ~At(c, "done") /\ Uses(c, {"update_binding", "delete_binding"})
    BY <1>0, <1>2 DEF GetBinding, Reads, At, Found
  <2>2. ~Uses(c, {"delete_tag"})
    BY <2>1 DEF Uses
  <2>3. DetachMessage(c).kind = "detach"
    BY DEF DetachMessage
  <2>4. Goes(c, "service") \/ Ends(c, "plan") \/ Sends(c, DetachMessage(c))
    BY <1>2 DEF GetBinding
  <2>5. QED
    BY <2>1, <2>2, <2>3, <2>4, GoesTurns, EndsTurns, SendsTurns
<1>3. CASE GetService(c)
  <2>1. ~At(c, "done") /\ (Sends(c, AttachMessage(c)) \/ Sends(c, ReattachMessage(c)))
    BY <1>3 DEF GetService, Reads, At
  <2>2. AttachMessage(c).kind = "attach" /\ ReattachMessage(c).kind = "reattach"
    BY DEF AttachMessage, ReattachMessage
  <2>3. QED
    BY <2>1, <2>2, SendsTurns
<1>4. QED
  BY <1>1, <1>2, <1>3 DEF BindingStep

LEMMA ResolvedTurns ==
    ASSUME IInv, NEW c \in Calls, At(c, "host") \/ At(c, "hosts"),
           NEW h \in Hosts, Settles(c, h), Resolved(c, h)
    PROVE  Turns(c)
<1> DEFINE k == [call[c] EXCEPT !.found = Append(@, h), !.offset = 0, !.seen = {}]
           d == call[c].found[1]
           m == MergeMessage(c, d, h)
<1>0. call[c] \in Local /\ Found(c, call[c]) /\ call \in [Calls -> Local]
  BY DEF IInv, TypeOK
<1>1. ~At(c, "done") /\ ~At(c, "usage") /\ ~Uses(c, {"delete_tag"})
  BY <1>0 DEF At, Found, Uses
<1>2. /\ DOMAIN k = DOMAIN call[c]
      /\ k.found = Append(call[c].found, h) /\ k.offset = 0 /\ k.seen = {}
      /\ {"at", "send", "outcome", "found", "offset", "seen"} \subseteq DOMAIN k
  BY <1>0 DEF Local
<1>3. CASE call[c].found = <<>>
  <2>1. call' = [call EXCEPT ![c] = [k EXCEPT !.at = Lookup(req[c].src)]]
    BY <1>3 DEF Resolved
  <2>2. Append(call[c].found, h) = <<h>> /\ <<h>> # <<>>
    BY <1>3
  <2> HIDE DEF k
  <2>3. /\ OnlyCall(c)
        /\ call'[c].at = Lookup(req[c].src) /\ call'[c].found = <<h>>
        /\ call'[c].offset = 0 /\ call'[c].seen = {}
    BY <1>0, <1>2, <2>1, <2>2 DEF OnlyCall
  <2>4. call'[c].at \in {"host", "hosts"} /\ (call'[c].at = "host" => req[c].src.by = "id")
    BY <2>3 DEF Lookup
  <2>5. StartsLookup(c)
    BY <1>3, <2>2, <2>3, <2>4 DEF StartsLookup
  <2>6. QED
    BY <1>1, <2>3, <2>4, <2>5 DEF Turns, Advances
<1>4. CASE call[c].found # <<>>
  <2>1. call' = [call EXCEPT ![c] =
             IF d = h THEN [k EXCEPT !.at = "done", !.outcome = "refused"]
             ELSE IF ~req[c].confirm
             THEN [k EXCEPT !.at = "done", !.outcome = "plan"]
             ELSE [k EXCEPT !.at = "send", !.send = m]]
    BY <1>4 DEF Resolved
  <2>2. m.kind = "merge" /\ m.dest = d /\ m.src = h
    BY DEF MergeMessage
  <2> HIDE DEF k, m, d
  <2>3. /\ OnlyCall(c)
        /\ call'[c].at \in {"done", "send"}
        /\ call'[c].at = "send" => d # h /\ call'[c].send = m
    BY <1>0, <1>2, <2>1 DEF OnlyCall
  <2>4. QED
    BY <1>1, <1>4, <2>2, <2>3 DEF Turns, Advances, SendsMerge, d
<1>5. QED
  BY <1>3, <1>4

LEMMA MergeTurns ==
    ASSUME IInv, NEW c \in Calls, MergeStep(c)
    PROVE  Turns(c)
<1>0. call[c] \in Local /\ Found(c, call[c]) /\ call \in [Calls -> Local]
  BY DEF IInv, TypeOK
<1>1. CASE BeginMerge(c)
  <2>1. At(c, "idle") /\ Goes(c, Lookup(req[c].dest))
    BY <1>1 DEF BeginMerge, Reads
  <2>2. /\ call'[c].at = Lookup(req[c].dest) /\ OnlyCall(c)
        /\ call'[c].found = <<>> /\ call'[c].offset = 0 /\ call'[c].seen = {}
    BY <1>0, <2>1 DEF Goes, OnlyCall, Local, Found, At
  <2>3. call'[c].at \in {"host", "hosts"} /\ (call'[c].at = "host" => req[c].dest.by = "id")
    BY <2>2 DEF Lookup
  <2>4. QED
    BY <2>1, <2>2, <2>3 DEF Turns, Advances, StartsLookup, At
<1>2. CASE GetHost(c)
  <2>1. At(c, "host")
    BY <1>2 DEF GetHost, Reads
  <2>2. CASE Selector(c).key \in alive /\ Resolved(c, Selector(c).key)
    <3>1. Selector(c).key \in Hosts
      BY <2>2 DEF IInv, TypeOK
    <3>2. Settles(c, Selector(c).key)
      BY <2>1, <2>2 DEF Settles
    <3>3. QED
      BY <2>1, <2>2, <3>1, <3>2, ResolvedTurns
  <2>3. CASE Goes(c, "hosts")
    <3>1. /\ call'[c].at = "hosts" /\ OnlyCall(c) /\ call'[c].found = call[c].found
          /\ call'[c].offset = 0 /\ call'[c].seen = {}
      BY <1>0, <2>1, <2>3 DEF Goes, OnlyCall, Local, Found, At
    <3>2. QED
      BY <2>1, <3>1 DEF Turns, Advances, StartsLookup, At
  <2>4. QED
    BY <1>2, <2>2, <2>3 DEF GetHost
<1>3. CASE ReadHosts(c)
  <2>1. At(c, "hosts")
    BY <1>3 DEF ReadHosts, Reads
  <2>2. CASE LastPage(c) /\ \E h \in Hosts : OnlyMatch(Matched(c), h) /\ Resolved(c, h)
    <3>1. PICK h \in Hosts : OnlyMatch(Matched(c), h) /\ Resolved(c, h)
      BY <2>2
    <3>2. Settles(c, h)
      BY <2>1, <2>2, <3>1 DEF Settles
    <3>3. QED
      BY <2>1, <3>1, <3>2, ResolvedTurns
  <2>3. CASE /\ ~LastPage(c)
             /\ call' = [call EXCEPT ![c].seen = Matched(c), ![c].offset = @ + PageSize]
    <3>1. /\ call'[c].at = "hosts" /\ OnlyCall(c) /\ call'[c].found = call[c].found
          /\ call'[c].seen = Matched(c) /\ call'[c].offset = call[c].offset + PageSize
      BY <1>0, <2>1, <2>3 DEF OnlyCall, Local, At
    <3>2. QED
      BY <2>1, <2>3, <3>1 DEF Turns, Advances, TurnsPage, At
  <2>4. QED
    BY <1>3, <2>2, <2>3 DEF ReadHosts
<1>4. QED
  BY <1>1, <1>2, <1>3 DEF MergeStep

-----------------------------------------------------------------------------
\* What a step of the system may be.

\* A call reads, sends or gives up.
CallTurns(c) ==
    /\ Turns(c)
    /\ UNCHANGED <<settings, inventory, env, did>>
    /\ \/ UNCHANGED late
       \/ /\ At(c, "send") /\ late' = late \union {call[c].send}
          /\ call'[c].at = "done" /\ call'[c].found = call[c].found

\* The server handles the write of call c, whether c waits for it or not.
WriteHandled(m) ==
    /\ m \in Message /\ Warranted(m) /\ Handle(m)
    /\ \/ /\ At(m.call, "send") /\ call[m.call].send = m /\ late' = late
          /\ call'[m.call].at = "done" /\ call'[m.call].outcome = "applied"
       \/ m \in late /\ late' = late \ {m} /\ call' = call
    /\ OnlyCall(m.call)
    /\ did' = did \union {m.call}
    /\ UNCHANGED <<settings, env>>

\* The world changes the inventory, or nothing happens at all.
Otherwise ==
    /\ UNCHANGED <<settings, call, late, did>>
    /\ UNCHANGED <<inventory, env>> \/ World

LEMMA StepKinds ==
    ASSUME IInv, [Next]_cvars
    PROVE  \/ \E c \in Calls : CallTurns(c)
           \/ \E m \in Message : WriteHandled(m)
           \/ Otherwise
<1>1. CASE \E c \in Calls : TagStep(c) \/ BindingStep(c) \/ MergeStep(c)
  <2>1. PICK c \in Calls : TagStep(c) \/ BindingStep(c) \/ MergeStep(c)
    BY <1>1
  <2>2. Turns(c)
    BY <2>1, TagTurns, BindingTurns, MergeTurns
  <2>3. UNCHANGED <<settings, inventory, env, late, did>>
    BY <2>1 DEF TagStep, BindingStep, MergeStep, Reads, BeginCreate, FindOrg,
       FromNetwork, BeginTag, ResolveForUpdate, Resolves, ReadLabel, ResolveForDelete, ReadSource,
       ReadLastSource, BeginBulk, CheckEntity, CheckListing, ResolveForBulk,
       BeginBinding, GetBinding, GetService, BeginMerge, GetHost, ReadHosts
  <2>4. QED
    BY <2>2, <2>3 DEF CallTurns
<1>2. CASE \E c \in Calls : GivesUp(c)
  <2>1. PICK c \in Calls : GivesUp(c)
    BY <1>2
  <2>2. Turns(c)
    BY <2>1, EndsTurns DEF GivesUp, At
  <2>3. call'[c].at = "done" /\ call'[c].found = call[c].found
    BY <2>1 DEF GivesUp, Ends, IInv, TypeOK, Local
  <2>4. QED
    BY <2>1, <2>2, <2>3 DEF GivesUp, CallTurns
<1>3. CASE \E c \in Calls : Answered(c) /\ Handle(call[c].send)
  <2>1. PICK c \in Calls : Answered(c) /\ Handle(call[c].send)
    BY <1>3
  <2>2. /\ call[c].send \in Message /\ call[c].send.call = c
        /\ Warranted(call[c].send)
    BY <2>1 DEF Answered, At, IInv, Found
  <2>3. call'[c].at = "done" /\ call'[c].outcome = "applied" /\ OnlyCall(c)
    BY <2>1 DEF Answered, Ends, OnlyCall, IInv, TypeOK, Local
  <2>4. WriteHandled(call[c].send)
    BY <2>1, <2>2, <2>3 DEF Answered, WriteHandled
  <2>5. QED
    BY <2>2, <2>4
<1>4. CASE \E m \in late : Lands(m) /\ Handle(m)
  <2>1. PICK m \in late : Lands(m) /\ Handle(m)
    BY <1>4
  <2>2. m \in Message /\ Warranted(m)
    BY DEF IInv, TypeOK
  <2>3. WriteHandled(m)
    BY <2>1, <2>2 DEF Lands, WriteHandled, OnlyCall
  <2>4. QED
    BY <2>2, <2>3
<1>5. CASE World \/ Finished \/ UNCHANGED cvars
  BY <1>5 DEF World, Finished, cvars, Otherwise
<1>6. QED
  BY <1>1, <1>2, <1>3, <1>4, <1>5 DEF Next, CallStep

\* A write that was given up on leaves its call done, so that nothing the call
\* found out can change any more.
LEMMA LateCallIsDone ==
    ASSUME IInv, NEW m \in late
    PROVE  m \in Message /\ m.call \in Calls /\ At(m.call, "done")
  BY DEF IInv, TypeOK, OneWrite, Message

-----------------------------------------------------------------------------
(***************************************************************************)
(* Relabelling.  The label that was merged into is among those the tag has *)
(* had since the call resolved it, for as long as the write is on its way. *)
(***************************************************************************)
MergedFrom(m) ==
    m.kind = "label" =>
      /\ m.tag = TagOf(m.call)
      /\ \E l \in shown[m.call] \ {None} : m.label = Merged(req[m.call].patch, l)

RelabelInv ==
    /\ \A c \in Calls : At(c, "label") => label[TagOf(c)] \in shown[c]
    /\ \A c \in Calls : At(c, "send") => MergedFrom(call[c].send)
    /\ \A m \in late : MergedFrom(m)

\* How the history of labels goes on.
LEMMA ShownGrows ==
    ASSUME RelabelInv, [Next]_cvars, NEW c \in Calls
    PROVE  /\ At(c, "label") \/ call'[c].at # "label" => shown[c] \subseteq shown'[c]
           /\ At(c, "label") => label'[TagOf(c)] \in shown'[c]
           /\ ~At(c, "label") /\ call'[c].at = "label" => label[TagOf(c)'] \in shown'[c]
<1>1. CASE Remembers
  BY <1>1 DEF Remembers
<1>2. CASE UNCHANGED cvars
  <2>1. UNCHANGED <<call, shown, label>>
    BY <1>2 DEF cvars, history, inventory, tagVars
  <2>2. QED
    BY <2>1 DEF RelabelInv, At, TagOf
<1>3. QED
  BY <1>1, <1>2 DEF Next

\* While the call of a write keeps the tag it resolved, the write stays merged.
LEMMA MergedFromKept ==
    ASSUME UNCHANGED settings, NEW m \in Message, MergedFrom(m),
           UNCHANGED TagOf(m.call), shown[m.call] \subseteq shown'[m.call]
    PROVE  MergedFrom(m)'
  BY DEF MergedFrom, settings

LEMMA RelabelInvKept ==
    ASSUME IInv, RelabelInv, [Next]_cvars
    PROVE  RelabelInv'
<1>1. CASE \E c \in Calls : CallTurns(c)
  <2>1. PICK c \in Calls : CallTurns(c)
    BY <1>1
  <2>2. UNCHANGED settings /\ UNCHANGED label
    BY <2>1 DEF CallTurns, inventory, tagVars
  <2>3. OnlyCall(c) /\ Advances(c)
    BY <2>1 DEF CallTurns, Turns
  <2>4. \A d \in Calls : At(d, "label")' => (label[TagOf(d)] \in shown[d])'
    BY <2>2, <2>3, ShownGrows DEF At, OnlyCall, TagOf, Advances
  <2>5. ASSUME NEW d \in Calls, At(d, "send")'
        PROVE  MergedFrom(call[d].send)'
    <3>1. CASE d # c
      <4>1. call'[d] = call[d] /\ At(d, "send") /\ shown[d] \subseteq shown'[d]
        BY <2>3, <2>5, <3>1, ShownGrows DEF OnlyCall, At
      <4>2. PICK m \in Message : m = call[d].send /\ m.call = d /\ MergedFrom(m)
        BY <4>1 DEF At, IInv, Found, RelabelInv
      <4>3. MergedFrom(m)'
        BY <2>2, <4>1, <4>2, MergedFromKept DEF TagOf
      <4>4. QED
        BY <4>1, <4>2, <4>3
    <3>2. CASE d = c /\ call'[c].send.kind = "label"
      <4>1. SendsLabel(c)
        BY <2>3, <2>5, <3>2 DEF Advances, At
      <4>2. /\ call'[c].send.tag = TagOf(c) /\ call'[c].send.call = c
            /\ call'[c].send.label = Merged(req[c].patch, label[TagOf(c)])
        BY <4>1 DEF SendsLabel, LabelMessage
      <4>3. label[TagOf(c)] \in shown'[c] \ {None}
        BY <4>1, ShownGrows DEF SendsLabel, RelabelInv
      <4>4. TagOf(c)' = TagOf(c) /\ req' = req
        BY <2>2, <4>1 DEF SendsLabel, TagOf, settings
      <4>5. QED
        BY <3>2, <4>2, <4>3, <4>4 DEF MergedFrom, Merged
    <3>3. CASE d = c /\ call'[c].send.kind # "label"
      BY <3>3 DEF MergedFrom
    <3>4. QED
      BY <3>1, <3>2, <3>3
  <2>6. ASSUME NEW m \in late'
        PROVE  MergedFrom(m)'
    <3>1. CASE m \in late
      <4>1. /\ m \in Message /\ m.call \in Calls /\ MergedFrom(m)
            /\ At(m.call, "done") /\ m.call # c
        BY <2>3, <3>1, LateCallIsDone DEF RelabelInv, Advances
      <4>2. call'[m.call] = call[m.call] /\ shown[m.call] \subseteq shown'[m.call]
        BY <2>3, <4>1, ShownGrows DEF OnlyCall, At
      <4>3. QED
        BY <2>2, <4>1, <4>2, MergedFromKept DEF TagOf
    <3>2. CASE m \notin late
      <4>1. /\ At(c, "send") /\ m = call[c].send
            /\ call'[c].at = "done" /\ call'[c].found = call[c].found
        BY <2>1, <3>2 DEF CallTurns
      <4>2. m \in Message /\ m.call = c /\ MergedFrom(m)
        BY <4>1 DEF At, IInv, Found, RelabelInv
      <4>3. shown[c] \subseteq shown'[c]
        BY <4>1, ShownGrows
      <4>4. QED
        BY <2>2, <4>1, <4>2, <4>3, MergedFromKept DEF TagOf
    <3>3. QED
      BY <3>1, <3>2
  <2>7. QED
    BY <2>4, <2>5, <2>6 DEF RelabelInv
<1>2. CASE ~\E c \in Calls : CallTurns(c)
  <2>1. /\ UNCHANGED settings
        /\ \A d \in Calls : call'[d] = call[d] \/ call'[d].at = "done"
        /\ late' \subseteq late
        /\ \A m \in late : call'[m.call] = call[m.call]
    <3>1. CASE \E m \in Message : WriteHandled(m)
      <4>1. PICK m \in Message : WriteHandled(m)
        BY <3>1
      <4>2. m.call \in Calls
        BY DEF Message
      <4>3. CASE call' = call /\ late' = late \ {m}
        BY <4>1, <4>3 DEF WriteHandled
      <4>4. CASE At(m.call, "send") /\ late' = late /\ call'[m.call].at = "done"
        <5>1. \A n \in late : n.call \in Calls \ {m.call}
          BY <4>2, <4>4, LateCallIsDone DEF At
        <5>2. QED
          BY <4>1, <4>4, <5>1 DEF WriteHandled, OnlyCall
      <4>5. QED
        BY <4>1, <4>3, <4>4 DEF WriteHandled
    <3>2. CASE Otherwise
      BY <3>2 DEF Otherwise
    <3>3. QED
      BY <1>2, <3>1, <3>2, StepKinds
  <2>2. \A d \in Calls : At(d, "label")' => (label[TagOf(d)] \in shown[d])'
    BY <2>1, ShownGrows DEF At, TagOf
  <2>3. ASSUME NEW d \in Calls, At(d, "send")'
        PROVE  MergedFrom(call[d].send)'
    <3>1. call'[d] = call[d] /\ At(d, "send") /\ shown[d] \subseteq shown'[d]
      BY <2>1, <2>3, ShownGrows DEF At
    <3>2. PICK m \in Message : m = call[d].send /\ m.call = d /\ MergedFrom(m)
      BY <3>1 DEF At, IInv, Found, RelabelInv
    <3>3. MergedFrom(m)'
      BY <2>1, <3>1, <3>2, MergedFromKept DEF TagOf
    <3>4. QED
      BY <3>1, <3>2, <3>3
  <2>4. ASSUME NEW m \in late'
        PROVE  MergedFrom(m)'
    <3>1. /\ m \in Message /\ m.call \in Calls /\ MergedFrom(m)
          /\ At(m.call, "done") /\ call'[m.call] = call[m.call]
      BY <2>1, LateCallIsDone DEF RelabelInv
    <3>2. shown[m.call] \subseteq shown'[m.call]
      BY <3>1, ShownGrows DEF At
    <3>3. QED
      BY <2>1, <3>1, <3>2, MergedFromKept DEF TagOf
  <2>5. QED
    BY <2>2, <2>3, <2>4 DEF RelabelInv
<1>3. QED
  BY <1>1, <1>2

\* Handling a relabelling leaves the merge its call computed.
LEMMA RelabelStep ==
    ASSUME IInv, RelabelInv, [Next]_cvars,
           NEW c \in Calls, Handles(c), Uses(c, {"update_tag"})
    PROVE  \E l \in shown[c] \ {None} :
             label'[TagOf(c)] = [f \in {"name", "style"} |->
                IF f \in DOMAIN req[c].patch THEN req[c].patch[f] ELSE l[f]]
<1>1. PICK m \in Message : WriteHandled(m) /\ m.call = c
  <2>1. \E m \in Message : WriteHandled(m)
    BY StepKinds DEF Handles, CallTurns, Otherwise
  <2>2. QED
    BY <2>1 DEF Handles, WriteHandled
<1>2. m.kind = "label"
  BY <1>1 DEF WriteHandled, Warranted, Message, Uses, BulkTools
<1>3. m.tag \in Tags /\ HandleLabel(m)
  BY <1>1, <1>2 DEF Message, WriteHandled, Handle, HandleTag, HandleNewTag, HandleDrop,
     HandleBulk, HandleBinding, HandleAttach, HandleReattach, HandleDetach, HandleMerge
<1>4. label'[m.tag] = m.label
  BY <1>3 DEF HandleLabel, IInv, TypeOK
<1>5. MergedFrom(m)
  BY <1>1 DEF WriteHandled, RelabelInv
<1>6. PICK l \in shown[c] \ {None} : m.label = Merged(req[c].patch, l)
  BY <1>1, <1>2, <1>5 DEF MergedFrom
<1>7. Merged(req[c].patch, l) = [f \in {"name", "style"} |->
                IF f \in DOMAIN req[c].patch THEN req[c].patch[f] ELSE l[f]]
  BY DEF Merged
<1>8. QED
  BY <1>1, <1>2, <1>4, <1>5, <1>6, <1>7 DEF MergedFrom

\* A relabelling leaves the attributes it was asked for, and the others as the
\* tag had them at one moment since the call resolved it (client.py:469-472).
THEOREM RelabelHolds == Spec => RelabelIsMerge
<1>1. Init => RelabelInv
  BY DEF Init, Idle, RelabelInv, At
<1>2. IInv /\ RelabelInv /\ [Next]_cvars => RelabelInv'
  BY RelabelInvKept
<1>3. IInv /\ RelabelInv /\ [Next]_cvars =>
        [\A c \in Calls : Handles(c) /\ Uses(c, {"update_tag"}) =>
           \E l \in shown[c] \ {None} :
             label'[TagOf(c)] = [f \in {"name", "style"} |->
                IF f \in DOMAIN req[c].patch THEN req[c].patch[f] ELSE l[f]]]_cvars
  BY RelabelStep
<1>4. QED
  BY <1>1, <1>2, <1>3, InvariantHolds, PTL DEF Spec, RelabelIsMerge

-----------------------------------------------------------------------------
(***************************************************************************)
(* Uses of a tag.  An entity that has carried the tag since the search     *)
(* began was seen, or its collection is still to be read, if need be from  *)
(* the page on that is due; or else the collection lost a record while it  *)
(* was read.                                                               *)
(***************************************************************************)
Due(e, c) ==
    \E i \in DOMAIN call[c].left :
      /\ call[c].left[i] = KindOf[e]
      /\ i = 1 => Before(e, Listed(c)) >= call[c].offset

Awaited(e, c) ==
    \/ KindOf[e] \in torn[c] \union {"UserApiKey"}
    \/ Saw(e, call[c].seen)
    \/ Due(e, c)

UsageInv ==
    /\ \A c \in Calls : At(c, "usage") =>
         /\ IsFiniteSet(call[c].seen)
         /\ \A e \in held[c] : /\ e \in Entities /\ Present(e) /\ TagOf(c) \in carried[e]
                               /\ Awaited(e, c)
    /\ UsageIsSeen

\* How the history of uses goes on.
LEMMA HeldShrinks ==
    ASSUME [Next]_cvars, NEW c \in Calls
    PROVE  \/ UNCHANGED cvars
           \/ /\ At(c, "usage") =>
                   held'[c] = {e \in held[c] : TagOf(c) \in carried'[e] /\ Present(e)'}
              /\ ~At(c, "usage") /\ call'[c].at = "usage" =>
                   held'[c] = {e \in Entities : TagOf(c)' \in carried[e] /\ Present(e)}
              /\ ~At(c, "usage") /\ call'[c].at # "usage" => held'[c] = held[c]
  BY DEF Next, Remembers

\* How the history of losses goes on.
LEMMA TornGrows ==
    ASSUME [Next]_cvars, NEW c \in Calls
    PROVE  /\ torn[c] \subseteq torn'[c]
           /\ At(c, "done") => torn'[c] = torn[c]
           /\ At(c, "usage") /\ call[c].offset > 0 /\ Head(call[c].left) \notin torn'[c] =>
                \A e \in Listed(c) : Present(e)'
           /\ At(c, "hosts") /\ call[c].offset > 0 /\ "Host" \notin torn'[c] =>
                \A e \in Listed(c) : Present(e)'
<1>1. CASE UNCHANGED cvars
  <2>1. UNCHANGED <<torn, alive, owner>>
    BY <1>1 DEF cvars, history, inventory, hostVars
  <2>2. QED
    BY <2>1 DEF Listed, Present
<1>2. CASE Remembers
  BY <1>2 DEF Remembers, At
<1>3. QED
  BY <1>1, <1>2 DEF Next

\* Every kind of record that takes a tag is asked for, but one.
LEMMA SourcesSuffice ==
    ASSUME NEW e \in Entities, KindOf[e] # "UserApiKey"
    PROVE  \E i \in DOMAIN Sources : Sources[i] = KindOf[e]
<1>1. /\ Sources[1] = "Host" /\ Sources[2] = "Service" /\ Sources[3] = "Subnet"
      /\ Sources[4] = "Network" /\ Sources[5] = "Dependency" /\ Sources[6] = "Daemon"
      /\ Sources[7] = "DaemonApiKey" /\ Sources[8] = "Discovery"
      /\ Sources[9] = "Credential" /\ DOMAIN Sources = 1..9
  BY DEF Sources
<1>2. 1 \in 1..9 /\ 2 \in 1..9 /\ 3 \in 1..9 /\ 4 \in 1..9 /\ 5 \in 1..9
      /\ 6 \in 1..9 /\ 7 \in 1..9 /\ 8 \in 1..9 /\ 9 \in 1..9
  OBVIOUS
<1> HIDE DEF Sources
<1>3. QED
  BY <1>1, <1>2, KindsAssumption

\* The list of the kind that is being read.
LEMMA UsageList ==
    ASSUME NEW c \in Calls, At(c, "usage")
    PROVE  Listed(c) = {e \in Entities : Present(e) /\ KindOf[e] = Head(call[c].left)}
  BY DEF Listed, At

\* Reading one more page loses no use.
LEMMA AwaitedOrSeen ==
    ASSUME IInv, NEW c \in Calls, At(c, "usage"), NEW e \in Entities,
           Present(e), TagOf(c) \in carried[e], Saw(e, call[c].seen) \/ Due(e, c)
    PROVE  \/ Saw(e, ReadUsage(c).seen)
           \/ /\ ~EndsUsage(c)
              /\ \E i \in DOMAIN ReadUsage(c).left :
                   /\ ReadUsage(c).left[i] = KindOf[e]
                   /\ i = 1 => \/ ReadUsage(c).offset = 0
                               \/ /\ ReadUsage(c).left = call[c].left
                                  /\ Before(e, Listed(c)) >= ReadUsage(c).offset
<1> DEFINE left == call[c].left
           uses == {x \in NextPage(c) : TagOf(c) \in carried[x]}
           r == ReadUsage(c)
<1>1. /\ left \in Seq(Entities \union ToSet(Sources)) /\ left # <<>>
      /\ call[c] \in Local /\ call[c].offset \in Nat
  BY DEF IInv, TypeOK, Found, At, Local
<1>2. /\ r.left = IF LastPage(c) THEN Tail(left) ELSE left
      /\ r.offset = IF LastPage(c) THEN 0 ELSE call[c].offset + PageSize
      /\ r.seen = Noted(c, uses)
  BY <1>1, UsageTypes DEF IInv, At
<1>3. uses \in SUBSET Entities
  BY DEF NextPage, Listed
<1> HIDE DEF r, uses
<1>4. CASE Saw(e, call[c].seen) \/ e \in uses
  <2>1. Saw(e, Noted(c, uses))
    BY <1>3, <1>4, NotedSeen
  <2>2. QED
    BY <1>2, <2>1 DEF r
<1>5. CASE Due(e, c) /\ e \notin uses
  <2>1. PICK i \in DOMAIN left : /\ left[i] = KindOf[e]
                                 /\ i = 1 => Before(e, Listed(c)) >= call[c].offset
    BY <1>5 DEF Due
  <2>2. CASE i = 1
    <3>1. e \in Listed(c)
      BY <1>1, <2>1, <2>2, UsageList
    <3>2. ~LastPage(c) /\ Before(e, Listed(c)) >= call[c].offset + PageSize
      BY <1>1, <1>5, <2>1, <2>2, <3>1, PageReads DEF uses
    <3>3. ~EndsUsage(c)
      BY <3>2 DEF EndsUsage
    <3>4. r.left = left /\ r.offset = call[c].offset + PageSize
      BY <1>2, <3>2
    <3>5. QED
      BY <2>1, <3>2, <3>3, <3>4 DEF r
  <2>3. CASE i # 1 /\ LastPage(c)
    <3>1. /\ Len(left) # 1 /\ i - 1 \in DOMAIN Tail(left)
          /\ Tail(left)[i - 1] = left[i]
      BY <1>1, <2>1, <2>3
    <3>2. r.left = Tail(left) /\ r.offset = 0 /\ ~EndsUsage(c)
      BY <1>2, <2>3, <3>1 DEF EndsUsage
    <3>3. QED
      BY <2>1, <3>1, <3>2 DEF r
  <2>4. CASE i # 1 /\ ~LastPage(c)
    <3>1. r.left = left /\ ~EndsUsage(c)
      BY <1>2, <2>4 DEF EndsUsage
    <3>2. QED
      BY <2>1, <2>4, <3>1 DEF r
  <2>5. QED
    BY <2>2, <2>3, <2>4
<1>6. QED
  BY <1>4, <1>5

\* What is still due stays due while the call waits, unless its list loses a record.
LEMMA DueKept ==
    ASSUME IInv, [Next]_cvars, NEW c \in Calls, At(c, "usage"), call'[c] = call[c],
           NEW e \in Entities, Present(e), Present(e)', Due(e, c),
           KindOf[e] \notin torn'[c]
    PROVE  Due(e, c)'
<1> DEFINE k == call[c]
           K == {x \in Entities : Present(x) /\ KindOf[x] = Head(k.left)}
           L == {x \in Entities : Present(x)' /\ KindOf[x] = Head(k.left)}
<1>1. k.left \in Seq(Entities \union ToSet(Sources)) /\ k.offset \in Nat
  BY DEF IInv, TypeOK, Local
<1>2. Listed(c) = K
  BY UsageList
<1>3. Listed(c)' = L
  BY DEF Listed, At
<1>4. PICK i \in DOMAIN k.left : /\ k.left[i] = KindOf[e]
                                 /\ i = 1 => Before(e, K) >= k.offset
  BY <1>2 DEF Due
<1>5. i = 1 => Before(e, L) >= k.offset
  <2>1. CASE i = 1
    <3>1. e \in K /\ e \in L /\ Head(k.left) = KindOf[e]
      BY <1>1, <1>4, <2>1
    <3>2. CASE k.offset = 0
      <4>1. L \in SUBSET Entities
        OBVIOUS
      <4> HIDE DEF L, k
      <4>2. Before(e, L) \in Nat
        BY <3>1, <4>1, BeforeGrows
      <4>3. QED
        BY <3>2, <4>2
    <3>3. CASE k.offset > 0
      <4>1. \A x \in Listed(c) : Present(x)'
        BY <3>1, <3>3, TornGrows
      <4>2. K \in SUBSET L /\ L \in SUBSET Entities
        BY <1>2, <4>1
      <4>3. Before(e, K) >= k.offset
        BY <1>4, <2>1
      <4> HIDE DEF K, L, k
      <4>4. Before(e, K) \in Nat /\ Before(e, L) \in Nat /\ Before(e, K) <= Before(e, L)
        BY <3>1, <4>2, BeforeGrows
      <4>5. QED
        BY <1>1, <4>3, <4>4
    <3>4. QED
      BY <1>1, <3>2, <3>3
  <2>2. QED
    BY <2>1
<1>6. PICK N : N = L
  OBVIOUS
<1>7. QED
  BY <1>3, <1>4, <1>5 DEF Due

\* So many entities were noted, so many at least are counted.
LEMMA CountsSeen ==
    ASSUME NEW k, IsFiniteSet(k.seen), NEW H, \A e \in H : Saw(e, k.seen),
           NEW kind, \A e \in H : KindOf[e] = kind
    PROVE  Cardinality({u \in k.seen : KindOf[u[1]] = kind}) >= Cardinality(H)
<1> DEFINE U == {u \in k.seen : KindOf[u[1]] = kind}
           V == {u \in k.seen : KindOf[u[1]] = kind /\ u[1] \in H}
           g == [u \in V |-> u[1]]
<1>1. IsFiniteSet(U) /\ V \in SUBSET U
  BY FS_Subset
<1>2. g \in Surjection(V, H)
  BY DEF Surjection, Saw
<1> HIDE DEF U, V, g
<1>3. IsFiniteSet(V) /\ Cardinality(V) <= Cardinality(U)
  BY <1>1, FS_Subset
<1>4. IsFiniteSet(H) /\ Cardinality(H) <= Cardinality(V)
  BY <1>2, <1>3, FS_Surjection
<1>5. Cardinality(U) \in Nat /\ Cardinality(V) \in Nat /\ Cardinality(H) \in Nat
  BY <1>1, <1>3, <1>4, FS_CardinalityType
<1>6. Cardinality(U) >= Cardinality(H)
  BY <1>3, <1>4, <1>5
<1>7. QED
  BY <1>6 DEF U

\* The plan of call c counts what has been used throughout.
Counts(c) ==
    At(c, "done") /\ call[c].outcome = "plan" /\ Uses(c, {"delete_tag"}) =>
      \A kind \in {KindOf[e] : e \in Entities} \ (torn[c] \union {"UserApiKey"}) :
        VisibleUses(c, kind) >= Cardinality({e \in held[c] : KindOf[e] = kind})

Expects(c) ==
    At(c, "usage") =>
      /\ IsFiniteSet(call[c].seen)
      /\ \A e \in held[c] : /\ e \in Entities /\ Present(e) /\ TagOf(c) \in carried[e]
                            /\ Awaited(e, c)

\* A call that stands still.
LEMMA WaitingKeeps ==
    ASSUME IInv, [Next]_cvars, ~UNCHANGED cvars, UNCHANGED req,
           NEW c \in Calls, Expects(c), Counts(c), call'[c] = call[c]
    PROVE  Expects(c)' /\ Counts(c)'
<1>1. CASE At(c, "usage")
  <2>1. held'[c] = {e \in held[c] : TagOf(c) \in carried'[e] /\ Present(e)'}
    BY <1>1, HeldShrinks
  <2>2. TagOf(c)' = TagOf(c) /\ At(c, "usage")' /\ ~At(c, "done")'
    BY <1>1 DEF TagOf, At
  <2>3. ASSUME NEW e \in held'[c]
        PROVE  /\ e \in Entities /\ Present(e)' /\ TagOf(c)' \in carried'[e]
               /\ Awaited(e, c)'
    <3>1. e \in held[c] /\ TagOf(c)' \in carried'[e] /\ Present(e)'
      BY <2>1, <2>2, <2>3
    <3>2. e \in Entities /\ Present(e) /\ Awaited(e, c)
      BY <1>1, <3>1 DEF Expects
    <3>3. CASE KindOf[e] \in torn[c] \union {"UserApiKey"}
      BY <3>1, <3>2, <3>3, TornGrows DEF Awaited
    <3>4. CASE Saw(e, call[c].seen)
      <4>1. Saw(e, call'[c].seen)
        BY <3>4
      <4>2. QED
        BY <3>1, <3>2, <4>1 DEF Awaited, Saw
    <3>5. CASE Due(e, c)
      BY <1>1, <3>1, <3>2, <3>5, DueKept DEF Awaited
    <3>6. QED
      BY <3>2, <3>3, <3>4, <3>5 DEF Awaited
  <2>4. QED
    BY <1>1, <2>2, <2>3 DEF Expects, Counts
<1>2. CASE ~At(c, "usage")
  <2>1. held'[c] = held[c] /\ ~At(c, "usage")' /\ torn[c] \subseteq torn'[c]
    BY <1>2, HeldShrinks, TornGrows DEF At
  <2>2. QED
    BY <2>1 DEF Expects, Counts, At, Uses, VisibleUses
<1>3. QED
  BY <1>1, <1>2

\* A call that reads on, begins to read, or has read it all.
LEMMA TurningKeeps ==
    ASSUME IInv, [Next]_cvars, ~UNCHANGED cvars, UNCHANGED <<req, inventory>>,
           NEW c \in Calls, Expects(c), Turns(c)
    PROVE  Expects(c)' /\ Counts(c)'
<1>1. Advances(c) /\ UNCHANGED <<carried, alive, owner>> /\ torn[c] \subseteq torn'[c]
  BY TornGrows DEF Turns, inventory, hostVars, tagVars
<1>2. \A e : Present(e)' = Present(e)
  BY <1>1 DEF Present
<1>3. CASE At(c, "usage")
  <2> DEFINE r == ReadUsage(c)
  <2>1. /\ call[c] \in Local /\ IsFiniteSet(call[c].seen)
        /\ r.found = call[c].found /\ r.at = "usage"
        /\ r.seen = Noted(c, {e \in NextPage(c) : TagOf(c) \in carried[e]})
    BY <1>3, UsageTypes DEF IInv, TypeOK, Expects, At
  <2>2. IsFiniteSet(r.seen)
    <3>1. {e \in NextPage(c) : TagOf(c) \in carried[e]} \in SUBSET Entities
      BY DEF NextPage, Listed
    <3>2. QED
      BY <2>1, <3>1, NotedSeen
  <2> HIDE DEF r
  <2>3. held'[c] = {e \in held[c] : TagOf(c) \in carried'[e] /\ Present(e)'}
    BY <1>3, HeldShrinks
  <2>4. ASSUME NEW e \in held'[c]
        PROVE  /\ e \in held[c] /\ e \in Entities /\ Present(e) /\ TagOf(c) \in carried[e]
               /\ \/ KindOf[e] \in torn'[c] \union {"UserApiKey"}
                  \/ Saw(e, r.seen)
                  \/ /\ ~EndsUsage(c)
                     /\ \E i \in DOMAIN r.left :
                          /\ r.left[i] = KindOf[e]
                          /\ i = 1 => \/ r.offset = 0
                                      \/ /\ r.left = call[c].left
                                         /\ Before(e, Listed(c)) >= r.offset
    <3>1. /\ e \in held[c] /\ e \in Entities /\ Present(e) /\ TagOf(c) \in carried[e]
          /\ Awaited(e, c)
      BY <1>3, <2>3, <2>4 DEF Expects
    <3>2. QED
      BY <1>1, <1>3, <3>1, AwaitedOrSeen DEF Awaited, r
  <2>5. CASE call'[c].at = "usage"
    <3>1. call'[c] = r /\ ~EndsUsage(c)
      BY <1>1, <1>3, <2>5 DEF Advances, r
    <3>2. TagOf(c)' = TagOf(c) /\ At(c, "usage")' /\ ~At(c, "done")'
      BY <2>1, <3>1 DEF TagOf, At
    <3>3. ASSUME NEW e \in held'[c]
          PROVE  /\ e \in Entities /\ Present(e)' /\ TagOf(c)' \in carried'[e]
                 /\ Awaited(e, c)'
      <4>1. e \in Entities /\ Present(e)' /\ TagOf(c)' \in carried'[e]
        BY <1>1, <1>2, <2>4, <3>2, <3>3
      <4>2. CASE KindOf[e] \in torn'[c] \union {"UserApiKey"}
        BY <4>1, <4>2 DEF Awaited
      <4>3. CASE Saw(e, r.seen)
        <5>1. Saw(e, call'[c].seen)
          BY <3>1, <4>3
        <5>2. QED
          BY <4>1, <5>1 DEF Awaited, Saw
      <4>4. CASE \E i \in DOMAIN r.left :
                   /\ r.left[i] = KindOf[e]
                   /\ i = 1 => \/ r.offset = 0
                               \/ /\ r.left = call[c].left
                                  /\ Before(e, Listed(c)) >= r.offset
        <5>1. PICK i \in DOMAIN r.left :
                   /\ r.left[i] = KindOf[e]
                   /\ i = 1 => \/ r.offset = 0
                               \/ /\ r.left = call[c].left
                                  /\ Before(e, Listed(c)) >= r.offset
          BY <4>4
        <5>2. PICK L : L = Listed(c)' /\ L = {x \in Entities :
                                               Present(x) /\ KindOf[x] = Head(r.left)}
          BY <1>2, <3>1, <3>2 DEF Listed, At
        <5>3. i = 1 => Before(e, L) >= r.offset
          <6>1. CASE i = 1 /\ r.offset = 0
            <7>1. e \in L
              <8>1. Head(r.left) = KindOf[e]
                BY <5>1, <6>1
              <8>2. QED
                BY <2>4, <3>3, <5>2, <8>1
            <7>2. L \in SUBSET Entities
              BY <5>2
            <7>3. Before(e, L) \in Nat
              BY <7>1, <7>2, BeforeGrows
            <7>4. QED
              BY <6>1, <7>3
          <6>2. CASE r.left = call[c].left /\ Before(e, Listed(c)) >= r.offset
            <7>1. L = Listed(c)
              BY <1>3, <5>2, <6>2, UsageList
            <7>2. QED
              BY <6>2, <7>1
          <6>3. QED
            BY <5>1, <6>1, <6>2
        <5>4. Due(e, c)'
          BY <3>1, <5>1, <5>2, <5>3 DEF Due
        <5>5. QED
          BY <4>1, <5>4 DEF Awaited
      <4>5. QED
        BY <2>4, <3>3, <4>2, <4>3, <4>4
    <3>4. IsFiniteSet(call'[c].seen)
      BY <2>2, <3>1
    <3>5. QED
      BY <3>2, <3>3, <3>4 DEF Expects, Counts
  <2>6. CASE /\ call'[c].at = "done" /\ call'[c].outcome = "plan"
             /\ Uses(c, {"delete_tag"})
    <3>1. EndsUsage(c) /\ call'[c].seen = r.seen
      BY <1>1, <2>6 DEF Advances, r
    <3>2. ASSUME NEW kind \in {KindOf[e] : e \in Entities} \ (torn'[c] \union {"UserApiKey"})
          PROVE  VisibleUses(c, kind)' >= Cardinality({e \in held'[c] : KindOf[e] = kind})
      <4> DEFINE H == {e \in held'[c] : KindOf[e] = kind}
      <4>1. \A e \in H : Saw(e, r.seen) /\ KindOf[e] = kind
        BY <2>4, <3>1, <3>2
      <4> HIDE DEF H
      <4>2. Cardinality({u \in r.seen : KindOf[u[1]] = kind}) >= Cardinality(H)
        BY <2>2, <4>1, CountsSeen
      <4>3. VisibleUses(c, kind)' = Cardinality({u \in r.seen : KindOf[u[1]] = kind})
        BY <3>1 DEF VisibleUses
      <4>4. QED
        BY <4>2, <4>3 DEF H
    <3>3. Counts(c)'
      BY <3>2 DEF Counts
    <3>4. QED
      BY <2>6, <3>3 DEF Expects, At
  <2>7. QED
    BY <2>5, <2>6 DEF Expects, Counts, At, Uses
<1>4. CASE ~At(c, "usage") /\ call'[c].at = "usage"
  <2>1. call'[c].left = Sources /\ call'[c].offset = 0 /\ call'[c].seen = {}
    BY <1>1, <1>4 DEF Advances
  <2>2. held'[c] = {e \in Entities : TagOf(c)' \in carried[e] /\ Present(e)}
    BY <1>4, HeldShrinks
  <2>3. ASSUME NEW e \in held'[c]
        PROVE  Awaited(e, c)'
    <3>1. CASE KindOf[e] = "UserApiKey"
      BY <3>1 DEF Awaited
    <3>2. CASE KindOf[e] # "UserApiKey"
      <4>1. e \in Entities /\ Present(e)
        BY <2>2, <2>3
      <4>2. PICK i \in DOMAIN Sources : Sources[i] = KindOf[e]
        BY <3>2, <4>1, SourcesSuffice
      <4>3. PICK L : L = Listed(c)' /\ L = {x \in Entities :
                                             Present(x) /\ KindOf[x] = Head(Sources)}
        BY <1>2, <1>4, <2>1 DEF Listed, At
      <4>4. i = 1 => Before(e, L) >= 0
        <5>1. CASE i = 1
          <6>1. Sources[1] = Head(Sources)
            BY SourcesType
          <6>2. e \in L /\ L \in SUBSET Entities
            BY <4>1, <4>2, <4>3, <5>1, <6>1
          <6>3. Before(e, L) \in Nat
            BY <6>2, BeforeGrows
          <6>4. QED
            BY <6>3
        <5>2. QED
          BY <5>1
      <4>5. Due(e, c)'
        BY <2>1, <4>2, <4>3, <4>4 DEF Due
      <4>6. QED
        BY <4>5 DEF Awaited
    <3>3. QED
      BY <3>1, <3>2
  <2>4. IsFiniteSet(call'[c].seen)
    BY <2>1, FS_EmptySet
  <2>5. Expects(c)'
    BY <1>1, <1>2, <2>2, <2>3, <2>4 DEF Expects
  <2>6. QED
    BY <1>4, <2>5 DEF Counts, At
<1>5. CASE ~At(c, "usage") /\ call'[c].at # "usage"
  <2>1. ~(call'[c].at = "done" /\ call'[c].outcome = "plan" /\ Uses(c, {"delete_tag"}))
    BY <1>1, <1>5 DEF Advances
  <2>2. QED
    BY <1>5, <2>1 DEF Expects, Counts, At, Uses
<1>6. QED
  BY <1>3, <1>4, <1>5

LEMMA UsageInvKept ==
    ASSUME IInv, UsageInv, [Next]_cvars
    PROVE  UsageInv'
<1>1. CASE UNCHANGED cvars
  <2>1. UNCHANGED <<call, held, carried, alive, owner, req, scope, torn>>
    BY <1>1 DEF cvars, history, inventory, hostVars, tagVars, settings
  <2>2. \A c : At(c, "hosts")' = At(c, "hosts")
    BY <2>1 DEF At
  <2>3. \A e : Present(e)' = Present(e)
    BY <2>1 DEF Present
  <2>4. \A nets : Within(nets)' = Within(nets)
    BY <2>1 DEF Within
  <2>5. \A c : Listed(c)' = Listed(c)
    BY <2>1, <2>2, <2>3, <2>4 DEF Listed
  <2>6. ASSUME NEW c \in Calls, NEW e, Awaited(e, c)
        PROVE  Awaited(e, c)'
    BY <2>1, <2>5, <2>6 DEF Awaited, Saw, Due, Before
  <2>7. UsageIsSeen'
    BY <2>1 DEF UsageInv, UsageIsSeen, VisibleUses, At, Uses
  <2>8. QED
    BY <2>1, <2>3, <2>6, <2>7 DEF UsageInv, At, TagOf
<1>2. CASE ~UNCHANGED cvars
  <2>1. UNCHANGED req
    BY StepKinds DEF CallTurns, WriteHandled, Otherwise, settings
  <2>2. ASSUME NEW c \in Calls
        PROVE  Expects(c)' /\ Counts(c)'
    <3>0. Expects(c) /\ Counts(c)
      BY DEF UsageInv, UsageIsSeen, Expects, Counts
    <3>1. CASE call'[c] = call[c]
      BY <1>2, <2>1, <3>0, <3>1, WaitingKeeps
    <3>2. CASE Turns(c) /\ UNCHANGED inventory
      BY <1>2, <2>1, <3>0, <3>2, TurningKeeps
    <3>3. CASE call'[c].at = "done" /\ call'[c].outcome = "applied"
      BY <3>3 DEF Expects, Counts, At
    <3>4. CASE \E d \in Calls : CallTurns(d)
      BY <3>1, <3>2, <3>4 DEF CallTurns, Turns, OnlyCall
    <3>5. CASE \E m \in Message : WriteHandled(m)
      BY <3>1, <3>3, <3>5 DEF WriteHandled, OnlyCall
    <3>6. CASE Otherwise
      BY <3>1, <3>6 DEF Otherwise
    <3>7. QED
      BY <3>4, <3>5, <3>6, StepKinds
  <2>3. QED
    BY <2>2 DEF UsageInv, UsageIsSeen, Expects, Counts
<1>3. QED
  BY <1>1, <1>2

\* The plan of delete_tag counts, of every kind, at least the entities that
\* carried the tag throughout, although nine collections are read one after the
\* other, in pages; not counted are user API keys, and what a collection hides
\* that lost a record between two of its pages (client.py:186-199, 516-548,
\* tools/write.py:338-351).
THEOREM UsageHolds == Spec => []UsageIsSeen
<1>1. Init => UsageInv
  BY DEF Init, Idle, UsageInv, UsageIsSeen, At
<1>2. IInv /\ UsageInv /\ [Next]_cvars => UsageInv'
  BY UsageInvKept
<1>3. UsageInv => UsageIsSeen
  BY DEF UsageInv
<1>4. QED
  BY <1>1, <1>2, <1>3, InvariantHolds, PTL DEF Spec

-----------------------------------------------------------------------------
(***************************************************************************)
(* Repeated merges.  Unless the world adds a host or gives one another     *)
(* name or address, and unless a host goes between two pages of a lookup,  *)
(* a selector that named one host goes on naming that host until it is     *)
(* retired or merged away, and once a merge is done its two selectors      *)
(* never name two hosts again.                                             *)
(***************************************************************************)

\* What a selector names at one moment, in the whole list.
MatchingHosts(sel) ==
    {h \in alive : IF sel.by = "id" THEN h = sel.key
                   ELSE Within(NetsOf[h]) /\ Matches(sel, h)}

StillMeans(sel, h) == h \in alive => MatchingHosts(sel) = {h}

Untorn(c) == "Host" \notin torn[c]

Aimed(m) ==
    m.kind = "merge" /\ Untorn(m.call) =>
      /\ m.dest # m.src
      /\ StillMeans(req[m.call].dest, m.dest)
      /\ StillMeans(req[m.call].src, m.src)

NeverApart(d, s) == \A x \in MatchingHosts(d), y \in MatchingHosts(s) : x = y

MergesOnce ==
    \A c, d \in did :
      Uses(c, {"consolidate_hosts"}) /\ req[c] = req[d] /\ Untorn(c) /\ Untorn(d) => c = d

\* A search for what sel means, as far as it got: what was noted and is left
\* matches, and what matches was noted or comes on a later page.
ReadSoFar(c, sel) ==
    /\ sel.by = "id" => call[c].seen = {}
    /\ sel.by # "id" =>
         /\ \A u \in call[c].seen : u[1] \in alive => u[1] \in MatchingHosts(sel)
         /\ \A h \in MatchingHosts(sel) :
              Saw(h, call[c].seen) \/ Before(h, Listed(c)) >= call[c].offset

Searches(c) ==
    (At(c, "host") \/ At(c, "hosts")) /\ Untorn(c) =>
      /\ call[c].found # <<>> => StillMeans(req[c].dest, call[c].found[1])
      /\ At(c, "host") => Selector(c).by = "id"
      /\ At(c, "hosts") => ReadSoFar(c, Selector(c))

Undisturbed ==
    /\ \A c \in Calls : Searches(c)
    /\ \A c \in Calls : At(c, "send") => Aimed(call[c].send)
    /\ \A m \in late : Aimed(m)
    /\ \A c \in did : Uses(c, {"consolidate_hosts"}) /\ Untorn(c) =>
                        NeverApart(req[c].dest, req[c].src)
    /\ MergesOnce

MergeInv == ~altered => Undisturbed

\* Hosts may be gone, and every selector names those of its hosts that are left.
Thins ==
    /\ alive' \subseteq alive
    /\ \A sel : MatchingHosts(sel)' = MatchingHosts(sel) \intersect alive'

LEMMA RetiringThins ==
    ASSUME alive' \subseteq alive, UNCHANGED <<scope, nameOf, addrsOf>>
    PROVE  Thins
<1>1. ASSUME NEW sel
      PROVE  MatchingHosts(sel)' = MatchingHosts(sel) \intersect alive'
  <2>1. CASE sel.by = "id"
    <3>1. MatchingHosts(sel) = IF sel.key \in alive THEN {sel.key} ELSE {}
      BY <2>1 DEF MatchingHosts
    <3>2. MatchingHosts(sel)' = IF sel.key \in alive' THEN {sel.key} ELSE {}
      BY <2>1 DEF MatchingHosts
    <3>3. QED
      BY <3>1, <3>2
  <2>2. CASE sel.by # "id"
    BY <2>2 DEF MatchingHosts, Within, Matches
  <2>3. QED
    BY <2>1, <2>2
<1>2. QED
  BY <1>1 DEF Thins

\* After host s was merged into d, what names no host but h still does while h
\* exists, and what named s names d at most.
MergedAway(d, s) ==
    \A sel :
      /\ MatchingHosts(sel)' \subseteq (MatchingHosts(sel) \ {s}) \union {d}
      /\ MatchingHosts(sel) \ {s} \subseteq MatchingHosts(sel)'
      /\ d \in MatchingHosts(sel)' => {d, s} \intersect MatchingHosts(sel) # {}

LEMMA MergeMovesMatches ==
    ASSUME InventoryOK, NEW m \in Message, HandleMerge(m), UNCHANGED scope
    PROVE  MergedAway(m.dest, m.src)
<1>1. /\ m.dest \in Hosts /\ m.src \in Hosts
      /\ m.dest \in alive /\ m.src \in alive /\ m.dest # m.src
      /\ NetsOf[m.dest] = NetsOf[m.src]
      /\ alive' = alive \ {m.src} /\ nameOf' = nameOf
      /\ addrsOf' = [addrsOf EXCEPT ![m.dest] = @ \union addrsOf[m.src]]
  BY DEF HandleMerge, Message
<1>2. \A h \in alive' : addrsOf'[h] = IF h = m.dest THEN addrsOf[h] \union addrsOf[m.src]
                                      ELSE addrsOf[h]
  BY <1>1 DEF InventoryOK
<1>3. \A h : Within(NetsOf[h])' = Within(NetsOf[h])
  BY DEF Within
<1>4. QED
  BY <1>1, <1>2, <1>3 DEF MergedAway, MatchingHosts, Matches, Within

LEMMA StillMeansKept ==
    ASSUME NEW sel, NEW h, StillMeans(sel, h),
           \/ Thins
           \/ \E d, s : MergedAway(d, s) /\ alive' = alive \ {s}
    PROVE  StillMeans(sel, h)'
<1>1. CASE Thins
  <2>1. PICK after : after = MatchingHosts(sel)'
    OBVIOUS
  <2>2. h \in alive' => after = {h}
    BY <1>1, <2>1 DEF StillMeans, Thins
  <2>3. QED
    BY <2>1, <2>2 DEF StillMeans
<1>2. CASE \E d, s : MergedAway(d, s) /\ alive' = alive \ {s}
  <2>1. PICK d, s : MergedAway(d, s) /\ alive' = alive \ {s}
    BY <1>2
  <2> DEFINE before == MatchingHosts(sel)
  <2>2. PICK after : after = MatchingHosts(sel)'
    OBVIOUS
  <2>3. /\ after \subseteq (before \ {s}) \union {d}
        /\ before \ {s} \subseteq after
        /\ d \in after => {d, s} \intersect before # {}
    BY <2>1, <2>2 DEF MergedAway
  <2>4. h \in alive' => before = {h} /\ h # s
    BY <2>1 DEF StillMeans
  <2> HIDE DEF before
  <2>5. h \in alive' => after = {h}
    BY <2>3, <2>4
  <2>6. QED
    BY <2>2, <2>5 DEF StillMeans
<1>3. QED
  BY <1>1, <1>2

LEMMA NeverApartKept ==
    ASSUME NEW p, NEW q, NeverApart(p, q),
           \/ Thins
           \/ \E d, s : MergedAway(d, s)
    PROVE  NeverApart(p, q)'
<1>1. CASE Thins
  <2>1. PICK P, Q : P = MatchingHosts(p)' /\ Q = MatchingHosts(q)'
    OBVIOUS
  <2>2. P \subseteq MatchingHosts(p) /\ Q \subseteq MatchingHosts(q)
    BY <1>1, <2>1 DEF Thins
  <2>3. \A x \in P, y \in Q : x = y
    BY <2>2 DEF NeverApart
  <2>4. QED
    BY <2>1, <2>3 DEF NeverApart
<1>2. CASE \E d, s : MergedAway(d, s)
  <2>1. PICK d, s : MergedAway(d, s)
    BY <1>2
  <2>2. PICK P, Q : P = MatchingHosts(p)' /\ Q = MatchingHosts(q)'
    OBVIOUS
  <2>3. /\ P \subseteq (MatchingHosts(p) \ {s}) \union {d}
        /\ d \in P => {d, s} \intersect MatchingHosts(p) # {}
        /\ Q \subseteq (MatchingHosts(q) \ {s}) \union {d}
        /\ d \in Q => {d, s} \intersect MatchingHosts(q) # {}
    BY <2>1, <2>2 DEF MergedAway
  <2>4. \A x \in P, y \in Q : x = y
    <3>1. TAKE x \in P, y \in Q
    <3>2. x # d => x \in MatchingHosts(p) \ {s}
      BY <2>3
    <3>3. y # d => y \in MatchingHosts(q) \ {s}
      BY <2>3
    <3>4. x = d => d \in MatchingHosts(p) \/ s \in MatchingHosts(p)
      BY <2>3
    <3>5. y = d => d \in MatchingHosts(q) \/ s \in MatchingHosts(q)
      BY <2>3
    <3>6. QED
      BY <3>2, <3>3, <3>4, <3>5 DEF NeverApart
  <2>5. QED
    BY <2>2, <2>4 DEF NeverApart
<1>3. QED
  BY <1>1, <1>2

\* The list a host is looked for in.
LEMMA HostList ==
    ASSUME alive \subseteq Hosts, NEW c \in Calls, At(c, "hosts")
    PROVE  Listed(c) = {h \in alive : Within(NetsOf[h])}
<1>1. \A e \in Entities : e \in Hosts => e \notin Services
  BY DEF Hosts, Services
<1>2. \A e \in Hosts : e \in Entities
  BY DEF Hosts
<1>3. \A e \in Entities : (Present(e) /\ e \in Hosts) <=> e \in alive
  BY <1>1 DEF Present
<1>4. QED
  BY <1>2, <1>3 DEF Listed

\* Where a search ends that lost nothing, it found what its selector means.
LEMMA SettledMeans ==
    ASSUME IInv, NEW c \in Calls, Searches(c), Untorn(c), NEW h, Settles(c, h)
    PROVE  StillMeans(Selector(c), h)
<1>1. SUFFICES ASSUME h \in alive PROVE MatchingHosts(Selector(c)) = {h}
  BY DEF StillMeans
<1>2. CASE At(c, "host") /\ h = Selector(c).key
  <2>1. Selector(c).by = "id"
    BY <1>2 DEF Searches
  <2>2. QED
    BY <1>1, <1>2, <2>1 DEF MatchingHosts
<1>3. CASE At(c, "hosts") /\ LastPage(c) /\ OnlyMatch(Matched(c), h)
  <2> DEFINE E == {x \in NextPage(c) : Matches(Selector(c), x)}
  <2>1. PICK sel : sel = Selector(c)
    OBVIOUS
  <2>2. ReadSoFar(c, sel)
    BY <1>3, <2>1 DEF Searches
  <2>3. Listed(c) = {x \in alive : Within(NetsOf[x])}
    BY <1>3, HostList DEF IInv, TypeOK
  <2>4. E \in SUBSET Entities /\ \A x \in E : x \in Listed(c) /\ Matches(sel, x)
    BY <2>1 DEF NextPage, Listed
  <2>5. \A x \in NextPage(c) : Matches(sel, x) => x \in E
    BY <2>1
  <2>6. Matched(c) = Noted(c, E)
    BY DEF Matched
  <2> HIDE DEF E
  <2>7. PICK u \in Matched(c) : Matched(c) = {u} /\ u[1] = h
    BY <1>3 DEF OnlyMatch
  <2>8. Saw(h, Matched(c)) /\ \A x : Saw(x, Matched(c)) => x = h
    BY <2>7 DEF Saw
  <2>9. \A x : Saw(x, Matched(c)) <=> (Saw(x, call[c].seen) \/ x \in E)
    BY <2>4, <2>6, NotedSeen
  <2>10. sel.by # "id"
    <3>1. SUFFICES ASSUME sel.by = "id" PROVE FALSE
      OBVIOUS
    <3>2. \A x : ~Saw(x, call[c].seen)
      BY <2>2, <3>1 DEF ReadSoFar, Saw
    <3>3. \A x : x \notin E
      BY <2>4, <3>1 DEF Matches
    <3>4. QED
      BY <2>8, <2>9, <3>2, <3>3
  <2>11. h \in MatchingHosts(sel)
    <3>1. CASE Saw(h, call[c].seen)
      BY <1>1, <2>2, <2>10, <3>1 DEF ReadSoFar, Saw
    <3>2. CASE h \in E
      BY <2>3, <2>4, <2>10, <3>2 DEF MatchingHosts
    <3>3. QED
      BY <2>8, <2>9, <3>1, <3>2
  <2>12. ASSUME NEW x \in MatchingHosts(sel)
         PROVE  x = h
    <3>1. x \in Listed(c) /\ Matches(sel, x)
      BY <2>3, <2>10, <2>12 DEF MatchingHosts
    <3>2. Saw(x, call[c].seen) \/ Before(x, Listed(c)) >= call[c].offset
      BY <2>2, <2>10, <2>12 DEF ReadSoFar
    <3>3. CASE Saw(x, call[c].seen)
      BY <2>8, <2>9, <3>3
    <3>4. CASE Before(x, Listed(c)) >= call[c].offset
      <4>1. call[c].offset \in Nat
        BY DEF IInv, TypeOK, Local
      <4>2. x \in NextPage(c)
        BY <1>3, <3>1, <3>4, <4>1, PageReads
      <4>3. QED
        BY <2>5, <2>8, <2>9, <3>1, <4>2
    <3>5. QED
      BY <3>2, <3>3, <3>4
  <2>13. QED
    BY <2>1, <2>11, <2>12
<1>4. QED
  BY <1>2, <1>3 DEF Settles

\* Unless the world adds or renames one, hosts change only by being retired or
\* merged.
LEMMA OnlyMergesMove ==
    ASSUME IInv, [Next]_cvars, ~altered'
    PROVE  /\ ~altered
           /\ UNCHANGED settings
           /\ \/ Thins
              \/ \E m \in Message : /\ WriteHandled(m) /\ HandleMerge(m)
                                    /\ MergedAway(m.dest, m.src)
                                    /\ alive' = alive \ {m.src}
<1>0. env \in Nat
  BY CallsAssumption DEF IInv, TypeOK
<1>1. ~altered /\ (env' # env => UNCHANGED <<nameOf, addrsOf>> /\ alive' \subseteq alive)
  <2>1. CASE Remembers
    BY <2>1 DEF Remembers
  <2>2. CASE UNCHANGED cvars
    BY <2>2 DEF cvars, history, inventory, hostVars
  <2>3. QED
    BY <2>1, <2>2 DEF Next
<1>2. ASSUME UNCHANGED <<scope, hostVars>>
      PROVE  Thins
  BY <1>2, RetiringThins DEF hostVars
<1>3. CASE \E c \in Calls : CallTurns(c)
  BY <1>1, <1>2, <1>3 DEF CallTurns, inventory, settings
<1>4. CASE \E m \in Message : WriteHandled(m)
  <2>1. PICK m \in Message : WriteHandled(m)
    BY <1>4
  <2>2. UNCHANGED <<settings, env>>
    BY <2>1 DEF WriteHandled
  <2>3. CASE HandleMerge(m)
    <3>1. InventoryOK /\ UNCHANGED scope
      BY <2>2 DEF IInv, TypeOK, InventoryOK, settings
    <3>2. MergedAway(m.dest, m.src)
      BY <2>3, <3>1, MergeMovesMatches
    <3>3. QED
      BY <1>1, <2>1, <2>2, <2>3, <3>2 DEF HandleMerge
  <2>4. CASE HandleTag(m) \/ HandleBinding(m)
    BY <1>1, <1>2, <2>2, <2>4 DEF HandleTag, HandleBinding, settings
  <2>5. QED
    BY <2>1, <2>3, <2>4 DEF WriteHandled, Handle
<1>5. CASE Otherwise
  <2>1. CASE UNCHANGED <<inventory, env>>
    BY <1>1, <1>2, <1>5, <2>1 DEF Otherwise, inventory, settings
  <2>2. CASE World
    <3>1. UNCHANGED <<scope, nameOf, addrsOf>>
      BY <1>0, <1>1, <1>5, <2>2 DEF World, Otherwise, settings
    <3>2. alive' \subseteq alive
      BY <1>0, <1>1, <2>2 DEF World
    <3>3. QED
      BY <1>1, <1>5, <3>1, <3>2, RetiringThins DEF Otherwise
  <2>3. QED
    BY <1>5, <2>1, <2>2 DEF Otherwise
<1>6. QED
  BY <1>3, <1>4, <1>5, StepKinds

LEMMA AimedKept ==
    ASSUME IInv, [Next]_cvars, ~altered', NEW m \in Message, Aimed(m)
    PROVE  Aimed(m)'
<1>1. m.call \in Calls
  BY DEF Message
<1>2. Untorn(m.call)' => Untorn(m.call)
  BY <1>1, TornGrows DEF Untorn
<1>3. CASE m.kind = "merge" /\ Untorn(m.call)
  <2>1. PICK d, s : d = req[m.call].dest /\ s = req[m.call].src
    OBVIOUS
  <2>2. m.dest # m.src /\ StillMeans(d, m.dest) /\ StillMeans(s, m.src)
    BY <1>3, <2>1 DEF Aimed
  <2>3. \/ Thins
        \/ \E x, y : MergedAway(x, y) /\ alive' = alive \ {y}
    BY OnlyMergesMove
  <2>4. PICK md, ms : md = m.dest /\ ms = m.src
    OBVIOUS
  <2>5. StillMeans(d, md)' /\ StillMeans(s, ms)'
    BY <2>2, <2>3, <2>4, StillMeansKept
  <2>6. UNCHANGED req
    BY OnlyMergesMove DEF settings
  <2>7. QED
    BY <2>1, <2>2, <2>4, <2>5, <2>6 DEF Aimed
<1>4. QED
  BY <1>2, <1>3 DEF Aimed

\* A search that lost nothing between two pages goes on as it began.
LEMMA ReadingKept ==
    ASSUME IInv, [Next]_cvars, ~altered', NEW c \in Calls, At(c, "hosts"),
           call'[c] = call[c], Untorn(c)', NEW sel, ReadSoFar(c, sel)
    PROVE  ReadSoFar(c, sel)'
<1>1. SUFFICES ASSUME sel.by # "id" PROVE ReadSoFar(c, sel)'
  BY DEF ReadSoFar
<1>2. UNCHANGED scope /\ alive \subseteq Hosts
  BY OnlyMergesMove DEF settings, IInv, TypeOK
<1>3. PICK before, after : before = MatchingHosts(sel) /\ after = MatchingHosts(sel)'
  OBVIOUS
<1>4. \/ alive' \subseteq alive /\ after = before \intersect alive'
      \/ \E d, s : /\ alive' = alive \ {s}
                   /\ after \subseteq (before \ {s}) \union {d}
                   /\ before \ {s} \subseteq after
                   /\ d \in after => {d, s} \intersect before # {}
  <2>1. CASE Thins
    BY <1>3, <2>1 DEF Thins
  <2>2. CASE \E d, s : MergedAway(d, s) /\ alive' = alive \ {s}
    <3>1. PICK d, s : MergedAway(d, s) /\ alive' = alive \ {s}
      BY <2>2
    <3>2. QED
      BY <1>3, <3>1 DEF MergedAway
  <2>3. QED
    BY <2>1, <2>2, OnlyMergesMove
<1>5. PICK L : L = Listed(c) /\ L = {h \in alive : Within(NetsOf[h])}
  BY <1>2, HostList
<1>6. PICK M : M = Listed(c)' /\ M = {h \in alive' : Within(NetsOf[h])}
  <2>1. At(c, "hosts")'
    BY DEF At
  <2>2. \A e \in Entities : e \in Hosts => e \notin Services
    BY DEF Hosts, Services
  <2>3. \A e \in Hosts : e \in Entities
    BY DEF Hosts
  <2>4. alive' \subseteq Hosts
    BY <1>2, <1>4
  <2>5. \A e \in Entities : (Present(e)' /\ e \in Hosts) <=> e \in alive'
    BY <2>2, <2>4 DEF Present
  <2>6. \A nets : Within(nets)' = Within(nets)
    BY <1>2 DEF Within
  <2>7. Listed(c)' = {h \in alive' : Within(NetsOf[h])}
    BY <2>1, <2>3, <2>4, <2>5, <2>6 DEF Listed
  <2>8. QED
    BY <2>7
<1>7. PICK seen, offset : seen = call[c].seen /\ offset = call[c].offset
  OBVIOUS
<1>8. /\ offset \in Nat
      /\ \A u \in seen : u[1] \in alive => u[1] \in before
      /\ \A h \in before : Saw(h, seen) \/ Before(h, L) >= offset
  BY <1>1, <1>3, <1>5, <1>7 DEF ReadSoFar, IInv, TypeOK, Local
<1>9. \A u \in seen : u[1] \in alive' => u[1] \in after
  BY <1>4, <1>8
<1>10. \A h \in after : Saw(h, seen) \/ Before(h, M) >= offset
  <2>1. CASE offset = 0
    <3>1. TAKE h \in after
    <3>2. h \in alive' /\ Within(NetsOf[h])
      BY <1>1, <1>2, <1>3, <3>1 DEF MatchingHosts, Within
    <3>3. h \in M /\ M \in SUBSET Entities
      BY <1>2, <1>4, <1>6, <3>2 DEF Hosts
    <3>4. Before(h, M) \in Nat
      BY <3>3, BeforeGrows
    <3>5. QED
      BY <2>1, <3>4
  <2>2. CASE offset > 0
    <3>1. \A h \in L : Present(h)'
      BY <1>5, <1>7, <2>2, TornGrows DEF Untorn
    <3>2. \A h \in L : h \in alive'
      BY <1>2, <1>5, <3>1 DEF Present
    <3>3. L = M
      BY <1>4, <1>5, <1>6, <3>2
    <3>4. \A h \in before : h \in L
      BY <1>1, <1>3, <1>5 DEF MatchingHosts
    <3>5. after \subseteq before
      BY <1>4, <3>2, <3>4
    <3>6. QED
      BY <1>8, <3>3, <3>5
  <2>3. QED
    BY <1>8, <2>1, <2>2
<1>11. QED
  BY <1>1, <1>3, <1>6, <1>7, <1>9, <1>10 DEF ReadSoFar

\* One more page.
LEMMA PageKeeps ==
    ASSUME IInv, UNCHANGED <<scope, inventory>>, NEW c \in Calls, TurnsPage(c),
           ReadSoFar(c, Selector(c)), NEW sel, sel = Selector(c)
    PROVE  ReadSoFar(c, sel)'
<1> DEFINE E == {x \in NextPage(c) : Matches(Selector(c), x)}
<1>1. UNCHANGED <<alive, owner, nameOf, addrsOf>> /\ At(c, "hosts") /\ At(c, "hosts")'
  BY DEF inventory, hostVars, TurnsPage, At
<1>2. Listed(c) = {h \in alive : Within(NetsOf[h])}
  BY <1>1, HostList DEF IInv, TypeOK
<1>3. Listed(c)' = Listed(c)
  BY <1>1 DEF Listed, Present, Within, At
<1>4. MatchingHosts(sel)' = MatchingHosts(sel)
  BY <1>1 DEF MatchingHosts, Matches, Within
<1>5. E \in SUBSET Entities /\ \A x \in E : x \in Listed(c) /\ Matches(sel, x)
  BY DEF NextPage, Listed
<1>6. \A x \in NextPage(c) : Matches(sel, x) => x \in E
  OBVIOUS
<1>7. call'[c].seen = call[c].seen \union {<<x, call[c].offset>> : x \in E}
  BY DEF TurnsPage, Matched, Noted
<1>8. call'[c].seen = Noted(c, E)
  BY DEF TurnsPage, Matched
<1> HIDE DEF E
<1>9. CASE sel.by = "id"
  <2>1. E = {} /\ call[c].seen = {}
    BY <1>5, <1>9 DEF Matches, ReadSoFar
  <2>2. call'[c].seen = {}
    BY <1>7, <2>1
  <2>3. QED
    BY <1>9, <2>2 DEF ReadSoFar
<1>10. CASE sel.by # "id"
  <2>1. ASSUME NEW u \in call'[c].seen, u[1] \in alive
        PROVE  u[1] \in MatchingHosts(sel)
    <3>1. CASE u \in call[c].seen
      BY <1>10, <2>1, <3>1 DEF ReadSoFar
    <3>2. CASE u \in {<<x, call[c].offset>> : x \in E}
      <4>1. u[1] \in E
        BY <3>2
      <4>2. QED
        BY <1>2, <1>5, <1>10, <4>1 DEF MatchingHosts
    <3>3. QED
      BY <1>7, <2>1, <3>1, <3>2
  <2>2. ASSUME NEW h \in MatchingHosts(sel)
        PROVE  Saw(h, call'[c].seen) \/ Before(h, Listed(c)) >= call'[c].offset
    <3>1. h \in Listed(c) /\ Matches(sel, h)
      BY <1>2, <1>10, <2>2 DEF MatchingHosts
    <3>2. CASE Saw(h, call[c].seen)
      BY <1>5, <1>8, <3>2, NotedSeen
    <3>3. CASE Before(h, Listed(c)) >= call[c].offset
      <4>1. call[c].offset \in Nat
        BY DEF IInv, TypeOK, Local
      <4>2. h \in NextPage(c) \/ Before(h, Listed(c)) >= call[c].offset + PageSize
        BY <3>1, <3>3, <4>1, PageReads
      <4>3. CASE h \in NextPage(c)
        BY <1>5, <1>6, <1>8, <3>1, <4>3, NotedSeen
      <4>4. QED
        BY <4>2, <4>3 DEF TurnsPage
    <3>4. QED
      BY <1>10, <2>2, <3>2, <3>3 DEF ReadSoFar
  <2>3. QED
    BY <1>1, <1>3, <1>4, <1>10, <2>1, <2>2 DEF ReadSoFar
<1>11. QED
  BY <1>9, <1>10

\* The server merges two hosts only for a request that was not merged before,
\* and for one that cannot be merged again.
LEMMA MergeHandled ==
    ASSUME IInv, Undisturbed, NEW m \in Message, WriteHandled(m), HandleMerge(m),
           MergedAway(m.dest, m.src), Untorn(m.call)
    PROVE  /\ \A c \in did : Uses(c, {"consolidate_hosts"}) /\ Untorn(c) =>
                               req[c] # req[m.call]
           /\ NeverApart(req[m.call].dest, req[m.call].src)'
<1>1. m.call \in Calls /\ m.kind = "merge" /\ m.dest \in alive /\ m.src \in alive
  BY DEF HandleMerge, Message
<1>2. Aimed(m)
  BY <1>1 DEF WriteHandled, Undisturbed
<1>3. PICK d, s : d = req[m.call].dest /\ s = req[m.call].src
  OBVIOUS
<1>4. MatchingHosts(d) = {m.dest} /\ MatchingHosts(s) = {m.src} /\ m.dest # m.src
  BY <1>1, <1>2, <1>3 DEF Aimed, StillMeans
<1>5. ~NeverApart(d, s)
  BY <1>4 DEF NeverApart
<1>6. \A c \in did : Uses(c, {"consolidate_hosts"}) /\ Untorn(c) => req[c] # req[m.call]
  BY <1>3, <1>5 DEF Undisturbed
<1>7. PICK x, y : x = MatchingHosts(d)' /\ y = MatchingHosts(s)'
  OBVIOUS
<1>8. x \subseteq {m.dest} /\ y \subseteq {m.dest}
  BY <1>4, <1>7 DEF MergedAway
<1>9. NeverApart(d, s)'
  BY <1>7, <1>8 DEF NeverApart
<1>10. UNCHANGED req
  BY DEF WriteHandled, settings
<1>11. QED
  BY <1>3, <1>6, <1>9, <1>10

\* What a call that turns a page, or begins a lookup, knows of its hosts.
LEMMA SearchTurns ==
    ASSUME IInv, Undisturbed, [Next]_cvars, ~altered', NEW c \in Calls, CallTurns(c)
    PROVE  Searches(c)'
<1>1. SUFFICES ASSUME call'[c].at \in {"host", "hosts"}, Untorn(c)'
               PROVE  Searches(c)'
  BY DEF Searches, At
<1>2. Advances(c) /\ UNCHANGED <<scope, req, inventory>> /\ Searches(c) /\ Untorn(c)
  BY <1>1, TornGrows DEF CallTurns, Turns, settings, Undisturbed, Untorn
<1>3. Thins
  BY <1>2, RetiringThins DEF inventory, hostVars
<1>4. PICK found : found = call'[c].found
  OBVIOUS
<1>5. PICK sel : sel = IF found = <<>> THEN req[c].dest ELSE req[c].src
  OBVIOUS
<1>6. Selector(c)' = sel
  BY <1>2, <1>4, <1>5 DEF Selector
<1>7. found # <<>> => StillMeans(req[c].dest, found[1])'
  <2>1. PICK d, h : d = req[c].dest /\ h = found[1]
    OBVIOUS
  <2>2. CASE found = call[c].found /\ (At(c, "host") \/ At(c, "hosts"))
    <3>1. found # <<>> => StillMeans(d, h)
      BY <1>2, <2>1, <2>2 DEF Searches
    <3>2. found # <<>> => StillMeans(d, h)'
      BY <1>3, <3>1, StillMeansKept
    <3>3. QED
      BY <1>2, <2>1, <3>2
  <2>3. CASE call[c].found = <<>> /\ \E x \in Hosts : found = <<x>> /\ Settles(c, x)
    <3>1. Settles(c, h) /\ Selector(c) = d
      BY <2>1, <2>3 DEF Selector
    <3>2. StillMeans(d, h)
      BY <1>2, <3>1, SettledMeans
    <3>3. StillMeans(d, h)'
      BY <1>3, <3>2, StillMeansKept
    <3>4. QED
      BY <1>2, <2>1, <3>3
  <2>4. QED
    BY <1>1, <1>2, <1>4, <2>2, <2>3 DEF Advances, TurnsPage, StartsLookup
<1>8. call'[c].at = "host" => sel.by = "id"
  BY <1>1, <1>2, <1>4, <1>5 DEF Advances, TurnsPage, StartsLookup
<1>9. call'[c].at = "hosts" => ReadSoFar(c, sel)'
  <2>1. CASE TurnsPage(c)
    <3>1. sel = Selector(c)
      BY <1>4, <1>5, <2>1 DEF TurnsPage, Selector
    <3>2. ReadSoFar(c, Selector(c))
      BY <1>2, <2>1 DEF TurnsPage, Searches
    <3>3. QED
      BY <1>2, <2>1, <3>1, <3>2, PageKeeps
  <2>2. CASE StartsLookup(c) /\ call'[c].at = "hosts"
    <3>1. call'[c].seen = {} /\ call'[c].offset = 0
      BY <2>2 DEF StartsLookup
    <3>2. PICK L : L = Listed(c)'
      OBVIOUS
    <3>3. PICK after : after = MatchingHosts(sel)'
      OBVIOUS
    <3>4. L \in SUBSET Entities
      BY <3>2 DEF Listed
    <3>5. sel.by # "id" => \A h \in after : h \in L
      <4>1. At(c, "hosts")'
        BY <2>2 DEF At
      <4>2. alive' \subseteq Hosts /\ alive' = alive
        BY <1>2 DEF IInv, TypeOK, inventory, hostVars
      <4>3. \A h \in Hosts : h \in Entities /\ h \notin Services
        BY DEF Hosts, Services
      <4>4. \A h \in alive' : Present(h)'
        BY <4>2, <4>3 DEF Present
      <4>5. sel.by # "id" => \A h \in after : h \in alive' /\ Within(NetsOf[h])'
        BY <3>3 DEF MatchingHosts
      <4>6. QED
        BY <3>2, <4>1, <4>2, <4>3, <4>4, <4>5 DEF Listed
    <3>6. sel.by # "id" => \A h \in after : Before(h, L) >= 0
      <4>1. \A h \in L : Before(h, L) \in Nat
        BY <3>4, BeforeGrows
      <4>2. QED
        BY <3>5, <4>1
    <3>7. QED
      BY <3>1, <3>2, <3>3, <3>6 DEF ReadSoFar
  <2>3. QED
    BY <1>1, <1>2, <2>1, <2>2 DEF Advances
<1>10. QED
  BY <1>2, <1>4, <1>6, <1>7, <1>8, <1>9 DEF Searches, At

\* What a call that waits knows of its hosts.
LEMMA SearchWaits ==
    ASSUME IInv, Undisturbed, [Next]_cvars, ~altered', NEW c \in Calls, call'[c] = call[c]
    PROVE  Searches(c)'
<1>1. SUFFICES ASSUME At(c, "host") \/ At(c, "hosts"), Untorn(c)'
               PROVE  Searches(c)'
  BY DEF Searches, At
<1>2. UNCHANGED req /\ Searches(c) /\ Untorn(c)
  BY <1>1, OnlyMergesMove, TornGrows DEF settings, Undisturbed, Untorn
<1>3. PICK d, h, sel : d = req[c].dest /\ h = call[c].found[1] /\ sel = Selector(c)
  OBVIOUS
<1>4. Selector(c)' = sel
  BY <1>2, <1>3 DEF Selector
<1>5. call[c].found # <<>> => StillMeans(d, h)'
  <2>1. call[c].found # <<>> => StillMeans(d, h)
    BY <1>1, <1>2, <1>3 DEF Searches
  <2>2. QED
    BY <2>1, OnlyMergesMove, StillMeansKept
<1>6. At(c, "hosts") => ReadSoFar(c, sel)'
  <2>1. At(c, "hosts") => ReadSoFar(c, sel)
    BY <1>2, <1>3 DEF Searches
  <2>2. QED
    BY <1>1, <2>1, ReadingKept
<1>7. At(c, "host") => sel.by = "id"
  BY <1>2, <1>3 DEF Searches
<1>8. QED
  BY <1>2, <1>3, <1>4, <1>5, <1>6, <1>7 DEF Searches, At

LEMMA MergeInvKept ==
    ASSUME IInv, MergeInv, [Next]_cvars
    PROVE  MergeInv'
<1> SUFFICES ASSUME ~altered' PROVE Undisturbed'
  BY DEF MergeInv
<1>1. Undisturbed /\ UNCHANGED req /\ UNCHANGED settings
  BY OnlyMergesMove DEF MergeInv, settings
<1>2. \/ Thins
      \/ \E d, s : MergedAway(d, s) /\ alive' = alive \ {s}
  BY OnlyMergesMove
<1>3. \A c \in Calls : Untorn(c)' => Untorn(c)
  BY TornGrows DEF Untorn
\* What a call that stands still, or goes on, knows of its hosts.
<1>4. ASSUME NEW c \in Calls
      PROVE  Searches(c)' /\ (At(c, "send")' => Aimed(call[c].send)')
  <2>1. CASE call'[c] = call[c]
    <3>1. At(c, "send") => Aimed(call[c].send)'
      <4>1. SUFFICES ASSUME At(c, "send") PROVE Aimed(call[c].send)'
        OBVIOUS
      <4>2. PICK m \in Message : m = call[c].send /\ Aimed(m)
        BY <1>1, <4>1 DEF At, IInv, Found, Undisturbed
      <4>3. Aimed(m)'
        BY <4>2, AimedKept
      <4>4. QED
        BY <2>1, <4>2, <4>3
    <3>2. QED
      BY <1>1, <2>1, <3>1, SearchWaits DEF At
  <2>2. CASE CallTurns(c)
    <3>1. Advances(c)
      BY <2>2 DEF CallTurns, Turns
    <3>2. ASSUME call'[c].at = "send"
          PROVE  Aimed(call[c].send)'
      <4>1. PICK m \in Message : m = call'[c].send /\ m.call = c
        BY <3>2, StepKeeps DEF IInv, Found
      <4>2. ASSUME m.kind = "merge", Untorn(c)
            PROVE  Aimed(m)
        <5>1. SendsMerge(c)
          BY <3>1, <3>2, <4>1, <4>2 DEF Advances
        <5>2. Searches(c) /\ Selector(c) = req[c].src
          BY <1>1, <5>1 DEF Undisturbed, SendsMerge, Selector
        <5>3. StillMeans(req[c].src, m.src)
          BY <4>1, <4>2, <5>1, <5>2, SettledMeans DEF SendsMerge
        <5>4. StillMeans(req[c].dest, m.dest)
          BY <4>1, <4>2, <5>1, <5>2 DEF SendsMerge, Settles, Searches
        <5>5. QED
          BY <4>1, <5>1, <5>3, <5>4 DEF Aimed, SendsMerge
      <4>3. Aimed(m)
        BY <4>1, <4>2 DEF Aimed
      <4>4. Aimed(m)'
        BY <4>3, AimedKept
      <4>5. QED
        BY <4>1, <4>4
    <3>3. QED
      BY <1>1, <2>2, <3>2, SearchTurns DEF At
  <2>3. CASE call'[c].at = "done"
    BY <2>3 DEF At, Searches
  <2>4. QED
    <3>1. CASE \E d \in Calls : CallTurns(d)
      BY <2>1, <2>2, <3>1 DEF CallTurns, Turns, OnlyCall
    <3>2. CASE \E m \in Message : WriteHandled(m)
      BY <2>1, <2>3, <3>2 DEF WriteHandled, OnlyCall
    <3>3. CASE Otherwise
      BY <2>1, <3>3 DEF Otherwise
    <3>4. QED
      BY <3>1, <3>2, <3>3, StepKinds
<1>5. ASSUME NEW m \in late'
      PROVE  Aimed(m)'
  <2>1. m \in late \/ \E c \in Calls : At(c, "send") /\ m = call[c].send
    BY StepKinds DEF CallTurns, WriteHandled, Otherwise
  <2>2. m \in Message /\ Aimed(m)
    BY <1>1, <2>1, LateCallIsDone DEF Undisturbed, At, IInv, Found
  <2>3. QED
    BY <2>2, AimedKept
\* What is known of the merges that were done.
<1>6. ASSUME NEW c \in did, Uses(c, {"consolidate_hosts"}), Untorn(c)'
      PROVE  NeverApart(req[c].dest, req[c].src)'
  <2>1. PICK d, s : d = req[c].dest /\ s = req[c].src
    OBVIOUS
  <2>2. Untorn(c)
    BY <1>3, <1>6 DEF IInv, TypeOK
  <2>3. NeverApart(d, s)'
    BY <1>1, <1>2, <1>6, <2>1, <2>2, NeverApartKept DEF Undisturbed
  <2>4. QED
    BY <1>1, <2>1, <2>3
<1>7. did \subseteq Calls
  BY DEF IInv, TypeOK
<1>8. CASE \E m \in Message : WriteHandled(m) /\ Uses(m.call, {"consolidate_hosts"})
  <2>1. PICK m \in Message : WriteHandled(m) /\ Uses(m.call, {"consolidate_hosts"})
    BY <1>8
  <2>2. HandleMerge(m)
    <3>1. m.kind = "merge"
      BY <2>1 DEF WriteHandled, Warranted, Message, Uses, BulkTools
    <3>2. QED
      BY <2>1, <3>1 DEF WriteHandled, Handle, HandleTag, HandleNewTag, HandleLabel,
         HandleDrop, HandleBulk, HandleBinding, HandleAttach, HandleReattach, HandleDetach
  <2>3. MergedAway(m.dest, m.src)
    <3>1. InventoryOK /\ UNCHANGED scope
      BY <1>1 DEF IInv, TypeOK, InventoryOK, settings
    <3>2. QED
      BY <2>2, <3>1, MergeMovesMatches
  <2>4. Untorn(m.call)' =>
          /\ \A c \in did : Uses(c, {"consolidate_hosts"}) /\ Untorn(c) =>
                              req[c] # req[m.call]
          /\ NeverApart(req[m.call].dest, req[m.call].src)'
    <3>1. m.call \in Calls
      BY DEF Message
    <3>2. QED
      BY <1>1, <1>3, <2>1, <2>2, <2>3, <3>1, MergeHandled
  <2>5. did' = did \union {m.call}
    BY <2>1 DEF WriteHandled
  <2>6. MergesOnce'
    <3>1. SUFFICES ASSUME NEW c \in did', NEW d \in did',
                          Uses(c, {"consolidate_hosts"}), req[c] = req[d],
                          Untorn(c)', Untorn(d)'
                   PROVE  c = d
      BY <1>1 DEF MergesOnce, Uses
    <3>2. CASE c \in did /\ d \in did
      BY <1>1, <1>3, <1>7, <3>1, <3>2 DEF Undisturbed, MergesOnce
    <3>3. CASE c \in did /\ d = m.call
      BY <1>3, <1>7, <2>4, <3>1, <3>3
    <3>4. CASE c = m.call /\ d \in did
      BY <1>3, <1>7, <2>4, <3>1, <3>4 DEF Uses
    <3>5. QED
      BY <2>5, <3>1, <3>2, <3>3, <3>4
  <2>7. \A c \in did' : Uses(c, {"consolidate_hosts"}) /\ Untorn(c)' =>
                          NeverApart(req[c].dest, req[c].src)'
    BY <1>6, <2>4, <2>5
  <2>8. QED
    BY <1>1, <1>4, <1>5, <2>6, <2>7 DEF Undisturbed, Uses
<1>9. CASE ~\E m \in Message : WriteHandled(m) /\ Uses(m.call, {"consolidate_hosts"})
  <2>1. \A c \in did' : c \in did \/ ~Uses(c, {"consolidate_hosts"})
    BY <1>9, StepKinds DEF CallTurns, WriteHandled, Otherwise
  <2>2. MergesOnce'
    <3>1. SUFFICES ASSUME NEW c \in did', NEW d \in did',
                          Uses(c, {"consolidate_hosts"}), req[c] = req[d],
                          Untorn(c)', Untorn(d)'
                   PROVE  c = d
      BY <1>1 DEF MergesOnce, Uses
    <3>2. c \in did /\ d \in did
      BY <2>1, <3>1 DEF Uses
    <3>3. QED
      BY <1>1, <1>3, <1>7, <3>1, <3>2 DEF Undisturbed, MergesOnce
  <2>3. \A c \in did' : Uses(c, {"consolidate_hosts"}) /\ Untorn(c)' =>
                          NeverApart(req[c].dest, req[c].src)'
    BY <1>6, <2>1
  <2>4. QED
    BY <1>1, <1>4, <1>5, <2>2, <2>3 DEF Undisturbed, Uses
<1>10. QED
  BY <1>8, <1>9

\* Repeating a merge, together or one after the other, after a timeout or not,
\* retires no second host: the selectors then find the surviving host or none.
\* It may where the world adds a host or gives one another name or address, and
\* where one of the two calls lost a host between two pages
\* (tools/consolidate.py:40-77, client.py:186-199, 333-354).
THEOREM RepeatsHold == Spec => []RepeatMergesOnce
<1>1. Init => MergeInv
  BY DEF Init, Idle, MergeInv, Undisturbed, MergesOnce, Searches, At
<1>2. IInv /\ MergeInv /\ [Next]_cvars => MergeInv'
  BY MergeInvKept
<1>3. MergeInv => RepeatMergesOnce
  BY DEF MergeInv, Undisturbed, MergesOnce, Untorn, RepeatMergesOnce
<1>4. QED
  BY <1>1, <1>2, <1>3, InvariantHolds, PTL DEF Spec
=============================================================================
