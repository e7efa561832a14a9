--------------------------- MODULE CurationProofs ---------------------------
(***************************************************************************)
(* Proofs about Curation, for every inventory, set of calls, requests and  *)
(* scopes: every variable keeps its type, and the tools implement Reach.   *)
(*                                                                         *)
(* A reading step replaces the locals of one call and touches nothing      *)
(* else; one lemma per step says what they then are, and `Reading` draws   *)
(* the conclusion once.  What the server handles is one lemma per kind of  *)
(* write, and `Serving` the conclusion.                                    *)
(***************************************************************************)
EXTENDS Curation, TLAPS

-----------------------------------------------------------------------------
(***************************************************************************)
(* The inductive invariant.  No step of the server checks a scope, so what *)
(* a tool found out before it sent its write must still be true, or have   *)
(* become irrelevant, when the write is handled, however late.             *)
(***************************************************************************)

\* What a binding call has found out about the binding it names.
StillWithin(b) == bound[b] # None => Within(bound[b].nets)

\* A binding lies in the network of its service and has a shape that holds
\* together.
SoundBinding(b) ==
    bound[b] # None =>
      bound[b].nets = NetsOf[bound[b].service] /\ WellShaped(bound[b].shape)

Lasts(b) ==
    /\ StillWithin(b) => StillWithin(b)'
    /\ SoundBinding(b) => SoundBinding(b)'

AllWithin(c) == \A i \in DOMAIN req[c].ids : Within(NetsOf[req[c].ids[i]])

\* A write is one its call asks for, and every check of the tool still holds.
Warranted(m) ==
    LET c == m.call IN
    /\ m.kind = "new" => Uses(c, {"create_tag"}) /\ m.label = req[c].label
    /\ m.kind = "label" =>
         /\ Uses(c, {"update_tag"}) /\ scope = NoScope
         /\ \A f \in DOMAIN req[c].patch : m.label[f] = req[c].patch[f]
    /\ m.kind = "drop" => Uses(c, {"delete_tag"}) /\ req[c].confirm /\ scope = NoScope
    /\ m.kind = "bulk" =>
         /\ Uses(c, BulkTools) /\ AllWithin(c)
         /\ m.ids = req[c].ids
         /\ m.add = Uses(c, {"tag_entities"})
    /\ m.kind = "attach" =>
         /\ Uses(c, {"create_binding"})
         /\ m.body = BodyFor(c) /\ Within(NetsFor(c)) /\ WellShaped(m.body.shape)
    /\ m.kind = "reattach" =>
         /\ Uses(c, {"update_binding"})
         /\ m.id = req[c].id /\ StillWithin(m.id)
         /\ m.body = BodyFor(c) /\ Within(NetsFor(c)) /\ WellShaped(m.body.shape)
    /\ m.kind = "detach" =>
         /\ Uses(c, {"delete_binding"}) /\ req[c].confirm
         /\ m.id = req[c].id /\ StillWithin(m.id)
    /\ m.kind = "merge" =>
         /\ Uses(c, {"consolidate_hosts"}) /\ req[c].confirm
         /\ MayMerge(m.dest, m.src)

\* What call c has found out when its locals are k.
Found(c, k) ==
    /\ k.at \in {"idle", "tag", "scope"} => k.found = <<>>
    /\ k.at \in {"idle", "tag", "scope", "host"} => k.offset = 0 /\ k.seen = {}
    /\ k.at \in {"org", "nets"} => Uses(c, {"create_tag"})
    /\ k.at = "tag" =>
         /\ Uses(c, TagTools \ {"create_tag"})
         /\ Uses(c, BulkTools) => AllWithin(c)
    /\ k.at = "label" => Uses(c, {"update_tag"}) /\ scope = NoScope
    /\ k.at = "usage" => Uses(c, {"delete_tag"}) /\ k.left # <<>>
    /\ k.at \in {"label", "usage"} => Len(k.found) = 1 /\ k.found[1] \in Tags
    /\ k.at = "scope" =>
         /\ Uses(c, BulkTools)
         /\ \A i \in DOMAIN req[c].ids :
              \/ Within(NetsOf[req[c].ids[i]])
              \/ \E j \in DOMAIN k.left : k.left[j] = req[c].ids[i]
         /\ req[c].of \in {"Host", "Service"} => k.left # <<>>
    /\ k.at = "binding" => Uses(c, {"update_binding", "delete_binding"})
    /\ k.at = "service" =>
         /\ Uses(c, {"create_binding", "update_binding"})
         /\ Uses(c, {"update_binding"}) => StillWithin(req[c].id)
    /\ k.at \in {"host", "hosts"} =>
         /\ Uses(c, {"consolidate_hosts"})
         /\ \/ k.found = <<>>
            \/ Len(k.found) = 1 /\ k.found[1] \in Hosts
    /\ k.at = "send" =>
         /\ k.send \in Message /\ k.send.call = c /\ Warranted(k.send)

\* At most one write of each call is outstanding, and none once one was handled.
OneWrite ==
    /\ \A c \in Calls : ~At(c, "done") => c \notin did /\ \A m \in late : m.call # c
    /\ \A m \in late : m.call \notin did
    /\ \A m, n \in late : m.call = n.call => m = n

InventoryOK ==
    /\ alive \subseteq Hosts
    /\ nameOf \in [Hosts -> Names] /\ addrsOf \in [Hosts -> SUBSET Addresses]
    /\ owner \in [Services -> Hosts]
    /\ label \in [Tags -> Labels \union {None}]
    /\ carried \in [Entities -> SUBSET Tags]
    /\ bound \in [Bindings -> Body \union {None}]
    /\ unborn \subseteq Hosts \union Tags \union Bindings

\* An id that was not handed out names nothing.
UnbornIsNone ==
    /\ \A t \in Tags \intersect unborn : label[t] = None
    /\ \A b \in Bindings \intersect unborn : bound[b] = None

IInv ==
    /\ TypeOK
    /\ OneWrite
    /\ UnbornIsNone
    /\ \A b \in Bindings : SoundBinding(b)
    /\ \A c \in Calls : Found(c, call[c])
    /\ \A m \in late : Warranted(m)

-----------------------------------------------------------------------------
\* What the assumptions say of the request of a call.
LEMMA RequestTypes ==
    ASSUME req \in Conversations, NEW c \in Calls
    PROVE  /\ req[c].tool = "create_tag" => req[c].label \in Labels
           /\ req[c].tool = "update_tag" =>
                /\ DOMAIN req[c].patch \subseteq {"name", "style"}
                /\ "name" \in DOMAIN req[c].patch => req[c].patch["name"] \in Names
                /\ "style" \in DOMAIN req[c].patch => req[c].patch["style"] \in Styles
           /\ Uses(c, BulkTools) => req[c].ids \in Seq(Entities) /\ req[c].of \in STRING
           /\ Uses(c, {"create_binding", "update_binding"}) =>
                req[c].service \in Services /\ req[c].shape \in Shapes
           /\ Uses(c, {"update_binding", "delete_binding"}) => req[c].id \in Bindings
<1>1. req[c] \in Requests
  BY CallsAssumption
<1>2. QED
  BY <1>1, RequestsAssumption DEF Uses, BulkTools

\* A tag as the merge leaves it has the attributes that were asked for.
LEMMA MergedIsLabel ==
    ASSUME NEW patch, NEW current \in Labels,
           DOMAIN patch \subseteq {"name", "style"},
           "name" \in DOMAIN patch => patch["name"] \in Names,
           "style" \in DOMAIN patch => patch["style"] \in Styles
    PROVE  /\ Merged(patch, current) \in Labels
           /\ \A f \in DOMAIN patch : Merged(patch, current)[f] = patch[f]
<1>1. /\ Merged(patch, current) \in Labels
      /\ Merged(patch, current)["name"] =
           IF "name" \in DOMAIN patch THEN patch["name"] ELSE current.name
      /\ Merged(patch, current)["style"] =
           IF "style" \in DOMAIN patch THEN patch["style"] ELSE current.style
  BY DEF Merged, Labels
<1>2. QED
  BY <1>1

\* The network a binding's body names.
LEMMA BodyTypes ==
    ASSUME NEW c \in Calls, req \in Conversations,
           Uses(c, {"create_binding", "update_binding"})
    PROVE  BodyFor(c) \in Body
<1>1. req[c].service \in Services /\ req[c].shape \in Shapes
  BY RequestTypes
<1>2. NetsFor(c) \in SUBSET Networks
  BY <1>1, CallsAssumption DEF NetsFor, Services
<1>3. QED
  BY <1>1, <1>2 DEF BodyFor, Body

-----------------------------------------------------------------------------
\* What does not change the settings, and moves no binding out of the scope,
\* leaves what was found out true.
LEMMA WarrantedKept ==
    ASSUME UNCHANGED settings, NEW m \in Message, Warranted(m),
           \A b \in Bindings : Lasts(b)
    PROVE  Warranted(m)'
<1>1. m.kind \in {"reattach", "detach"} => m.id \in Bindings
  BY DEF Message
<1>2. QED
  BY <1>1 DEF Warranted, Lasts, settings, Uses, AllWithin, Within, BodyFor, NetsFor, MayMerge

LEMMA FoundKept ==
    ASSUME UNCHANGED settings, req \in Conversations,
           NEW c \in Calls, NEW k \in Local, Found(c, k),
           \A b \in Bindings : Lasts(b)
    PROVE  Found(c, k)'
<1>1. Uses(c, {"update_binding", "delete_binding"}) => req[c].id \in Bindings
  BY RequestTypes
<1>2. k.at = "send" => Warranted(k.send)'
  BY WarrantedKept DEF Found, Local
<1>3. k.at = "service" /\ Uses(c, {"update_binding"}) => StillWithin(req[c].id)'
  <2>1. (req[c].id)' = req[c].id /\ Uses(c, {"update_binding"})' = Uses(c, {"update_binding"})
    BY DEF settings, Uses
  <2>2. k.at = "service" /\ Uses(c, {"update_binding"}) => StillWithin(req[c].id)
    BY DEF Found
  <2>3. Uses(c, {"update_binding"}) => req[c].id \in Bindings
    BY <1>1 DEF Uses
  <2>4. QED
    BY <2>1, <2>2, <2>3 DEF Lasts, StillWithin, Within
<1>4. QED
  BY <1>2, <1>3 DEF Found, settings, Uses, AllWithin, Within

-----------------------------------------------------------------------------
\* Steps that only read.

\* The locals of call c are k after the step.
Leaves(c, k) ==
    /\ ~At(c, "done")
    /\ call' = [call EXCEPT ![c] = k]
    /\ k \in Local
    /\ Found(c, k)

Quiet ==
    /\ UNCHANGED <<settings, inventory, env, late, did>>
    /\ orgKnown' \in BOOLEAN

LEMMA Reading ==
    ASSUME IInv, NEW c \in Calls, NEW k, Leaves(c, k), Quiet
    PROVE  IInv'
<1>1. /\ call' \in [Calls -> Local]
      /\ call'[c] = k
      /\ \A d \in Calls \ {c} : call'[d] = call[d]
  BY DEF Leaves, IInv, TypeOK
<1>2. /\ UNCHANGED settings /\ UNCHANGED bound /\ UNCHANGED late /\ UNCHANGED did
      /\ UNCHANGED <<alive, nameOf, addrsOf, owner, label, carried, unborn, env>>
  BY DEF Quiet, inventory, hostVars, tagVars
<1>3. \A b \in Bindings : Lasts(b)
  BY <1>2 DEF Lasts, StillWithin, SoundBinding, Within, settings
<1>4. TypeOK'
  BY <1>1, <1>2 DEF IInv, TypeOK, Quiet, settings
<1>5. OneWrite'
  BY <1>1, <1>2 DEF IInv, OneWrite, Leaves, At
<1>6. UnbornIsNone'
  BY <1>2 DEF IInv, UnbornIsNone
<1>7. \A d \in Calls : Found(d, call[d])'
  <2>1. TAKE d \in Calls
  <2>2. call'[d] \in Local /\ Found(d, call'[d])
    BY <1>1 DEF Leaves, IInv
  <2>3. PICK j \in Local : j = call'[d] /\ Found(d, j)
    BY <2>2
  <2>4. Found(d, j)'
    BY <1>2, <1>3, <2>3, FoundKept DEF IInv, TypeOK
  <2>5. QED
    BY <2>3, <2>4
<1>8. \A m \in late' : Warranted(m)'
  BY <1>2, <1>3, WarrantedKept DEF IInv, TypeOK
<1>9. \A b \in Bindings : SoundBinding(b)'
  BY <1>3 DEF IInv, Lasts
<1>10. QED
  BY <1>4, <1>5, <1>6, <1>7, <1>8, <1>9 DEF IInv

LEMMA ReadsAreQuiet ==
    ASSUME NEW c, NEW w, Reads(c, w), orgKnown \in BOOLEAN,
           UNCHANGED orgKnown \/ orgKnown' = TRUE
    PROVE  Quiet
  BY DEF Reads, Quiet

\* Where a call may go on to, its locals otherwise as they were.
LEMMA GoesOn ==
    ASSUME IInv, NEW c \in Calls, ~At(c, "done"), Quiet,
           NEW to \in {"org", "nets", "tag", "scope", "binding", "service", "host",
                       "hosts", "done"},
           Goes(c, to), Found(c, [call[c] EXCEPT !.at = to])
    PROVE  IInv'
<1> DEFINE k == [call[c] EXCEPT !.at = to]
<1>0. call \in [Calls -> Local] /\ call[c] \in Local
  BY DEF IInv, TypeOK
<1>1. k \in Local
  <2>1. \A r \in Local : [r EXCEPT !.at = to] \in Local
    BY DEF Local
  <2>2. QED
    BY <1>0, <2>1
<1>2. call' = [call EXCEPT ![c] = k]
  BY <1>0 DEF Goes, Local
<1>3. Leaves(c, k)
  BY <1>1, <1>2 DEF Leaves
<1>4. QED
  BY <1>3, Reading

LEMMA EndsQuietly ==
    ASSUME IInv, NEW c \in Calls, ~At(c, "done"), Quiet,
           NEW how \in {"plan", "unchanged", "refused"}, Ends(c, how)
    PROVE  IInv'
<1> DEFINE k == [call[c] EXCEPT !.at = "done", !.outcome = how]
<1>0. call \in [Calls -> Local] /\ call[c] \in Local
  BY DEF IInv, TypeOK
<1>1. k \in Local /\ k.at = "done"
  <2>1. \A r \in Local : [r EXCEPT !.outcome = how] \in Local
    BY DEF Local
  <2>2. \A r \in Local : [r EXCEPT !.at = "done"] \in Local
    BY DEF Local
  <2>3. k = [[call[c] EXCEPT !.at = "done"] EXCEPT !.outcome = how] /\ k.at = "done"
    BY <1>0 DEF Local
  <2>4. QED
    BY <1>0, <2>1, <2>2, <2>3
<1>2. call' = [call EXCEPT ![c] = k]
  BY <1>0 DEF Ends, Local
<1>3. Leaves(c, k)
  BY <1>1, <1>2 DEF Leaves, Found
<1>4. QED
  BY <1>3, Reading

LEMMA SendsQuietly ==
    ASSUME IInv, NEW c \in Calls, ~At(c, "done"), Quiet,
           NEW m \in Message, m.call = c, Warranted(m), Sends(c, m)
    PROVE  IInv'
<1> DEFINE k == [call[c] EXCEPT !.at = "send", !.send = m]
<1>0. call[c] \in Local /\ m \in Message \union {None}
  BY DEF IInv, TypeOK
<1>1. k \in Local /\ k.at = "send" /\ k.send = m
  BY <1>0 DEF Local
<1>2. call' = [call EXCEPT ![c] = k]
  BY DEF Sends, IInv, TypeOK, Local
<1>3. Leaves(c, k)
  BY <1>1, <1>2 DEF Leaves, Found
<1>4. QED
  BY <1>3, Reading

LEMMA WiderSeq ==
    ASSUME NEW S, NEW T, NEW s \in Seq(S)
    PROVE  s \in Seq(S \union T)
<1>1. s \in [1..Len(s) -> S] /\ Len(s) \in Nat
  OBVIOUS
<1>2. s \in [1..Len(s) -> S \union T]
  BY <1>1
<1>3. QED
  BY <1>1, <1>2

LEMMA TailLeft ==
    ASSUME NEW S, NEW s \in Seq(S), s # <<>>, Len(s) # 1
    PROVE  Tail(s) # <<>>
<1>1. Len(s) > 0
  OBVIOUS
<1> DEFINE n == Len(s)
           t == Tail(s)
<1>2. n > 1
  <2>1. n \in Nat /\ n # 0 /\ n # 1
    BY <1>1
  <2> HIDE DEF n
  <2>2. QED
    BY <2>1
<1>3. Len(t) = n - 1 /\ t \in Seq(S)
  OBVIOUS
<1>4. Len(t) # 0
  BY <1>2, <1>3
<1> HIDE DEF t
<1>5. t # <<>>
  BY <1>3, <1>4
<1>6. QED
  BY <1>5 DEF t

LEMMA SourcesType == Sources \in Seq(Entities \union ToSet(Sources)) /\ Sources # <<>>
<1>0. Sources \in Seq({"Host", "Service", "Subnet", "Network", "Dependency", "Daemon",
                      "DaemonApiKey", "Discovery", "Credential"})
  BY DEF Sources
<1>1. Len(Sources) = 9
  BY DEF Sources
<1>2. \A i \in 1..9 : Sources[i] \in ToSet(Sources)
  BY <1>0, <1>1 DEF ToSet
<1>3. Sources = [i \in 1..9 |-> Sources[i]]
  BY <1>0, <1>1
<1>4. QED
  BY <1>1, <1>2, <1>3

LEMMA NotedTypes ==
    ASSUME NEW c \in Calls, call[c] \in Local, NEW E \in SUBSET Entities
    PROVE  /\ Noted(c, E) \in SUBSET (Entities \X Nat)
           /\ call[c].offset + PageSize \in Nat
  BY PagesAssumption DEF Noted, Local

\* One more page is added to the uses seen so far.
LEMMA UsageTypes ==
    ASSUME NEW c \in Calls, call[c] \in Local, Found(c, call[c]), call[c].at = "usage"
    PROVE  /\ ReadUsage(c) \in Local
           /\ ReadUsage(c).at = "usage"
           /\ ReadUsage(c).found = call[c].found
           /\ ReadUsage(c).left = IF LastPage(c) THEN Tail(call[c].left) ELSE call[c].left
           /\ ReadUsage(c).offset = IF LastPage(c) THEN 0 ELSE call[c].offset + PageSize
           /\ ReadUsage(c).seen =
                Noted(c, {e \in NextPage(c) : TagOf(c) \in carried[e]})
<1>1. call[c].left \in Seq(Entities \union ToSet(Sources)) /\ call[c].left # <<>>
  BY DEF Found, Local
<1>2. Tail(call[c].left) \in Seq(Entities \union ToSet(Sources))
  BY <1>1
<1> DEFINE seen == Noted(c, {e \in NextPage(c) : TagOf(c) \in carried[e]})
<1>3. seen \in SUBSET (Entities \X Nat) /\ call[c].offset + PageSize \in Nat
  BY NotedTypes DEF NextPage, Listed
<1>4. ReadUsage(c) = IF LastPage(c)
         THEN [call[c] EXCEPT !.seen = seen, !.offset = 0, !.left = Tail(@)]
         ELSE [call[c] EXCEPT !.seen = seen, !.offset = @ + PageSize]
  BY DEF ReadUsage
<1>5. 0 \in Nat
  OBVIOUS
<1> HIDE DEF seen
<1>6. /\ ReadUsage(c) \in Local
      /\ ReadUsage(c).at = "usage"
      /\ ReadUsage(c).found = call[c].found
      /\ ReadUsage(c).left = IF LastPage(c) THEN Tail(call[c].left) ELSE call[c].left
      /\ ReadUsage(c).offset = IF LastPage(c) THEN 0 ELSE call[c].offset + PageSize
      /\ ReadUsage(c).seen = seen
  BY <1>1, <1>2, <1>3, <1>4, <1>5 DEF Local
<1>7. QED
  BY <1>6 DEF seen

LEMMA TagSteps ==
    ASSUME IInv, NEW c \in Calls, TagStep(c)
    PROVE  IInv'
<1>0. orgKnown \in BOOLEAN /\ req \in Conversations /\ call[c] \in Local
  BY DEF IInv, TypeOK
<1>1. CASE BeginCreate(c)
  <2>1. ~At(c, "done") /\ Quiet
    BY <1>0, <1>1 DEF BeginCreate, Reads, Quiet, At
  <2>2. CASE orgKnown
    <3>1. NewTagMessage(c) \in Message /\ NewTagMessage(c).call = c /\ Warranted(NewTagMessage(c))
      BY <1>0, <1>1, RequestTypes DEF BeginCreate, NewTagMessage, Message, Warranted, Uses
    <3>2. QED
      BY <1>1, <2>1, <2>2, <3>1, SendsQuietly DEF BeginCreate
  <2>3. CASE ~orgKnown
    <3>1. Found(c, [call[c] EXCEPT !.at = "org"])
      BY <1>0, <1>1 DEF BeginCreate, Found, Local
    <3>2. QED
      BY <1>1, <2>1, <2>3, <3>1, GoesOn DEF BeginCreate
  <2>4. QED
    BY <2>2, <2>3
<1>2. CASE FindOrg(c) \/ FromNetwork(c)
  <2>1. ~At(c, "done") /\ Quiet
    BY <1>0, <1>2 DEF FindOrg, FromNetwork, Reads, Quiet, At
  <2>2. Uses(c, {"create_tag"})
    BY <1>2 DEF FindOrg, FromNetwork, Reads, At, IInv, Found
  <2>3. NewTagMessage(c) \in Message /\ NewTagMessage(c).call = c /\ Warranted(NewTagMessage(c))
    BY <1>0, <2>2, RequestTypes DEF NewTagMessage, Message, Warranted, Uses
  <2>4. Found(c, [call[c] EXCEPT !.at = "nets"])
    BY <1>0, <2>2 DEF Found, Local
  <2>5. Sends(c, NewTagMessage(c)) \/ Goes(c, "nets")
    BY <1>2 DEF FindOrg, FromNetwork
  <2>6. QED
    BY <2>1, <2>3, <2>4, <2>5, SendsQuietly, GoesOn
<1>3. CASE BeginTag(c)
  <2>1. ~At(c, "done") /\ Quiet
    BY <1>0, <1>3 DEF BeginTag, Reads, Quiet, At
  <2>2. call[c].found = <<>> /\ call[c].offset = 0 /\ call[c].seen = {}
    BY <1>3 DEF BeginTag, Reads, At, IInv, Found
  <2>3. Found(c, [call[c] EXCEPT !.at = "tag"])
    BY <1>0, <1>3, <2>2 DEF BeginTag, Found, Local, Uses, TagTools, BulkTools
  <2>4. QED
    BY <1>3, <2>1, <2>3, GoesOn DEF BeginTag
<1>4. CASE ResolveForUpdate(c)
  <2>1. PICK t \in Tags : /\ Resolves(c, t)
                          /\ IF scope # NoScope THEN Ends(c, "refused")
                             ELSE IF DOMAIN req[c].patch = {} THEN Ends(c, "unchanged")
                             ELSE Finds(c, t, "label")
    BY <1>4 DEF ResolveForUpdate
  <2>2. ~At(c, "done") /\ Quiet /\ call[c].found = <<>>
    BY <1>0, <1>4, <2>1 DEF ResolveForUpdate, Resolves, Reads, Quiet, At, IInv, Found
  <2>3. CASE Ends(c, "refused") \/ Ends(c, "unchanged")
    BY <2>2, <2>3, EndsQuietly
  <2>4. CASE scope = NoScope /\ Finds(c, t, "label")
    <3> DEFINE k == [call[c] EXCEPT !.at = "label", !.found = <<t>>]
    <3>0. <<t>> \in Seq(Tags \union Hosts)
      OBVIOUS
    <3>1. k \in Local /\ k.at = "label" /\ k.found = <<t>>
      BY <1>0, <3>0 DEF Local
    <3>2. Append(call[c].found, t) = <<t>>
      BY <2>2
    <3>3. call' = [call EXCEPT ![c] = k]
      BY <1>0, <2>4, <3>2 DEF Finds, IInv, TypeOK, Local
    <3>4. Found(c, k)
      BY <1>4, <2>4, <3>1 DEF Found, ResolveForUpdate
    <3>5. Leaves(c, k)
      BY <2>2, <3>1, <3>3, <3>4 DEF Leaves
    <3>6. QED
      BY <2>2, <3>5, Reading
  <2>5. QED
    BY <2>1, <2>3, <2>4
<1>5. CASE ReadLabel(c)
  <2>1. ~At(c, "done") /\ Quiet
    BY <1>0, <1>5 DEF ReadLabel, Reads, Quiet, At
  <2>2. Uses(c, {"update_tag"}) /\ scope = NoScope /\ TagOf(c) \in Tags
    BY <1>5 DEF ReadLabel, Reads, At, IInv, Found, TagOf
  <2>3. label[TagOf(c)] \in Labels
    BY <1>5, <2>2 DEF ReadLabel, IInv, TypeOK
  <2>4. /\ LabelMessage(c).label \in Labels
        /\ \A f \in DOMAIN req[c].patch : LabelMessage(c).label[f] = req[c].patch[f]
    BY <1>0, <2>2, <2>3, RequestTypes, MergedIsLabel DEF LabelMessage, Uses
  <2>5. LabelMessage(c) \in Message /\ LabelMessage(c).call = c
    BY <2>2, <2>4 DEF LabelMessage, Message
  <2>6. Warranted(LabelMessage(c))
    <3>1. LabelMessage(c).kind = "label"
      BY DEF LabelMessage
    <3>2. QED
      BY <2>2, <2>4, <2>5, <3>1 DEF Warranted
  <2>7. QED
    BY <1>5, <2>1, <2>5, <2>6, SendsQuietly DEF ReadLabel
<1>6. CASE ResolveForDelete(c)
  <2>1. PICK t \in Tags : /\ Resolves(c, t)
                          /\ call' = [call EXCEPT ![c].at = "usage", ![c].found = <<t>>,
                                                  ![c].left = Sources]
    BY <1>6 DEF ResolveForDelete
  <2> DEFINE k == [call[c] EXCEPT !.at = "usage", !.found = <<t>>, !.left = Sources]
  <2>2. ~At(c, "done") /\ Quiet
    BY <1>0, <1>6, <2>1 DEF ResolveForDelete, Resolves, Reads, Quiet, At
  <2>3. <<t>> \in Seq(Tags \union Hosts) /\ Sources \in Seq(Entities \union ToSet(Sources))
    BY SourcesType
  <2>4. k \in Local /\ k.at = "usage" /\ k.found = <<t>> /\ k.left = Sources
    BY <1>0, <2>3 DEF Local
  <2>5. call' = [call EXCEPT ![c] = k]
    BY <1>0, <2>1 DEF IInv, TypeOK, Local
  <2>6. Found(c, k)
    BY <1>6, <2>4, SourcesType DEF Found, ResolveForDelete
  <2>7. QED
    BY <2>2, <2>4, <2>5, <2>6, Reading DEF Leaves
<1>7. CASE ReadSource(c)
  <2>1. ~At(c, "done") /\ Quiet /\ call[c].at = "usage"
    BY <1>0, <1>7 DEF ReadSource, Reads, Quiet, At
  <2>2. ReadUsage(c) \in Local
    BY <1>0, <2>1, UsageTypes DEF IInv
  <2>3. Found(c, ReadUsage(c))
    <3>0. Found(c, call[c]) /\ call[c].left # <<>>
      BY <2>1 DEF IInv, Found
    <3>2. call[c].left \in Seq(Entities \union ToSet(Sources))
      BY <1>0 DEF Local
    <3>1. LastPage(c) => Len(call[c].left) # 1
      BY <1>7 DEF ReadSource, EndsUsage
    <3>3. LastPage(c) => Tail(call[c].left) # <<>>
      BY <3>0, <3>1, <3>2, TailLeft
    <3>4. QED
      BY <1>0, <2>1, <3>0, <3>3, UsageTypes DEF Found
  <2>4. QED
    BY <1>7, <2>1, <2>2, <2>3, Reading DEF Leaves, ReadSource
<1>8. CASE ReadLastSource(c)
  <2>1. ~At(c, "done") /\ Quiet /\ call[c].at = "usage"
    BY <1>0, <1>8 DEF ReadLastSource, Reads, Quiet, At
  <2>2. /\ ReadUsage(c) \in Local
        /\ Uses(c, {"delete_tag"}) /\ TagOf(c) \in Tags
    BY <1>0, <2>1, UsageTypes DEF IInv, Found, TagOf
  <2> DEFINE r == ReadUsage(c)
             m == DropMessage(c, TagOf(c))
             k == IF scope # NoScope
                  THEN [r EXCEPT !.at = "done", !.outcome = "refused"]
                  ELSE IF ~req[c].confirm
                  THEN [r EXCEPT !.at = "done", !.outcome = "plan"]
                  ELSE [r EXCEPT !.at = "send", !.send = m]
  <2>3. call' = [call EXCEPT ![c] = k]
    BY <1>8 DEF ReadLastSource
  <2>4. CASE scope = NoScope /\ req[c].confirm
    <3>1. m \in Message /\ m.call = c /\ Warranted(m)
      BY <2>2, <2>4 DEF DropMessage, Message, Warranted
    <3> HIDE DEF r, m
    <3>2. [r EXCEPT !.at = "send", !.send = m] \in Local
      BY <2>2, <3>1 DEF Local, r
    <3>3. k = [r EXCEPT !.at = "send", !.send = m] /\ k.at = "send" /\ k.send = m
      BY <2>2, <2>4 DEF Local, r
    <3>4. Found(c, k)
      BY <3>1, <3>3 DEF Found
    <3>5. QED
      BY <2>1, <2>3, <3>2, <3>3, <3>4, Reading DEF Leaves
  <2>5. CASE ~(scope = NoScope /\ req[c].confirm)
    <3> HIDE DEF r, m
    <3>1. k \in Local /\ k.at = "done"
      BY <2>2, <2>5 DEF Local, r
    <3>2. Found(c, k)
      BY <3>1 DEF Found
    <3>3. QED
      BY <2>1, <2>3, <3>1, <3>2, Reading DEF Leaves
  <2>6. QED
    BY <2>4, <2>5
<1>9. CASE BeginBulk(c)
  <2>1. /\ ~At(c, "done") /\ Quiet /\ call[c].at = "idle" /\ call[c].found = <<>>
        /\ call[c].offset = 0 /\ call[c].seen = {}
    BY <1>0, <1>9 DEF BeginBulk, Reads, Quiet, At, IInv, Found
  <2>2. Uses(c, BulkTools) /\ req[c].ids \in Seq(Entities)
    BY <1>0, <1>9, RequestTypes DEF BeginBulk
  <2>3. CASE Ends(c, "refused")
    BY <2>1, <2>3, EndsQuietly
  <2>4. CASE NothingToAsk(c) /\ Goes(c, "tag")
    <3>1. AllWithin(c)
      <4>1. CASE scope = NoScope
        BY <4>1 DEF AllWithin, Within
      <4>2. CASE ToSet(req[c].ids) \subseteq {scope}
        <5>1. \A i \in DOMAIN req[c].ids : req[c].ids[i] = scope /\ req[c].ids[i] \in Entities
          <6>1. TAKE i \in DOMAIN req[c].ids
          <6>2. req[c].ids[i] \in ToSet(req[c].ids)
            BY DEF ToSet
          <6>3. i \in 1..Len(req[c].ids) /\ req[c].ids[i] \in Entities
            BY <2>2
          <6>4. QED
            BY <4>2, <6>2, <6>3
        <5>2. scope \in Entities => NetsOf[scope] = {scope}
          BY CallsAssumption DEF IInv, TypeOK
        <5>3. QED
          BY <5>1, <5>2 DEF AllWithin, Within
      <4>3. CASE req[c].ids = <<>>
        BY <4>3 DEF AllWithin
      <4>4. QED
        BY <2>4, <4>1, <4>2, <4>3 DEF NothingToAsk
    <3>2. Found(c, [call[c] EXCEPT !.at = "tag"])
      BY <1>0, <2>1, <2>2, <3>1 DEF Found, Local, Uses, TagTools, BulkTools
    <3>3. QED
      BY <2>1, <2>4, <3>2, GoesOn
  <2>5. CASE /\ req[c].of \in Taggable \ {"Network"} /\ ~NothingToAsk(c)
             /\ call' = [call EXCEPT ![c].at = "scope", ![c].left = ToCheck(c)]
    <3> DEFINE k == [call[c] EXCEPT !.at = "scope", !.left = ToCheck(c)]
    <3>1. ToCheck(c) = req[c].ids /\ req[c].ids \in Seq(Entities \union ToSet(Sources))
      BY <2>2, WiderSeq DEF ToCheck
    <3>2. /\ k \in Local /\ k.at = "scope" /\ k.left = req[c].ids /\ k.found = <<>>
          /\ k.offset = 0 /\ k.seen = {}
      BY <1>0, <2>1, <3>1 DEF Local
    <3>3. req[c].of \in {"Host", "Service"} => req[c].ids # <<>>
      BY <2>5 DEF NothingToAsk
    <3> HIDE DEF k
    <3>5. Found(c, k)
      BY <2>2, <3>2, <3>3 DEF Found
    <3>4. call' = [call EXCEPT ![c] = k]
      BY <1>0, <2>5 DEF IInv, TypeOK, Local, k
    <3>6. QED
      BY <2>1, <3>2, <3>5, <3>4, Reading DEF Leaves
  <2>6. QED
    BY <1>9, <2>3, <2>4, <2>5 DEF BeginBulk, Taggable
<1>10. CASE CheckEntity(c)
  <2>1. ~At(c, "done") /\ Quiet /\ call[c].at = "scope"
    BY <1>0, <1>10 DEF CheckEntity, Reads, Quiet, At
  <2> DEFINE left == call[c].left
             k == [call[c] EXCEPT !.left = Tail(left),
                                  !.at = IF Len(left) = 1 THEN "tag" ELSE "scope"]
  <2>2. /\ left \in Seq(Entities \union ToSet(Sources)) /\ left # <<>>
        /\ Uses(c, BulkTools) /\ req[c].ids \in Seq(Entities)
    BY <1>0, <1>10, <2>1, RequestTypes DEF CheckEntity, Local, IInv, Found
  <2>3. k \in Local /\ k.at = (IF Len(left) = 1 THEN "tag" ELSE "scope") /\ k.left = Tail(left)
        /\ k.found = call[c].found /\ k.offset = call[c].offset /\ k.seen = call[c].seen
    <3>1. Tail(left) \in Seq(Entities \union ToSet(Sources))
      BY <2>2
    <3>2. call[c].left = left
      OBVIOUS
    <3> HIDE DEF left
    <3>3. QED
      BY <1>0, <3>1 DEF Local
  <2>4. \A i \in DOMAIN req[c].ids : \/ Within(NetsOf[req[c].ids[i]])
                                     \/ \E j \in DOMAIN Tail(left) : Tail(left)[j] = req[c].ids[i]
    <3>1. TAKE i \in DOMAIN req[c].ids
    <3>2. CASE \E j \in DOMAIN left : left[j] = req[c].ids[i]
      <4>1. PICK j \in DOMAIN left : left[j] = req[c].ids[i]
        BY <3>2
      <4>2. CASE j = 1
        BY <1>10, <2>2, <4>1, <4>2 DEF CheckEntity
      <4>3. CASE j # 1
        <5>1. j - 1 \in DOMAIN Tail(left) /\ Tail(left)[j - 1] = left[j]
          BY <2>2, <4>1, <4>3
        <5>2. QED
          BY <4>1, <5>1
      <4>4. QED
        BY <4>2, <4>3
    <3>3. QED
      BY <2>1, <3>2 DEF IInv, Found
  <2>5. Len(left) = 1 => AllWithin(c)
    BY <2>2, <2>4 DEF AllWithin
  <2>6. Found(c, k)
    <3>1. CASE Len(left) = 1
      BY <2>1, <2>2, <2>3, <2>5, <3>1 DEF IInv, Found, Uses, TagTools, BulkTools
    <3>2. CASE Len(left) # 1
      <4>1. Tail(left) # <<>>
        BY <2>2, <3>2, TailLeft
      <4>2. Found(c, call[c])
        BY DEF IInv
      <4> HIDE DEF k, left
      <4>3. QED
        BY <2>1, <2>2, <2>3, <2>4, <3>2, <4>1, <4>2 DEF Found
    <3>3. QED
      BY <3>1, <3>2
  <2>7. call' = [call EXCEPT ![c] = k]
    BY <1>0, <1>10 DEF CheckEntity, IInv, TypeOK, Local
  <2>8. QED
    BY <2>1, <2>3, <2>6, <2>7, Reading DEF Leaves
<1>11. CASE CheckListing(c)
  <2>1. ~At(c, "done") /\ Quiet /\ call[c].at = "scope"
    BY <1>0, <1>11 DEF CheckListing, Reads, Quiet, At
  <2>2. /\ Uses(c, BulkTools) /\ call[c].found = <<>>
        /\ call[c].offset = 0 /\ call[c].seen = {}
    BY <2>1 DEF IInv, Found
  <2>3. AllWithin(c)
    <3>1. \A j \in DOMAIN call[c].left : Within(NetsOf[call[c].left[j]])
      BY <1>11 DEF CheckListing, ToSet
    <3>2. QED
      BY <2>1, <3>1 DEF IInv, Found, AllWithin
  <2>4. Found(c, [call[c] EXCEPT !.at = "tag"])
    BY <1>0, <2>2, <2>3 DEF Found, Local, Uses, TagTools, BulkTools
  <2>5. QED
    BY <1>11, <2>1, <2>4, GoesOn DEF CheckListing
<1>12. CASE ResolveForBulk(c)
  <2>1. PICK t \in Tags : Resolves(c, t) /\ Sends(c, BulkMessage(c, t))
    BY <1>12 DEF ResolveForBulk
  <2>2. ~At(c, "done") /\ Quiet /\ call[c].at = "tag"
    BY <1>0, <1>12, <2>1 DEF ResolveForBulk, Resolves, Reads, Quiet, At
  <2>3. /\ Uses(c, BulkTools) /\ AllWithin(c)
        /\ req[c].ids \in Seq(Entities) /\ req[c].of \in STRING
    BY <1>0, <1>12, <2>2, RequestTypes DEF ResolveForBulk, IInv, Found
  <2>4. BulkMessage(c, t) \in Message /\ BulkMessage(c, t).call = c
    BY <2>3 DEF BulkMessage, Message, Uses
  <2>5. Warranted(BulkMessage(c, t))
    BY <2>3 DEF BulkMessage, Warranted
  <2>6. QED
    BY <2>1, <2>2, <2>4, <2>5, SendsQuietly
<1>13. QED
  BY <1>1, <1>2, <1>3, <1>4, <1>5, <1>6, <1>7, <1>8, <1>9, <1>10, <1>11, <1>12 DEF TagStep

LEMMA BindingSteps ==
    ASSUME IInv, NEW c \in Calls, BindingStep(c)
    PROVE  IInv'
<1>0. /\ orgKnown \in BOOLEAN /\ req \in Conversations /\ call[c] \in Local
      /\ Found(c, call[c])
  BY DEF IInv, TypeOK
<1>1. CASE BeginBinding(c)
  <2>1. ~At(c, "done") /\ Quiet
    BY <1>0, <1>1 DEF BeginBinding, Reads, Quiet, At
  <2>2. CASE Uses(c, {"create_binding"})
    <3>1. Found(c, [call[c] EXCEPT !.at = "service"])
      BY <1>0, <2>2 DEF Found, Local, Uses
    <3>2. QED
      BY <1>1, <2>1, <2>2, <3>1, GoesOn DEF BeginBinding
  <2>3. CASE ~Uses(c, {"create_binding"})
    <3>1. Found(c, [call[c] EXCEPT !.at = "binding"])
      BY <1>0, <1>1, <2>3 DEF BeginBinding, Found, Local, Uses, BindingTools
    <3>2. QED
      BY <1>1, <2>1, <2>3, <3>1, GoesOn DEF BeginBinding
  <2>4. QED
    BY <2>2, <2>3
<1>2. CASE GetBinding(c)
  <2>1. ~At(c, "done") /\ Quiet /\ call[c].at = "binding"
    BY <1>0, <1>2 DEF GetBinding, Reads, Quiet, At
  <2>2. Uses(c, {"update_binding", "delete_binding"}) /\ req[c].id \in Bindings
    BY <1>0, <2>1, RequestTypes DEF Found
  <2>3. StillWithin(req[c].id)
    BY <1>2 DEF GetBinding, StillWithin
  <2>4. CASE Uses(c, {"update_binding"})
    <3>1. Found(c, [call[c] EXCEPT !.at = "service"])
      BY <1>0, <2>3, <2>4 DEF Found, Local, Uses
    <3>2. QED
      BY <1>2, <2>1, <2>4, <3>1, GoesOn DEF GetBinding
  <2>5. CASE ~Uses(c, {"update_binding"}) /\ ~req[c].confirm
    BY <1>2, <2>1, <2>5, EndsQuietly DEF GetBinding
  <2>6. CASE ~Uses(c, {"update_binding"}) /\ req[c].confirm
    <3>1. DetachMessage(c) \in Message /\ DetachMessage(c).call = c
      BY <2>2 DEF DetachMessage, Message
    <3>2. Warranted(DetachMessage(c))
      BY <2>2, <2>3, <2>6 DEF DetachMessage, Warranted, Uses
    <3>3. QED
      BY <1>2, <2>1, <2>6, <3>1, <3>2, SendsQuietly DEF GetBinding
  <2>7. QED
    BY <2>4, <2>5, <2>6
<1>3. CASE GetService(c)
  <2>1. ~At(c, "done") /\ Quiet /\ call[c].at = "service"
    BY <1>0, <1>3 DEF GetService, Reads, Quiet, At
  <2>2. /\ Uses(c, {"create_binding", "update_binding"})
        /\ Uses(c, {"update_binding"}) => StillWithin(req[c].id)
        /\ Within(NetsFor(c)) /\ BodyFor(c) \in Body
        /\ WellShaped(BodyFor(c).shape)
    BY <1>0, <1>3, <2>1, BodyTypes DEF GetService, Found, NetsFor, BodyFor
  <2>3. CASE Uses(c, {"create_binding"})
    <3>1. /\ AttachMessage(c) \in Message /\ AttachMessage(c).call = c
          /\ Warranted(AttachMessage(c))
      BY <2>2, <2>3 DEF AttachMessage, Message, Warranted
    <3>2. QED
      BY <1>3, <2>1, <2>3, <3>1, SendsQuietly DEF GetService
  <2>4. CASE ~Uses(c, {"create_binding"})
    <3>1. Uses(c, {"update_binding"}) /\ req[c].id \in Bindings
      BY <1>0, <2>2, <2>4, RequestTypes DEF Uses
    <3>2. ReattachMessage(c) \in Message /\ ReattachMessage(c).call = c
      BY <2>2, <3>1 DEF ReattachMessage, Message
    <3>3. Warranted(ReattachMessage(c))
      BY <2>2, <3>1 DEF ReattachMessage, Warranted
    <3>4. QED
      BY <1>3, <2>1, <2>4, <3>2, <3>3, SendsQuietly DEF GetService
  <2>5. QED
    BY <2>3, <2>4
<1>4. QED
  BY <1>1, <1>2, <1>3 DEF BindingStep

\* A selector was resolved: the other is due, or the call has done its reading.
LEMMA ResolvedStep ==
    ASSUME IInv, NEW c \in Calls, ~At(c, "done"), Quiet, Uses(c, {"consolidate_hosts"}),
           \/ call[c].found = <<>>
           \/ Len(call[c].found) = 1 /\ call[c].found[1] \in Hosts,
           NEW h \in Hosts, Resolved(c, h)
    PROVE  IInv'
<1> DEFINE k == [call[c] EXCEPT !.found = Append(@, h), !.offset = 0, !.seen = {}]
           d == call[c].found[1]
           m == MergeMessage(c, d, h)
<1>1. call[c] \in Local
  BY DEF IInv, TypeOK
<1>2. Append(call[c].found, h) \in Seq(Tags \union Hosts)
  BY <1>1 DEF Local
<1>3. k \in Local /\ k.found = Append(call[c].found, h) /\ k.offset = 0 /\ k.seen = {}
  <2>1. 0 \in Nat
    OBVIOUS
  <2>2. QED
    BY <1>1, <1>2, <2>1 DEF Local
<1>4. CASE call[c].found = <<>>
  <2> DEFINE j == [k EXCEPT !.at = Lookup(req[c].src)]
  <2>1. call' = [call EXCEPT ![c] = j]
    BY <1>4 DEF Resolved
  <2>2. Append(call[c].found, h) = <<h>>
    BY <1>4
  <2>3. k.found = <<h>>
    BY <1>3, <2>2
  <2> HIDE DEF k
  <2>4. /\ j \in Local /\ j.at \in {"host", "hosts"} /\ j.found = <<h>>
        /\ j.offset = 0 /\ j.seen = {}
    BY <1>3, <2>3 DEF Local, Lookup
  <2> HIDE DEF j
  <2>5. Len(j.found) = 1 /\ j.found[1] = h
    BY <2>4
  <2>6. Found(c, j)
    BY <2>4, <2>5 DEF Found
  <2>7. QED
    BY <2>1, <2>4, <2>6, Reading DEF Leaves
<1>5. CASE call[c].found # <<>>
  <2>1. /\ MayMerge(d, h) /\ d \in Hosts
        /\ call' = [call EXCEPT ![c] =
             IF d = h THEN [k EXCEPT !.at = "done", !.outcome = "refused"]
             ELSE IF ~req[c].confirm
             THEN [k EXCEPT !.at = "done", !.outcome = "plan"]
             ELSE [k EXCEPT !.at = "send", !.send = m]]
    BY <1>5 DEF Resolved
  <2> DEFINE j == IF d = h THEN [k EXCEPT !.at = "done", !.outcome = "refused"]
                  ELSE IF ~req[c].confirm
                  THEN [k EXCEPT !.at = "done", !.outcome = "plan"]
                  ELSE [k EXCEPT !.at = "send", !.send = m]
  <2>2. CASE d # h /\ req[c].confirm
    <3>1. m \in Message /\ m.call = c /\ Warranted(m)
      BY <2>1, <2>2 DEF MergeMessage, Message, Warranted
    <3> HIDE DEF k, m, d
    <3>2. j = [k EXCEPT !.at = "send", !.send = m]
      BY <2>2
    <3>3. j \in Local /\ j.at = "send" /\ j.send = m
      BY <1>3, <3>1, <3>2 DEF Local
    <3>4. Found(c, j)
      BY <3>1, <3>3 DEF Found
    <3>5. QED
      BY <2>1, <3>3, <3>4, Reading DEF Leaves
  <2>3. CASE ~(d # h /\ req[c].confirm)
    <3> HIDE DEF k, m, d
    <3>1. j \in Local /\ j.at = "done"
      BY <1>3, <2>3 DEF Local
    <3>2. Found(c, j)
      BY <3>1 DEF Found
    <3>3. QED
      BY <2>1, <3>1, <3>2, Reading DEF Leaves
  <2>4. QED
    BY <2>2, <2>3
<1>6. QED
  BY <1>4, <1>5

LEMMA MergeSteps ==
    ASSUME IInv, NEW c \in Calls, MergeStep(c)
    PROVE  IInv'
<1>0. orgKnown \in BOOLEAN /\ call[c] \in Local /\ Found(c, call[c])
  BY DEF IInv, TypeOK
<1>1. CASE BeginMerge(c)
  <2>1. ~At(c, "done") /\ Quiet /\ call[c].at = "idle"
    BY <1>0, <1>1 DEF BeginMerge, Reads, Quiet, At
  <2>2. PICK to \in {"host", "hosts"} : to = Lookup(req[c].dest)
    BY DEF Lookup
  <2>3. Found(c, [call[c] EXCEPT !.at = to])
    BY <1>0, <1>1, <2>1 DEF BeginMerge, Found, Local
  <2>4. Goes(c, to)
    BY <1>1, <2>2 DEF BeginMerge
  <2>5. QED
    BY <2>1, <2>3, <2>4, GoesOn
<1>2. CASE GetHost(c)
  <2>1. ~At(c, "done") /\ Quiet /\ call[c].at = "host"
    BY <1>0, <1>2 DEF GetHost, Reads, Quiet, At
  <2>2. /\ Uses(c, {"consolidate_hosts"})
        /\ \/ call[c].found = <<>>
           \/ Len(call[c].found) = 1 /\ call[c].found[1] \in Hosts
    BY <1>0, <2>1 DEF Found
  <2>3. CASE Selector(c).key \in alive /\ Resolved(c, Selector(c).key)
    <3>1. Selector(c).key \in Hosts
      BY <2>3 DEF IInv, TypeOK
    <3>2. QED
      BY <2>1, <2>2, <2>3, <3>1, ResolvedStep
  <2>4. CASE Goes(c, "hosts")
    <3>1. Found(c, [call[c] EXCEPT !.at = "hosts"])
      BY <1>0, <2>1, <2>2 DEF Found, Local
    <3>2. QED
      BY <2>1, <2>4, <3>1, GoesOn
  <2>5. QED
    BY <1>2, <2>3, <2>4 DEF GetHost
<1>3. CASE ReadHosts(c)
  <2>1. ~At(c, "done") /\ Quiet /\ call[c].at = "hosts"
    BY <1>0, <1>3 DEF ReadHosts, Reads, Quiet, At
  <2>2. /\ Uses(c, {"consolidate_hosts"})
        /\ \/ call[c].found = <<>>
           \/ Len(call[c].found) = 1 /\ call[c].found[1] \in Hosts
    BY <1>0, <2>1 DEF Found
  <2>3. CASE \E h \in Hosts : Resolved(c, h)
    BY <2>1, <2>2, <2>3, ResolvedStep
  <2>4. CASE call' = [call EXCEPT ![c].seen = Matched(c), ![c].offset = @ + PageSize]
    <3> DEFINE k == [call[c] EXCEPT !.seen = Matched(c), !.offset = @ + PageSize]
    <3>1. Matched(c) \in SUBSET (Entities \X Nat) /\ call[c].offset + PageSize \in Nat
      BY <1>0, NotedTypes DEF Matched, NextPage, Listed
    <3> HIDE DEF Matched
    <3>2. k \in Local /\ k.at = "hosts" /\ k.found = call[c].found
      BY <1>0, <2>1, <3>1 DEF Local
    <3>3. call' = [call EXCEPT ![c] = k]
      BY <1>0, <2>4 DEF IInv, TypeOK, Local
    <3> HIDE DEF k
    <3>4. Found(c, k)
      BY <2>2, <3>2 DEF Found
    <3>5. QED
      BY <2>1, <3>2, <3>3, <3>4, Reading DEF Leaves
  <2>5. QED
    BY <1>3, <2>3, <2>4 DEF ReadHosts
<1>4. QED
  BY <1>1, <1>2, <1>3 DEF MergeStep

-----------------------------------------------------------------------------
\* Steps of the server.

\* What handling the write of call c does, wherever the write was.
Serves(c) ==
    /\ InventoryOK'
    /\ UnbornIsNone'
    /\ \A b \in Bindings : Lasts(b)
    /\ \/ Limits!NewTag(c) \/ Limits!Relabel(c) \/ Limits!DropTag(c)
       \/ Limits!Assign(c) \/ Limits!Detach(c)
       \/ \E b \in DOMAIN bound : Limits!Attach(c, b)
       \/ \E d, s \in alive : Limits!Merge(c, d, s)

\* What a write on its way is known to be.
Sent(m) ==
    /\ m \in Message
    /\ Warranted(m)
    /\ InventoryOK /\ UnbornIsNone /\ req \in Conversations
    /\ UNCHANGED settings

LEMMA ServesNewTag ==
    ASSUME NEW m, Sent(m), HandleNewTag(m), UNCHANGED <<hostVars, bound>>
    PROVE  Serves(m.call)
<1> DEFINE c == m.call
<1>1. c \in Calls /\ m.label \in Labels /\ Uses(c, {"create_tag"}) /\ m.label = req[c].label
  BY DEF Sent, HandleNewTag, Message, Warranted
<1>2. PICK t \in Tags \intersect unborn :
        label' = [label EXCEPT ![t] = m.label] /\ unborn' = unborn \ {t}
  BY DEF HandleNewTag
<1>3. UNCHANGED <<alive, nameOf, addrsOf, owner, bound, carried, scope, req>>
  BY DEF hostVars, HandleNewTag, Sent, settings
<1>4. label[t] = None
  BY <1>2 DEF Sent, UnbornIsNone
<1>5. InventoryOK'
  BY <1>1, <1>2, <1>3 DEF Sent, InventoryOK
<1>6. UnbornIsNone'
  BY <1>2, <1>3 DEF Sent, UnbornIsNone, InventoryOK
<1>7. \A b \in Bindings : Lasts(b)
  BY <1>3 DEF Lasts, StillWithin, SoundBinding, Within
<1>8. Limits!NewTag(c)
  BY <1>1, <1>2, <1>3, <1>4 DEF Limits!NewTag, Limits!Asks, Uses, Sent, InventoryOK
<1>9. QED
  BY <1>5, <1>6, <1>7, <1>8 DEF Serves

LEMMA ServesLabel ==
    ASSUME NEW m, Sent(m), HandleLabel(m), UNCHANGED <<hostVars, bound>>
    PROVE  Serves(m.call)
<1> DEFINE c == m.call
<1>1. /\ c \in Calls /\ m.tag \in Tags /\ m.label \in Labels
      /\ Uses(c, {"update_tag"}) /\ scope = NoScope
      /\ \A f \in DOMAIN req[c].patch : m.label[f] = req[c].patch[f]
  BY DEF Sent, HandleLabel, Message, Warranted
<1>2. UNCHANGED <<alive, nameOf, addrsOf, owner, bound, carried, unborn, scope, req>>
  BY DEF hostVars, HandleLabel, Sent, settings
<1>3. label[m.tag] # None /\ label' = [label EXCEPT ![m.tag] = m.label]
  BY DEF HandleLabel
<1>4. InventoryOK'
  BY <1>1, <1>2, <1>3 DEF Sent, InventoryOK
<1>5. UnbornIsNone'
  BY <1>1, <1>2, <1>3 DEF Sent, UnbornIsNone, InventoryOK
<1>6. \A b \in Bindings : Lasts(b)
  BY <1>2 DEF Lasts, StillWithin, SoundBinding, Within
<1>7. Limits!Relabel(c)
  <2>1. label'[m.tag] = m.label /\ m.label # None /\ DOMAIN label = Tags
    BY <1>1, <1>3, CallsAssumption DEF Sent, InventoryOK
  <2>2. \A f \in DOMAIN req[c].patch : label'[m.tag][f] = req[c].patch[f]
    BY <1>1, <2>1
  <2>3. label' = [label EXCEPT ![m.tag] = label'[m.tag]]
    BY <1>3, <2>1
  <2>4. QED
    BY <1>1, <1>2, <1>3, <2>1, <2>2, <2>3 DEF Limits!Relabel, Limits!Asks, Uses
<1>8. QED
  BY <1>4, <1>5, <1>6, <1>7 DEF Serves

LEMMA ServesDrop ==
    ASSUME NEW m, Sent(m), HandleDrop(m), UNCHANGED <<hostVars, bound>>
    PROVE  Serves(m.call)
<1> DEFINE c == m.call
<1>1. /\ c \in Calls /\ m.tag \in Tags
      /\ Uses(c, {"delete_tag"}) /\ req[c].confirm /\ scope = NoScope
  BY DEF Sent, HandleDrop, Message, Warranted
<1>2. UNCHANGED <<alive, nameOf, addrsOf, owner, bound, carried, unborn, scope, req>>
  BY DEF hostVars, HandleDrop, Sent, settings
<1>3. label' = [label EXCEPT ![m.tag] = None]
  BY DEF HandleDrop
<1>4. InventoryOK'
  BY <1>1, <1>2, <1>3 DEF Sent, InventoryOK
<1>5. UnbornIsNone'
  BY <1>1, <1>2, <1>3 DEF Sent, UnbornIsNone, InventoryOK
<1>6. \A b \in Bindings : Lasts(b)
  BY <1>2 DEF Lasts, StillWithin, SoundBinding, Within
<1>7. Limits!DropTag(c)
  BY <1>1, <1>2, <1>3 DEF Limits!DropTag, Limits!Asks, Uses, Sent, InventoryOK
<1>8. QED
  BY <1>4, <1>5, <1>6, <1>7 DEF Serves

LEMMA ServesBulk ==
    ASSUME NEW m, Sent(m), HandleBulk(m), UNCHANGED <<hostVars, bound>>
    PROVE  Serves(m.call)
<1> DEFINE c == m.call
<1>1. /\ c \in Calls /\ m.tag \in Tags
      /\ Uses(c, BulkTools) /\ AllWithin(c)
      /\ m.ids = req[c].ids
      /\ m.add = Uses(c, {"tag_entities"})
  BY DEF Sent, HandleBulk, Message, Warranted
<1>2. UNCHANGED <<alive, nameOf, addrsOf, owner, bound, label, unborn, scope, req>>
  BY DEF hostVars, HandleBulk, Sent, settings
<1>3. carried' = [e \in Entities |->
         IF e \in ToSet(m.ids) /\ KindOf[e] = m.of /\ Present(e)
         THEN IF m.add THEN carried[e] \union {m.tag} ELSE carried[e] \ {m.tag}
         ELSE carried[e]]
  BY DEF HandleBulk
<1>4. carried' \in [Entities -> SUBSET Tags]
  BY <1>1, <1>3 DEF Sent, InventoryOK
<1>5. InventoryOK'
  BY <1>2, <1>4 DEF Sent, InventoryOK
<1>6. UnbornIsNone'
  BY <1>2 DEF Sent, UnbornIsNone
<1>7. \A b \in Bindings : Lasts(b)
  BY <1>2 DEF Lasts, StillWithin, SoundBinding, Within
<1>8. Limits!Assign(c)
  <2>1. DOMAIN label = Tags /\ DOMAIN carried = Entities
    BY DEF Sent, InventoryOK
  <2>2. \A e \in Entities :
          \/ carried'[e] = carried[e]
          \/ /\ \E i \in DOMAIN req[c].ids : e = req[c].ids[i]
             /\ carried'[e] = IF req[c].tool = "tag_entities"
                              THEN carried[e] \union {m.tag} ELSE carried[e] \ {m.tag}
    <3>1. m.add <=> req[c].tool = "tag_entities"
      BY <1>1 DEF Uses
    <3>2. QED
      BY <1>1, <1>3, <3>1 DEF ToSet
  <2>3. \A i \in DOMAIN req[c].ids : Limits!Within(NetsOf[req[c].ids[i]])
    BY <1>1 DEF AllWithin, Within, Limits!Within
  <2>4. QED
    BY <1>1, <1>2, <1>4, <2>1, <2>2, <2>3 DEF Limits!Assign, Limits!Asks, Uses, BulkTools
<1>9. QED
  BY <1>5, <1>6, <1>7, <1>8 DEF Serves

\* A binding is placed within the scope, others are superseded at most.
LEMMA Placed ==
    ASSUME InventoryOK, NEW b \in Bindings, NEW body \in Body,
           Place(b, body), Within(body.nets), UNCHANGED scope,
           body.nets = NetsOf[body.service], WellShaped(body.shape)
    PROVE  /\ bound' \in [Bindings -> Body \union {None}]
           /\ bound'[b] = body
           /\ \A x \in Bindings \ {b} :
                \/ bound'[x] = bound[x]
                \/ bound'[x] = None /\ bound[x].service = body.service
           /\ \A x \in Bindings : Lasts(x)
<1>1. bound' = [x \in Bindings |-> IF x = b THEN body
                                   ELSE IF Supersedes(body, x) THEN None ELSE bound[x]]
  BY DEF Place
<1>2. \A x \in Bindings : Supersedes(body, x) => bound[x].service = body.service
  BY DEF Supersedes
<1> HIDE DEF Supersedes
<1>3. bound' \in [Bindings -> Body \union {None}] /\ bound'[b] = body
  BY <1>1 DEF InventoryOK
<1>4. \A x \in Bindings \ {b} :
        \/ bound'[x] = bound[x]
        \/ bound'[x] = None /\ bound[x].service = body.service
  BY <1>1, <1>2
<1>5. \A x \in Bindings : Lasts(x)
  BY <1>3, <1>4 DEF Lasts, StillWithin, SoundBinding, Within
<1>6. QED
  BY <1>3, <1>4, <1>5

LEMMA ServesAttach ==
    ASSUME NEW m, Sent(m), HandleAttach(m), UNCHANGED <<hostVars, tagVars>>
    PROVE  Serves(m.call)
<1> DEFINE c == m.call
<1>1. /\ c \in Calls /\ m.body \in Body
      /\ Uses(c, {"create_binding"}) /\ m.body = BodyFor(c) /\ Within(m.body.nets)
      /\ m.body.nets = NetsOf[m.body.service] /\ WellShaped(m.body.shape)
  BY DEF Sent, HandleAttach, Message, Warranted, BodyFor, NetsFor
<1>2. UNCHANGED <<alive, nameOf, addrsOf, owner, label, carried, scope, req>>
  BY DEF hostVars, tagVars, Sent, settings
<1>3. PICK b \in Bindings \intersect unborn :
        Place(b, m.body) /\ unborn' = unborn \ {b}
  BY DEF HandleAttach
<1>4. /\ bound' \in [Bindings -> Body \union {None}]
      /\ bound'[b] = m.body
      /\ \A x \in Bindings \ {b} :
           \/ bound'[x] = bound[x]
           \/ bound'[x] = None /\ bound[x].service = m.body.service
      /\ \A x \in Bindings : Lasts(x)
  BY <1>1, <1>2, <1>3, Placed DEF Sent
<1>5. bound[b] = None
  BY <1>3 DEF Sent, UnbornIsNone
<1>6. InventoryOK'
  BY <1>2, <1>3, <1>4 DEF Sent, InventoryOK
<1>7. UnbornIsNone'
  BY <1>2, <1>3, <1>4 DEF Sent, UnbornIsNone
<1>8. Limits!Attach(c, b)
  <2>1. DOMAIN bound = Bindings /\ DOMAIN bound' = Bindings
    BY <1>4 DEF Sent, InventoryOK
  <2>2. /\ m.body.service = req[c].service /\ m.body.shape = req[c].shape
        /\ m.body.nets = NetsOf[req[c].service]
        /\ m.body = [service |-> req[c].service, shape |-> req[c].shape,
                     nets |-> NetsOf[req[c].service]]
    BY <1>1 DEF BodyFor, NetsFor
  <2>3. QED
    BY <1>1, <1>2, <1>4, <1>5, <2>1, <2>2
    DEF Limits!Attach, Limits!Asks, Limits!Within, Uses, Within
<1>9. b \in DOMAIN bound
  BY <1>3 DEF Sent, InventoryOK
<1>10. QED
  BY <1>4, <1>6, <1>7, <1>8, <1>9 DEF Serves

LEMMA ServesReattach ==
    ASSUME NEW m, Sent(m), HandleReattach(m), UNCHANGED <<hostVars, tagVars>>
    PROVE  Serves(m.call)
<1> DEFINE c == m.call
           b == m.id
<1>1. /\ c \in Calls /\ m.body \in Body /\ b \in Bindings
      /\ Uses(c, {"update_binding"}) /\ b = req[c].id /\ StillWithin(b)
      /\ m.body = BodyFor(c) /\ Within(m.body.nets)
      /\ m.body.nets = NetsOf[m.body.service] /\ WellShaped(m.body.shape)
  BY DEF Sent, HandleReattach, Message, Warranted, BodyFor, NetsFor
<1>2. UNCHANGED <<alive, nameOf, addrsOf, owner, label, carried, unborn, scope, req>>
  BY DEF hostVars, tagVars, Sent, settings, HandleReattach
<1>3. Place(b, m.body) /\ bound[b] # None
  BY DEF HandleReattach, Bound
<1>4. /\ bound' \in [Bindings -> Body \union {None}]
      /\ bound'[b] = m.body
      /\ \A x \in Bindings \ {b} :
           \/ bound'[x] = bound[x]
           \/ bound'[x] = None /\ bound[x].service = m.body.service
      /\ \A x \in Bindings : Lasts(x)
  BY <1>1, <1>2, <1>3, Placed DEF Sent
<1>5. Within(bound[b].nets)
  BY <1>1, <1>3 DEF StillWithin
<1>6. InventoryOK'
  BY <1>2, <1>4 DEF Sent, InventoryOK
<1>7. UnbornIsNone'
  BY <1>2, <1>3, <1>4 DEF Sent, UnbornIsNone
<1>8. Limits!Attach(c, b)
  <2>1. DOMAIN bound = Bindings /\ DOMAIN bound' = Bindings
    BY <1>4 DEF Sent, InventoryOK
  <2>2. /\ m.body.service = req[c].service /\ m.body.shape = req[c].shape
        /\ m.body.nets = NetsOf[req[c].service]
        /\ m.body = [service |-> req[c].service, shape |-> req[c].shape,
                     nets |-> NetsOf[req[c].service]]
    BY <1>1 DEF BodyFor, NetsFor
  <2>3. QED
    BY <1>1, <1>2, <1>3, <1>4, <1>5, <2>1, <2>2
    DEF Limits!Attach, Limits!Asks, Limits!Within, Uses, Within
<1>9. b \in DOMAIN bound
  BY <1>1 DEF Sent, InventoryOK
<1>10. QED
  BY <1>4, <1>6, <1>7, <1>8, <1>9 DEF Serves

LEMMA ServesDetach ==
    ASSUME NEW m, Sent(m), HandleDetach(m), UNCHANGED <<hostVars, tagVars>>
    PROVE  Serves(m.call)
<1> DEFINE c == m.call
<1>1. /\ c \in Calls /\ m.id \in Bindings
      /\ Uses(c, {"delete_binding"}) /\ req[c].confirm
      /\ m.id = req[c].id /\ StillWithin(m.id)
  BY DEF Sent, HandleDetach, Message, Warranted
<1>2. UNCHANGED <<alive, nameOf, addrsOf, owner, label, carried, unborn, scope, req>>
  BY DEF hostVars, tagVars, Sent, settings, HandleDetach
<1>3. bound[m.id] # None /\ bound' = [bound EXCEPT ![m.id] = None]
  BY DEF HandleDetach, Bound
<1>4. InventoryOK'
  BY <1>1, <1>2, <1>3 DEF Sent, InventoryOK
<1>5. UnbornIsNone'
  BY <1>1, <1>2, <1>3 DEF Sent, UnbornIsNone, InventoryOK
<1>6. \A b \in Bindings : Lasts(b)
  BY <1>1, <1>2, <1>3 DEF Lasts, StillWithin, SoundBinding, Within, Sent, InventoryOK
<1>7. Limits!Detach(c)
  BY <1>1, <1>2, <1>3
  DEF Limits!Detach, Limits!Asks, Limits!Within, Uses, StillWithin, Within
<1>8. QED
  BY <1>4, <1>5, <1>6, <1>7 DEF Serves

LEMMA ServesMerge ==
    ASSUME NEW m, Sent(m), HandleMerge(m)
    PROVE  Serves(m.call)
<1> DEFINE c == m.call
<1>1. /\ c \in Calls /\ m.dest \in Hosts /\ m.src \in Hosts
      /\ Uses(c, {"consolidate_hosts"}) /\ req[c].confirm
      /\ Within(NetsOf[m.dest]) /\ Within(NetsOf[m.src])
  BY DEF Sent, HandleMerge, Message, Warranted, MayMerge
<1>2. UNCHANGED <<nameOf, label, carried, bound, unborn, scope, req>>
  BY DEF tagVars, Sent, settings, HandleMerge
<1>3. /\ m.dest \in alive /\ m.src \in alive /\ m.dest # m.src
      /\ NetsOf[m.dest] = NetsOf[m.src]
      /\ alive' = alive \ {m.src}
      /\ owner' = [v \in Services |-> IF owner[v] = m.src THEN m.dest ELSE owner[v]]
      /\ addrsOf' = [addrsOf EXCEPT ![m.dest] = @ \union addrsOf[m.src]]
  BY DEF HandleMerge
<1>4. InventoryOK'
  <2>1. addrsOf' \in [Hosts -> SUBSET Addresses]
    BY <1>1, <1>3 DEF Sent, InventoryOK
  <2>2. owner' \in [Services -> Hosts]
    BY <1>1, <1>3 DEF Sent, InventoryOK
  <2>3. QED
    BY <1>2, <1>3, <2>1, <2>2 DEF Sent, InventoryOK
<1>5. UnbornIsNone'
  BY <1>2 DEF Sent, UnbornIsNone
<1>6. \A b \in Bindings : Lasts(b)
  BY <1>2 DEF Lasts, StillWithin, SoundBinding, Within
<1>7. Limits!Merge(c, m.dest, m.src)
  <2>1. DOMAIN owner = Services
    BY DEF Sent, InventoryOK
  <2>2. QED
    BY <1>1, <1>2, <1>3, <2>1
    DEF Limits!Merge, Limits!Asks, Limits!Within, Uses, Within
<1>8. QED
  BY <1>3, <1>4, <1>5, <1>6, <1>7 DEF Serves

LEMMA Handled ==
    ASSUME NEW m, Sent(m), Handle(m)
    PROVE  Serves(m.call)
<1>1. CASE HandleTag(m)
  BY <1>1, ServesNewTag, ServesLabel, ServesDrop, ServesBulk DEF HandleTag
<1>2. CASE HandleBinding(m)
  BY <1>2, ServesAttach, ServesReattach, ServesDetach DEF HandleBinding
<1>3. CASE HandleMerge(m)
  BY <1>3, ServesMerge
<1>4. QED
  BY <1>1, <1>2, <1>3 DEF Handle

\* The invariant after a write, whether its call waited for it or not.
LEMMA Kept ==
    ASSUME IInv, UNCHANGED <<settings, orgKnown>>, env' \in 0..MaxEnv,
           InventoryOK', UnbornIsNone', OneWrite',
           \A b \in Bindings : Lasts(b),
           call' \in [Calls -> Local], \A d \in Calls : Found(d, call'[d]),
           late' \subseteq Message, \A m \in late' : Warranted(m),
           did' \subseteq Calls
    PROVE  IInv'
<1>1. TypeOK'
  BY DEF IInv, TypeOK, InventoryOK, settings
<1>2. \A d \in Calls : Found(d, call[d])'
  <2>1. TAKE d \in Calls
  <2>2. PICK j \in Local : j = call'[d] /\ Found(d, j)
    OBVIOUS
  <2>3. Found(d, j)'
    BY <2>2, FoundKept DEF IInv, TypeOK
  <2>4. QED
    BY <2>2, <2>3
<1>3. \A m \in late' : Warranted(m)'
  BY WarrantedKept
<1>4. \A b \in Bindings : SoundBinding(b)'
  BY DEF IInv, Lasts
<1>5. QED
  BY <1>1, <1>2, <1>3, <1>4 DEF IInv

LEMMA AnsweredStep ==
    ASSUME IInv, NEW c \in Calls, Answered(c), Handle(call[c].send)
    PROVE  IInv' /\ Limits!Serve(c)
<1> DEFINE m == call[c].send
           k == [call[c] EXCEPT !.at = "done", !.outcome = "applied"]
<1>1. /\ call[c] \in Local /\ call[c].at = "send"
      /\ m \in Message /\ m.call = c /\ Warranted(m)
      /\ UNCHANGED <<settings, env, orgKnown, late>>
      /\ did' = did \union {c}
  BY DEF Answered, At, IInv, TypeOK, Found
<1>2. Sent(m)
  BY <1>1 DEF Sent, IInv, TypeOK, InventoryOK
<1>3. Serves(c)
  BY <1>1, <1>2, Handled
<1>4. k \in Local /\ k.at = "done"
  BY <1>1 DEF Local
<1>5. call' = [call EXCEPT ![c] = k]
  BY DEF Answered, Ends, IInv, TypeOK, Local
<1>6. Found(c, k)
  BY <1>4 DEF Found
<1> HIDE DEF k, m
<1>7. /\ call' \in [Calls -> Local] /\ call'[c] = k
      /\ \A d \in Calls \ {c} : call'[d] = call[d]
      /\ \A d \in Calls : Found(d, call'[d])
  BY <1>4, <1>5, <1>6 DEF IInv, TypeOK
<1>8. c \notin did /\ \A n \in late : n.call # c
  BY <1>1 DEF IInv, OneWrite, At
<1>9. OneWrite'
  BY <1>1, <1>4, <1>7, <1>8 DEF IInv, OneWrite, At
<1>10. IInv'
  BY <1>1, <1>3, <1>7, <1>9, Kept DEF Serves, IInv, TypeOK
<1>11. Limits!Serve(c)
  BY <1>1, <1>3, <1>8 DEF Limits!Serve, Serves, settings
<1>12. QED
  BY <1>10, <1>11

LEMMA LandsStep ==
    ASSUME IInv, NEW m \in late, Lands(m), Handle(m)
    PROVE  IInv' /\ m.call \in Calls /\ Limits!Serve(m.call)
<1>1. /\ m \in Message /\ m.call \in Calls /\ Warranted(m)
      /\ UNCHANGED <<settings, env, orgKnown, call>>
      /\ late' = late \ {m} /\ did' = did \union {m.call}
  BY DEF Lands, IInv, TypeOK, Message
<1>2. Sent(m)
  BY <1>1 DEF Sent, IInv, TypeOK, InventoryOK
<1>3. Serves(m.call)
  BY <1>2, Handled
<1>4. m.call \notin did
  BY DEF IInv, OneWrite
<1>5. OneWrite'
  BY <1>1 DEF IInv, OneWrite, At
<1>6. IInv'
  BY <1>1, <1>3, <1>5, Kept DEF Serves, IInv, TypeOK
<1>7. Limits!Serve(m.call)
  BY <1>1, <1>3, <1>4 DEF Limits!Serve, Serves, settings
<1>8. QED
  BY <1>1, <1>6, <1>7

LEMMA InventoryKept ==
    ASSUME IInv, UNCHANGED <<settings, inventory>>
    PROVE  /\ InventoryOK' /\ UnbornIsNone'
           /\ \A b \in Bindings : Lasts(b)
<1>1. UNCHANGED <<scope, alive, nameOf, addrsOf, owner, label, carried, bound, unborn>>
  BY DEF settings, inventory, hostVars, tagVars
<1>2. QED
  BY <1>1 DEF IInv, TypeOK, InventoryOK, UnbornIsNone, Lasts, StillWithin, SoundBinding, Within

LEMMA GivesUpStep ==
    ASSUME IInv, NEW c \in Calls, GivesUp(c)
    PROVE  IInv'
<1> DEFINE k == [call[c] EXCEPT !.at = "done", !.outcome = "failed"]
<1>1. /\ call[c] \in Local /\ ~At(c, "done") /\ Found(c, call[c])
      /\ UNCHANGED <<settings, inventory, env, orgKnown, did>>
  BY DEF GivesUp, At, IInv, TypeOK
<1>2. k \in Local /\ k.at = "done"
  BY <1>1 DEF Local
<1>3. call' = [call EXCEPT ![c] = k]
  BY DEF GivesUp, Ends, IInv, TypeOK, Local
<1>4. Found(c, k)
  BY <1>2 DEF Found
<1> HIDE DEF k
<1>5. /\ call' \in [Calls -> Local] /\ call'[c] = k
      /\ \A d \in Calls \ {c} : call'[d] = call[d]
      /\ \A d \in Calls : Found(d, call'[d])
  BY <1>2, <1>3, <1>4 DEF IInv, TypeOK
<1>6. c \notin did /\ \A n \in late : n.call # c
  BY <1>1 DEF IInv, OneWrite
<1>7. /\ late' \subseteq Message /\ \A m \in late' : Warranted(m)
      /\ OneWrite'
  <2>1. CASE UNCHANGED late
    BY <1>1, <1>2, <1>5, <2>1 DEF IInv, TypeOK, OneWrite, At
  <2>2. CASE At(c, "send") /\ late' = late \union {call[c].send}
    <3>1. call[c].send \in Message /\ call[c].send.call = c /\ Warranted(call[c].send)
      BY <1>1, <2>2 DEF Found, At
    <3>2. OneWrite'
      BY <1>1, <1>2, <1>5, <1>6, <2>2, <3>1 DEF IInv, OneWrite, At
    <3>3. QED
      BY <2>2, <3>1, <3>2 DEF IInv, TypeOK
  <2>3. QED
    BY <2>1, <2>2 DEF GivesUp
<1>8. QED
  BY <1>1, <1>5, <1>7, InventoryKept, Kept DEF IInv, TypeOK

-----------------------------------------------------------------------------
\* The world moves no binding to another network, and names no id anew.
LEMMA WorldStep ==
    ASSUME IInv, World
    PROVE  IInv'
<1>1. /\ UNCHANGED <<settings, orgKnown, call, late, did>>
      /\ env' \in 0..MaxEnv
  BY CallsAssumption DEF World, IInv, TypeOK
<1>2. InventoryOK
  BY DEF IInv, TypeOK, InventoryOK
<1>3. UnbornIsNone /\ req \in Conversations
  BY DEF IInv, TypeOK
<1>4. /\ InventoryOK' /\ UnbornIsNone'
      /\ \A b \in Bindings : Lasts(b)
  <2>1. CASE \E h \in Hosts : Discover(h) \/ Rename(h) \/ Readdress(h) \/ Retire(h)
    <3>1. PICK h \in Hosts : Discover(h) \/ Rename(h) \/ Readdress(h) \/ Retire(h)
      BY <2>1
    <3>2. /\ UNCHANGED <<owner, label, carried, bound>>
          /\ alive' \subseteq Hosts /\ nameOf' \in [Hosts -> Names]
          /\ addrsOf' \in [Hosts -> SUBSET Addresses]
          /\ unborn' \subseteq unborn
      BY <1>2, <3>1 DEF Discover, Rename, Readdress, Retire, tagVars, InventoryOK
    <3>3. QED
      BY <1>1, <1>2, <1>3, <3>2
      DEF InventoryOK, UnbornIsNone, Lasts, StillWithin, SoundBinding, Within, settings
  <2>2. CASE \E t \in Tags : OperatorRelabels(t)
    <3>1. PICK t \in Tags, l \in Labels : label[t] # None /\ label' = [label EXCEPT ![t] = l]
      BY <2>2 DEF OperatorRelabels
    <3>2. UNCHANGED <<alive, nameOf, addrsOf, owner, carried, bound, unborn>>
      BY <2>2 DEF OperatorRelabels, hostVars
    <3>3. QED
      BY <1>1, <1>2, <1>3, <3>1, <3>2
      DEF InventoryOK, UnbornIsNone, Lasts, StillWithin, SoundBinding, Within, settings
  <2>3. CASE \E t \in Tags, e \in Entities : OperatorTags(e, t)
    <3>1. UNCHANGED <<alive, nameOf, addrsOf, owner, label, bound, unborn>>
      BY <2>3 DEF OperatorTags, hostVars
    <3>2. carried' \in [Entities -> SUBSET Tags]
      BY <1>2, <2>3 DEF OperatorTags, InventoryOK
    <3>3. QED
      BY <1>1, <1>2, <1>3, <3>1, <3>2
      DEF InventoryOK, UnbornIsNone, Lasts, StillWithin, SoundBinding, Within, settings
  <2>4. CASE \E b \in Bindings : OperatorBinds(b)
    <3>1. PICK b \in Bindings : OperatorBinds(b)
      BY <2>4
    <3>2. UNCHANGED <<alive, nameOf, addrsOf, owner, label, carried, unborn>> /\ bound[b] # None
      BY <3>1 DEF OperatorBinds, hostVars, tagVars, Bound
    <3>3. /\ bound' \in [Bindings -> Body \union {None}]
          /\ \A x \in Bindings \ {b} : bound'[x] = bound[x]
          /\ bound'[b] # None =>
               /\ bound'[b].nets = bound[b].nets
               /\ bound'[b].nets = NetsOf[bound'[b].service]
               /\ bound'[b].shape = bound[b].shape
      <4>1. CASE bound' = [bound EXCEPT ![b] = None]
        BY <1>2, <4>1 DEF InventoryOK
      <4>2. CASE \E v \in Services : /\ NetsOf[v] = bound[b].nets
                                   /\ bound' = [bound EXCEPT ![b].service = v]
        <5>1. PICK v \in Services : /\ NetsOf[v] = bound[b].nets
                                   /\ bound' = [bound EXCEPT ![b].service = v]
          BY <4>2
        <5>2. bound[b] \in Body
          BY <1>2, <3>2 DEF InventoryOK
        <5>3. /\ [bound[b] EXCEPT !.service = v] \in Body
              /\ [bound[b] EXCEPT !.service = v].nets = bound[b].nets
              /\ [bound[b] EXCEPT !.service = v].service = v
              /\ [bound[b] EXCEPT !.service = v].shape = bound[b].shape
          BY <5>2 DEF Body
        <5>4. bound' = [bound EXCEPT ![b] = [bound[b] EXCEPT !.service = v]]
          BY <1>2, <5>1, <5>2 DEF InventoryOK, Body
        <5>5. QED
          BY <1>2, <5>1, <5>3, <5>4 DEF InventoryOK
      <4>3. QED
        BY <3>1, <4>1, <4>2 DEF OperatorBinds
    <3>4. \A x \in Bindings : Lasts(x)
      BY <1>1, <3>2, <3>3 DEF Lasts, StillWithin, SoundBinding, Within, settings
    <3>5. QED
      BY <1>1, <1>2, <1>3, <3>2, <3>3, <3>4 DEF InventoryOK, UnbornIsNone
  <2>5. QED
    BY <2>1, <2>2, <2>3, <2>4 DEF World
<1>5. OneWrite'
  BY <1>1 DEF IInv, OneWrite, At
<1>6. QED
  BY <1>1, <1>4, <1>5, Kept DEF IInv, TypeOK

LEMMA StepKeeps ==
    ASSUME IInv, [Next]_cvars
    PROVE  /\ IInv'
           /\ [Limits!Next]_Limits!rvars
<1>1. CASE \E c \in Calls : TagStep(c) \/ BindingStep(c) \/ MergeStep(c) \/ GivesUp(c)
  <2>1. PICK c \in Calls : TagStep(c) \/ BindingStep(c) \/ MergeStep(c) \/ GivesUp(c)
    BY <1>1
  <2>2. IInv'
    BY <2>1, TagSteps, BindingSteps, MergeSteps, GivesUpStep
  <2>3. UNCHANGED <<settings, inventory, env, did>>
    BY <2>1 DEF TagStep, BindingStep, MergeStep, GivesUp, Reads, BeginCreate, FindOrg,
       FromNetwork, BeginTag, ResolveForUpdate, Resolves, ReadLabel, ResolveForDelete, ReadSource,
       ReadLastSource, BeginBulk, CheckEntity, CheckListing, ResolveForBulk,
       BeginBinding, GetBinding, GetService, BeginMerge, GetHost, ReadHosts
  <2>4. UNCHANGED Limits!rvars
    BY <2>3 DEF Limits!rvars, settings, inventory, hostVars, tagVars
  <2>5. QED
    BY <2>2, <2>4
<1>2. CASE \E c \in Calls : Answered(c) /\ Handle(call[c].send)
  BY <1>2, AnsweredStep DEF Limits!Next
<1>3. CASE \E m \in late : Lands(m) /\ Handle(m)
  BY <1>3, LandsStep DEF Limits!Next
<1>4. CASE World
  <2>1. Limits!World
    BY <1>4 DEF World, Limits!World, settings
  <2>2. QED
    BY <1>4, <2>1, WorldStep DEF Limits!Next
<1>5. CASE Finished \/ UNCHANGED cvars
  <2>1. UNCHANGED <<settings, inventory, env, orgKnown, call, late, did>>
    BY <1>5 DEF Finished, cvars
  <2>2. OneWrite'
    BY <2>1 DEF IInv, OneWrite, At
  <2>3. IInv'
    BY <2>1, <2>2, InventoryKept, Kept DEF IInv, TypeOK
  <2>4. UNCHANGED Limits!rvars
    BY <2>1 DEF Limits!rvars, settings, inventory, hostVars, tagVars
  <2>5. QED
    BY <2>3, <2>4
<1>6. QED
  BY <1>1, <1>2, <1>3, <1>4, <1>5 DEF Next, CallStep

LEMMA InitKeeps ==
    ASSUME Init
    PROVE  IInv /\ Limits!Init
<1>1. PICK i \in Inventories :
        /\ alive = i.alive /\ nameOf = i.nameOf /\ addrsOf = i.addrsOf
        /\ owner = i.owner /\ label = i.label /\ carried = i.carried /\ bound = i.bound
        /\ unborn = (Hosts \ i.alive) \union {t \in Tags : i.label[t] = None}
                      \union {b \in Bindings : i.bound[b] = None}
  BY DEF Init
<1>2. i \in [alive : SUBSET Hosts, nameOf : [Hosts -> Names], addrsOf : [Hosts -> SUBSET Addresses],
             owner : [Services -> Hosts], label : [Tags -> Labels \union {None}],
             carried : [Entities -> SUBSET Tags],
             bound : [Bindings -> Body \union {None}]]
  BY CallsAssumption
<1>3. InventoryOK
  BY <1>1, <1>2 DEF Init, InventoryOK
<1>4. UnbornIsNone
  BY <1>1, CallsAssumption DEF UnbornIsNone, Hosts
<1>5. /\ Idle \in Local /\ Idle.at = "idle" /\ Idle.found = <<>>
      /\ Idle.offset = 0 /\ Idle.seen = {}
  BY DEF Idle, Local
<1>6. TypeOK
  <2>1. call \in [Calls -> Local]
    BY <1>5 DEF Init
  <2>2. env \in 0..MaxEnv
    BY CallsAssumption DEF Init
  <2>3. scope \in Scopes /\ req \in Conversations /\ orgKnown \in BOOLEAN
        /\ late \subseteq Message /\ did \subseteq Calls
    BY DEF Init
  <2>4. QED
    BY <1>3, <2>1, <2>2, <2>3 DEF TypeOK, InventoryOK
<1>7. OneWrite /\ \A c \in Calls : Found(c, call[c])
  BY <1>5 DEF Init, OneWrite, Found
<1>8. \A b \in Bindings : SoundBinding(b)
  BY <1>1, InventoriesAssumption DEF SoundBinding, WellShaped
<1>9. IInv
  BY <1>4, <1>6, <1>7, <1>8 DEF Init, IInv
<1>10. QED
  BY <1>9 DEF Init, Limits!Init

-----------------------------------------------------------------------------
\* The invariant holds throughout.
LEMMA InvariantHolds == Spec => []IInv
<1>1. Init => IInv
  BY InitKeeps
<1>2. IInv /\ [Next]_cvars => IInv'
  BY StepKeeps
<1>3. QED
  BY <1>1, <1>2, PTL DEF Spec

\* Every variable of the tag, binding and consolidation tools keeps its type.
THEOREM TypesHold == Spec => []TypeOK
<1>1. IInv => TypeOK
  BY DEF IInv
<1>2. QED
  BY <1>1, InvariantHolds, PTL

\* Every binding lies in the network of its service and has a shape Scanopy
\* understands, however often it is moved, and whoever moves it.
THEOREM BindingsSound == Spec => []BindingsFollowService
<1>1. IInv => BindingsFollowService
  BY DEF IInv, SoundBinding, WellShaped, BindingsFollowService
<1>2. QED
  BY <1>1, InvariantHolds, PTL

\* The tools reach no further than Reach allows: whatever else happens between
\* a check and its write, and however late the write is handled, each call
\* takes effect at most once, as it was asked for, within the scope, and
\* confirmed where it destroys something (tools/write.py:273-285, 318-336, 355-388).
THEOREM ReachHolds == Spec => ImplementsReach
<1>1. Init => Limits!Init
  BY InitKeeps
<1>2. IInv /\ [Next]_cvars => [Limits!Next]_Limits!rvars
  BY StepKeeps
<1>3. QED
  BY <1>1, <1>2, InvariantHolds, PTL DEF Spec, ImplementsReach, Limits!Spec

=============================================================================
