----------------------------- MODULE ScanProofs -----------------------------
(***************************************************************************)
(* A scan is exact while no host changes its place, and stops at the       *)
(* ceiling; what it answers was shown, and its verdicts are right: for     *)
(* every list, page size, ceiling, limit, offset and number of changes.    *)
(***************************************************************************)
EXTENDS Scan, SequenceTheorems, FiniteSetTheorems, TLAPS

Rec == [id : Hosts, name : Names]

\* The ids the list has held since the call began.
SeenIds == {r.id : r \in shown}

Types ==
    /\ listing \in Seq(Hosts) /\ IsInjective(listing)
    /\ name \in [Hosts -> Names]
    /\ pc \in {"start", "scan", "done"}
    /\ offset \in Nat
    /\ items \in Seq(Rec)
    /\ steady \subseteq ToSet(listing)
    /\ ToSet(listing) \subseteq SeenIds
    /\ Ids(items) \subseteq SeenIds

\* Where the call is: full pages only, and still below the ceiling.
Progress ==
    /\ pc # "done" => outcome = "none" /\ Len(items) = offset /\ Len(items) < Ceiling
    /\ Len(items) < Ceiling + PageSize

\* A record that was read and is still listed is where it was read.
InPlace ==
    \A i \in DOMAIN items :
      items[i].id \in ToSet(listing) => i \in DOMAIN listing /\ listing[i] = items[i].id

Once == \A i, j \in DOMAIN items : items[i].id = items[j].id => i = j

\* Every steady host up to the offset has been read.
ReadSoFar ==
    \A i \in DOMAIN listing :
      i <= offset /\ listing[i] \in steady => i \in DOMAIN items /\ items[i].id = listing[i]

Calm ==
    ~shifted /\ server = "sound" =>
      /\ InPlace /\ Once
      /\ pc # "done" => ReadSoFar
      /\ Scanned => steady \subseteq Ids(items)

ScanInv == Types /\ Progress /\ Calm

-----------------------------------------------------------------------------
\* Facts about the lists.

LEMMA InsertAtProperties ==
    ASSUME NEW S, NEW l \in Seq(S), NEW i \in 1..(Len(l) + 1), NEW h \in S
    PROVE  /\ InsertAt(l, i, h) \in Seq(S)
           /\ Len(InsertAt(l, i, h)) = Len(l) + 1
           /\ \A j \in 1..(Len(l) + 1) :
                InsertAt(l, i, h)[j] = IF j < i THEN l[j] ELSE IF j = i THEN h ELSE l[j - 1]
<1> DEFINE a == SubSeq(l, 1, i - 1)  b == SubSeq(l, i, Len(l))
<1>0. Len(l) \in Nat /\ i \in Int /\ i - 1 \in Int /\ 1 \in Int /\ \A j \in 1..Len(l) : l[j] \in S
  BY LenProperties, ElementOfSeq
<1>1. /\ a \in Seq(S) /\ Len(a) = i - 1
      /\ \A j \in 1..(i - 1) : a[j] = l[j]
  <2>1. \A j \in 1..(i - 1) : l[j] \in S
    BY <1>0
  <2>2. /\ a \in Seq(S)
        /\ Len(a) = IF 1 <= i - 1 THEN (i - 1) - 1 + 1 ELSE 0
        /\ \A j \in 1..((i - 1) - 1 + 1) : a[j] = l[1 + j - 1]
    BY <1>0, <2>1, SubSeqProperties
  <2> QED BY <1>0, <2>2
<1>2. /\ b \in Seq(S) /\ Len(b) = Len(l) - i + 1
      /\ \A j \in 1..(Len(l) - i + 1) : b[j] = l[i + j - 1]
  <2>1. \A j \in i..Len(l) : l[j] \in S
    BY <1>0
  <2>2. /\ b \in Seq(S)
        /\ Len(b) = IF i <= Len(l) THEN Len(l) - i + 1 ELSE 0
        /\ \A j \in 1..(Len(l) - i + 1) : b[j] = l[i + j - 1]
    BY <1>0, <2>1, SubSeqProperties
  <2> QED BY <1>0, <2>2
<1> HIDE DEF a, b
<1>3. <<h>> \in Seq(S) /\ Len(<<h>>) = 1 /\ <<h>>[1] = h
  OBVIOUS
<1>4. /\ a \o <<h>> \in Seq(S) /\ Len(a \o <<h>>) = i
      /\ \A j \in 1..i : (a \o <<h>>)[j] = IF j < i THEN l[j] ELSE h
  BY <1>0, <1>1, <1>3, ConcatProperties
<1>5. /\ (a \o <<h>>) \o b \in Seq(S) /\ Len((a \o <<h>>) \o b) = Len(l) + 1
      /\ \A j \in 1..(Len(l) + 1) :
           ((a \o <<h>>) \o b)[j] = IF j <= i THEN (a \o <<h>>)[j] ELSE b[j - i]
  <2> DEFINE c == a \o <<h>>
  <2>1. c \in Seq(S) /\ Len(c) = i
    BY <1>4
  <2> HIDE DEF c
  <2>2. /\ c \o b \in Seq(S) /\ Len(c \o b) = Len(l) + 1
        /\ \A j \in 1..(Len(l) + 1) : (c \o b)[j] = IF j <= i THEN c[j] ELSE b[j - i]
    BY <1>0, <1>2, <2>1, ConcatProperties
  <2> QED BY <2>2 DEF c
<1>6. InsertAt(l, i, h) = (a \o <<h>>) \o b
  BY DEF InsertAt, a, b
<1>7. \A j \in 1..(Len(l) + 1) : j > i => b[j - i] = l[j - 1]
  BY <1>0, <1>2
<1> QED BY <1>0, <1>4, <1>5, <1>6, <1>7

LEMMA RemoveAtProperties ==
    ASSUME NEW S, NEW l \in Seq(S), NEW i \in 1..Len(l)
    PROVE  /\ RemoveAt(l, i) \in Seq(S)
           /\ Len(RemoveAt(l, i)) = Len(l) - 1
           /\ \A j \in 1..(Len(l) - 1) :
                RemoveAt(l, i)[j] = IF j < i THEN l[j] ELSE l[j + 1]
<1> DEFINE a == SubSeq(l, 1, i - 1)  b == SubSeq(l, i + 1, Len(l))
<1>0. Len(l) \in Nat /\ i \in Int /\ i - 1 \in Int /\ i + 1 \in Int /\ 1 \in Int
      /\ \A j \in 1..Len(l) : l[j] \in S
  BY LenProperties, ElementOfSeq
<1>1. /\ a \in Seq(S) /\ Len(a) = i - 1
      /\ \A j \in 1..(i - 1) : a[j] = l[j]
  <2>1. \A j \in 1..(i - 1) : l[j] \in S
    BY <1>0
  <2>2. /\ a \in Seq(S)
        /\ Len(a) = IF 1 <= i - 1 THEN (i - 1) - 1 + 1 ELSE 0
        /\ \A j \in 1..((i - 1) - 1 + 1) : a[j] = l[1 + j - 1]
    BY <1>0, <2>1, SubSeqProperties
  <2> QED BY <1>0, <2>2
<1>2. /\ b \in Seq(S) /\ Len(b) = Len(l) - i
      /\ \A j \in 1..(Len(l) - i) : b[j] = l[i + j]
  <2>1. \A j \in (i + 1)..Len(l) : l[j] \in S
    BY <1>0
  <2>2. /\ b \in Seq(S)
        /\ Len(b) = IF i + 1 <= Len(l) THEN Len(l) - (i + 1) + 1 ELSE 0
        /\ \A j \in 1..(Len(l) - (i + 1) + 1) : b[j] = l[(i + 1) + j - 1]
    BY <1>0, <2>1, SubSeqProperties
  <2> QED BY <1>0, <2>2
<1> HIDE DEF a, b
<1>3. /\ a \o b \in Seq(S) /\ Len(a \o b) = Len(l) - 1
      /\ \A j \in 1..(Len(l) - 1) :
           (a \o b)[j] = IF j <= i - 1 THEN a[j] ELSE b[j - (i - 1)]
  <2>1. /\ a \o b \in Seq(S) /\ Len(a \o b) = Len(a) + Len(b)
        /\ \A j \in 1..(Len(a) + Len(b)) :
             (a \o b)[j] = IF j <= Len(a) THEN a[j] ELSE b[j - Len(a)]
    BY <1>1, <1>2, ConcatProperties
  <2>2. Len(a) = i - 1 /\ Len(a) + Len(b) = Len(l) - 1
    BY <1>0, <1>1, <1>2
  <2> QED BY <2>1, <2>2
<1>4. RemoveAt(l, i) = a \o b
  BY DEF RemoveAt, a, b
<1>5. ASSUME NEW j \in 1..(Len(l) - 1)
      PROVE  (a \o b)[j] = IF j < i THEN l[j] ELSE l[j + 1]
  <2>1. CASE j < i
    <3>1. j <= i - 1 /\ j \in 1..(i - 1)
      BY <1>0, <2>1
    <3> QED BY <1>1, <1>3, <2>1, <3>1
  <2>2. CASE ~(j < i)
    <3>1. ~(j <= i - 1) /\ j - (i - 1) \in 1..(Len(l) - i) /\ i + (j - (i - 1)) = j + 1
      BY <1>0, <2>2
    <3>2. b[j - (i - 1)] = l[i + (j - (i - 1))]
      BY <1>2, <3>1
    <3> QED BY <1>3, <2>2, <3>1, <3>2
  <2> QED BY <2>1, <2>2
<1> QED BY <1>3, <1>4, <1>5

\* The same facts place by place, and what they say of a list without repetitions.
LEMMA InsertedOnce ==
    ASSUME NEW S, NEW l \in Seq(S), IsInjective(l),
           NEW i \in 1..(Len(l) + 1), NEW h \in S, h \notin ToSet(l),
           NEW m, m = InsertAt(l, i, h)
    PROVE  /\ m \in Seq(S) /\ IsInjective(m)
           /\ DOMAIN l = 1..Len(l) /\ DOMAIN m = 1..(Len(l) + 1)
           /\ ToSet(l) \subseteq ToSet(m)
           /\ \A j \in 1..Len(l) : j < i => m[j] = l[j]
           /\ m[i] = h
<1> DEFINE back(k) == IF k < i THEN k ELSE k - 1
<1>1. /\ m \in Seq(S) /\ Len(m) = Len(l) + 1
      /\ \A j \in 1..(Len(l) + 1) :
           m[j] = IF j < i THEN l[j] ELSE IF j = i THEN h ELSE l[j - 1]
  BY InsertAtProperties, SMTT(40)
<1>2. Len(l) \in Nat /\ DOMAIN l = 1..Len(l) /\ DOMAIN m = 1..(Len(l) + 1) /\ i \in Nat \ {0}
  BY <1>1, LenProperties
<1>3. m[i] = h
  BY <1>1, <1>2
<1>4. ASSUME NEW k \in 1..(Len(l) + 1), k # i
      PROVE  back(k) \in 1..Len(l) /\ m[k] = l[back(k)]
  <2>1. back(k) \in 1..Len(l)
    BY <1>2, <1>4
  <2>2. m[k] = IF k < i THEN l[k] ELSE IF k = i THEN h ELSE l[k - 1]
    BY <1>1
  <2> QED BY <1>4, <2>1, <2>2
<1>5. ASSUME NEW j \in 1..(Len(l) + 1), NEW k \in 1..(Len(l) + 1), m[j] = m[k]
      PROVE  j = k
  <2>1. ASSUME NEW a \in 1..(Len(l) + 1), a # i PROVE m[a] # h
    BY <1>2, <1>4, <2>1 DEF ToSet
  <2>2. CASE j # i /\ k # i
    <3>1. back(j) \in 1..Len(l) /\ back(k) \in 1..Len(l) /\ l[back(j)] = l[back(k)]
      BY <1>4, <1>5, <2>2
    <3>2. back(j) = back(k)
      <4> HIDE DEF back
      <4> QED BY <1>2, <3>1 DEF IsInjective
    <3> QED BY <1>2, <2>2, <3>2
  <2>3. CASE j = i \/ k = i
    BY <1>3, <1>5, <2>1, <2>3
  <2> QED BY <2>2, <2>3
<1>6. ToSet(l) \subseteq ToSet(m)
  <2> SUFFICES ASSUME NEW j \in 1..Len(l) PROVE \E k \in 1..(Len(l) + 1) : m[k] = l[j]
    BY <1>2 DEF ToSet
  <2>1. CASE j < i
    <3>1. j \in 1..(Len(l) + 1) /\ j # i /\ back(j) = j
      BY <1>2, <2>1
    <3> QED BY <1>4, <3>1
  <2>2. CASE ~(j < i)
    <3>1. j + 1 \in 1..(Len(l) + 1) /\ j + 1 # i /\ back(j + 1) = j
      BY <1>2, <2>2
    <3> QED BY <1>4, <3>1
  <2> QED BY <2>1, <2>2
<1>7. \A j \in 1..Len(l) : j < i => m[j] = l[j]
  BY <1>2, <1>4
<1> QED BY <1>1, <1>2, <1>3, <1>5, <1>6, <1>7 DEF IsInjective

LEMMA RemovedOnce ==
    ASSUME NEW S, NEW l \in Seq(S), IsInjective(l), NEW i \in 1..Len(l),
           NEW m, m = RemoveAt(l, i)
    PROVE  /\ m \in Seq(S) /\ IsInjective(m)
           /\ DOMAIN l = 1..Len(l) /\ DOMAIN m = 1..(Len(l) - 1)
           /\ ToSet(l) \ {l[i]} \subseteq ToSet(m)
           /\ \A j \in 1..(Len(l) - 1) : j < i => m[j] = l[j]
<1> DEFINE back(k) == IF k < i THEN k ELSE k + 1
<1>1. /\ m \in Seq(S) /\ Len(m) = Len(l) - 1
      /\ \A j \in 1..(Len(l) - 1) : m[j] = IF j < i THEN l[j] ELSE l[j + 1]
  BY RemoveAtProperties
<1>2. Len(l) \in Nat /\ DOMAIN l = 1..Len(l) /\ DOMAIN m = 1..(Len(l) - 1) /\ i \in Nat \ {0}
  BY <1>1, LenProperties
<1>3. ASSUME NEW k \in 1..(Len(l) - 1) PROVE back(k) \in 1..Len(l) /\ m[k] = l[back(k)]
  <2>1. back(k) \in 1..Len(l)
    BY <1>2
  <2>2. m[k] = IF k < i THEN l[k] ELSE l[k + 1]
    BY <1>1
  <2> QED BY <2>1, <2>2
<1>4. ASSUME NEW j \in 1..(Len(l) - 1), NEW k \in 1..(Len(l) - 1), m[j] = m[k]
      PROVE  j = k
  <2>1. back(j) \in 1..Len(l) /\ back(k) \in 1..Len(l) /\ l[back(j)] = l[back(k)]
    BY <1>3, <1>4
  <2>2. back(j) = back(k)
    <3> HIDE DEF back
    <3> QED BY <1>2, <2>1 DEF IsInjective
  <2> QED BY <1>2, <2>2
<1>5. ToSet(l) \ {l[i]} \subseteq ToSet(m)
  <2> SUFFICES ASSUME NEW j \in 1..Len(l), j # i
               PROVE  \E k \in 1..(Len(l) - 1) : m[k] = l[j]
    BY <1>2 DEF ToSet
  <2>1. CASE j < i
    <3>1. j \in 1..(Len(l) - 1) /\ back(j) = j
      BY <1>2, <2>1
    <3> QED BY <1>3, <3>1
  <2>2. CASE ~(j < i)
    <3>1. j - 1 \in 1..(Len(l) - 1) /\ back(j - 1) = j
      BY <1>2, <2>2
    <3> QED BY <1>3, <3>1
  <2> QED BY <2>1, <2>2
<1>6. \A j \in 1..(Len(l) - 1) : j < i => m[j] = l[j]
  BY <1>2, <1>3
<1> QED BY <1>1, <1>2, <1>4, <1>5, <1>6 DEF IsInjective

\* A page of the server: never longer than asked for, and, from a server that
\* heeds the offset, the records at the places that follow it.
LEMMA PageProperties ==
    ASSUME Types, NEW from \in Nat, NEW limit \in Nat \ {0}
    PROVE  LET page == Page(from, limit) IN
             /\ page \in Seq(Rec)
             /\ Len(page) <= limit
             /\ \A i \in 1..Len(page) : page[i].id \in ToSet(listing)
             /\ server = "sound" =>
                  /\ \A i \in 1..Len(page) :
                       from + i \in 1..Len(listing) /\ page[i].id = listing[from + i]
                  /\ Len(page) < limit => from + Len(page) >= Len(listing)
<1> DEFINE first == IF server = "deaf" THEN 1 ELSE from + 1
           last == first + limit - 1
           end == IF last <= Len(listing) THEN last ELSE Len(listing)
           l == SubSeq(listing, first, end)
           page == Page(from, limit)
<1>0. /\ listing \in Seq(Hosts) /\ Len(listing) \in Nat /\ name \in [Hosts -> Names]
      /\ \A i \in 1..Len(listing) : listing[i] \in Hosts
      /\ DOMAIN listing = 1..Len(listing)
  BY LenProperties, ElementOfSeq DEF Types
<1>1. first \in Nat \ {0} /\ last \in Nat /\ end \in Nat /\ end <= Len(listing) /\ end <= last
  BY <1>0
<1>2. /\ l \in Seq(Hosts)
      /\ Len(l) = IF first <= end THEN end - first + 1 ELSE 0
      /\ \A i \in 1..(end - first + 1) : l[i] = listing[first + i - 1]
  <2>1. \A i \in first..end : listing[i] \in Hosts
    BY <1>0, <1>1
  <2>2. first \in Int /\ end \in Int
    BY <1>1
  <2> HIDE DEF first, end
  <2> QED BY <2>1, <2>2, SubSeqProperties
<1>3. page = [i \in DOMAIN l |-> [id |-> l[i], name |-> name[l[i]]]]
  BY DEF Page, Records
<1> HIDE DEF l, page, end, last
<1>4. Len(l) \in Nat /\ DOMAIN l = 1..Len(l) /\ \A i \in 1..Len(l) : l[i] \in Hosts
  BY <1>2, LenProperties, ElementOfSeq
<1>5. /\ page \in [1..Len(l) -> Rec]
      /\ \A i \in 1..Len(l) : page[i].id = l[i]
  BY <1>0, <1>3, <1>4 DEF Rec
<1>6. page \in Seq(Rec) /\ Len(page) = Len(l)
  BY <1>4, <1>5, IsASeq, LenProperties
<1>7. Len(l) <= limit
  BY <1>1, <1>2 DEF last
<1>8. ASSUME NEW i \in 1..Len(page)
      PROVE  /\ first + i - 1 \in 1..Len(listing)
             /\ page[i].id = listing[first + i - 1]
  <2>1. i \in 1..(end - first + 1)
    BY <1>1, <1>2, <1>4, <1>6
  <2>2. first + i - 1 \in 1..Len(listing)
    BY <1>0, <1>1, <2>1
  <2> QED BY <1>2, <1>5, <1>6, <2>1, <2>2
<1>9. \A i \in 1..Len(page) : page[i].id \in ToSet(listing)
  BY <1>0, <1>8 DEF ToSet
<1>10. ASSUME server = "sound"
       PROVE  /\ \A i \in 1..Len(page) :
                   from + i \in 1..Len(listing) /\ page[i].id = listing[from + i]
              /\ Len(page) < limit => from + Len(page) >= Len(listing)
  <2>1. first = from + 1
    BY <1>10
  <2>2. ASSUME NEW i \in 1..Len(page)
        PROVE  from + i \in 1..Len(listing) /\ page[i].id = listing[from + i]
    <3>1. first + i - 1 = from + i
      BY <2>1
    <3> QED BY <1>8, <3>1
  <2>3. Len(page) < limit => from + Len(page) >= Len(listing)
    <3>1. Len(page) = IF first <= end THEN end - first + 1 ELSE 0
      BY <1>2, <1>6
    <3>2. CASE last <= Len(listing)
      <4>1. end = from + limit
        BY <2>1, <3>2 DEF end, last
      <4> QED BY <2>1, <3>1, <4>1
    <3>3. CASE ~(last <= Len(listing))
      <4>1. end = Len(listing)
        BY <3>3 DEF end
      <4> QED BY <1>0, <2>1, <3>1, <4>1
    <3> QED BY <3>2, <3>3
  <2> QED BY <2>2, <2>3
<1> QED BY <1>6, <1>7, <1>9, <1>10 DEF page

\* The same of what the client makes of the answer.
LEMMA ReplyProperties ==
    ASSUME Types, NEW from \in Nat, NEW limit \in Nat \ {0}, NEW page \in Replies(from, limit)
    PROVE  /\ page \in Seq(Rec)
           /\ Len(page) <= limit
           /\ \A i \in 1..Len(page) : page[i].id \in ToSet(listing)
           /\ server = "sound" =>
                /\ \A i \in 1..Len(page) :
                     from + i \in 1..Len(listing) /\ page[i].id = listing[from + i]
                /\ Len(page) < limit => from + Len(page) >= Len(listing)
<1>1. CASE page = Page(from, limit)
  BY <1>1, PageProperties
<1>2. CASE page = <<>> /\ server = "garbled"
  <2>1. page \in Seq(Rec) /\ Len(page) = 0 /\ 1..Len(page) = {}
    BY <1>2
  <2> QED BY <1>2, <2>1
<1> QED BY <1>1, <1>2 DEF Replies

-----------------------------------------------------------------------------
LEMMA ClampedPage == Clamped(PageSize) = PageSize /\ PageSize \in Nat \ {0} /\ Ceiling \in Nat
BY ScanAssumption DEF Clamped, AtLeast, AtMost

LEMMA RecordIds ==
    ASSUME NEW l \in Seq(Hosts), NEW nm
    PROVE  {r.id : r \in ToSet(Records(l, nm))} = ToSet(l)
<1>1. DOMAIN Records(l, nm) = DOMAIN l
  BY DEF Records
<1>2. \A i \in DOMAIN l : Records(l, nm)[i].id = l[i]
  BY DEF Records
<1> QED BY <1>1, <1>2 DEF ToSet

LEMMA ScanStarts == Init => ScanInv
<1> SUFFICES ASSUME Init PROVE ScanInv
  OBVIOUS
<1>1. listing \in Seq(Hosts) /\ IsInjective(listing) /\ name \in [Hosts -> Names]
  BY ScanAssumption DEF Init
<1>2. items = <<>> /\ Len(items) = 0 /\ DOMAIN items = {} /\ offset = 0
      /\ items \in Seq(Rec) /\ outcome = "none" /\ pc = "start"
  BY DEF Init
<1>3. steady = ToSet(listing) /\ SeenIds = ToSet(listing)
  BY <1>1, RecordIds DEF Init, SeenIds
<1>4. Types
  BY <1>1, <1>2, <1>3 DEF Types, Ids
<1>5. Progress
  BY <1>2, ScanAssumption DEF Progress
<1>6. Calm
  <2>1. \A i \in DOMAIN listing : ~(i <= offset)
    BY <1>1, <1>2
  <2> QED BY <1>2, <2>1 DEF Calm, InPlace, Once, ReadSoFar, Scanned
<1> QED BY <1>4, <1>5, <1>6 DEF ScanInv

\* A step that leaves the lists alone and is no page keeps the invariant, when it
\* does not claim that a scan was completed.
LEMMA QuietStep ==
    ASSUME ScanInv,
           UNCHANGED <<listing, name, server, offset, items, steady, shifted, shown>>,
           pc' \in {"scan", "done"}, pc = "done" => pc' = "done",
           pc' # "done" => outcome' = "none",
           Scanned' => Scanned
    PROVE  ScanInv'
<1>1. Types'
  BY DEF ScanInv, Types, Ids, SeenIds
<1>2. Progress'
  BY DEF ScanInv, Progress
<1>3. Calm'
  BY DEF ScanInv, Calm, InPlace, Once, ReadSoFar, Ids
<1> QED BY <1>1, <1>2, <1>3 DEF ScanInv

LEMMA PageStep == ScanInv /\ ReadPage => ScanInv'
<1> SUFFICES ASSUME ScanInv, ReadPage PROVE ScanInv'
  OBVIOUS
<1>1. /\ pc = "scan" /\ offset \in Nat /\ items \in Seq(Rec) /\ Len(items) = offset
      /\ Len(items) < Ceiling /\ outcome = "none" /\ listing \in Seq(Hosts)
  BY DEF ReadPage, ScanInv, Types, Progress
<1>2a. PICK page \in Replies(offset, PageSize) :
        /\ items' = items \o page
        /\ IF LastPage(page)
           THEN offset' = offset /\ pc' = "done"
           ELSE IF TooMany(Len(items'))
           THEN offset' = offset /\ pc' = "done" /\ outcome' = "refused"
           ELSE offset' = offset + PageSize /\ pc' = "scan" /\ outcome' = "none"
  BY <1>1, ClampedPage DEF ReadPage, Ends, NextOffset, Conclude, Lists
<1>2. /\ items' = items \o page
      /\ IF LastPage(page)
         THEN offset' = offset /\ pc' = "done"
         ELSE IF TooMany(Len(items'))
         THEN offset' = offset /\ pc' = "done" /\ outcome' = "refused"
         ELSE offset' = offset + PageSize /\ pc' = "scan" /\ outcome' = "none"
      /\ UNCHANGED <<listing, name, server, sel, steady, shifted, shown>>
  BY <1>2a DEF ReadPage
<1>3. /\ page \in Seq(Rec) /\ Len(page) \in Nat /\ Len(page) <= PageSize
      /\ DOMAIN page = 1..Len(page)
      /\ \A i \in 1..Len(page) : page[i].id \in ToSet(listing)
      /\ server = "sound" =>
           /\ \A i \in 1..Len(page) :
                offset + i \in 1..Len(listing) /\ page[i].id = listing[offset + i]
           /\ Len(page) < PageSize => offset + Len(page) >= Len(listing)
  BY <1>1, ClampedPage, ReplyProperties, LenProperties DEF ScanInv
<1>3a. ~LastPage(page) => Len(page) = PageSize
  <2>1. Len(page) \in Nat /\ Len(page) <= PageSize /\ PageSize \in Nat
    BY <1>3, ClampedPage
  <2> QED BY <2>1 DEF LastPage
<1>4. /\ items' \in Seq(Rec) /\ Len(items') = offset + Len(page)
      /\ \A i \in 1..(offset + Len(page)) :
           items'[i] = IF i <= offset THEN items[i] ELSE page[i - offset]
  BY <1>1, <1>2, <1>3, ConcatProperties
<1>5. /\ DOMAIN items = 1..offset /\ DOMAIN items' = 1..(offset + Len(page))
      /\ DOMAIN listing = 1..Len(listing) /\ Len(listing) \in Nat
  BY <1>1, <1>4, LenProperties
<1>6. \A i \in 1..offset : items'[i] = items[i]
  BY <1>1, <1>3, <1>4
<1>7. \A i \in 1..(offset + Len(page)) \ (1..offset) :
        i - offset \in 1..Len(page) /\ items'[i] = page[i - offset]
  BY <1>1, <1>3, <1>4
<1>8. Ids(items') \subseteq Ids(items) \union ToSet(listing)
  <2> SUFFICES ASSUME NEW i \in 1..(offset + Len(page))
               PROVE  items'[i].id \in Ids(items) \union ToSet(listing)
    BY <1>5 DEF Ids
  <2>1. CASE i \in 1..offset
    BY <1>5, <1>6, <2>1 DEF Ids
  <2>2. CASE i \notin 1..offset
    BY <1>3, <1>7, <2>2
  <2> QED BY <2>1, <2>2
<1>9. Types'
  <2>1. offset' \in Nat /\ pc' \in {"start", "scan", "done"}
    BY <1>1, <1>2, ClampedPage
  <2>2. Ids(items') \subseteq SeenIds /\ SeenIds' = SeenIds
    BY <1>2, <1>8 DEF ScanInv, Types, SeenIds
  <2> QED BY <1>2, <1>4, <2>1, <2>2 DEF ScanInv, Types, Ids
<1>10. Progress'
  <2>1. Len(items') < Ceiling + PageSize
    BY <1>1, <1>3, <1>4, ClampedPage
  <2>2. CASE pc' = "done"
    BY <2>1, <2>2 DEF Progress
  <2>3. CASE pc' # "done"
    <3>1. ~LastPage(page) /\ ~TooMany(Len(items')) /\ offset' = offset + PageSize
          /\ outcome' = "none"
      BY <1>2, <2>3
    <3>2. Len(page) = PageSize
      BY <1>3a, <3>1
    <3>3. Len(items') < Ceiling
      BY <1>1, <1>3, <1>4, <3>1, ClampedPage DEF TooMany
    <3> QED BY <1>4, <2>1, <3>1, <3>2, <3>3 DEF Progress
  <2> QED BY <2>2, <2>3
<1>11. ASSUME ~shifted, server = "sound"
       PROVE  /\ InPlace' /\ Once'
              /\ pc' # "done" => ReadSoFar'
              /\ Scanned' => steady \subseteq Ids(items')
  <2>1. InPlace /\ Once /\ ReadSoFar /\ steady \subseteq ToSet(listing) /\ IsInjective(listing)
    BY <1>1, <1>11 DEF ScanInv, Calm, Types
  <2>2. \A i \in 1..(offset + Len(page)) \ (1..offset) :
          i \in 1..Len(listing) /\ items'[i].id = listing[i]
    <3> SUFFICES ASSUME NEW i \in 1..(offset + Len(page)) \ (1..offset)
                 PROVE  i \in 1..Len(listing) /\ items'[i].id = listing[i]
      OBVIOUS
    <3>1. offset + (i - offset) = i
      BY <1>1, <1>3
    <3> QED BY <1>3, <1>7, <1>11, <3>1
  <2>3. InPlace'
    <3> SUFFICES ASSUME NEW i \in 1..(offset + Len(page)), items'[i].id \in ToSet(listing)
                 PROVE  i \in DOMAIN listing /\ listing[i] = items'[i].id
      BY <1>2, <1>5 DEF InPlace
    <3>1. CASE i \in 1..offset
      BY <1>5, <1>6, <2>1, <3>1 DEF InPlace
    <3>2. CASE i \notin 1..offset
      BY <1>5, <2>2, <3>2
    <3> QED BY <3>1, <3>2
  <2>4. Once'
    <3> SUFFICES ASSUME NEW i \in 1..(offset + Len(page)), NEW j \in 1..(offset + Len(page)),
                        items'[i].id = items'[j].id
                 PROVE  i = j
      BY <1>5 DEF Once
    <3>1. CASE i \in 1..offset /\ j \in 1..offset
      BY <1>5, <1>6, <2>1, <3>1 DEF Once
    <3>2. CASE i \notin 1..offset \/ j \notin 1..offset
      <4>1. items'[i].id \in ToSet(listing)
        BY <1>5, <2>2, <3>2 DEF ToSet
      <4>2. /\ i \in DOMAIN listing /\ listing[i] = items'[i].id
            /\ j \in DOMAIN listing /\ listing[j] = items'[j].id
        BY <1>2, <1>5, <2>3, <4>1 DEF InPlace
      <4> QED BY <2>1, <4>2 DEF IsInjective
    <3> QED BY <3>1, <3>2
  <2>5. \A i \in DOMAIN listing :
          i <= offset + Len(page) /\ listing[i] \in steady
            => i \in DOMAIN items' /\ items'[i].id = listing[i]
    <3> SUFFICES ASSUME NEW i \in 1..Len(listing), i <= offset + Len(page),
                        listing[i] \in steady
                 PROVE  i \in 1..(offset + Len(page)) /\ items'[i].id = listing[i]
      BY <1>5
    <3>1. CASE i <= offset
      <4>1. i \in 1..offset /\ i \in 1..(offset + Len(page))
        BY <1>1, <1>3, <1>5, <3>1
      <4>2. items[i].id = listing[i]
        BY <1>5, <2>1, <3>1 DEF ReadSoFar
      <4> QED BY <1>6, <4>1, <4>2
    <3>2. CASE ~(i <= offset)
      <4>1. i \in 1..(offset + Len(page)) \ (1..offset)
        BY <1>1, <1>3, <1>5, <3>2
      <4> QED BY <2>2, <4>1
    <3> QED BY <3>1, <3>2
  <2>6. ASSUME pc' # "done" PROVE ReadSoFar'
    <3>1. ~LastPage(page) /\ offset' = offset + PageSize
      BY <1>2, <2>6
    <3>2. Len(page) = PageSize
      BY <1>3a, <3>1
    <3> QED BY <1>2, <2>5, <3>1, <3>2 DEF ReadSoFar
  <2>7. ASSUME Scanned' PROVE steady \subseteq Ids(items')
    <3>1. LastPage(page)
      <4>1. outcome' \notin {"none", "refused"}
        BY <2>7 DEF Scanned
      <4> QED BY <1>2, <4>1
    <3>2. offset + Len(page) >= Len(listing)
      BY <1>3, <1>11, <3>1 DEF LastPage
    <3>3. \A i \in DOMAIN listing : i <= offset + Len(page)
      BY <1>1, <1>3, <1>5, <3>2
    <3>4. \A i \in DOMAIN listing : listing[i] \in steady => listing[i] \in Ids(items')
      BY <2>5, <3>3 DEF Ids
    <3> QED BY <2>1, <3>4 DEF ToSet
  <2> QED BY <2>3, <2>4, <2>6, <2>7
<1> QED BY <1>2, <1>9, <1>10, <1>11 DEF ScanInv, Calm

\* What a change of the list needs: the lists stay lists, and, while the scan is
\* calm, no host of the list leaves its place and no new one was seen before.
LEMMA ChurnStep ==
    ASSUME ScanInv, Churns,
           listing' \in Seq(Hosts), IsInjective(listing'), name' \in [Hosts -> Names],
           steady' \subseteq steady, steady' \subseteq ToSet(listing'),
           ~shifted' => /\ ~shifted
                        /\ \A i \in DOMAIN listing \intersect DOMAIN listing' :
                             listing'[i] = listing[i]
                        /\ \A i \in DOMAIN listing' \ DOMAIN listing :
                             listing'[i] \notin SeenIds
    PROVE  ScanInv'
<1>1. /\ pc # "done" /\ UNCHANGED <<server, sel, pc, offset, items, outcome, answer>>
      /\ shown' = shown \union ToSet(Records(listing', name'))
  BY DEF Churns
<1>2. SeenIds' = SeenIds \union ToSet(listing')
  <2>1. SeenIds' = SeenIds \union {r.id : r \in ToSet(Records(listing', name'))}
    BY <1>1 DEF SeenIds
  <2> QED BY <2>1, RecordIds
<1>3. Types'
  BY <1>1, <1>2 DEF ScanInv, Types, Ids
<1>4. Progress'
  BY <1>1 DEF ScanInv, Progress
<1>5. ASSUME ~shifted', server = "sound" PROVE InPlace' /\ Once' /\ ReadSoFar' /\ ~Scanned'
  <2>1. InPlace /\ Once /\ ReadSoFar /\ Ids(items) \subseteq SeenIds /\ outcome = "none"
        /\ steady \subseteq ToSet(listing) /\ IsInjective(listing)
    BY <1>1, <1>5 DEF ScanInv, Calm, Types, Progress
  <2>2. \A i \in DOMAIN listing' :
          \/ i \in DOMAIN listing /\ listing'[i] = listing[i]
          \/ i \notin DOMAIN listing /\ listing'[i] \notin SeenIds
    BY <1>5
  <2>3. InPlace'
    <3> SUFFICES ASSUME NEW i \in DOMAIN items, items[i].id \in ToSet(listing')
                 PROVE  i \in DOMAIN listing' /\ listing'[i] = items[i].id
      BY <1>1 DEF InPlace
    <3>1. PICK k \in DOMAIN listing' : listing'[k] = items[i].id
      BY DEF ToSet
    <3>2. items[i].id \in SeenIds
      BY <2>1 DEF Ids
    <3>3. k \in DOMAIN listing /\ listing[k] = items[i].id
      BY <2>2, <3>1, <3>2
    <3>4. i \in DOMAIN listing /\ listing[i] = items[i].id
      BY <2>1, <3>3 DEF InPlace, ToSet
    <3>5. i = k
      BY <2>1, <3>3, <3>4 DEF IsInjective
    <3> QED BY <3>1, <3>5
  <2>4. Once'
    BY <1>1, <2>1 DEF Once
  <2>5. ReadSoFar'
    <3> SUFFICES ASSUME NEW i \in DOMAIN listing', i <= offset, listing'[i] \in steady'
                 PROVE  i \in DOMAIN items /\ items[i].id = listing'[i]
      BY <1>1 DEF ReadSoFar
    <3>1. listing'[i] \in ToSet(listing) /\ listing'[i] \in steady
      BY <2>1
    <3>2. listing'[i] \in SeenIds
      BY <3>1 DEF ScanInv, Types
    <3>3. i \in DOMAIN listing /\ listing'[i] = listing[i]
      BY <2>2, <3>2
    <3> QED BY <2>1, <3>1, <3>3 DEF ReadSoFar
  <2>6. ~Scanned'
    BY <1>1, <2>1 DEF Scanned
  <2> QED BY <2>3, <2>4, <2>5, <2>6
<1>6. Calm'
  BY <1>1, <1>5 DEF Calm
<1> QED BY <1>3, <1>4, <1>6 DEF ScanInv

LEMMA DiscoverStep == ScanInv /\ Discover => ScanInv'
<1> SUFFICES ASSUME ScanInv, Churns, UNCHANGED <<name, steady>>,
                    NEW h \in Hosts \ ToSet(listing), NEW i \in 1..(Len(listing) + 1),
                    listing' = InsertAt(listing, i, h),
                    shifted' = (shifted \/ i <= Len(listing) \/ h \in SeenIds)
             PROVE  ScanInv'
  BY DEF Discover, SeenIds
<1>1. /\ listing \in Seq(Hosts) /\ IsInjective(listing) /\ name \in [Hosts -> Names]
      /\ steady \subseteq ToSet(listing)
  BY DEF ScanInv, Types
<1>2. Len(listing) \in Nat
  BY <1>1, LenProperties
<1>3. /\ listing' \in Seq(Hosts) /\ IsInjective(listing')
      /\ DOMAIN listing = 1..Len(listing) /\ DOMAIN listing' = 1..(Len(listing) + 1)
      /\ ToSet(listing) \subseteq ToSet(listing')
      /\ \A j \in 1..Len(listing) : j < i => listing'[j] = listing[j]
      /\ listing'[i] = h
  <2>1. h \in Hosts /\ h \notin ToSet(listing)
    OBVIOUS
  <2> QED BY <1>1, <2>1, InsertedOnce
<1>4. ASSUME ~shifted'
      PROVE  /\ ~shifted
             /\ \A j \in DOMAIN listing \intersect DOMAIN listing' : listing'[j] = listing[j]
             /\ \A j \in DOMAIN listing' \ DOMAIN listing : listing'[j] \notin SeenIds
  <2>1. ~shifted /\ ~(i <= Len(listing)) /\ h \notin SeenIds
    BY <1>4
  <2>2. i = Len(listing) + 1
    BY <1>2, <2>1
  <2>3. \A j \in 1..Len(listing) : listing'[j] = listing[j]
    BY <1>2, <1>3, <2>2
  <2>4. \A j \in DOMAIN listing' \ DOMAIN listing : j = i
    BY <1>2, <1>3, <2>2
  <2> QED BY <1>3, <2>1, <2>3, <2>4
<1> QED BY <1>1, <1>3, <1>4, ChurnStep

LEMMA DelistStep == ScanInv /\ Delist => ScanInv'
<1> SUFFICES ASSUME ScanInv, Churns, UNCHANGED name, NEW i \in DOMAIN listing,
                    listing' = RemoveAt(listing, i),
                    shifted' = (shifted \/ i < Len(listing)),
                    steady' = steady \ {listing[i]}
             PROVE  ScanInv'
  BY DEF Delist
<1>1. /\ listing \in Seq(Hosts) /\ IsInjective(listing) /\ name \in [Hosts -> Names]
      /\ steady \subseteq ToSet(listing)
  BY DEF ScanInv, Types
<1>2. Len(listing) \in Nat /\ i \in 1..Len(listing)
  BY <1>1, LenProperties
<1>3. /\ listing' \in Seq(Hosts) /\ IsInjective(listing')
      /\ DOMAIN listing = 1..Len(listing) /\ DOMAIN listing' = 1..(Len(listing) - 1)
      /\ ToSet(listing) \ {listing[i]} \subseteq ToSet(listing')
      /\ \A j \in 1..(Len(listing) - 1) : j < i => listing'[j] = listing[j]
  BY <1>1, <1>2, RemovedOnce
<1>4. ASSUME ~shifted'
      PROVE  /\ ~shifted
             /\ \A j \in DOMAIN listing \intersect DOMAIN listing' : listing'[j] = listing[j]
             /\ \A j \in DOMAIN listing' \ DOMAIN listing : listing'[j] \notin SeenIds
  <2>1. ~shifted /\ ~(i < Len(listing))
    BY <1>4
  <2>2. i = Len(listing)
    BY <1>2, <2>1
  <2>3. \A j \in 1..(Len(listing) - 1) : listing'[j] = listing[j] /\ j \in 1..Len(listing)
    BY <1>2, <1>3, <2>2
  <2> QED BY <1>3, <2>1, <2>3
<1>5. steady' \subseteq steady /\ steady' \subseteq ToSet(listing')
  BY <1>1, <1>3
<1> QED BY <1>1, <1>3, <1>4, <1>5, ChurnStep

LEMMA RenameStep == ScanInv /\ Rename => ScanInv'
<1> SUFFICES ASSUME ScanInv, Churns, UNCHANGED <<listing, shifted>>,
                    NEW h \in ToSet(listing), NEW n \in Names,
                    name' = [name EXCEPT ![h] = n], steady' = steady \ {h}
             PROVE  ScanInv'
  BY DEF Rename
<1>1. /\ listing' \in Seq(Hosts) /\ IsInjective(listing') /\ name' \in [Hosts -> Names]
      /\ steady \subseteq ToSet(listing)
  BY DEF ScanInv, Types
<1> QED BY <1>1, ChurnStep

-----------------------------------------------------------------------------
LEMMA ScanKeeps == ScanInv /\ [Next]_svars => ScanInv'
<1> SUFFICES ASSUME ScanInv, [Next]_svars PROVE ScanInv'
  OBVIOUS
<1>1. CASE ListPage
  BY <1>1, QuietStep DEF ListPage, Lists, Scanned
<1>2. CASE LookupId
  <2>1. ScanInv => (pc = "start" => outcome = "none")
    BY DEF ScanInv, Progress
  <2> QED BY <1>2, <2>1, QuietStep DEF LookupId, Scanned
<1>3. CASE ReadPage
  BY <1>3, PageStep
<1>4. CASE RequestFails
  BY <1>4, QuietStep DEF RequestFails, Ends, Scanned
<1>5. CASE Discover
  BY <1>5, DiscoverStep
<1>6. CASE Delist
  BY <1>6, DelistStep
<1>7. CASE Rename
  BY <1>7, RenameStep
<1>8. CASE UNCHANGED svars
  <2>1. UNCHANGED <<listing, name, server, sel, pc, offset, items, outcome, steady,
                    shifted, shown>>
    BY <1>8 DEF svars
  <2>2. Types' /\ Progress'
    BY <2>1 DEF ScanInv, Types, Progress, Ids, SeenIds
  <2>3. Calm'
    BY <2>1 DEF ScanInv, Calm, InPlace, Once, ReadSoFar, Scanned, Ids
  <2> QED BY <2>2, <2>3 DEF ScanInv
<1> QED BY <1>1, <1>2, <1>3, <1>4, <1>5, <1>6, <1>7, <1>8 DEF Next, Returned

\* The invariant behind the two theorems: what was read is where it was read, once,
\* and everything steady up to the offset was read.
THEOREM ScanInvHolds == Spec => []ScanInv
BY ScanStarts, ScanKeeps, PTL DEF Spec

\* While no host changes its place or comes back, a completed scan holds every
\* steady host and none twice, whatever the page size and however often the list
\* changes.
THEOREM ScanAlwaysExact == Spec => []ScanIsExact
<1>1. ScanInv => ScanIsExact
  BY DEF ScanInv, Calm, Once, ScanIsExact
<1> QED BY <1>1, ScanInvHolds, PTL

\* A scan holds at most a page more than the ceiling, whatever the server answers.
THEOREM ScanAlwaysBounded == Spec => []ScanIsBounded
<1>1. ScanInv => ScanIsBounded
  <2> SUFFICES ASSUME ScanInv PROVE Len(items) <= Ceiling + PageSize
    BY DEF ScanIsBounded
  <2>1. Len(items) \in Nat /\ Len(items) < Ceiling + PageSize
    BY LenProperties DEF ScanInv, Types, Progress
  <2> QED BY <2>1, ClampedPage
<1> QED BY <1>1, ScanInvHolds, PTL

-----------------------------------------------------------------------------
(***************************************************************************)
(* What is made of the records: filters and slices.                        *)
(***************************************************************************)

\* The place of an index among those that were picked.
Rank(at, i) == Cardinality({j \in at : j <= i})

LEMMA RankProperties ==
    ASSUME NEW n \in Nat, NEW at \in SUBSET (1..n)
    PROVE  /\ IsFiniteSet(at) /\ Cardinality(at) \in Nat /\ Cardinality(at) <= n
           /\ \A i \in at : Rank(at, i) \in 1..Cardinality(at)
           /\ \A i, j \in at : i < j => Rank(at, i) < Rank(at, j)
           /\ \A k \in 1..Cardinality(at) : \E i \in at : Rank(at, i) = k
<1> DEFINE upTo(i) == {j \in at : j <= i}
           c == Cardinality(at)
<1>1. IsFiniteSet(1..n) /\ Cardinality(1..n) = n
  BY FS_Interval
<1>2. IsFiniteSet(at) /\ c \in Nat /\ c <= n
  BY <1>1, FS_Subset, FS_CardinalityType
<1>3. \A i : IsFiniteSet(upTo(i)) /\ Cardinality(upTo(i)) \in Nat /\ Cardinality(upTo(i)) <= c
  <2>1. TAKE i
  <2>2. upTo(i) \in SUBSET at
    OBVIOUS
  <2> HIDE DEF upTo, c
  <2>3. QED
    BY <1>2, <2>2, FS_Subset, FS_CardinalityType DEF c
<1>4. \A i \in at : Cardinality(upTo(i)) # 0
  <2>1. TAKE i \in at
  <2>2. i \in upTo(i)
    OBVIOUS
  <2> HIDE DEF upTo
  <2>3. QED
    BY <1>3, <2>2, FS_EmptySet
<1>5. ASSUME NEW i \in at, NEW j \in at, i < j
      PROVE  Cardinality(upTo(i)) < Cardinality(upTo(j))
  <2>1. upTo(i) \in SUBSET upTo(j) /\ j \in upTo(j) /\ j \notin upTo(i)
    <3>1. \A k \in at : k \in Int
      OBVIOUS
    <3>2. \A k \in at : k <= i => k <= j
      BY <1>5, <3>1
    <3>3. j <= j /\ ~(j <= i)
      BY <1>5, <3>1
    <3>4. QED
      BY <3>2, <3>3
  <2> HIDE DEF upTo
  <2>2. /\ Cardinality(upTo(i)) <= Cardinality(upTo(j))
        /\ Cardinality(upTo(i)) # Cardinality(upTo(j))
    BY <1>3, <2>1, FS_Subset
  <2>3. QED
    BY <1>3, <2>2
<1>6. ASSUME NEW k \in 1..c, \A i \in at : Cardinality(upTo(i)) # k
      PROVE  FALSE
  <2> DEFINE T == (1..c) \ {k}
             f == [i \in at |-> Cardinality(upTo(i))]
  <2>1. IsFiniteSet(T) /\ Cardinality(T) < c
    <3>1. IsFiniteSet(1..c) /\ Cardinality(1..c) = c
      <4> HIDE DEF c
      <4>1. QED
        BY <1>2, FS_Interval
    <3>2. IsFiniteSet(T) /\ Cardinality(T) = c - 1
      BY <3>1, FS_RemoveElement
    <3>3. QED
      BY <1>2, <3>2
  <2>2. f \in [at -> T]
    <3> HIDE DEF upTo, c
    <3>1. \A i \in at : Cardinality(upTo(i)) \in (1..c) \ {k}
      BY <1>2, <1>3, <1>4, <1>6
    <3>2. QED
      BY <3>1
  <2> HIDE DEF T, f
  <2>3. PICK i, j \in at : i # j /\ f[i] = f[j]
    BY <1>2, <2>1, <2>2, FS_PigeonHole
  <2>4. Cardinality(upTo(i)) = Cardinality(upTo(j)) /\ (i < j \/ j < i)
    BY <2>3 DEF f
  <2> HIDE DEF upTo
  <2>5. QED
    BY <1>3, <1>5, <2>4
<1>7. \A i \in at : Cardinality(upTo(i)) \in 1..c
  BY <1>3, <1>4, <1>2
<1>8. QED
  BY <1>2, <1>5, <1>6, <1>7 DEF Rank

\* A filter keeps the elements it should, in their order, and no other.
LEMMA PickedProperties ==
    ASSUME NEW S, NEW s \in Seq(S), NEW at \in SUBSET (DOMAIN s), NEW p, p = Picked(s, at)
    PROVE  /\ p \in Seq(S) /\ Len(p) \in Nat /\ Len(p) <= Len(s) /\ DOMAIN p = 1..Len(p)
           /\ \E f \in [1..Len(p) -> at] :
                /\ \A k \in 1..Len(p) : p[k] = s[f[k]]
                /\ \A k, l \in 1..Len(p) : k < l => f[k] < f[l]
                /\ \A i \in at : \E k \in 1..Len(p) : f[k] = i
<1> DEFINE c == Cardinality(at)
           f == [k \in 1..c |-> CHOOSE i \in at : Rank(at, i) = k]
<1>1. Len(s) \in Nat /\ DOMAIN s = 1..Len(s) /\ \A i \in 1..Len(s) : s[i] \in S
  BY LenProperties, ElementOfSeq
<1>2. /\ c \in Nat /\ c <= Len(s)
      /\ \A i \in at : Rank(at, i) \in 1..c
      /\ \A i, j \in at : i < j => Rank(at, i) < Rank(at, j)
      /\ \A k \in 1..c : \E i \in at : Rank(at, i) = k
  BY <1>1, RankProperties
<1>3. p = [k \in 1..c |-> s[CHOOSE i \in at : Rank(at, i) = k]]
  BY DEF Picked, Rank
<1> HIDE DEF c
<1>4. \A k \in 1..c : f[k] \in at /\ Rank(at, f[k]) = k
  BY <1>2
<1>5. \A k \in 1..c : p[k] = s[f[k]]
  BY <1>3
<1>6. \A i, j \in at : i \in Int /\ j \in Int /\ Rank(at, i) \in Nat
  BY <1>1, <1>2
<1> HIDE DEF f
<1>7. p \in [1..c -> S] /\ p \in Seq(S) /\ Len(p) = c /\ DOMAIN p = 1..c
  <2>1. \A k \in 1..c : p[k] \in S
    BY <1>1, <1>4, <1>5
  <2>2. p \in [1..c -> S]
    BY <1>3, <2>1
  <2>3. QED
    BY <1>2, <2>2, IsASeq, LenProperties
<1>8. f \in [1..c -> at]
  BY <1>4 DEF f
<1>9. \A k, l \in 1..c : k < l => f[k] < f[l]
  <2> SUFFICES ASSUME NEW k \in 1..c, NEW l \in 1..c, k < l
               PROVE  f[k] < f[l]
    OBVIOUS
  <2>1. f[k] \in at /\ f[l] \in at /\ Rank(at, f[k]) = k /\ Rank(at, f[l]) = l
    BY <1>4
  <2>2. f[l] < f[k] => Rank(at, f[l]) < Rank(at, f[k])
    BY <1>2, <2>1
  <2>2a. f[k] # f[l] /\ ~(f[l] < f[k])
    <3> HIDE DEF Rank
    <3>1. k \in Int /\ l \in Int /\ ~(l < k) /\ k # l
      BY <1>2
    <3>2. QED
      BY <2>1, <2>2, <3>1
  <2>3. QED
    BY <1>6, <2>1, <2>2a
<1>10. \A i \in at : \E k \in 1..c : f[k] = i
  <2> SUFFICES ASSUME NEW i \in at PROVE f[Rank(at, i)] = i
    BY <1>2
  <2>1. PICK k \in 1..c : k = Rank(at, i)
    BY <1>2
  <2>2. f[k] \in at /\ Rank(at, f[k]) = Rank(at, i)
    BY <1>4, <2>1
  <2>3. ~(f[k] < i) /\ ~(i < f[k])
    BY <1>2, <1>6, <2>2
  <2>4. QED
    BY <1>6, <2>1, <2>2, <2>3
<1>11. \E g \in [1..c -> at] :
          /\ \A k \in 1..c : p[k] = s[g[k]]
          /\ \A k, l \in 1..c : k < l => g[k] < g[l]
          /\ \A i \in at : \E k \in 1..c : g[k] = i
  <2> USE <1>8
  <2>1. WITNESS f \in [1..c -> at]
  <2>2. QED
    BY <1>5, <1>9, <1>10
<1>12. QED
  BY <1>2, <1>7, <1>11, ZenonT(40)

\* The same, record by record.
LEMMA PickedElements ==
    ASSUME NEW S, NEW s \in Seq(S), NEW at \in SUBSET (DOMAIN s), NEW p, p = Picked(s, at)
    PROVE  /\ p \in Seq(S) /\ Len(p) \in Nat /\ DOMAIN p = 1..Len(p)
           /\ \A k \in 1..Len(p) : \E i \in at : p[k] = s[i]
           /\ \A i \in at : \E k \in 1..Len(p) : p[k] = s[i]
<1>1. p \in Seq(S) /\ Len(p) \in Nat /\ DOMAIN p = 1..Len(p)
  BY PickedProperties
<1>2. PICK f \in [1..Len(p) -> at] :
        /\ \A k \in 1..Len(p) : p[k] = s[f[k]]
        /\ \A i \in at : \E k \in 1..Len(p) : f[k] = i
  BY PickedProperties
<1>3. \A k \in 1..Len(p) : \E i \in at : p[k] = s[i]
  BY <1>2
<1>4. \A i \in at : \E k \in 1..Len(p) : p[k] = s[i]
  BY <1>2
<1>5. QED
  BY <1>1, <1>3, <1>4

\* Two elements that are kept stood at two places.
LEMMA PickedTwo ==
    ASSUME NEW S, NEW s \in Seq(S), NEW at \in SUBSET (DOMAIN s), NEW p, p = Picked(s, at),
           Len(p) > 1
    PROVE  \E i, j \in at : i # j /\ p[1] = s[i] /\ p[2] = s[j]
<1>1. Len(p) \in Nat /\ \A i \in at : i \in Int
  <2>1. DOMAIN s = 1..Len(s)
    BY LenProperties
  <2>2. QED
    BY <2>1, PickedProperties
<1>2. PICK f \in [1..Len(p) -> at] :
        /\ \A k \in 1..Len(p) : p[k] = s[f[k]]
        /\ \A k, l \in 1..Len(p) : k < l => f[k] < f[l]
  BY PickedProperties
<1>3. 1 \in 1..Len(p) /\ 2 \in 1..Len(p) /\ 1 < 2
  BY <1>1
<1>4. f[1] \in at /\ f[2] \in at /\ f[1] < f[2]
  BY <1>2, <1>3
<1>5. f[1] # f[2]
  BY <1>1, <1>4
<1>6. QED
  BY <1>2, <1>3, <1>4, <1>5

\* A slice is never longer than the distance of its ends, whatever their signs.
LEMMA SliceProperties ==
    ASSUME NEW S, NEW s \in Seq(S), NEW from \in Int, NEW size \in Nat
    PROVE  /\ Slice(s, from, from + size) \in Seq(S)
           /\ Len(Slice(s, from, from + size)) <= size
           /\ \A i \in 1..Len(Slice(s, from, from + size)) :
                \E j \in DOMAIN s : Slice(s, from, from + size)[i] = s[j]
           /\ from = 0 /\ Len(Slice(s, from, from + size)) < size =>
                Slice(s, from, from + size) = s
<1> DEFINE n == Len(s)
           to == from + size
           Index(i) == IF i < 0 THEN AtLeast(0, n + i) ELSE AtMost(n, i)
           a == Index(from)
           b == Index(to)
           t == Slice(s, from, to)
<1>1. n \in Nat /\ DOMAIN s = 1..n /\ \A i \in 1..n : s[i] \in S
  BY LenProperties, ElementOfSeq
<1>2. a \in 0..n /\ b \in 0..n /\ b - a <= size
  <2> HIDE DEF n
  <2>1. QED
    BY <1>1 DEF AtLeast, AtMost
<1>3. from = 0 => a = 0 /\ b = IF size <= n THEN size ELSE n
  BY <1>1 DEF AtLeast, AtMost
<1>4. t = SubSeq(s, a + 1, b)
  BY DEF Slice
<1> HIDE DEF n, a, b, t
<1>5. /\ t \in Seq(S)
      /\ Len(t) = IF a + 1 <= b THEN b - (a + 1) + 1 ELSE 0
      /\ \A i \in 1..(b - (a + 1) + 1) : t[i] = s[a + 1 + i - 1]
  <2>1. a + 1 \in Int /\ b \in Int /\ \A i \in (a + 1)..b : s[i] \in S
    BY <1>1, <1>2
  <2>2. QED
    BY <1>4, <2>1, SubSeqProperties
<1>6. Len(t) <= size
  BY <1>2, <1>5
<1>7. \A i \in 1..Len(t) : \E j \in DOMAIN s : t[i] = s[j]
  <2> SUFFICES ASSUME NEW i \in 1..Len(t) PROVE a + i \in 1..n /\ t[i] = s[a + i]
    BY <1>1
  <2>1. i \in 1..(b - (a + 1) + 1) /\ a + 1 + i - 1 = a + i /\ a + i \in 1..n
    BY <1>1, <1>2, <1>5
  <2>2. QED
    BY <1>5, <2>1
<1>8. ASSUME from = 0, Len(t) < size
      PROVE  t = s
  <2>1. a = 0 /\ b = n
    BY <1>1, <1>2, <1>3, <1>5, <1>8
  <2>2. Len(t) = n /\ \A i \in 1..n : t[i] = s[i]
    BY <1>1, <1>5, <2>1
  <2>3. QED
    BY <1>1, <1>5, <2>2, SeqEqual DEF n
<1>9. QED
  BY <1>5, <1>6, <1>7, <1>8 DEF t, to

LEMMA BoundedLimit ==
    ASSUME NEW limit \in Int
    PROVE  /\ Bounded(limit) \in Nat \ {0}
           /\ Bounded(limit) <= ListLimit /\ Bounded(limit) <= AtLeast(1, limit)
           /\ Clamped(Bounded(limit)) \in Nat \ {0}
           /\ Clamped(Bounded(limit)) <= Bounded(limit)
  BY ScanAssumption DEF Bounded, Clamped, AtLeast, AtMost

-----------------------------------------------------------------------------
(***************************************************************************)
(* The verdicts.  They are given in the step that ends the call and nothing *)
(* changes after it, so each is proved of that step, from what ScanInv says *)
(* of the records and from where the records come from.                    *)
(***************************************************************************)

Typed ==
    /\ sel \in Selectors
    /\ churn \in 0..MaxChurn
    /\ server \in {"sound", "deaf", "garbled"} /\ shifted \in BOOLEAN
    /\ offset \in {k * PageSize : k \in 0..Ceiling}
    /\ answer \in Seq(Rec)
    /\ outcome \in {"none", "found", "ambiguous", "notfound", "listed",
                    "refused", "failed"}

\* Everything read was shown, and a host that kept its name was read under it.
Genuine ==
    /\ ToSet(items) \subseteq shown
    /\ ToSet(Records(listing, name)) \subseteq shown
    /\ \A i \in DOMAIN items : items[i].id \in steady => items[i].name = name[items[i].id]

Verdicts == FoundIsGenuine /\ VerdictIsRight /\ SearchIsComplete /\ ReplyIsBounded

AnswerInv == Typed /\ Genuine /\ Verdicts

LEMMA SelectorTypes ==
    ASSUME sel \in Selectors
    PROVE  /\ sel.by \in {"id", "name", "search", "page"}
           /\ sel.by \in {"search", "page"} => sel.limit \in Int /\ sel.start \in Int
BY ScanAssumption

\* While the call runs nothing is claimed.
LEMMA NothingClaimed == outcome \in {"none", "refused", "failed"} => Verdicts
BY DEF Verdicts, FoundIsGenuine, VerdictIsRight, SearchIsComplete, ReplyIsBounded, Scanned

\* The records of a page are records of the list.
LEMMA PageRecords ==
    ASSUME Types, NEW from \in Nat, NEW limit \in Nat \ {0}
    PROVE  LET page == Page(from, limit) IN
             \A i \in 1..Len(page) :
               /\ page[i] \in ToSet(Records(listing, name))
               /\ page[i].name = name[page[i].id]
<1> DEFINE page == Page(from, limit)
           first == IF server = "deaf" THEN 1 ELSE from + 1
           last == first + limit - 1
           l == SubSeq(listing, first, IF last <= Len(listing) THEN last ELSE Len(listing))
<1>1. page = [i \in DOMAIN l |-> [id |-> l[i], name |-> name[l[i]]]]
  BY DEF Page, Records
<1>2. page \in Seq(Rec) /\ \A i \in 1..Len(page) : page[i].id \in ToSet(listing)
  BY PageProperties
<1> HIDE DEF page, l
<1>3. \A i \in 1..Len(page) : page[i] = [id |-> page[i].id, name |-> name[page[i].id]]
  <2>1. DOMAIN page = 1..Len(page)
    BY <1>2, LenProperties
  <2>2. QED
    BY <1>1, <2>1
<1>4. ASSUME NEW h \in ToSet(listing)
      PROVE  [id |-> h, name |-> name[h]] \in ToSet(Records(listing, name))
  BY DEF ToSet, Records
<1>5. \A i \in 1..Len(page) :
        /\ page[i] \in ToSet(Records(listing, name))
        /\ page[i].name = name[page[i].id]
  <2>1. TAKE i \in 1..Len(page)
  <2>2. PICK h \in ToSet(listing) : h = page[i].id
    BY <1>2
  <2>3. page[i] = [id |-> h, name |-> name[h]]
    BY <1>3, <2>2
  <2>4. QED
    BY <1>4, <2>2, <2>3
<1>6. QED
  BY <1>5 DEF page

LEMMA ReplyRecords ==
    ASSUME Types, NEW from \in Nat, NEW limit \in Nat \ {0}, NEW page \in Replies(from, limit)
    PROVE  \A i \in 1..Len(page) :
             /\ page[i] \in ToSet(Records(listing, name))
             /\ page[i].name = name[page[i].id]
<1>1. CASE page = Page(from, limit)
  BY <1>1, PageRecords
<1>2. CASE page = <<>>
  BY <1>2
<1>3. QED
  BY <1>1, <1>2 DEF Replies

LEMMA AnswerStarts == Init => AnswerInv
<1> SUFFICES ASSUME Init PROVE AnswerInv
  OBVIOUS
<1>1. 0 = 0 * PageSize /\ 0 \in 0..Ceiling /\ 0 \in 0..MaxChurn
  BY ScanAssumption, ClampedPage
<1>2. offset \in {k * PageSize : k \in 0..Ceiling}
  BY <1>1 DEF Init
<1>2a. server \in {"sound", "deaf", "garbled"} /\ shifted \in BOOLEAN
  BY DEF Init
<1>2b. /\ churn \in 0..MaxChurn /\ sel \in Selectors /\ answer \in Seq(Rec)
       /\ outcome = "none"
  BY <1>1 DEF Init
<1>3. Typed
  BY <1>2, <1>2a, <1>2b DEF Typed
<1>4. Genuine
  BY DEF Init, Genuine, ToSet
<1>5. Verdicts
  BY NothingClaimed DEF Init
<1>6. QED
  BY <1>3, <1>4, <1>5 DEF AnswerInv

\* A step that reads nothing and changes no list.
LEMMA StillAnswer ==
    ASSUME AnswerInv,
           UNCHANGED <<listing, name, churn, server, sel, offset, items, steady, shifted, shown>>
    PROVE  /\ Genuine'
           /\ answer' \in Seq(Rec) /\ outcome' \in {"none", "found", "ambiguous", "notfound",
                                                    "listed", "refused", "failed"}
                => Typed'
<1>1. Genuine'
  BY DEF AnswerInv, Genuine, ToSet, Records
<1>2. ASSUME answer' \in Seq(Rec),
             outcome' \in {"none", "found", "ambiguous", "notfound", "listed",
                           "refused", "failed"}
      PROVE  Typed'
  BY <1>2 DEF AnswerInv, Typed
<1>3. QED
  BY <1>1, <1>2

LEMMA ListPageAnswers == ScanInv /\ AnswerInv /\ ListPage => AnswerInv'
<1> SUFFICES ASSUME ScanInv, AnswerInv, ListPage PROVE AnswerInv'
  OBVIOUS
<1>1a. PICK page \in Replies(AtLeast(0, sel.start), Clamped(Bounded(sel.limit))) :
        Lists(page)
  BY DEF ListPage
<1>1. /\ outcome' = "listed" /\ answer' = page /\ sel.by = "page"
      /\ UNCHANGED <<listing, name, churn, server, sel, offset, items, steady, shifted, shown>>
  BY <1>1a DEF ListPage, Lists
<1>2. sel.limit \in Int /\ sel.start \in Int
  BY <1>1, SelectorTypes DEF AnswerInv, Typed
<1>3. AtLeast(0, sel.start) \in Nat
  BY <1>2 DEF AtLeast
<1>4. page \in Seq(Rec) /\ Len(page) <= Clamped(Bounded(sel.limit))
  BY <1>2, <1>3, BoundedLimit, ReplyProperties DEF ScanInv
<1>5. ReplyIsBounded'
  <2>1. Len(page) \in Nat /\ AtLeast(1, sel.limit) \in Int /\ ListLimit \in Int
    BY <1>2, <1>4, LenProperties, ScanAssumption DEF AtLeast
  <2>1a. /\ Bounded(sel.limit) \in Nat /\ Clamped(Bounded(sel.limit)) \in Nat
         /\ Bounded(sel.limit) <= ListLimit /\ Bounded(sel.limit) <= AtLeast(1, sel.limit)
         /\ Clamped(Bounded(sel.limit)) <= Bounded(sel.limit)
    BY <1>2, BoundedLimit
  <2>2. Len(page) <= ListLimit /\ Len(page) <= AtLeast(1, sel.limit)
    BY <1>4, <2>1, <2>1a
  <2>3. QED
    BY <1>1, <2>2 DEF ReplyIsBounded, AtLeast
<1>6. Verdicts'
  BY <1>1, <1>5 DEF Verdicts, FoundIsGenuine, VerdictIsRight, SearchIsComplete, Scanned
<1>7. QED
  BY <1>1, <1>4, <1>6, StillAnswer DEF AnswerInv

LEMMA LookupAnswers == ScanInv /\ AnswerInv /\ LookupId => AnswerInv'
<1> SUFFICES ASSUME ScanInv, AnswerInv, LookupId PROVE AnswerInv'
  OBVIOUS
<1>1. UNCHANGED <<listing, name, churn, server, sel, offset, items, steady, shifted, shown>>
  BY DEF LookupId
<1>2. CASE sel.by = "id" /\ sel.key \in ToSet(listing)
  <2>1. outcome' = "found" /\ answer' = <<Record(sel.key)>>
    BY <1>2 DEF LookupId
  <2>2. /\ listing \in Seq(Hosts) /\ name \in [Hosts -> Names]
        /\ ToSet(Records(listing, name)) \subseteq shown
    BY DEF ScanInv, Types, AnswerInv, Genuine
  <2>3. sel.key \in Hosts
    BY <1>2, <2>2, ElementOfSeq, LenProperties DEF ToSet
  <2>4. Record(sel.key) \in Rec
    BY <2>2, <2>3 DEF Record, Rec
  <2>5. Record(sel.key) \in shown
    BY <1>2, <2>2 DEF Record, Records, ToSet
  <2>6. answer' \in Seq(Rec) /\ Len(answer') = 1 /\ answer'[1] = Record(sel.key)
    BY <2>1, <2>4
  <2>7. FoundIsGenuine'
    BY <1>1, <1>2, <2>5, <2>6 DEF FoundIsGenuine, Record
  <2>8. Verdicts'
    BY <1>1, <1>2, <2>1, <2>7
       DEF Verdicts, VerdictIsRight, SearchIsComplete, ReplyIsBounded, Scanned
  <2>9. QED
    BY <1>1, <2>1, <2>6, <2>8, StillAnswer DEF AnswerInv
<1>3. CASE ~(sel.by = "id" /\ sel.key \in ToSet(listing))
  <2>1. UNCHANGED <<outcome, answer>> /\ pc # "done"
    BY <1>3 DEF LookupId
  <2>2. outcome' = "none"
    BY <2>1 DEF ScanInv, Progress
  <2>3. answer' \in Seq(Rec) /\ Verdicts'
    BY <2>1, <2>2, NothingClaimed
       DEF AnswerInv, Typed, Verdicts, FoundIsGenuine, VerdictIsRight, SearchIsComplete,
           ReplyIsBounded, Scanned
  <2>4. QED
    BY <1>1, <2>2, <2>3, StillAnswer DEF AnswerInv
<1>4. QED
  BY <1>2, <1>3

LEMMA OffsetStep ==
    ASSUME ScanInv, Typed, pc # "done"
    PROVE  offset + PageSize \in {k * PageSize : k \in 0..Ceiling}
<1>1. PICK k \in 0..Ceiling : offset = k * PageSize
  BY DEF Typed
<1>2. k \in Nat /\ PageSize \in Nat \ {0} /\ Ceiling \in Nat /\ k * PageSize < Ceiling
  BY <1>1, ClampedPage DEF ScanInv, Progress
<1>3. k <= k * PageSize
  BY <1>2
<1>4. k + 1 \in 0..Ceiling
  <2>1. k * PageSize \in Nat
    BY <1>2
  <2>2. QED
    BY <1>2, <1>3, <2>1
<1>5. k * PageSize + PageSize = (k + 1) * PageSize
  BY <1>2
<1>6. QED
  BY <1>1, <1>4, <1>5

\* A page that was read: what the records of the scan are then.
LEMMA ReadIsGenuine == ScanInv /\ AnswerInv /\ ReadPage => Genuine'
<1> SUFFICES ASSUME ScanInv, AnswerInv, ReadPage PROVE Genuine'
  OBVIOUS
<1>1a. PICK page \in Replies(offset, PageSize) : items' = items \o page
  BY ClampedPage DEF ReadPage
<1>1. /\ items' = items \o page
      /\ UNCHANGED <<listing, name, steady, shown>>
  BY <1>1a DEF ReadPage
<1>2. /\ items \in Seq(Rec) /\ Len(items) \in Nat /\ DOMAIN items = 1..Len(items)
      /\ Types /\ offset \in Nat
  BY LenProperties DEF ScanInv, Types
<1>3. /\ page \in Seq(Rec) /\ Len(page) \in Nat
      /\ \A i \in 1..Len(page) :
           page[i] \in ToSet(Records(listing, name)) /\ page[i].name = name[page[i].id]
  BY <1>2, ClampedPage, ReplyProperties, ReplyRecords, LenProperties
<1>4. /\ DOMAIN items' = 1..(Len(items) + Len(page))
      /\ \A i \in 1..(Len(items) + Len(page)) :
           items'[i] = IF i <= Len(items) THEN items[i] ELSE page[i - Len(items)]
  BY <1>1, <1>2, <1>3, ConcatProperties, LenProperties
<1>5. ASSUME NEW i \in DOMAIN items'
      PROVE  \/ i \in DOMAIN items /\ items'[i] = items[i]
             \/ \E j \in 1..Len(page) : items'[i] = page[j]
  <2>1. CASE i <= Len(items)
    BY <1>2, <1>3, <1>4, <2>1
  <2>2. CASE ~(i <= Len(items))
    <3>1. i - Len(items) \in 1..Len(page)
      BY <1>2, <1>3, <1>4, <2>2
    <3>2. QED
      BY <1>4, <2>2, <3>1
  <2>3. QED
    BY <2>1, <2>2
<1>6. \A i \in DOMAIN items' : items'[i] \in shown
  BY <1>3, <1>5 DEF AnswerInv, Genuine, ToSet
<1>7. \A i \in DOMAIN items' : items'[i].id \in steady => items'[i].name = name[items'[i].id]
  BY <1>3, <1>5 DEF AnswerInv, Genuine
<1>8. QED
  BY <1>1, <1>6, <1>7 DEF AnswerInv, Genuine, ToSet, Records

\* The page that ends a search.
LEMMA SearchAnswers ==
    ASSUME ScanInv, ScanInv', AnswerInv, Genuine', ReadPage,
           pc' = "done", outcome' = "listed", answer' = SearchReply(items'),
           sel.by = "search"
    PROVE  answer' \in Seq(Rec) /\ Verdicts'
<1> DEFINE at == {i \in DOMAIN items' : Hit(items'[i])}
           hits == Picked(items', at)
           size == Bounded(sel.limit)
<1>1. /\ UNCHANGED <<listing, name, server, sel, steady, shifted, shown>>
      /\ items' \in Seq(Rec)
  BY DEF ReadPage, ScanInv, Types
<1>2. sel.limit \in Int /\ sel.start \in Int
  BY SelectorTypes DEF AnswerInv, Typed
<1>3. /\ size \in Nat /\ size <= ListLimit /\ size <= AtLeast(1, sel.limit)
      /\ ListLimit \in Int /\ AtLeast(1, sel.limit) \in Int
  <2>1. ListLimit \in Int /\ AtLeast(1, sel.limit) \in Int
    BY <1>2, ScanAssumption DEF AtLeast
  <2>2. QED
    BY <1>2, <2>1, BoundedLimit
<1>4. /\ hits \in Seq(Rec) /\ DOMAIN hits = 1..Len(hits)
      /\ \A i \in at : \E k \in 1..Len(hits) : hits[k] = items'[i]
  <2>1. at \in SUBSET (DOMAIN items')
    OBVIOUS
  <2> HIDE DEF at
  <2>2. QED
    BY <1>1, <2>1, PickedElements
<1>5. answer' = Slice(hits, sel.start, sel.start + size)
  BY DEF SearchReply, Hits
<1> HIDE DEF hits, size
<1>6. /\ answer' \in Seq(Rec) /\ Len(answer') \in Nat /\ Len(answer') <= size
      /\ sel.start = 0 /\ Len(answer') < size => answer' = hits
  <2> DEFINE cut == Slice(hits, sel.start, sel.start + size)
  <2>1. /\ cut \in Seq(Rec) /\ Len(cut) <= size
        /\ sel.start = 0 /\ Len(cut) < size => cut = hits
    BY <1>2, <1>3, <1>4, SliceProperties, ZenonT(40)
  <2>2. answer' = cut
    BY <1>5
  <2> HIDE DEF cut
  <2>3. QED
    BY <2>1, <2>2, LenProperties
<1>7. ReplyIsBounded'
  <2>1. Len(answer') <= ListLimit /\ Len(answer') <= AtLeast(1, sel.limit)
    BY <1>3, <1>6
  <2>2. QED
    BY <1>1, <2>1 DEF ReplyIsBounded, AtLeast
<1>8. SearchIsComplete'
  <2> SUFFICES ASSUME ~shifted, server = "sound", sel.start = 0, Len(answer') < size,
                      NEW h \in steady, sel.key \in NamesIn[name[h]]
               PROVE  h \in Ids(answer')
    BY <1>1 DEF SearchIsComplete, Bounded, AtLeast, AtMost, size
  <2>1. answer' = hits
    BY <1>6
  <2>2. PICK i \in DOMAIN items' : items'[i].id = h
    <3>1. Scanned'
      BY <1>1 DEF Scanned
    <3>2. steady \subseteq Ids(items')
      BY <1>1, <3>1 DEF ScanInv, Calm
    <3>3. QED
      BY <3>2 DEF Ids
  <2>3. items'[i].name = name[h]
    BY <1>1, <2>2 DEF Genuine
  <2>4. i \in at
    BY <2>3 DEF Hit
  <2>5. PICK k \in 1..Len(hits) : hits[k] = items'[i]
    BY <1>4, <2>4
  <2>6. QED
    BY <1>4, <2>1, <2>2, <2>5 DEF Ids
<1>9. QED
  BY <1>1, <1>6, <1>7, <1>8
     DEF Verdicts, FoundIsGenuine, VerdictIsRight, Scanned

\* The page that ends a lookup.
LEMMA LookupConcludes ==
    ASSUME ScanInv, ScanInv', AnswerInv, Genuine', ReadPage,
           pc' = "done", Conclude(Matching(items'), items'),
           sel.by # "search"
    PROVE  /\ answer' \in Seq(Rec) /\ Verdicts'
           /\ outcome' \in {"found", "ambiguous", "notfound"}
<1> DEFINE at == {i \in DOMAIN items' : Matches(items'[i])}
           found == Picked(items', at)
           near == {i \in DOMAIN items' : Hit(items'[i])}
           hits == Picked(items', near)
<1>1. /\ UNCHANGED <<listing, name, server, sel, steady, shifted, shown>>
      /\ items' \in Seq(Rec) /\ pc = "scan"
  BY DEF ReadPage, ScanInv, Types
<1>2. /\ outcome' = IF Len(found) = 1 THEN "found"
                    ELSE IF Len(found) > 1 THEN "ambiguous" ELSE "notfound"
      /\ answer' = IF found # <<>> THEN found ELSE hits
  BY DEF Conclude, Matching, Hits
<1>3. /\ found \in Seq(Rec) /\ Len(found) \in Nat /\ DOMAIN found = 1..Len(found)
      /\ \A k \in 1..Len(found) : \E i \in at : found[k] = items'[i]
      /\ \A i \in at : \E k \in 1..Len(found) : found[k] = items'[i]
      /\ Len(found) > 1 =>
           \E i, j \in at : i # j /\ found[1] = items'[i] /\ found[2] = items'[j]
  <2>1. at \in SUBSET (DOMAIN items')
    OBVIOUS
  <2>2. found = Picked(items', at)
    OBVIOUS
  <2> HIDE DEF at, found
  <2>2a. items' \in Seq(Rec)
    BY <1>1
  <2>3. /\ found \in Seq(Rec) /\ Len(found) \in Nat /\ DOMAIN found = 1..Len(found)
    BY <2>1, <2>2, <2>2a, PickedElements
  <2>3a. \A k \in 1..Len(found) : \E i \in at : found[k] = items'[i]
    BY <2>1, <2>2, <2>2a, PickedElements
  <2>3b. \A i \in at : \E k \in 1..Len(found) : found[k] = items'[i]
    BY <2>1, <2>2, <2>2a, PickedElements
  <2>4. Len(found) > 1 =>
          \E i, j \in at : i # j /\ found[1] = items'[i] /\ found[2] = items'[j]
    <3> SUFFICES ASSUME Len(found) > 1
                 PROVE  \E i, j \in at : i # j /\ found[1] = items'[i] /\ found[2] = items'[j]
      OBVIOUS
    <3>1. QED
      BY <2>1, <2>2, <2>2a, PickedTwo
  <2>5. QED
    BY <2>3, <2>3a, <2>3b, <2>4
<1>4. hits \in Seq(Rec)
  <2>1. near \in SUBSET (DOMAIN items')
    OBVIOUS
  <2> HIDE DEF near
  <2>2. QED
    BY <1>1, <2>1, PickedElements
<1> HIDE DEF found, hits
<1>5. Len(found) > 0 => answer' = found
  <2>1. found = <<>> => Len(found) = 0
    OBVIOUS
  <2>2. QED
    BY <1>2, <2>1
<1>6. \A i \in at : i \in DOMAIN items' /\ sel.by = "name" /\ items'[i].name = sel.key
  BY DEF Matches
<1>7. FoundIsGenuine'
  <2> SUFFICES ASSUME Len(found) = 1
               PROVE  /\ Len(answer') = 1 /\ answer'[1] \in shown
                      /\ sel.by = "name" /\ answer'[1].name = sel.key
    BY <1>1, <1>2 DEF FoundIsGenuine
  <2>1. answer' = found
    BY <1>5
  <2>2. PICK i \in at : found[1] = items'[i]
    BY <1>3
  <2>3. items'[i] \in shown
    BY <1>1, <1>6, <2>2 DEF Genuine, ToSet
  <2>4. QED
    BY <1>6, <2>1, <2>2, <2>3
<1>8. VerdictIsRight'
  <2> SUFFICES ASSUME ~shifted, server = "sound", sel.by = "name", Scanned'
               PROVE  LET matching == {h \in steady : name[h] = sel.key} IN
                        /\ outcome' = "notfound" => matching = {}
                        /\ outcome' = "found" => matching \subseteq Ids(answer')
                        /\ outcome' = "ambiguous" =>
                             \E i, j \in DOMAIN answer' : answer'[i].id # answer'[j].id
    BY <1>1 DEF VerdictIsRight
  <2>1. Once' /\ steady \subseteq Ids(items')
    BY <1>1 DEF ScanInv, Calm
  <2>2. ASSUME NEW h \in steady, name[h] = sel.key
        PROVE  \E k \in 1..Len(found) : found[k].id = h
    <3>1. PICK i \in DOMAIN items' : items'[i].id = h
      BY <2>1 DEF Ids
    <3>2. items'[i].name = name[h]
      BY <1>1, <3>1 DEF Genuine
    <3>3. i \in at
      BY <2>2, <3>2 DEF Matches
    <3>4. QED
      BY <1>3, <3>1, <3>3
  <2>3. ASSUME outcome' = "notfound", NEW h \in steady, name[h] = sel.key
        PROVE  FALSE
    <3>1. Len(found) = 0
      BY <1>2, <1>3, <2>3
    <3>2. QED
      BY <2>2, <2>3, <3>1
  <2>4. ASSUME outcome' = "found", NEW h \in steady, name[h] = sel.key
        PROVE  h \in Ids(answer')
    <3>1. answer' = found
      BY <1>2, <1>3, <1>5, <2>4
    <3>2. QED
      BY <1>3, <2>2, <2>4, <3>1 DEF Ids
  <2>5. ASSUME outcome' = "ambiguous"
        PROVE  \E i, j \in DOMAIN answer' : answer'[i].id # answer'[j].id
    <3>1. Len(found) > 1
      BY <1>2, <2>5
    <3>2. answer' = found /\ 1 \in DOMAIN found /\ 2 \in DOMAIN found
      BY <1>3, <1>5, <3>1
    <3>3. PICK i, j \in at : i # j /\ found[1] = items'[i] /\ found[2] = items'[j]
      BY <1>3, <3>1
    <3>4. items'[i].id # items'[j].id
      BY <1>6, <2>1, <3>3 DEF Once
    <3>5. QED
      BY <3>2, <3>3, <3>4
  <2>6. QED
    BY <2>3, <2>4, <2>5
<1>9. answer' \in Seq(Rec) /\ outcome' \in {"found", "ambiguous", "notfound"}
  BY <1>2, <1>3, <1>4
<1>10. SearchIsComplete' /\ ReplyIsBounded'
  BY <1>1, <1>9 DEF SearchIsComplete, ReplyIsBounded
<1>11. QED
  BY <1>7, <1>8, <1>9, <1>10 DEF Verdicts

LEMMA ReadAnswers == ScanInv /\ ScanInv' /\ AnswerInv /\ ReadPage => AnswerInv'
<1> SUFFICES ASSUME ScanInv, ScanInv', AnswerInv, ReadPage PROVE AnswerInv'
  OBVIOUS
<1> DEFINE many == TooMany(Len(items'))
<1>1. /\ UNCHANGED <<churn, server, sel, shifted>> /\ pc = "scan"
      /\ sel \in Selectors /\ churn \in 0..MaxChurn
      /\ server \in {"sound", "deaf", "garbled"} /\ shifted \in BOOLEAN
      /\ offset \in {k * PageSize : k \in 0..Ceiling} /\ answer \in Seq(Rec)
  BY DEF ReadPage, AnswerInv, Typed
<1>2. Genuine'
  BY ReadIsGenuine
<1>3. PICK last \in BOOLEAN :
      /\ last => offset' = offset /\ pc' = "done"
      /\ last /\ sel.by = "search" =>
           outcome' = "listed" /\ answer' = SearchReply(items')
      /\ last /\ sel.by # "search" => Conclude(Matching(items'), items')
      /\ ~last /\ many => offset' = offset /\ outcome' = "refused" /\ answer' = answer
      /\ ~last /\ ~many =>
           offset' = offset + PageSize /\ outcome' = outcome /\ answer' = answer
  <2>1. PICK page \in Replies(offset, Clamped(PageSize)) :
          LET all == items \o page IN
            /\ items' = all
            /\ IF LastPage(page)
               THEN /\ UNCHANGED offset
                    /\ pc' = "done"
                    /\ IF sel.by = "search"
                       THEN Lists(SearchReply(all))
                       ELSE Conclude(Matching(all), all)
               ELSE IF TooMany(Len(all))
               THEN Ends("refused") /\ UNCHANGED offset
               ELSE /\ offset' = NextOffset(offset)
                    /\ UNCHANGED <<pc, outcome, answer>>
    BY DEF ReadPage
  <2>2. CASE LastPage(page)
    <3>1. WITNESS TRUE \in BOOLEAN
    <3>2. QED
      BY <2>1, <2>2 DEF Lists
  <2>3. CASE ~LastPage(page)
    <3>1. WITNESS FALSE \in BOOLEAN
    <3>2. QED
      BY <2>1, <2>3 DEF Lists, Ends, NextOffset
  <2>4. QED
    BY <2>2, <2>3
<1> HIDE DEF many
<1>4. outcome = "none"
  BY <1>1 DEF ScanInv, Progress
<1>5. offset' \in {k * PageSize : k \in 0..Ceiling}
  BY <1>1, <1>3, OffsetStep DEF AnswerInv
<1>6. /\ answer' \in Seq(Rec) /\ Verdicts'
      /\ outcome' \in {"none", "found", "ambiguous", "notfound", "listed", "refused"}
  <2>1. CASE last /\ sel.by = "search"
    BY <1>2, <1>3, <2>1, SearchAnswers
  <2>2. CASE last /\ sel.by # "search"
    BY <1>2, <1>3, <2>2, LookupConcludes
  <2>3. CASE ~last
    <3>1. outcome' \in {"none", "refused"} /\ answer' = answer
      BY <1>3, <1>4, <2>3
    <3>2. Verdicts'
      BY <3>1 DEF Verdicts, FoundIsGenuine, VerdictIsRight, SearchIsComplete,
                  ReplyIsBounded, Scanned
    <3>3. QED
      BY <1>1, <3>1, <3>2
  <2>4. QED
    BY <2>1, <2>2, <2>3
<1>7. Typed'
  BY <1>1, <1>5, <1>6 DEF Typed
<1>8. QED
  BY <1>2, <1>6, <1>7 DEF AnswerInv

\* A change of the list, or of a name, leaves what was read genuine.
LEMMA ChurnAnswers ==
    ASSUME ScanInv, ScanInv', AnswerInv, Discover \/ Delist \/ Rename
    PROVE  AnswerInv'
<1>1. Churns
  BY DEF Discover, Delist, Rename
<1>2. /\ pc # "done" /\ churn < MaxChurn /\ churn' = churn + 1
      /\ shown' = shown \union ToSet(Records(listing', name'))
      /\ UNCHANGED <<server, sel, pc, offset, items, outcome, answer>>
  BY <1>1 DEF Churns
<1>3. shifted' \in BOOLEAN
  BY DEF Discover, Delist, Rename, AnswerInv, Typed
<1>4. churn' \in 0..MaxChurn
  BY <1>2, ScanAssumption DEF AnswerInv, Typed
<1>5. Typed'
  BY <1>2, <1>3, <1>4 DEF AnswerInv, Typed
<1>6. steady' \subseteq steady /\ \A h \in steady' : name'[h] = name[h]
  <2>1. CASE Discover
    BY <2>1 DEF Discover
  <2>2. CASE Delist
    BY <2>2 DEF Delist
  <2>3. CASE Rename
    <3>1. PICK h \in ToSet(listing), n \in Names :
            name' = [name EXCEPT ![h] = n] /\ steady' = steady \ {h}
      BY <2>3 DEF Rename
    <3>2. name \in [Hosts -> Names] /\ steady \subseteq Hosts
      BY LenProperties, ElementOfSeq DEF ScanInv, Types, ToSet
    <3>3. QED
      BY <3>1, <3>2
  <2>4. QED
    BY <2>1, <2>2, <2>3
<1>7. Genuine'
  <2>1. ToSet(items') \subseteq shown' /\ ToSet(Records(listing, name))' \subseteq shown'
    BY <1>2 DEF AnswerInv, Genuine, ToSet, Records
  <2>2. \A i \in DOMAIN items' :
          items'[i].id \in steady' => items'[i].name = name'[items'[i].id]
    BY <1>2, <1>6 DEF AnswerInv, Genuine
  <2>3. QED
    BY <2>1, <2>2 DEF Genuine
<1>8. outcome' = "none"
  BY <1>2 DEF ScanInv, Progress
<1>9. Verdicts'
  BY <1>8 DEF Verdicts, FoundIsGenuine, VerdictIsRight, SearchIsComplete, ReplyIsBounded, Scanned
<1>10. QED
  BY <1>5, <1>7, <1>9 DEF AnswerInv

LEMMA AnswerKeeps == ScanInv /\ ScanInv' /\ AnswerInv /\ [Next]_svars => AnswerInv'
<1> SUFFICES ASSUME ScanInv, ScanInv', AnswerInv, [Next]_svars PROVE AnswerInv'
  OBVIOUS
<1>1. CASE ListPage
  BY <1>1, ListPageAnswers
<1>2. CASE LookupId
  BY <1>2, LookupAnswers
<1>3. CASE ReadPage
  BY <1>3, ReadAnswers
<1>4. CASE RequestFails
  <2>1. /\ outcome' = "failed" /\ answer' = answer
        /\ UNCHANGED <<listing, name, churn, server, sel, offset, items, steady, shifted, shown>>
    BY <1>4 DEF RequestFails, Ends
  <2>2. Verdicts'
    BY <2>1 DEF Verdicts, FoundIsGenuine, VerdictIsRight, SearchIsComplete,
                ReplyIsBounded, Scanned
  <2>3. answer' \in Seq(Rec)
    BY <2>1 DEF AnswerInv, Typed
  <2>4. QED
    BY <2>1, <2>2, <2>3, StillAnswer DEF AnswerInv
<1>5. CASE Discover \/ Delist \/ Rename
  BY <1>5, ChurnAnswers
<1>6. CASE UNCHANGED svars
  <2>1. UNCHANGED <<listing, name, churn, server, sel, offset, items, outcome, answer,
                    steady, shifted, shown>>
    BY <1>6 DEF svars
  <2>2. Verdicts'
    BY <2>1 DEF AnswerInv, Verdicts, FoundIsGenuine, VerdictIsRight, SearchIsComplete,
                ReplyIsBounded, Scanned, Ids
  <2>3. answer' \in Seq(Rec)
    BY <2>1 DEF AnswerInv, Typed
  <2>4. outcome' \in {"none", "found", "ambiguous", "notfound", "listed", "refused", "failed"}
    BY <2>1 DEF AnswerInv, Typed
  <2>5. QED
    BY <2>1, <2>2, <2>3, <2>4, StillAnswer DEF AnswerInv
<1>7. QED
  BY <1>1, <1>2, <1>3, <1>4, <1>5, <1>6 DEF Next, Returned

\* What is read is what was shown, and what is claimed of it is so.
THEOREM AnswerInvHolds == Spec => [](ScanInv /\ AnswerInv)
<1>1. Init => ScanInv /\ AnswerInv
  BY ScanStarts, AnswerStarts
<1>2. ScanInv /\ AnswerInv /\ [Next]_svars => ScanInv' /\ AnswerInv'
  BY ScanKeeps, AnswerKeeps
<1>3. QED
  BY <1>1, <1>2, PTL DEF Spec

\* Every variable of the scan keeps its type: in particular the offset stays a
\* multiple of the page size, below the ceiling.
THEOREM ScanTypes == Spec => []TypeOK
<1>1. ScanInv /\ AnswerInv => TypeOK
  <2> SUFFICES ASSUME ScanInv, AnswerInv PROVE TypeOK
    OBVIOUS
  <2>1. /\ listing \in Seq(Hosts) /\ IsInjective(listing) /\ name \in [Hosts -> Names]
        /\ pc \in {"start", "scan", "done"} /\ items \in Seq(Rec)
        /\ steady \subseteq ToSet(listing)
    BY DEF ScanInv, Types
  <2>2. steady \subseteq Hosts
    BY <2>1, LenProperties, ElementOfSeq DEF ToSet
  <2>3. QED
    BY <2>1, <2>2 DEF AnswerInv, Typed, TypeOK, Rec
<1>2. QED
  BY <1>1, AnswerInvHolds, PTL

\* A lookup that finds a host returns one record, and the server showed that record
\* during the call under exactly the id or name that was asked for, however the list
\* changed meanwhile and whatever offset the server heeded.
THEOREM FoundAlwaysGenuine == Spec => []FoundIsGenuine
<1>1. AnswerInv => FoundIsGenuine
  BY DEF AnswerInv, Verdicts
<1>2. QED
  BY <1>1, AnswerInvHolds, PTL

\* While no host changes its place or comes back, "not found", "found" and
\* "ambiguous" are true of the hosts that kept their name throughout the call.
THEOREM VerdictAlwaysRight == Spec => []VerdictIsRight
<1>1. AnswerInv => VerdictIsRight
  BY DEF AnswerInv, Verdicts
<1>2. QED
  BY <1>1, AnswerInvHolds, PTL

\* A search that hands over fewer records than it might has left no steady hit out.
THEOREM SearchAlwaysComplete == Spec => []SearchIsComplete
<1>1. AnswerInv => SearchIsComplete
  BY DEF AnswerInv, Verdicts
<1>2. QED
  BY <1>1, AnswerInvHolds, PTL

\* No listing hands over more than its limit, for every integer limit and offset.
THEOREM ReplyAlwaysBounded == Spec => []ReplyIsBounded
<1>1. AnswerInv => ReplyIsBounded
  BY DEF AnswerInv, Verdicts
<1>2. QED
  BY <1>1, AnswerInvHolds, PTL
=============================================================================
