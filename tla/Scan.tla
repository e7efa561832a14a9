-------------------------------- MODULE Scan --------------------------------
(***************************************************************************)
(* How lists are read (client.py _get_page, _get_all, resolve_host and     *)
(* tools/read.py).  A selector that is no known id, and a search, read the *)
(* whole host list page by page and compare every record; the other        *)
(* listing tools pass one page on.  Pages are separate requests, counted   *)
(* by offset from a list that keeps changing: hosts are discovered,        *)
(* deleted, merged away and renamed between two pages.                     *)
(*                                                                         *)
(* A record is its id and one matchable text, `name`; the code compares    *)
(* name, hostname, IP addresses and MACs the same way.  The list is what   *)
(* the server's own network and tag filters leave of it.                   *)
(***************************************************************************)
EXTENDS Integers, Sequences, SequencesExt

CONSTANTS
    Hosts, Names,
    NamesIn,       \* NamesIn[n]: the names that occur in n as a substring
    Selectors,      \* what may be asked, by "id", "name", "search" or "page":
                    \* the host or text `key`, the arguments `limit`, `start`
    Listings,       \* the host lists the server may start with
    InitialName,
    PageSize,       \* _PAGE_SIZE
    PageLimit,      \* the most records clamp_limit asks for
    ListLimit,      \* MAX_LIST_LIMIT of the listing tools
    Ceiling,        \* _SCAN_CEILING
    MaxChurn,       \* bound: changes of the list during the scan
    Misbehaving     \* may the server, or a proxy, misread the requests?

ASSUME ScanAssumption ==
    /\ PageLimit \in Nat \ {0} /\ ListLimit \in Nat \ {0}
    /\ PageSize \in 1..PageLimit
    /\ Ceiling \in Nat \ {0}
    /\ MaxChurn \in Nat
    /\ Misbehaving \in BOOLEAN
    /\ \A n \in Names : n \in NamesIn[n] /\ NamesIn[n] \subseteq Names
    /\ InitialName \in [Hosts -> Names]
    /\ \A l \in Listings : l \in Seq(Hosts) /\ IsInjective(l)
    /\ \A s \in Selectors :
         /\ s.by \in {"id", "name", "search", "page"}
         /\ s.by \in {"search", "page"} => s.limit \in Int /\ s.start \in Int

VARIABLES
    listing,  \* the server's host list, in its order
    name,     \* name[h]
    churn,    \* changes made to the list so far
    server,   \* "sound", "deaf": it ignores the offset, so that every page is
              \* the first, or "garbled": it may answer with something else
    sel,      \* what is looked up
    pc,       \* start, scan, done
    offset, items,      \* the scan so far
    outcome, answer,    \* how the call ended, and with which records
    steady,   \* history: hosts listed under one name since the call began
    shifted,  \* history: a listed host has changed its place, or left and come back
    shown     \* history: the records the list has held since the call began

svars == <<listing, name, churn, server, sel, pc, offset, items, outcome, answer,
           steady, shifted, shown>>

-----------------------------------------------------------------------------
Record(h) == [id |-> h, name |-> name[h]]
Records(l, nm) == [i \in DOMAIN l |-> [id |-> l[i], name |-> nm[l[i]]]]

\* The page the server returns (external); 0 asks for all of the list.
Page(from, limit) ==
    LET first == IF server = "deaf" THEN 1 ELSE from + 1
        last == IF limit = 0 THEN Len(listing) ELSE first + limit - 1
    IN Records(SubSeq(listing, first, IF last <= Len(listing) THEN last ELSE Len(listing)),
               name)

\* What _get_page makes of an answer: a payload that is no list is an empty page.
Replies(from, limit) ==
    {Page(from, limit)} \union (IF server = "garbled" THEN {<<>>} ELSE {})

AtLeast(low, n) == IF n < low THEN low ELSE n
AtMost(high, n) == IF n > high THEN high ELSE n

\* clamp_limit, for every page.
Clamped(limit) == AtLeast(1, AtMost(PageLimit, limit))

\* Mutant of Bounded: a tool leaves the upper bound to clamp_limit.
BelowOnly(limit) == AtLeast(1, limit)

\* _limit, for a listing tool.
Bounded(limit) == AtLeast(1, AtMost(ListLimit, limit))

\* s[from:to] of Python, which counts from the end below 0.
Slice(s, from, to) ==
    LET Index(i) == IF i < 0 THEN AtLeast(0, Len(s) + i) ELSE AtMost(Len(s), i)
    IN SubSeq(s, Index(from) + 1, Index(to))

\* The elements of s at the indices `at`, in their order.
Picked(s, at) ==
    [k \in 1..Cardinality(at) |->
       s[CHOOSE i \in at : Cardinality({j \in at : j <= i}) = k]]

\* Mutant of LastPage: the scan ends after the first page.
OnePage(page) == TRUE

\* Only a short page ends the list.
LastPage(page) == Len(page) < PageSize

\* Mutant of NextOffset: one record is skipped between pages.
SkippingOffset(from) == from + PageSize + 1

NextOffset(from) == from + PageSize

\* Mutant of TooMany: no ceiling.
NeverTooMany(n) == FALSE

TooMany(n) == n >= Ceiling

\* Mutant of Matches: a substring is enough.
MatchesLoosely(r) == sel.by = "name" /\ sel.key \in NamesIn[r.name]

\* A record matches when its text is the selector; no text is a host id.
Matches(r) == sel.by = "name" /\ r.name = sel.key

\* Near misses, and the hits of a search: the name contains the text.
Hit(r) == sel.by \in {"name", "search"} /\ sel.key \in NamesIn[r.name]

\* [h for h in hosts if ...] of Python, for each.
Matching(s) == Picked(s, {i \in DOMAIN s : Matches(s[i])})
Hits(s) == Picked(s, {i \in DOMAIN s : Hit(s[i])})

\* How a lookup ends once the records are read.
Conclude(found, all) ==
    /\ outcome' = IF Len(found) = 1 THEN "found"
                  ELSE IF Len(found) > 1 THEN "ambiguous" ELSE "notfound"
    /\ answer' = IF found # <<>> THEN found ELSE Hits(all)

\* Mutant of SearchReply: the limit is applied before the filter.
FilterOnePage(all) ==
    Hits(Slice(all, sel.start, sel.start + Bounded(sel.limit)))

\* list_hosts(search=...): filter every record, then cut the page out.
SearchReply(all) ==
    Slice(Hits(all), sel.start, sel.start + Bounded(sel.limit))

Lists(records) ==
    /\ pc' = "done"
    /\ outcome' = "listed"
    /\ answer' = records

Ends(how) ==
    /\ pc' = "done"
    /\ outcome' = how
    /\ UNCHANGED answer

-----------------------------------------------------------------------------
\* list_hosts without a search, and the tools for services, ports, addresses
\* and SNMP interfaces: one page.
ListPage ==
    /\ pc = "start"
    /\ sel.by = "page"
    /\ \E page \in Replies(AtLeast(0, sel.start), Clamped(Bounded(sel.limit))) :
         Lists(page)
    /\ UNCHANGED <<listing, name, churn, server, sel, offset, items, steady, shifted, shown>>

\* An id is looked up first; a 404, and any other selector, starts a scan.
LookupId ==
    /\ pc = "start"
    /\ sel.by # "page"
    /\ IF sel.by = "id" /\ sel.key \in ToSet(listing)
       THEN /\ pc' = "done"
            /\ outcome' = "found"
            /\ answer' = <<Record(sel.key)>>
       ELSE pc' = "scan" /\ UNCHANGED <<outcome, answer>>
    /\ UNCHANGED <<listing, name, churn, server, sel, offset, items, steady, shifted, shown>>

ReadPage ==
    /\ pc = "scan"
    /\ \E page \in Replies(offset, Clamped(PageSize)) :
       LET all == items \o page IN
         /\ items' = all
         /\ IF LastPage(page)
            THEN /\ UNCHANGED offset
                 /\ pc' = "done"
                 /\ IF sel.by = "search"
                    THEN Lists(SearchReply(all))
                    ELSE Conclude(Matching(all), all)
            ELSE IF TooMany(Len(all))
            THEN Ends("refused") /\ UNCHANGED offset
            ELSE /\ offset' = NextOffset(offset)
                 /\ UNCHANGED <<pc, outcome, answer>>
    /\ UNCHANGED <<listing, name, churn, server, sel, steady, shifted, shown>>

\* Any request of the call fails, which ends it.
RequestFails ==
    /\ pc \in {"start", "scan"}
    /\ Ends("failed")
    /\ UNCHANGED <<listing, name, churn, server, sel, offset, items, steady, shifted, shown>>

\* The world.
Churns ==
    /\ pc # "done"
    /\ churn < MaxChurn
    /\ churn' = churn + 1
    /\ shown' = shown \union ToSet(Records(listing', name'))
    /\ UNCHANGED <<server, sel, pc, offset, items, outcome, answer>>

\* A host is discovered; where the list shows it is the server's choice.
Discover ==
    /\ \E h \in Hosts \ ToSet(listing), i \in 1..(Len(listing) + 1) :
         /\ listing' = InsertAt(listing, i, h)
         /\ shifted' = (shifted \/ i <= Len(listing) \/ h \in {r.id : r \in shown})
    /\ UNCHANGED <<name, steady>>
    /\ Churns

\* A host is deleted, or retired by a consolidation.
Delist ==
    /\ \E i \in DOMAIN listing :
         /\ listing' = RemoveAt(listing, i)
         /\ shifted' = (shifted \/ i < Len(listing))
         /\ steady' = steady \ {listing[i]}
    /\ UNCHANGED name
    /\ Churns

Rename ==
    /\ \E h \in ToSet(listing) : \E n \in Names \ {name[h]} :
         /\ name' = [name EXCEPT ![h] = n]
         /\ steady' = steady \ {h}
    /\ UNCHANGED <<listing, shifted>>
    /\ Churns

Returned == pc = "done" /\ UNCHANGED svars

Init ==
    /\ listing \in Listings
    /\ name = InitialName
    /\ churn = 0
    /\ server \in {"sound"} \union IF Misbehaving THEN {"deaf", "garbled"} ELSE {}
    /\ sel \in Selectors
    /\ pc = "start"
    /\ offset = 0
    /\ items = <<>>
    /\ outcome = "none"
    /\ answer = <<>>
    /\ steady = ToSet(listing)
    /\ shifted = FALSE
    /\ shown = ToSet(Records(listing, name))

Next ==
    \/ ListPage \/ LookupId \/ ReadPage \/ RequestFails
    \/ Discover \/ Delist \/ Rename
    \/ Returned

Spec == Init /\ [][Next]_svars

-----------------------------------------------------------------------------
\* Properties.

Ids(records) == {records[i].id : i \in DOMAIN records}

\* A scan that ran to the end of the list, whatever its verdict.
Scanned ==
    \/ outcome \in {"ambiguous", "notfound"}
    \/ outcome = "found" /\ sel.by = "name"
    \/ outcome = "listed" /\ sel.by = "search"

\* Every variable has its type.
TypeOK ==
    /\ listing \in Seq(Hosts) /\ IsInjective(listing)
    /\ name \in [Hosts -> Names]
    /\ churn \in 0..MaxChurn
    /\ server \in {"sound", "deaf", "garbled"}
    /\ pc \in {"start", "scan", "done"}
    /\ offset \in {k * PageSize : k \in 0..Ceiling}
    /\ items \in Seq([id : Hosts, name : Names])
    /\ outcome \in {"none", "found", "ambiguous", "notfound", "listed",
                  "refused", "failed"}
    /\ answer \in Seq([id : Hosts, name : Names])
    /\ steady \subseteq Hosts
    /\ shifted \in BOOLEAN

\* While no host changes its place or comes back, a completed scan holds every host
\* that was there throughout, and none twice: pages neither skip, repeat nor
\* cut off silently (client.py:180-199).
ScanIsExact ==
    Scanned /\ ~shifted /\ server = "sound" =>
      /\ steady \subseteq Ids(items)
      /\ \A i, j \in DOMAIN items : items[i].id = items[j].id => i = j

\* What a lookup returns is a record the server showed during the call, of the
\* host with the given id or with exactly the given name (client.py:335-353).
FoundIsGenuine ==
    outcome = "found" =>
      /\ Len(answer) = 1
      /\ answer[1] \in shown
      /\ IF sel.by = "id" THEN answer[1].id = sel.key ELSE answer[1].name = sel.key

\* While no host changes its place or comes back, the three verdicts are right of the
\* hosts that were there throughout: a host reported missing is not among them,
\* one reported unique is not one of several, and an ambiguous selector matched
\* different hosts.
VerdictIsRight ==
    Scanned /\ ~shifted /\ server = "sound" /\ sel.by = "name" =>
      LET matching == {h \in steady : name[h] = sel.key} IN
      /\ outcome = "notfound" => matching = {}
      /\ outcome = "found" => matching \subseteq Ids(answer)
      /\ outcome = "ambiguous" => \E i, j \in DOMAIN answer : answer[i].id # answer[j].id

\* However long the list, and even when the server keeps answering with its
\* first page, the scan stops (client.py:193-198).
ScanIsBounded == Len(items) <= Ceiling + PageSize

\* A search whose reply is shorter than the caller allowed has left nothing
\* out: no host that was there throughout and whose name contains the text,
\* wherever in the list it stood (tools/read.py:144-163).
SearchIsComplete ==
    Scanned /\ ~shifted /\ server = "sound" /\ sel.by = "search" =>
      (sel.start = 0 /\ Len(answer) < Bounded(sel.limit)
         => {h \in steady : sel.key \in NamesIn[name[h]]} \subseteq Ids(answer))

\* No listing tool hands over more records than its limit, whatever limit and
\* offset it was called with: 0, which the server takes for no limit at all,
\* and negative ones included (client.py:72-76, tools/read.py:98-99).
ReplyIsBounded ==
    outcome = "listed" =>
      Len(answer) <= ListLimit /\ Len(answer) <= AtLeast(1, sel.limit)

\* client.py:183 and tools/read.py:145: a scan fetches every page and must see
\* every host; so a host listed from the first request to the last is in it.
EveryHostSeen == Scanned /\ server = "sound" => steady \subseteq Ids(items)

\* client.py:314-315: an id retired by consolidation still produces useful
\* candidates instead of a bare 404.
RetiredIdHasCandidates ==
    outcome = "notfound" /\ sel.by = "id" /\ listing # <<>> => answer # <<>>
=============================================================================
