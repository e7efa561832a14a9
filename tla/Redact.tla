-------------------------------- MODULE Redact --------------------------------
(***************************************************************************)
(* redact.py, the masking most tool results pass before they are sent.  Keys *)
(* are what is_sensitive_key tells apart; no list is walked as the value   *)
(* of a secret key, because that value is replaced as a whole, so the      *)
(* parameter parent_sensitive of _walk is never true.                      *)
(*                                                                         *)
(* A result is a scalar or a container: a list or dict as the sequence of  *)
(* its entries, where the entries of a list have no key.  _walk recurses   *)
(* on the result; here each level of nesting has its set of results, and   *)
(* the walk of one level calls that of the level below.                    *)
(***************************************************************************)
EXTENDS Integers, Sequences

CONSTANTS
    Keys,      \* the keys a dict may have
    Secrets,   \* the keys is_sensitive_key matches
    Texts,     \* the scalars a result may hold
    Depth      \* bound: how deep a result is nested

NoKey == ""

ASSUME RedactAssumption ==
    /\ Secrets \subseteq Keys
    /\ NoKey \notin Keys
    /\ "[REDACTED]" \in Texts
    /\ Depth \in Nat

Scalar(s) == [kind |-> "scalar", of |-> s]
Redacted == Scalar("[REDACTED]")
Scalars == [kind : {"scalar"}, of : Texts]

Entries(keys, values) == [key : keys, value : values]
Lists(values) == [kind : {"list"}, of : Seq(Entries({NoKey}, values))]
Dicts(values) == [kind : {"dict"}, of : Seq(Entries(Keys, values))]

\* The results nested n deep or less.
Around(values, n) == Scalars \union Lists(values) \union Dicts(values)
Nested[n \in Nat] == IF n = 0 THEN Scalars ELSE Around(Nested[n - 1], n)

-----------------------------------------------------------------------------
\* An entry of a container, as walk leaves it: what a secret key leads to is
\* replaced, whatever it is.
Masking(walk, e) ==
    [e EXCEPT !.value = IF e.key \in Secrets THEN Redacted ELSE walk[e.value]]

Through(walk, v) ==
    IF v.kind = "scalar"
    THEN v
    ELSE [v EXCEPT !.of = [i \in DOMAIN v.of |-> Masking(walk, v.of[i])]]

Deeper(walk, n) == [v \in Nested[n] |-> Through(walk, v)]
Walk[n \in Nat] == IF n = 0 THEN [v \in Scalars |-> v] ELSE Deeper(Walk[n - 1], n)

\* Mutant of Masked: what lies below the first keys is left alone.
MaskedAtTheTop(v) == Through([w \in Nested[Depth] |-> w], v)

\* redact.
Masked(v) == Walk[Depth][v]

-----------------------------------------------------------------------------
\* The ways into a result, each a sequence of steps by key and index, with what
\* they lead to.
Onto(v, i, way) == <<<<[key |-> v.of[i].key, at |-> i]>> \o way[1], way[2]>>

Onwards(ways, v) ==
    IF v.kind = "scalar"
    THEN {}
    ELSE UNION {{Onto(v, i, w) : w \in ways[v.of[i].value]} : i \in DOMAIN v.of}

Further(ways, n) == [v \in Nested[n] |-> {<<<<>>, v>>} \union Onwards(ways, v)]
Ways[n \in Nat] ==
    IF n = 0 THEN [v \in Scalars |-> {<<<<>>, v>>}] ELSE Further(Ways[n - 1], n)

\* Whether a way takes a secret key.
Secret(way) == \E i \in DOMAIN way : way[i].key \in Secrets

\* What shows of a result at one place: a scalar, or the keys of a container.
Face(v) ==
    IF v.kind = "scalar"
    THEN v
    ELSE [v EXCEPT !.of = [i \in DOMAIN v.of |-> v.of[i].key]]

\* What lies open: every place no secret key leads to, with what shows there.
Open(n, v) == {<<w[1], Face(w[2])>> : w \in {x \in Ways[n][v] : ~Secret(x[1])}}

\* What was sent hides all that a secret key leads to, at any depth, and keeps
\* the place, the keys and the value of everything else.
HidesExactly(n, gave, sent) ==
    /\ \A w \in Ways[n][sent] : Secret(w[1]) => w[2] = Redacted
    /\ Open(n, sent) = Open(n, gave)
=============================================================================
