---------------------------- MODULE ServingProofs ----------------------------
(***************************************************************************)
(* What serves is hardened and gated; what reaches a tool was admitted by  *)
(* the transport these checks let serve; and what redact lets through      *)
(* hides every secret, however deep: in every environment, whatever the    *)
(* server answers, for every message and every result.                     *)
(***************************************************************************)
EXTENDS Serving, TLAPS

\* Startup: from the command line to a serving transport.

\* How far main has come.
PastConfigure == {"validate", "guard", "build", "serve", "serving"}
PastValidate == PastConfigure \ {"validate"}
PastGuard == {"build", "serve", "serving"}

\* What the steps passed so far have established.
Passed ==
    /\ pc \in PastConfigure => ~ConfigProblems(env)
    /\ pc \in PastValidate /\ transport = "http" => ~TransportProblems(env)
    /\ pc \in PastGuard => judged # Down /\ ~Refused(judged)
    /\ pc \in {"serve", "serving"} => tools = Registered(env)
    /\ Serving /\ OverHttp => ~TransportProblems(env)

\* The version gate is the only step that sends a request.
OneRequest ==
    /\ pc \in {"args", "configure", "validate", "guard"} => ~contacted
    /\ RefusalsComeFirst

SInv == TypeOK /\ env \in Environments /\ Passed /\ OneRequest

-----------------------------------------------------------------------------
\* A tuple that is not below 0.17.2 and is below 0.18.0 is 0.17.z with z >= 2.
LEMMA RangeIsOneLine ==
    ASSUME NEW v \in Nat \X Nat \X Nat,
           ~Older(v, Minimum), Older(v, MaximumExclusive)
    PROVE  v[1] = 0 /\ v[2] = 17 /\ v[3] >= 2
<1>0. v[1] \in Nat /\ v[2] \in Nat /\ v[3] \in Nat
  OBVIOUS
<1>1. /\ Minimum[1] = 0 /\ Minimum[2] = 17 /\ Minimum[3] = 2
      /\ MaximumExclusive[1] = 0 /\ MaximumExclusive[2] = 18 /\ MaximumExclusive[3] = 0
  BY DEF Minimum, MaximumExclusive
<1>2. PICK i \in 1..3 : /\ v[i] < MaximumExclusive[i]
                        /\ \A j \in 1..(i - 1) : v[j] = MaximumExclusive[j]
  BY DEF Older
<1>3. i = 2
  <2>1. i = 1 \/ i = 2 \/ i = 3
    OBVIOUS
  <2>2. i # 1
    BY <1>0, <1>1, <1>2
  <2>3. i # 3
    BY <1>0, <1>1, <1>2
  <2> QED BY <2>1, <2>2, <2>3
<1>4. v[1] = 0 /\ v[2] < 18
  <2>1. 1 \in 1..(i - 1)
    BY <1>3
  <2> QED BY <1>1, <1>2, <1>3, <2>1
<1>5. v[2] = 17
  <2>1. ASSUME v[2] < 17 PROVE FALSE
    <3>1. 2 \in 1..3 /\ v[2] < Minimum[2] /\ \A j \in 1..(2 - 1) : v[j] = Minimum[j]
      <4>1. \A j \in 1..(2 - 1) : j = 1
        OBVIOUS
      <4> QED BY <1>1, <1>4, <2>1, <4>1
    <3> QED BY <3>1 DEF Older
  <2> QED BY <1>0, <1>4, <2>1
<1>6. v[3] >= 2
  <2>1. ASSUME v[3] < 2 PROVE FALSE
    <3>1. 3 \in 1..3 /\ v[3] < Minimum[3] /\ \A j \in 1..(3 - 1) : v[j] = Minimum[j]
      <4>1. \A j \in 1..(3 - 1) : j = 1 \/ j = 2
        OBVIOUS
      <4> QED BY <1>1, <1>4, <1>5, <2>1, <4>1
    <3> QED BY <3>1 DEF Older
  <2> QED BY <1>0, <2>1
<1> QED BY <1>4, <1>5, <1>6

-----------------------------------------------------------------------------
LEMMA StartsWell == Init => SInv
<1> SUFFICES ASSUME Init PROVE SInv
  OBVIOUS
<1>1. TypeOK /\ env \in Environments
  <2>1. changes \in 0..MaxChanges
    BY StartupAssumption DEF Init
  <2>2. contacted \in BOOLEAN
    BY Zenon DEF Init
  <2> QED BY <2>1, <2>2, StartupAssumption DEF Init, TypeOK
<1>2. Passed
  BY DEF Init, Passed, PastConfigure, PastValidate, PastGuard, Serving
<1>3. OneRequest
  <2>1. ~contacted /\ exit = Running
    BY Zenon DEF Init
  <2> QED BY <2>1 DEF OneRequest, RefusalsComeFirst, Running
<1> QED BY <1>1, <1>2, <1>3 DEF SInv

LEMMA StepKeeps == SInv /\ [Next]_upvars => SInv'
<1> SUFFICES ASSUME SInv, [Next]_upvars PROVE SInv'
  OBVIOUS
<1> USE DEF SInv, TypeOK, Passed, OneRequest, RefusalsComeFirst, PastConfigure,
            PastValidate, PastGuard, Serving, OverHttp, Exits, Running
<1>1. CASE ParseArgs
  BY <1>1 DEF ParseArgs
<1>2. CASE Configure
  BY <1>2 DEF Configure
<1>3. CASE ValidateTransport
  BY <1>3 DEF ValidateTransport, Validates
<1>4. CASE VersionGuard
  BY <1>4 DEF VersionGuard, Refused
<1>5. CASE BuildMcp
  BY <1>5 DEF BuildMcp, Registered, Refused
<1>6. CASE Serve
  BY <1>6 DEF Serve, Refused
<1>7. CASE ServerChanges
  <2>1. changes' \in 0..MaxChanges
    BY <1>7, StartupAssumption DEF ServerChanges
  <2> QED BY <1>7, <2>1 DEF ServerChanges, Refused
<1>8. CASE Rests
  BY <1>8 DEF Rests, upvars, Refused
<1>9. CASE UNCHANGED upvars
  BY <1>9 DEF upvars, Refused
<1>10. CASE Return
  BY <1>10 DEF Return, Refused
<1> QED BY <1>1, <1>2, <1>3, <1>4, <1>5, <1>6, <1>7, <1>8, <1>9, <1>10 DEF Next

\* The invariant behind the others: what each step of main has established still
\* holds when the process serves, and no request precedes the version gate.
THEOREM StartupInv == Spec => []SInv
BY StartsWell, StepKeeps, PTL DEF Spec

\* The variables of startup keep their types, and an exit code comes with the exit.
THEOREM StartupTypes == Spec => []TypeOK
BY StartupInv, PTL DEF SInv

\* A process that serves HTTP passed every condition of
\* validate_http_transport, however its transport was named.
THEOREM AlwaysHardened == Spec => []HttpIsHardened
<1>1. SInv => HttpIsHardened
  <2> SUFFICES ASSUME SInv, Serving, OverHttp
               PROVE  /\ env.token >= 16
                      /\ env.bind = "remote" => env.posture # "loopback" /\ env.allowedHosts
                      /\ env.posture = "direct" => env.cert = "file" /\ env.key = "file"
    BY DEF HttpIsHardened
  <2>1. ~TransportProblems(env) /\ ~ConfigProblems(env) /\ env \in Environments
    BY DEF SInv, Passed, Serving, PastConfigure
  <2>2. env.token \in Nat /\ {env.cert, env.key} \subseteq {"none", "file", "missing"}
    BY <2>1, StartupAssumption
  <2>3. env.token >= 16
    BY <2>1, <2>2 DEF TransportProblems
  <2>4. env.bind = "remote" => env.posture # "loopback" /\ env.allowedHosts
    BY <2>1 DEF TransportProblems
  <2>5. env.cert # "missing" /\ env.key # "missing"
    BY <2>1 DEF ConfigProblems
  <2>6. env.posture = "direct" => env.cert # "none" /\ env.key # "none"
    BY <2>1 DEF TransportProblems
  <2> QED BY <2>2, <2>3, <2>4, <2>5, <2>6
<1> QED BY <1>1, StartupInv, PTL

\* Without the override, a serving process was answered by a release 0.17.z
\* with z >= 2: the tuple comparison of check_compat is the documented range.
THEOREM AlwaysGuarded == Spec => []VersionIsGuarded
<1>1. SInv => VersionIsGuarded
  <2> SUFFICES ASSUME SInv, Serving, env.override # "true"
               PROVE  /\ judged # Down
                      /\ judged.version # NoVersion
                      /\ judged.api \in {NoApi, ApiVersion}
                      /\ LET v == judged.version IN v[1] = 0 /\ v[2] = 17 /\ v[3] >= 2
    BY DEF VersionIsGuarded
  <2>1. judged # Down /\ Compatible(judged) /\ judged \in Servers
    BY DEF SInv, TypeOK, Passed, PastGuard, Serving, Refused
  <2>2. judged.version \in Nat \X Nat \X Nat
    BY <2>1, StartupAssumption DEF Compatible
  <2>3. ~Older(judged.version, Minimum) /\ Older(judged.version, MaximumExclusive)
    BY <2>1 DEF Compatible
  <2> QED BY <2>1, <2>2, <2>3, RangeIsOneLine DEF Compatible
<1> QED BY <1>1, StartupInv, PTL

\* Refusals over configuration and transport precede every request.
THEOREM RefusalsAlwaysFirst == Spec => []RefusalsComeFirst
BY StartupInv, PTL DEF SInv, OneRequest

-----------------------------------------------------------------------------
\* Redaction: results by their depth of nesting.

NestedRec == INSTANCE Recursion WITH First <- Scalars, After <- Around
WalkRec == INSTANCE Recursion WITH First <- [v \in Scalars |-> v], After <- Deeper
WaysRec == INSTANCE Recursion
             WITH First <- [v \in Scalars |-> {<<<<>>, v>>}], After <- Further

\* The definitions by levels are the functions their equations describe.
LEMMA NestedIs ==
    Nested = [n \in Nat |-> IF n = 0 THEN Scalars ELSE Around(Nested[n - 1], n)]
BY NestedRec!RecursionOnNat DEF Nested

LEMMA WalkIs ==
    Walk = [n \in Nat |-> IF n = 0 THEN [v \in Scalars |-> v] ELSE Deeper(Walk[n - 1], n)]
BY WalkRec!RecursionOnNat DEF Walk

LEMMA WaysIs ==
    Ways = [n \in Nat |-> IF n = 0 THEN [v \in Scalars |-> {<<<<>>, v>>}]
                          ELSE Further(Ways[n - 1], n)]
BY WaysRec!RecursionOnNat DEF Ways

LEMMA Levels ==
    ASSUME NEW n \in Nat
    PROVE  /\ Nested[0] = Scalars
           /\ n # 0 => Nested[n] = Around(Nested[n - 1], n)
           /\ Scalars \subseteq Nested[n]
           /\ Redacted \in Nested[n]
           /\ Redacted \in Scalars
<1>1. Nested[0] = Scalars /\ (n # 0 => Nested[n] = Around(Nested[n - 1], n))
  BY NestedIs
<1>2. Scalars \subseteq Nested[n]
  BY <1>1 DEF Around
<1>3. Redacted \in Scalars
  BY RedactAssumption DEF Redacted, Scalar, Scalars
<1> QED BY <1>1, <1>2, <1>3

LEMMA TwoFields ==
    ASSUME NEW K, NEW O, NEW v \in [kind : K, of : O]
    PROVE  v = [kind |-> v.kind, of |-> v.of] /\ v.kind \in K /\ v.of \in O
OBVIOUS

LEMMA EntryFields ==
    ASSUME NEW K, NEW V, NEW e \in Entries(K, V)
    PROVE  e = [key |-> e.key, value |-> e.value] /\ e.key \in K /\ e.value \in V
BY DEF Entries

LEMMA AnEntry ==
    ASSUME NEW K, NEW V, NEW k \in K, NEW x \in V, NEW e, e = [key |-> k, value |-> x]
    PROVE  e \in Entries(K, V) /\ e.key = k /\ e.value = x
BY DEF Entries

LEMMA Places ==
    ASSUME NEW S, NEW s \in Seq(S)
    PROVE  Len(s) \in Nat /\ DOMAIN s = 1..Len(s) /\ \A i \in DOMAIN s : s[i] \in S
OBVIOUS

LEMMA Built ==
    ASSUME NEW S, NEW n \in Nat, NEW s, s = [i \in 1..n |-> s[i]], \A i \in 1..n : s[i] \in S
    PROVE  s \in Seq(S)
OBVIOUS

\* A result is a scalar, or a list or dict of results of the level below.
LEMMA Kinds ==
    ASSUME NEW n \in Nat, NEW v \in Nested[n]
    PROVE  \/ v \in Scalars /\ v.kind = "scalar"
           \/ n # 0 /\ v.kind = "list" /\ v \in Lists(Nested[n - 1])
           \/ n # 0 /\ v.kind = "dict" /\ v \in Dicts(Nested[n - 1])
<1>1. v \in Scalars \/ (n # 0 /\ (v \in Lists(Nested[n - 1]) \/ v \in Dicts(Nested[n - 1])))
  BY Levels DEF Around
<1>2. v \in Scalars => v.kind = "scalar"
  BY DEF Scalars
<1>3. v \in Lists(Nested[n - 1]) => v.kind = "list"
  BY DEF Lists
<1>4. v \in Dicts(Nested[n - 1]) => v.kind = "dict"
  BY DEF Dicts
<1> QED BY <1>1, <1>2, <1>3, <1>4

\* The keys of the entries of a container.
KeysOf(v) == IF v.kind = "dict" THEN Keys ELSE {NoKey}

LEMMA Inside ==
    ASSUME NEW n \in Nat, NEW v \in Nested[n], v.kind # "scalar"
    PROVE  /\ n # 0 /\ n - 1 \in Nat
           /\ v = [kind |-> v.kind, of |-> v.of]
           /\ Len(v.of) \in Nat /\ DOMAIN v.of = 1..Len(v.of)
           /\ \A i \in DOMAIN v.of : /\ v.of[i] = [key |-> v.of[i].key, value |-> v.of[i].value]
                                     /\ v.of[i].key \in KeysOf(v)
                                     /\ v.of[i].value \in Nested[n - 1]
<1>1. n # 0 /\ n - 1 \in Nat
  BY Kinds
<1>2. v = [kind |-> v.kind, of |-> v.of] /\ v.of \in Seq(Entries(KeysOf(v), Nested[n - 1]))
  <2>1. CASE v.kind = "list"
    <3>1. v \in Lists(Nested[n - 1]) /\ KeysOf(v) = {NoKey}
      BY <2>1, Kinds DEF KeysOf
    <3> QED BY <3>1, TwoFields DEF Lists
  <2>2. CASE v.kind = "dict"
    <3>1. v \in Dicts(Nested[n - 1]) /\ KeysOf(v) = Keys
      BY <2>2, Kinds DEF KeysOf
    <3> QED BY <3>1, TwoFields DEF Dicts
  <2> QED BY <2>1, <2>2, Kinds
<1>3. /\ Len(v.of) \in Nat /\ DOMAIN v.of = 1..Len(v.of)
      /\ \A i \in DOMAIN v.of : v.of[i] \in Entries(KeysOf(v), Nested[n - 1])
  BY <1>2, Places
<1>4. \A i \in DOMAIN v.of : /\ v.of[i] = [key |-> v.of[i].key, value |-> v.of[i].value]
                             /\ v.of[i].key \in KeysOf(v)
                             /\ v.of[i].value \in Nested[n - 1]
  BY <1>3, EntryFields
<1> QED BY <1>1, <1>2, <1>3, <1>4

\* The other way round: such entries make a result.
LEMMA AContainer ==
    ASSUME NEW n \in Nat, NEW v \in Nested[n], v.kind # "scalar",
           NEW s \in Seq(Entries(KeysOf(v), Nested[n - 1]))
    PROVE  [kind |-> v.kind, of |-> s] \in Nested[n]
<1>1. n # 0 /\ Nested[n] = Around(Nested[n - 1], n)
  BY Kinds, Levels
<1>2. CASE v.kind = "list"
  <2>1. s \in Seq(Entries({NoKey}, Nested[n - 1]))
    BY <1>2 DEF KeysOf
  <2>2. [kind |-> v.kind, of |-> s] \in Lists(Nested[n - 1])
    BY <1>2, <2>1 DEF Lists
  <2> QED BY <1>1, <2>2 DEF Around
<1>3. CASE v.kind = "dict"
  <2>1. s \in Seq(Entries(Keys, Nested[n - 1]))
    BY <1>3 DEF KeysOf
  <2>2. [kind |-> v.kind, of |-> s] \in Dicts(Nested[n - 1])
    BY <1>3, <2>1 DEF Dicts
  <2> QED BY <1>1, <2>2 DEF Around
<1> QED BY <1>2, <1>3, Kinds

\* The entries of a container as one level of the walk leaves them.
Masks(walk, v) == [i \in DOMAIN v.of |-> Masking(walk, v.of[i])]

\* One level of the walk: the container keeps its kind, its places and its keys.
LEMMA OneLevel ==
    ASSUME NEW n \in Nat, NEW v \in Nested[n], v.kind # "scalar",
           NEW walk, \A u \in Nested[n - 1] : walk[u] \in Nested[n - 1]
    PROVE  /\ Through(walk, v) = [kind |-> v.kind, of |-> Masks(walk, v)]
           /\ Through(walk, v) \in Nested[n]
           /\ DOMAIN Masks(walk, v) = DOMAIN v.of
           /\ \A i \in DOMAIN v.of :
                /\ Masks(walk, v)[i].key = v.of[i].key
                /\ Masks(walk, v)[i].value =
                     IF v.of[i].key \in Secrets THEN Redacted ELSE walk[v.of[i].value]
                /\ Masks(walk, v)[i].value \in Nested[n - 1]
<1> DEFINE New(i) == IF v.of[i].key \in Secrets THEN Redacted ELSE walk[v.of[i].value]
<1>1. Through(walk, v) = [kind |-> v.kind, of |-> Masks(walk, v)]
  <2>1. Through(walk, v) = [v EXCEPT !.of = Masks(walk, v)]
    BY DEF Through, Masks
  <2>2. v = [kind |-> v.kind, of |-> v.of]
    BY Inside
  <2>3. \A k, o, s : [[kind |-> k, of |-> o] EXCEPT !.of = s] = [kind |-> k, of |-> s]
    OBVIOUS
  <2> QED BY <2>1, <2>2, <2>3
<1>2. DOMAIN Masks(walk, v) = DOMAIN v.of
  BY DEF Masks
<1>3. \A i \in DOMAIN v.of : Masks(walk, v)[i] = [key |-> v.of[i].key, value |-> New(i)]
  <2> TAKE i \in DOMAIN v.of
  <2>1. v.of[i] = [key |-> v.of[i].key, value |-> v.of[i].value]
    BY Inside
  <2>2. Masks(walk, v)[i] = [v.of[i] EXCEPT !.value = New(i)]
    BY DEF Masks, Masking
  <2>3. \A k, x, y : [[key |-> k, value |-> x] EXCEPT !.value = y] = [key |-> k, value |-> y]
    OBVIOUS
  <2> HIDE DEF New
  <2> QED BY <2>1, <2>2, <2>3
<1>4. \A i \in DOMAIN v.of : New(i) \in Nested[n - 1]
  <2> TAKE i \in DOMAIN v.of
  <2>1. n - 1 \in Nat /\ v.of[i].value \in Nested[n - 1]
    BY Inside
  <2>2. Redacted \in Nested[n - 1]
    BY <2>1, Levels
  <2> QED BY <2>1, <2>2
<1> HIDE DEF New
<1>5. \A i \in DOMAIN v.of : /\ Masks(walk, v)[i] \in Entries(KeysOf(v), Nested[n - 1])
                             /\ Masks(walk, v)[i].key = v.of[i].key
                             /\ Masks(walk, v)[i].value = New(i)
  <2> TAKE i \in DOMAIN v.of
  <2> DEFINE e == Masks(walk, v)[i]
             k == v.of[i].key
             x == New(i)
  <2>1. k \in KeysOf(v)
    BY Inside
  <2>2. x \in Nested[n - 1] /\ e = [key |-> k, value |-> x]
    BY <1>3, <1>4
  <2> HIDE DEF e, k, x
  <2>3. e \in Entries(KeysOf(v), Nested[n - 1]) /\ e.key = k /\ e.value = x
    BY <2>1, <2>2, AnEntry
  <2> QED BY <2>3 DEF e, k, x
<1>6. Masks(walk, v) \in Seq(Entries(KeysOf(v), Nested[n - 1]))
  <2>1. Len(v.of) \in Nat /\ DOMAIN v.of = 1..Len(v.of)
    BY Inside
  <2>2. Masks(walk, v) = [i \in 1..Len(v.of) |-> Masks(walk, v)[i]]
    BY <2>1 DEF Masks
  <2> QED BY <1>5, <2>1, <2>2, Built
<1>7. Through(walk, v) \in Nested[n]
  BY <1>1, <1>6, AContainer
<1> QED BY <1>1, <1>2, <1>4, <1>5, <1>7 DEF New

-----------------------------------------------------------------------------
\* The walk at a level: what redact does to a result nested that deep.
LEMMA WalkAt ==
    ASSUME NEW n \in Nat, NEW v \in Nested[n]
    PROVE  Walk[n][v] = IF v.kind = "scalar" THEN v ELSE Through(Walk[n - 1], v)
<1>1. CASE n = 0
  <2>1. Walk[0] = [u \in Scalars |-> u] /\ v \in Scalars
    BY <1>1, WalkIs, Levels
  <2> QED BY <1>1, <2>1, Kinds
<1>2. CASE n # 0
  <2>1. Walk[n] = Deeper(Walk[n - 1], n)
    BY <1>2, WalkIs
  <2>2. Walk[n][v] = Through(Walk[n - 1], v)
    BY <2>1 DEF Deeper
  <2> QED BY <2>2 DEF Through
<1> QED BY <1>1, <1>2

LEMMA WaysAt ==
    ASSUME NEW n \in Nat, NEW v \in Nested[n]
    PROVE  Ways[n][v] =
             IF v.kind = "scalar" THEN {<<<<>>, v>>}
             ELSE {<<<<>>, v>>} \union Onwards(Ways[n - 1], v)
<1>1. CASE n = 0
  <2>1. Ways[0] = [u \in Scalars |-> {<<<<>>, u>>}] /\ v \in Scalars
    BY <1>1, WaysIs, Levels
  <2> QED BY <1>1, <2>1, Kinds
<1>2. CASE n # 0
  <2>1. Ways[n] = Further(Ways[n - 1], n)
    BY <1>2, WaysIs
  <2>2. Ways[n][v] = {<<<<>>, v>>} \union Onwards(Ways[n - 1], v)
    BY <2>1 DEF Further
  <2> QED BY <2>2 DEF Onwards
<1> QED BY <1>1, <1>2

\* A result stays a result of its level.
LEMMA WalkStays == \A n \in Nat : \A v \in Nested[n] : Walk[n][v] \in Nested[n]
<1> DEFINE T == {n \in Nat : \E v \in Nested[n] : Walk[n][v] \notin Nested[n]}
<1> SUFFICES ASSUME T # {} PROVE FALSE
  OBVIOUS
<1>1. PICK n \in T : \A m \in T : n <= m
  BY NestedRec!Least
<1>2. PICK v \in Nested[n] : Walk[n][v] \notin Nested[n]
  OBVIOUS
<1>3. v.kind # "scalar" /\ Walk[n][v] = Through(Walk[n - 1], v)
  BY <1>2, WalkAt
<1>4. n - 1 \in Nat /\ n - 1 \notin T
  BY <1>1, <1>3, Inside
<1>5. \A u \in Nested[n - 1] : Walk[n - 1][u] \in Nested[n - 1]
  BY <1>4
<1> QED BY <1>2, <1>3, <1>5, OneLevel

LEMMA OnwardsAre ==
    ASSUME NEW ways, NEW v, v.kind # "scalar", NEW w
    PROVE  w \in Onwards(ways, v) <=>
             \E i \in DOMAIN v.of : \E u \in ways[v.of[i].value] : w = Onto(v, i, u)
<1>1. Onwards(ways, v) =
        UNION {{Onto(v, i, u) : u \in ways[v.of[i].value]} : i \in DOMAIN v.of}
  BY Zenon DEF Onwards
<1>2. ASSUME w \in Onwards(ways, v)
      PROVE  \E i \in DOMAIN v.of : \E u \in ways[v.of[i].value] : w = Onto(v, i, u)
  <2>1. PICK i \in DOMAIN v.of : w \in {Onto(v, i, u) : u \in ways[v.of[i].value]}
    BY <1>1, <1>2
  <2> QED BY <2>1
<1>3. ASSUME NEW i \in DOMAIN v.of, NEW u \in ways[v.of[i].value], w = Onto(v, i, u)
      PROVE  w \in Onwards(ways, v)
  <2>1. w \in {Onto(v, i, x) : x \in ways[v.of[i].value]}
    BY <1>3
  <2> QED BY <1>1, <2>1
<1> QED BY <1>2, <1>3

\* Every way is a sequence of steps.
Steps == [key : Keys \union {NoKey}, at : Nat]
AWay(w) == w[1] \in Seq(Steps) /\ w = <<w[1], w[2]>>

LEMMA OntoAWay ==
    ASSUME NEW n \in Nat, NEW v \in Nested[n], v.kind # "scalar", NEW i \in DOMAIN v.of,
           NEW u, AWay(u)
    PROVE  AWay(Onto(v, i, u))
<1> DEFINE a == [key |-> v.of[i].key, at |-> i]
<1>1. a \in Steps
  <2>1. v.of[i].key \in KeysOf(v) /\ Len(v.of) \in Nat /\ i \in 1..Len(v.of)
    BY Inside
  <2>2. v.of[i].key \in Keys \union {NoKey} /\ i \in Nat
    BY <2>1 DEF KeysOf
  <2> QED BY <2>2 DEF Steps
<1>2. Onto(v, i, u) = <<<<a>> \o u[1], u[2]>>
  BY DEF Onto
<1> HIDE DEF a
<1>3. <<a>> \o u[1] \in Seq(Steps)
  BY <1>1 DEF AWay
<1>4. AWay(<<<<a>> \o u[1], u[2]>>)
  BY <1>3 DEF AWay
<1> QED BY <1>2, <1>4

LEMMA WaysTyped == \A n \in Nat : \A v \in Nested[n] : \A w \in Ways[n][v] : AWay(w)
<1> DEFINE Good(n) == \A v \in Nested[n] : \A w \in Ways[n][v] : AWay(w)
           T == {n \in Nat : ~Good(n)}
<1> SUFFICES ASSUME T # {} PROVE FALSE
  OBVIOUS
<1>1. PICK n \in T : \A m \in T : n <= m
  BY NestedRec!Least
<1>2. PICK v \in Nested[n] : \E w \in Ways[n][v] : ~AWay(w)
  OBVIOUS
<1>3. PICK w \in Ways[n][v] : ~AWay(w)
  BY <1>2
<1>4. w # <<<<>>, v>>
  <2>1. AWay(<<<<>>, v>>)
    BY DEF AWay
  <2> QED BY <1>3, <2>1
<1>5. v.kind # "scalar" /\ w \in Onwards(Ways[n - 1], v)
  BY <1>4, WaysAt
<1>6. PICK i \in DOMAIN v.of : \E u \in Ways[n - 1][v.of[i].value] : w = Onto(v, i, u)
  <2> DEFINE ways == Ways[n - 1]
  <2>1. w \in Onwards(ways, v) /\ v.kind # "scalar"
    BY <1>5
  <2> HIDE DEF ways
  <2>2. \E i \in DOMAIN v.of : \E u \in ways[v.of[i].value] : w = Onto(v, i, u)
    BY <2>1, OnwardsAre
  <2> QED BY <2>2 DEF ways
<1>7. n - 1 \in Nat /\ v.of[i].value \in Nested[n - 1]
  BY <1>5, Inside
<1>8. n - 1 \notin T
  <2>1. n \in Nat
    OBVIOUS
  <2> HIDE DEF T
  <2> QED BY <1>1, <1>7, <2>1
<1>9. \A u \in Ways[n - 1][v.of[i].value] : AWay(u)
  BY <1>7, <1>8
<1> QED BY <1>3, <1>5, <1>6, <1>9, OntoAWay

LEMMA OntoASecret ==
    ASSUME NEW n \in Nat, NEW v \in Nested[n], v.kind # "scalar", NEW i \in DOMAIN v.of,
           NEW u, AWay(u)
    PROVE  /\ Secret(Onto(v, i, u)[1]) <=> v.of[i].key \in Secrets \/ Secret(u[1])
           /\ Onto(v, i, u)[2] = u[2]
<1> DEFINE a == [key |-> v.of[i].key, at |-> i]
           q == u[1]
           p == <<a>> \o q
<1>1. a \in Steps /\ a.key = v.of[i].key
  <2>1. v.of[i].key \in KeysOf(v) /\ Len(v.of) \in Nat /\ i \in 1..Len(v.of)
    BY Inside
  <2>2. v.of[i].key \in Keys \union {NoKey} /\ i \in Nat
    BY <2>1 DEF KeysOf
  <2> QED BY <2>2 DEF Steps
<1>2. Onto(v, i, u) = <<p, u[2]>>
  BY DEF Onto
<1>3. q \in Seq(Steps)
  BY DEF AWay
<1>4. /\ DOMAIN p = 1..(Len(q) + 1) /\ DOMAIN q = 1..Len(q) /\ Len(q) \in Nat
      /\ p[1] = a
      /\ \A j \in DOMAIN q : p[j + 1] = q[j]
      /\ \A j \in DOMAIN p : j = 1 \/ (j - 1 \in DOMAIN q /\ p[j] = q[j - 1])
  <2> HIDE DEF a, q
  <2> QED BY <1>1, <1>3
<1> HIDE DEF a, p, q
<1>5. ASSUME Secret(p) PROVE a.key \in Secrets \/ Secret(q)
  <2>1. PICK j \in DOMAIN p : p[j].key \in Secrets
    BY <1>5 DEF Secret
  <2>2. CASE j = 1
    BY <1>4, <2>1, <2>2
  <2>3. CASE j # 1
    <3>1. j - 1 \in DOMAIN q /\ q[j - 1].key \in Secrets
      BY <1>4, <2>1, <2>3
    <3> QED BY <3>1 DEF Secret
  <2> QED BY <2>2, <2>3
<1>6. ASSUME a.key \in Secrets PROVE Secret(p)
  <2>1. 1 \in DOMAIN p /\ p[1].key \in Secrets
    BY <1>4, <1>6
  <2> QED BY <2>1 DEF Secret
<1>7. ASSUME Secret(q) PROVE Secret(p)
  <2>1. PICK j \in DOMAIN q : q[j].key \in Secrets
    BY <1>7 DEF Secret
  <2>2. j + 1 \in DOMAIN p /\ p[j + 1].key \in Secrets
    BY <1>4, <2>1
  <2> QED BY <2>2 DEF Secret
<1>8. Secret(p) <=> a.key \in Secrets \/ Secret(q)
  BY <1>5, <1>6, <1>7
<1> QED BY <1>1, <1>2, <1>8 DEF q

\* A scalar lies open as it is.
LEMMA RedactedWays == ASSUME NEW n \in Nat PROVE Ways[n][Redacted] = {<<<<>>, Redacted>>}
BY Levels, WaysAt DEF Redacted, Scalar

\* What lies open of a container: its face, and what lies open of the values
\* that no secret key leads to, one step on.
LEMMA OpenAt ==
    ASSUME NEW n \in Nat, NEW v \in Nested[n], v.kind # "scalar", NEW x
    PROVE  x \in Open(n, v) <=>
             \/ x = <<<<>>, Face(v)>>
             \/ \E i \in DOMAIN v.of : /\ v.of[i].key \notin Secrets
                                       /\ \E y \in Open(n - 1, v.of[i].value) : x = Onto(v, i, y)
<1>1. Ways[n][v] = {<<<<>>, v>>} \union Onwards(Ways[n - 1], v)
  BY WaysAt
<1>2. ~Secret(<<>>)
  BY DEF Secret
<1>3. \A i \in DOMAIN v.of : n - 1 \in Nat /\ v.of[i].value \in Nested[n - 1]
  BY Inside
<1>4. \A i \in DOMAIN v.of : \A u \in Ways[n - 1][v.of[i].value] :
        /\ Secret(Onto(v, i, u)[1]) <=> v.of[i].key \in Secrets \/ Secret(u[1])
        /\ Onto(v, i, u)[2] = u[2]
  BY <1>3, WaysTyped, OntoASecret
<1>5. \A i \in DOMAIN v.of : \A u :
        Onto(v, i, <<u[1], Face(u[2])>>) = <<Onto(v, i, u)[1], Face(Onto(v, i, u)[2])>>
  BY DEF Onto
<1>6. ASSUME x \in Open(n, v)
      PROVE  \/ x = <<<<>>, Face(v)>>
             \/ \E i \in DOMAIN v.of : /\ v.of[i].key \notin Secrets
                                       /\ \E y \in Open(n - 1, v.of[i].value) : x = Onto(v, i, y)
  <2>1. PICK w \in Ways[n][v] : ~Secret(w[1]) /\ x = <<w[1], Face(w[2])>>
    BY <1>6 DEF Open
  <2>2. CASE w = <<<<>>, v>>
    BY <2>1, <2>2
  <2>3. CASE w \in Onwards(Ways[n - 1], v)
    <3> DEFINE ways == Ways[n - 1]
    <3>1. w \in Onwards(ways, v)
      BY <2>3
    <3> HIDE DEF ways
    <3>2. PICK i \in DOMAIN v.of : \E u \in ways[v.of[i].value] : w = Onto(v, i, u)
      BY <3>1, OnwardsAre
    <3>3. PICK u \in ways[v.of[i].value] : w = Onto(v, i, u)
      BY <3>2
    <3> USE DEF ways
    <3>4. v.of[i].key \notin Secrets /\ ~Secret(u[1])
      BY <1>4, <2>1, <3>3
    <3>5. <<u[1], Face(u[2])>> \in Open(n - 1, v.of[i].value)
      BY <3>4 DEF Open
    <3>6. x = Onto(v, i, <<u[1], Face(u[2])>>)
      BY <1>5, <2>1, <3>3
    <3> QED BY <3>4, <3>5, <3>6
  <2> QED BY <1>1, <2>2, <2>3
<1>7. ASSUME x = <<<<>>, Face(v)>> PROVE x \in Open(n, v)
  <2>1. <<<<>>, v>> \in Ways[n][v]
    BY <1>1
  <2>2. <<<<>>, v>>[1] = <<>> /\ <<<<>>, v>>[2] = v
    OBVIOUS
  <2>3. <<<<>>, v>> \in {w \in Ways[n][v] : ~Secret(w[1])}
    BY <1>2, <2>1, <2>2
  <2> QED BY <1>7, <2>2, <2>3 DEF Open
<1>8. ASSUME NEW i \in DOMAIN v.of, v.of[i].key \notin Secrets,
             NEW y \in Open(n - 1, v.of[i].value), x = Onto(v, i, y)
      PROVE  x \in Open(n, v)
  <2>1. PICK u \in Ways[n - 1][v.of[i].value] : ~Secret(u[1]) /\ y = <<u[1], Face(u[2])>>
    BY DEF Open
  <2> DEFINE w == Onto(v, i, u)
  <2>2. ~Secret(w[1])
    BY <1>4, <1>8, <2>1
  <2>3. w \in Ways[n][v]
    <3> DEFINE ways == Ways[n - 1]
    <3>1. u \in ways[v.of[i].value]
      OBVIOUS
    <3> HIDE DEF ways
    <3>2. w \in Onwards(ways, v)
      BY <3>1, OnwardsAre
    <3> QED BY <1>1, <3>2 DEF ways
  <2>4. x = <<w[1], Face(w[2])>>
    BY <1>5, <1>8, <2>1
  <2> QED BY <2>2, <2>3, <2>4 DEF Open
<1> QED BY <1>6, <1>7, <1>8

\* Masking leaves the face of a container, and the steps into it.
LEMMA SameFace ==
    ASSUME NEW v, NEW w, v.kind # "scalar",
           v = [kind |-> v.kind, of |-> v.of], w = [kind |-> v.kind, of |-> w.of],
           DOMAIN w.of = DOMAIN v.of, \A i \in DOMAIN v.of : w.of[i].key = v.of[i].key
    PROVE  Face(w) = Face(v) /\ \A i \in DOMAIN v.of : \A y : Onto(w, i, y) = Onto(v, i, y)
<1>1. w.kind = v.kind
  OBVIOUS
<1>2. [i \in DOMAIN w.of |-> w.of[i].key] = [i \in DOMAIN v.of |-> v.of[i].key]
  OBVIOUS
<1>3. \A k, o, s : [[kind |-> k, of |-> o] EXCEPT !.of = s] = [kind |-> k, of |-> s]
  OBVIOUS
<1>4. Face(v) = [kind |-> v.kind, of |-> [i \in DOMAIN v.of |-> v.of[i].key]]
  BY <1>3 DEF Face
<1>5. Face(w) = [kind |-> v.kind, of |-> [i \in DOMAIN w.of |-> w.of[i].key]]
  BY <1>1, <1>3 DEF Face
<1>6. \A i \in DOMAIN v.of : \A y : Onto(w, i, y) = Onto(v, i, y)
  BY DEF Onto
<1> QED BY <1>2, <1>4, <1>5, <1>6

LEMMA WalkHides == \A n \in Nat : \A v \in Nested[n] : HidesExactly(n, v, Walk[n][v])
<1> DEFINE Good(n) == \A v \in Nested[n] : HidesExactly(n, v, Walk[n][v])
           T == {n \in Nat : ~Good(n)}
<1> SUFFICES ASSUME T # {} PROVE FALSE
  OBVIOUS
<1>1. PICK n \in T : \A m \in T : n <= m
  BY NestedRec!Least
<1>2. n \in Nat /\ ~Good(n)
  OBVIOUS
<1>3. PICK v \in Nested[n] : ~HidesExactly(n, v, Walk[n][v])
  BY <1>2
<1> DEFINE w == Walk[n][v]
<1>4. v.kind # "scalar"
  <2> SUFFICES ASSUME v.kind = "scalar" PROVE HidesExactly(n, v, w)
    BY <1>3
  <2>1. w = v /\ Ways[n][v] = {<<<<>>, v>>}
    BY <1>2, WalkAt, WaysAt
  <2>2. \A x \in Ways[n][v] : ~Secret(x[1])
    BY <2>1 DEF Secret
  <2> QED BY <2>1, <2>2 DEF HidesExactly
<1>5. n - 1 \in Nat /\ Good(n - 1)
  <2>1. n - 1 \in Nat
    BY <1>2, <1>4, Inside
  <2>2. n - 1 \notin T
    <3> HIDE DEF T
    <3> QED BY <1>1, <1>2, <2>1
  <2> QED BY <2>1, <2>2
<1> DEFINE walk == Walk[n - 1]
<1>6. \A u \in Nested[n - 1] : walk[u] \in Nested[n - 1]
  BY <1>5, WalkStays
<1>7. /\ w = [kind |-> v.kind, of |-> w.of] /\ w \in Nested[n] /\ w.kind = v.kind
      /\ DOMAIN w.of = DOMAIN v.of
      /\ \A i \in DOMAIN v.of :
           /\ w.of[i].key = v.of[i].key
           /\ w.of[i].value =
                IF v.of[i].key \in Secrets THEN Redacted ELSE walk[v.of[i].value]
           /\ w.of[i].value \in Nested[n - 1]
  <2>1. w = Through(walk, v)
    BY <1>2, <1>4, WalkAt
  <2> HIDE DEF walk, w
  <2>2. w = [kind |-> v.kind, of |-> Masks(walk, v)] /\ w \in Nested[n]
    BY <1>2, <1>4, <1>6, <2>1, OneLevel
  <2>3. w.of = Masks(walk, v) /\ w.kind = v.kind
    BY <2>2
  <2>4. /\ DOMAIN Masks(walk, v) = DOMAIN v.of
        /\ \A i \in DOMAIN v.of :
             /\ Masks(walk, v)[i].key = v.of[i].key
             /\ Masks(walk, v)[i].value =
                  IF v.of[i].key \in Secrets THEN Redacted ELSE walk[v.of[i].value]
             /\ Masks(walk, v)[i].value \in Nested[n - 1]
    BY <1>2, <1>4, <1>6, OneLevel
  <2> QED BY <2>2, <2>3, <2>4
<1>8. \A i \in DOMAIN v.of : /\ v.of[i].value \in Nested[n - 1]
                             /\ HidesExactly(n - 1, v.of[i].value, walk[v.of[i].value])
  BY <1>2, <1>4, <1>5, Inside
<1> HIDE DEF Good, T, w, walk
<1>9. ASSUME NEW x \in Ways[n][w], Secret(x[1]) PROVE x[2] = Redacted
  <2>1. w.kind # "scalar" /\ Ways[n][w] = {<<<<>>, w>>} \union Onwards(Ways[n - 1], w)
    BY <1>2, <1>4, <1>7, WaysAt
  <2>2. x # <<<<>>, w>>
    BY <1>9 DEF Secret
  <2> DEFINE ways == Ways[n - 1]
  <2>3. x \in Onwards(ways, w)
    BY <2>1, <2>2
  <2> HIDE DEF ways
  <2>4. PICK i \in DOMAIN w.of : \E u \in ways[w.of[i].value] : x = Onto(w, i, u)
    BY <2>1, <2>3, OnwardsAre
  <2>5. PICK u \in ways[w.of[i].value] : x = Onto(w, i, u)
    BY <2>4
  <2> USE DEF ways
  <2>6. i \in DOMAIN v.of /\ w.of[i].value \in Nested[n - 1]
    BY <1>7
  <2>7. AWay(u)
    BY <1>5, <2>6, WaysTyped
  <2>8. (w.of[i].key \in Secrets \/ Secret(u[1])) /\ x[2] = u[2]
    BY <1>2, <1>7, <1>9, <2>1, <2>5, <2>7, OntoASecret
  <2>9. CASE v.of[i].key \in Secrets
    <3>1. w.of[i].value = Redacted
      BY <1>7, <2>6, <2>9
    <3>2. u = <<<<>>, Redacted>>
      BY <1>5, <3>1, RedactedWays
    <3> QED BY <2>8, <3>2
  <2>10. CASE v.of[i].key \notin Secrets
    <3>1. w.of[i].value = walk[v.of[i].value] /\ Secret(u[1])
      BY <1>7, <2>6, <2>8, <2>10
    <3>2. u[2] = Redacted
      BY <1>8, <2>6, <3>1 DEF HidesExactly
    <3> QED BY <2>8, <3>2
  <2> QED BY <2>9, <2>10
<1>10. Open(n, w) = Open(n, v)
  <2>1. Face(w) = Face(v) /\ \A i \in DOMAIN v.of : \A y : Onto(w, i, y) = Onto(v, i, y)
    <3>1. v = [kind |-> v.kind, of |-> v.of]
      BY <1>2, <1>4, Inside
    <3> QED BY <1>4, <1>7, <3>1, SameFace
  <2>2. \A i \in DOMAIN v.of : v.of[i].key \notin Secrets =>
           Open(n - 1, w.of[i].value) = Open(n - 1, v.of[i].value)
    BY <1>7, <1>8 DEF HidesExactly
  <2>3. \A x : x \in Open(n, v) <=>
             \/ x = <<<<>>, Face(v)>>
             \/ \E i \in DOMAIN v.of : /\ v.of[i].key \notin Secrets
                                       /\ \E y \in Open(n - 1, v.of[i].value) : x = Onto(v, i, y)
    BY <1>2, <1>4, OpenAt
  <2>4. \A x : x \in Open(n, w) <=>
             \/ x = <<<<>>, Face(w)>>
             \/ \E i \in DOMAIN w.of : /\ w.of[i].key \notin Secrets
                                       /\ \E y \in Open(n - 1, w.of[i].value) : x = Onto(w, i, y)
    BY <1>2, <1>4, <1>7, OpenAt
  <2>5. \A x : x \in Open(n, w) <=>
             \/ x = <<<<>>, Face(v)>>
             \/ \E i \in DOMAIN v.of : /\ v.of[i].key \notin Secrets
                                       /\ \E y \in Open(n - 1, v.of[i].value) : x = Onto(v, i, y)
    BY <1>7, <2>1, <2>2, <2>4
  <2>6. \A x : x \in Open(n, w) <=> x \in Open(n, v)
    BY <2>3, <2>5
  <2> QED BY <2>6
<1>11. HidesExactly(n, v, w)
  BY <1>9, <1>10 DEF HidesExactly
<1> QED BY <1>3, <1>11 DEF w

\* redact hides exactly what a secret key leads to, however deep the result is
\* nested, whatever its lists and dicts hold and whichever keys are secret.
THEOREM RedactHides == \A v \in Nested[Depth] : HidesExactly(Depth, v, Masked(v))
BY WalkHides, RedactAssumption DEF Masked

-----------------------------------------------------------------------------
\* Serving: what reaches a tool, and what it replies.

\* What a tool's run has established, in the environment it ran in, while the
\* process serves and after it returned; and what it replied, if that was redacted.
Admitted ==
    Ran =>
      /\ pc \in {"serving", "exited"}
      /\ tools = Registered(env)
      /\ OverHttp => ~TransportProblems(env)
      /\ heard.message \in Messages
      /\ Reaches(heard.message)
      /\ heard.message.tool \in tools
      /\ heard.end = "ran" => heard.gave \in Results /\ heard.sent = Masked(heard.gave)

ServInv == SInv /\ Admitted

-----------------------------------------------------------------------------
LEMMA ServesWell == ServeInit => ServInv
BY StartsWell DEF ServeInit, ServInv, Admitted, Ran

\* A process that serves keeps its environment, transport and tools, and so it
\* leaves them when it returns.
LEMMA ServingStays ==
    ASSUME [Next]_upvars, pc \in {"serving", "exited"}
    PROVE  pc' \in {"serving", "exited"} /\ UNCHANGED <<env, transport, tools>>
BY DEF Next, ParseArgs, Configure, ValidateTransport, VersionGuard, BuildMcp, Serve,
       Return, Exits, ServerChanges, Rests, upvars

LEMMA NothingRan ==
    ASSUME NEW m, NEW end \in {"401", "421", "403", "passed", "unknown tool"},
           Hears(m, end, Nothing, Nothing)
    PROVE  Admitted' /\ UNCHANGED upvars
<1>1. heard'.end = end /\ UNCHANGED upvars
  BY DEF Hears
<1> QED BY <1>1 DEF Admitted, Ran

LEMMA ReceiveAdmits == SInv /\ Receive => Admitted' /\ UNCHANGED upvars
<1> SUFFICES ASSUME SInv, NEW m \in Messages,
                    \/ Unauthorized(m) \/ Misdirected(m) \/ PassesThrough(m)
                    \/ UnknownTool(m) \/ RunTool(m)
             PROVE  Admitted' /\ UNCHANGED upvars
  BY DEF Receive
<1>1. CASE Unauthorized(m) \/ Misdirected(m) \/ PassesThrough(m) \/ UnknownTool(m)
  <2>1. \E end \in {"401", "421", "403", "passed", "unknown tool"} :
            Hears(m, end, Nothing, Nothing)
    BY <1>1 DEF Unauthorized, Misdirected, PassesThrough, UnknownTool
  <2> QED BY <2>1, NothingRan
<1>2. CASE RunTool(m)
  <2>1. Reaches(m) /\ m.tool \in tools /\ pc = "serving"
    BY <1>2 DEF RunTool, Hears
  <2>2. /\ heard'.message = m /\ UNCHANGED upvars
        /\ heard'.end = "ran" => heard'.gave \in Results /\ heard'.sent = Masked(heard'.gave)
    <3>1. CASE \E r \in Results : Hears(m, "ran", r, Masked(r))
      BY <3>1 DEF Hears
    <3>2. CASE \E r \in Bare[m.tool] : Hears(m, "ran bare", r, r)
      <4>1. PICK r \in Bare[m.tool] : Hears(m, "ran bare", r, r)
        BY <3>2
      <4>2. heard'.message = m /\ heard'.end = "ran bare" /\ UNCHANGED upvars
        BY <4>1 DEF Hears
      <4> QED BY <4>2
    <3> QED BY <1>2, <3>1, <3>2 DEF RunTool
  <2>3. tools = Registered(env) /\ (OverHttp => ~TransportProblems(env))
    BY <2>1 DEF SInv, Passed, Serving
  <2>4. /\ Reaches(m)' /\ (m.tool \in tools)' /\ (pc = "serving")'
        /\ (tools = Registered(env))' /\ (OverHttp => ~TransportProblems(env))'
    BY <2>1, <2>2, <2>3 DEF Reaches, OverHttp, HostAllowed, OriginAllowed, upvars
  <2> QED BY <2>2, <2>4 DEF Admitted
<1> QED BY <1>1, <1>2

LEMMA MessageKeeps == ServInv /\ [ServeNext]_servevars => ServInv'
<1> SUFFICES ASSUME ServInv, [ServeNext]_servevars PROVE ServInv'
  OBVIOUS
<1>1. CASE Receive
  BY <1>1, ReceiveAdmits, StepKeeps DEF ServInv
<1>2. CASE [Next]_upvars /\ UNCHANGED heard
  <2>1. SInv'
    BY <1>2, StepKeeps DEF ServInv
  <2>2. Admitted'
    <3> SUFFICES ASSUME Ran PROVE Admitted'
      BY <1>2 DEF Admitted, Ran
    <3>1. pc' \in {"serving", "exited"} /\ UNCHANGED <<env, transport, tools, heard>>
      BY <1>2, ServingStays DEF ServInv, Admitted
    <3> QED BY <3>1 DEF ServInv, Admitted, Ran, Reaches, OverHttp, HostAllowed, OriginAllowed
  <2> QED BY <2>1, <2>2 DEF ServInv
<1> QED BY <1>1, <1>2 DEF ServeNext, servevars

\* The invariant behind the two theorems: what ran was admitted by the gate, the
\* allowlist and the registry, and startup's invariant holds on.
THEOREM ServingInv == ServeSpec => []ServInv
BY ServesWell, MessageKeeps, PTL DEF ServeSpec

\* Over HTTP no tool runs for a message whose first credential is not the token,
\* and none that the profile does not allow.
THEOREM OnlyAdmittedRun == ServeSpec => []OnlyAdmittedCallsRun
<1>1. ServInv => OnlyAdmittedCallsRun
  <2> SUFFICES ASSUME ServInv, Ran PROVE OnlyAdmittedCallsRun
    BY DEF OnlyAdmittedCallsRun
  <2>1. tools = Registered(env) /\ heard.message.tool \in tools
    BY DEF ServInv, Admitted
  <2>2. OverHttp => heard.message.credentials # <<>> /\ heard.message.credentials[1] = "token"
    BY DEF ServInv, Admitted, Reaches, Authorized
  <2> QED BY <2>1, <2>2 DEF OnlyAdmittedCallsRun, Registered
<1> QED BY <1>1, ServingInv, PTL

\* The branch of _transport_security without allowed hosts serves loopback only,
\* because validate_http_transport was passed before.
THEOREM RebindingAlwaysStopped == ServeSpec => []RebindingIsStopped
<1>1. ServInv => RebindingIsStopped
  <2> SUFFICES ASSUME ServInv, Ran, OverHttp PROVE RebindingIsStopped
    BY DEF RebindingIsStopped
  <2> DEFINE h == heard.message.host
  <2>1. h \in [name : STRING, port : Nat] /\ Matched(h, HostPatterns(env))
    BY ServingAssumption DEF ServInv, Admitted, Reaches, HostAllowed
  <2>2. env \in Environments /\ ~TransportProblems(env)
    BY DEF ServInv, Admitted, SInv
  <2>3. PICK q \in HostPatterns(env) : q.name = h.name
    <3>1. CASE h \in HostPatterns(env)
      BY <3>1
    <3>2. CASE [h EXCEPT !.port = AnyPort] \in HostPatterns(env)
      <4>1. [h EXCEPT !.port = AnyPort].name = h.name
        BY <2>1
      <4> QED BY <3>2, <4>1
    <3> QED BY <2>1, <3>1, <3>2 DEF Matched
  <2>4. CASE env.hosts = {}
    <3>1. env.address \in Loopback
      BY <2>2, <2>4, ServingAssumption DEF TransportProblems
    <3>2. q.name \in DefaultNames \union {env.address}
      BY <2>4 DEF HostPatterns, WithPort
    <3>3. h.name \in Loopback
      BY <2>3, <3>1, <3>2 DEF DefaultNames, Loopback
    <3> QED BY <2>4, <3>3 DEF RebindingIsStopped
  <2>5. CASE env.hosts # {}
    <3>1. q.name \in {x.name : x \in env.hosts}
      BY <2>5 DEF HostPatterns, WithPort
    <3> QED BY <2>3, <2>5, <3>1 DEF RebindingIsStopped
  <2> QED BY <2>4, <2>5
<1> QED BY <1>1, ServingInv, PTL

\* Every reply that passed redact hides exactly what a secret key leads to: the
\* walk, by induction on the nesting, applied to whatever the admitted tool gave it.
THEOREM AlwaysMasked == ServeSpec => []MaskedExactly
<1>1. ServInv => MaskedExactly
  <2> SUFFICES ASSUME ServInv, heard # Nothing, heard.end = "ran"
               PROVE  HidesExactly(Depth, heard.gave, heard.sent)
    BY DEF MaskedExactly
  <2>1. heard.gave \in Nested[Depth] /\ heard.sent = Masked(heard.gave)
    BY ServingAssumption DEF ServInv, Admitted, Ran
  <2> QED BY <2>1, RedactHides
<1> QED BY <1>1, ServingInv, PTL
=============================================================================
