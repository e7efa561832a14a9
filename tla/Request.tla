------------------------------ MODULE Request ------------------------------
(***************************************************************************)
(* ScanopyClient._request (client.py): every HTTP request of Arborist, its *)
(* retries after a 429 and its judgement of the final response.  Requests  *)
(* of concurrent tool calls share one rate limiter, which is the server's. *)
(*                                                                         *)
(* Time is counted in ticks.  A sleep ends no earlier than it was asked    *)
(* for; the limiter earns one request per tick, up to Burst.               *)
(***************************************************************************)
EXTENDS Integers

CONSTANTS
    Calls,       \* concurrent requests
    Raw,         \* those made with raw_text=True
    MaxRetries,  \* _MAX_RETRIES
    MaxWait,     \* _MAX_RETRY_WAIT_S, in ticks
    Backoff,     \* the unit of the waits when there is no Retry-After
    Pause,       \* the proactive pause
    LowBudget,   \* an X-RateLimit-Remaining this low causes the pause
    Waits,       \* the Retry-After values the server may send
    Absent,      \* a header that is not there, or is not a number
    Burst        \* bound: requests the limiter grants without a tick

ASSUME RequestAssumption ==
    /\ {MaxRetries, MaxWait, Backoff, Pause, LowBudget, Burst} \subseteq Nat
    /\ Waits \subseteq Nat
    /\ Absent \notin Nat
    /\ Raw \subseteq Calls

VARIABLES
    pc,       \* send, sleep, pause, judge, done
    attempt,  \* retries made so far
    due,      \* ticks left of a sleep
    resp,     \* the response in hand
    result,   \* what the caller got: data, error, or raised (transport)
    budget,   \* the limiter: requests it would grant now
    handled,  \* history: times the server handled the request
    asked,    \* history: ticks left of the Retry-After it last sent
    slept     \* history: ticks of sleep asked for, counted up to SleepCap

rvars == <<pc, attempt, due, resp, result, budget, handled, asked, slept>>

\* "success" is a JSON envelope that says so; "other" any other JSON or text.
Bodies == {"success", "html", "other"}
Statuses == {"2xx", "3xx", "429", "other"}
Response == [status : Statuses, body : Bodies]

-----------------------------------------------------------------------------
\* Mutant of Retriable: any failure is sent again.
AnyFailure(r) == r.status # "2xx"

\* Only a 429 is sent again.
Retriable(r) == r.status = "429"

\* Mutant of Exhausted: one retry less than allowed.
ExhaustedEarly(n) == n + 1 >= MaxRetries

\* Mutant of Exhausted: one retry more.
ExhaustedLate(n) == n > MaxRetries

\* The attempt just made was the last one.
Exhausted(n) == n >= MaxRetries

AtMost(n, bound) == IF n <= bound THEN n ELSE bound

\* The longest a request should sleep in all, and bound: one tick more.
MaxSleep == MaxRetries * MaxWait + Pause
SleepCap == MaxSleep + 1

\* Mutant of NextAttempt: the attempts are not counted.
SameAttempt(n) == n

NextAttempt(n) == n + 1

\* Mutant of Delay: the wait is not capped.
UncappedDelay(wait, n) == IF wait = Absent THEN Backoff * (n + 1) ELSE wait

\* How long to sleep before retry n + 1, given the Retry-After of the 429.
Delay(wait, n) ==
    AtMost(IF wait = Absent THEN Backoff * (n + 1) ELSE wait, MaxWait)

\* Mutant of Accepts: the status alone decides.
AcceptsStatus(c, r) == r.status = "2xx"

\* Which responses are returned as data: text where text was asked for, from a
\* status below 400, and otherwise only a JSON envelope that says success.
Accepts(c, r) ==
    \/ c \in Raw /\ r.status \in {"2xx", "3xx"} /\ r.body # "html"
    \/ r.body = "success"

-----------------------------------------------------------------------------
Sleep(c, ticks, then) ==
    /\ pc' = [pc EXCEPT ![c] = then]
    /\ due' = [due EXCEPT ![c] = ticks]
    /\ slept' = [slept EXCEPT ![c] = AtMost(@ + ticks, SleepCap)]

\* The server (external): within the budget it handles the request and may
\* answer anything; beyond it, it answers 429 and does nothing else.
Handle(c) ==
    /\ budget > 0
    /\ budget' = budget - 1
    /\ handled' = [handled EXCEPT ![c] = @ + 1]

Limit(c) ==
    /\ budget = 0
    /\ UNCHANGED <<budget, handled>>

Answer(c, r) ==
    IF r.status = "429" THEN Limit(c) /\ r.body # "success" ELSE Handle(c)

\* The request is sent and answered with a response that is not tried again.
\* A budget nearly spent delays the caller, where X-RateLimit-Remaining tells it.
Answered(c) ==
    /\ pc[c] = "send"
    /\ \E r \in Response :
         /\ Answer(c, r)
         /\ ~Retriable(r) \/ Exhausted(attempt[c])
         /\ resp' = [resp EXCEPT ![c] = r]
         /\ \E left \in {budget', Absent} :
              IF left # Absent /\ left <= LowBudget
              THEN Sleep(c, Pause, "pause")
              ELSE Sleep(c, 0, "judge")
    /\ UNCHANGED <<attempt, result, asked>>

\* The request is sent and answered with a response that is tried again, and
\* of which only the Retry-After is kept.
TryAgain(c) ==
    /\ pc[c] = "send"
    /\ \E r \in Response : \E wait \in Waits \union {Absent} :
         /\ Answer(c, r)
         /\ Retriable(r) /\ ~Exhausted(attempt[c])
         /\ asked' = [asked EXCEPT ![c] = IF wait = Absent THEN 0 ELSE wait]
         /\ Sleep(c, Delay(wait, attempt[c]), "sleep")
    /\ UNCHANGED <<attempt, resp, result>>

\* The connection fails or times out, before or after the server handled the
\* request; httpx raises and nothing is sent again.
Breaks(c) ==
    /\ pc[c] = "send"
    /\ Handle(c) \/ UNCHANGED <<budget, handled>>
    /\ pc' = [pc EXCEPT ![c] = "done"]
    /\ result' = [result EXCEPT ![c] = "raised"]
    /\ UNCHANGED <<attempt, due, resp, asked, slept>>

Wake(c) ==
    /\ pc[c] \in {"sleep", "pause"}
    /\ due[c] = 0
    /\ pc' = [pc EXCEPT ![c] = IF @ = "sleep" THEN "send" ELSE "judge"]
    /\ attempt' = [attempt EXCEPT ![c] = IF pc[c] = "sleep" THEN NextAttempt(@) ELSE @]
    /\ UNCHANGED <<due, resp, result, budget, handled, asked, slept>>

Judge(c) ==
    /\ pc[c] = "judge"
    /\ pc' = [pc EXCEPT ![c] = "done"]
    /\ result' = [result EXCEPT ![c] = IF Accepts(c, resp[c]) THEN "data" ELSE "error"]
    /\ UNCHANGED <<attempt, due, resp, budget, handled, asked, slept>>

\* A tick passes; nothing needs one unless somebody sleeps.
Tick ==
    /\ \E c \in Calls : due[c] > 0
    /\ due' = [c \in Calls |-> IF due[c] > 0 THEN due[c] - 1 ELSE 0]
    /\ asked' = [c \in Calls |-> IF asked[c] > 0 THEN asked[c] - 1 ELSE 0]
    /\ budget' = AtMost(budget + 1, Burst)
    /\ UNCHANGED <<pc, attempt, resp, result, handled, slept>>

Step(c) == Answered(c) \/ TryAgain(c) \/ Breaks(c) \/ Wake(c) \/ Judge(c)

AllDone ==
    /\ \A c \in Calls : pc[c] = "done"
    /\ UNCHANGED rvars

Init ==
    /\ pc = [c \in Calls |-> "send"]
    /\ attempt = [c \in Calls |-> 0]
    /\ due = [c \in Calls |-> 0]
    /\ resp = [c \in Calls |-> [status |-> "other", body |-> "other"]]
    /\ result = [c \in Calls |-> "none"]
    /\ budget \in 0..Burst
    /\ handled = [c \in Calls |-> 0]
    /\ asked = [c \in Calls |-> 0]
    /\ slept = [c \in Calls |-> 0]

Next == (\E c \in Calls : Step(c)) \/ Tick \/ AllDone

Spec == Init /\ [][Next]_rvars

\* Time passes, and the event loop resumes a call whose response came or whose
\* sleep is over.
FairSpec == Spec /\ WF_rvars(Tick) /\ \A c \in Calls : WF_rvars(Step(c))

-----------------------------------------------------------------------------
\* Properties.

\* Every variable has its type.
TypeOK ==
    /\ pc \in [Calls -> {"send", "sleep", "pause", "judge", "done"}]
    /\ attempt \in [Calls -> 0..MaxRetries]
    /\ due \in [Calls -> Nat]
    /\ resp \in [Calls -> Response]
    /\ result \in [Calls -> {"none", "data", "error", "raised"}]
    /\ budget \in 0..Burst
    /\ handled \in [Calls -> Nat]
    /\ asked \in [Calls -> Nat]
    /\ slept \in [Calls -> 0..SleepCap]

\* The retry loop never has one request handled twice, which is what makes it
\* safe around a PUT or a POST (client.py:109-116).
HandledAtMostOnce == \A c \in Calls : handled[c] <= 1

\* A caller gets data only from a request the server handled, and told it so:
\* never from the HTML of the web UI or a refusal (client.py:124-168).  Where text
\* was asked for a redirect counts as an answer.
DataIsGenuine ==
    \A c \in Calls :
      result[c] = "data" =>
        /\ handled[c] = 1
        /\ \/ resp[c].body = "success"
           \/ /\ c \in Raw /\ resp[c].body # "html"
              /\ resp[c].status \in {"2xx", "3xx"}

\* A caller sees a 429 only when every retry was used and nothing was handled
\* (docs/usage-guide.md section 9: "retries were exhausted").
LimitedOnlyWhenExhausted ==
    \A c \in Calls :
      pc[c] = "done" /\ result[c] = "error" /\ resp[c].status = "429" =>
        attempt[c] = MaxRetries /\ handled[c] = 0

\* A request never sleeps longer in all than the caps allow, whatever the
\* server advertises (client.py:40, 116, 121).
SleepIsBounded == \A c \in Calls : slept[c] <= MaxSleep

\* The steps a request takes at most until it ends, with the ticks it sleeps:
\* per retry left a send, a wait and a waking; then a send, a pause, a waking and
\* the judgement.
RetriesLeft(n) == (MaxRetries - n) * (MaxWait + 2)

StepsLeft(c) ==
    due[c] + CASE pc[c] = "send"  -> RetriesLeft(attempt[c]) + Pause + 3
               [] pc[c] = "sleep" -> RetriesLeft(attempt[c]) - MaxWait + Pause + 2
               [] pc[c] = "pause" -> 2
               [] pc[c] = "judge" -> 1
               [] pc[c] = "done"  -> 0

\* Every step of a request, and every tick it sleeps through, brings its end
\* nearer, and no other request puts it off: the loop of client.py:109-122 ends
\* after MaxRetries * (MaxWait + 2) + Pause + 3 steps and ticks at most.
EveryStepCounts ==
    [][\A c \in Calls :
         IF Step(c) \/ (Tick /\ due[c] > 0)
         THEN StepsLeft(c)' \in 0..(StepsLeft(c) - 1)
         ELSE UNCHANGED StepsLeft(c)]_rvars

\* Every request ends, however the limiter behaves.
RequestEnds == \A c \in Calls : <>(pc[c] = "done")

\* client.py:5 and docs/usage-guide.md section 9: 429s are retried honouring
\* Retry-After, so a retry is never sent before the advertised wait is over.
RetryAfterHonoured == \A c \in Calls : pc[c] = "send" => asked[c] = 0
=============================================================================
