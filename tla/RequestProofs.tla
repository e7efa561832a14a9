--------------------------- MODULE RequestProofs ---------------------------
(***************************************************************************)
(* What a retried request may do, for every number of concurrent calls and *)
(* every server: it is handled at most once, sleeps no longer than the     *)
(* caps allow, and its caller is told the truth.                           *)
(***************************************************************************)
EXTENDS Request, TLAPS

\* The ticks n full waits may take.
Quota(n) == n * MaxWait

\* A call that may still send has had nothing handled.
NothingYet == \A c \in Calls : pc[c] \in {"send", "sleep"} => handled[c] = 0

\* There is a retry left for a call that sleeps before one.
RetryLeft == \A c \in Calls : pc[c] = "sleep" => attempt[c] < MaxRetries

\* The calls with a response that will not be tried again, or was judged.
Final(c) == pc[c] \in {"pause", "judge"} \/ result[c] \in {"data", "error"}

\* Such a response was sent by the server that handled the request, or is the
\* 429 of the last attempt.
FinalIsFinal ==
    \A c \in Calls : Final(c) =>
      IF resp[c].status = "429"
      THEN attempt[c] = MaxRetries /\ handled[c] = 0 /\ resp[c].body # "success"
      ELSE handled[c] = 1

\* A result is given at the end, and data only for a response that is accepted.
ResultAtEnd ==
    \A c \in Calls :
      /\ pc[c] # "done" => result[c] = "none"
      /\ result[c] = "data" => Accepts(c, resp[c])

\* What a call has slept is covered by the waits of the attempts it made.
SleepSoFar ==
    \A c \in Calls :
      /\ slept[c] <= MaxSleep
      /\ pc[c] = "send" => slept[c] <= Quota(attempt[c])
      /\ pc[c] = "sleep" => slept[c] <= Quota(attempt[c] + 1)

RInv ==
    /\ TypeOK
    /\ NothingYet
    /\ HandledAtMostOnce
    /\ RetryLeft
    /\ FinalIsFinal
    /\ ResultAtEnd
    /\ SleepSoFar

-----------------------------------------------------------------------------
\* Arithmetic of the waits.
LEMMA QuotaStep ==
    ASSUME NEW n \in Nat
    PROVE  Quota(n) \in Nat /\ Quota(n + 1) = Quota(n) + MaxWait
BY RequestAssumption DEF Quota

LEMMA QuotaGrows ==
    ASSUME NEW m \in Nat, NEW n \in Nat, m <= n
    PROVE  Quota(m) <= Quota(n)
BY RequestAssumption DEF Quota

LEMMA CapsAreNat == MaxSleep \in Nat /\ SleepCap \in Nat /\ MaxSleep < SleepCap
BY RequestAssumption DEF MaxSleep, SleepCap

\* No wait asked for is longer than the cap (client.py:116).
LEMMA DelayIsCapped ==
    ASSUME NEW wait \in Waits \union {Absent}, NEW n \in Nat
    PROVE  Delay(wait, n) \in Nat /\ Delay(wait, n) <= MaxWait
BY RequestAssumption, SMT DEF Delay, AtMost

-----------------------------------------------------------------------------
THEOREM RInvInit == Init => RInv
<1> SUFFICES ASSUME Init PROVE RInv
  OBVIOUS
<1>1. TypeOK
  BY RequestAssumption, CapsAreNat DEF Init, TypeOK, Response, Statuses, Bodies
<1>2. NothingYet /\ HandledAtMostOnce /\ RetryLeft /\ FinalIsFinal /\ ResultAtEnd
  BY DEF Init, NothingYet, HandledAtMostOnce, RetryLeft, FinalIsFinal, Final, ResultAtEnd
<1>3. SleepSoFar
  <2>1. Quota(0) \in Nat /\ MaxSleep \in Nat
    BY QuotaStep, CapsAreNat
  <2>2. \A c \in Calls : slept[c] = 0 /\ attempt[c] = 0 /\ pc[c] = "send"
    BY DEF Init
  <2>3. 0 <= Quota(0) /\ 0 <= MaxSleep
    BY <2>1
  <2> QED BY <2>2, <2>3 DEF SleepSoFar
<1> QED BY <1>1, <1>2, <1>3 DEF RInv

\* The server answers within the type of its limiter, and handles a request
\* exactly when it does not refuse it.
LEMMA AnswerFacts ==
    ASSUME TypeOK, NEW c \in Calls, NEW r \in Response, Answer(c, r)
    PROVE  /\ budget' \in 0..Burst
           /\ handled' \in [Calls -> Nat]
           /\ \A d \in Calls \ {c} : handled'[d] = handled[d]
           /\ r.status = "429" => handled'[c] = handled[c] /\ r.body # "success"
           /\ r.status # "429" => handled'[c] = handled[c] + 1
<1>1. CASE r.status = "429"
  BY <1>1 DEF Answer, Limit, TypeOK
<1>2. CASE r.status # "429"
  BY <1>2, RequestAssumption DEF Answer, Handle, TypeOK
<1> QED BY <1>1, <1>2

\* A sleep changes nothing but the sleeper, and never leaves the cap.
LEMMA SleepFacts ==
    ASSUME TypeOK, NEW c \in Calls, NEW ticks \in Nat, NEW then, Sleep(c, ticks, then)
    PROVE  /\ pc' = [pc EXCEPT ![c] = then]
           /\ due' \in [Calls -> Nat]
           /\ slept' \in [Calls -> 0..SleepCap]
           /\ \A d \in Calls \ {c} : slept'[d] = slept[d]
           /\ slept'[c] <= slept[c] + ticks
BY CapsAreNat DEF Sleep, TypeOK, AtMost

LEMMA AnsweredKeepsRInv ==
    ASSUME RInv, NEW c \in Calls, Answered(c)
    PROVE  RInv'
<1>1. PICK r \in Response :
        /\ Answer(c, r)
        /\ ~Retriable(r) \/ Exhausted(attempt[c])
        /\ resp' = [resp EXCEPT ![c] = r]
        /\ Sleep(c, Pause, "pause") \/ Sleep(c, 0, "judge")
  BY DEF Answered
<1>2. TypeOK /\ pc[c] = "send" /\ UNCHANGED <<attempt, result, asked>>
  BY DEF RInv, Answered
<1>3. PICK ticks \in 0..Pause, then \in {"pause", "judge"} : Sleep(c, ticks, then)
  BY <1>1, RequestAssumption
<1>4. /\ pc' = [pc EXCEPT ![c] = then]
      /\ due' \in [Calls -> Nat]
      /\ slept' \in [Calls -> 0..SleepCap]
      /\ \A d \in Calls \ {c} : slept'[d] = slept[d]
      /\ slept'[c] <= slept[c] + ticks
  BY <1>2, <1>3, SleepFacts, RequestAssumption
<1>5. /\ budget' \in 0..Burst
      /\ handled' \in [Calls -> Nat]
      /\ \A d \in Calls \ {c} : handled'[d] = handled[d]
      /\ r.status = "429" => handled'[c] = handled[c] /\ r.body # "success"
      /\ r.status # "429" => handled'[c] = handled[c] + 1
  BY <1>1, <1>2, AnswerFacts
<1>6. handled[c] = 0 /\ result[c] = "none" /\ attempt[c] \in 0..MaxRetries
  BY <1>2 DEF RInv, NothingYet, ResultAtEnd, TypeOK
<1>7. TypeOK'
  BY <1>1, <1>2, <1>4, <1>5 DEF TypeOK
<1>8. NothingYet' /\ RetryLeft'
  BY <1>2, <1>4, <1>5 DEF RInv, NothingYet, RetryLeft, TypeOK
<1>9. HandledAtMostOnce'
  BY <1>2, <1>5, <1>6 DEF RInv, HandledAtMostOnce
<1>10. FinalIsFinal'
  <2> SUFFICES ASSUME NEW d \in Calls, Final(d)'
               PROVE  (IF resp[d].status = "429"
                       THEN attempt[d] = MaxRetries /\ handled[d] = 0
                            /\ resp[d].body # "success"
                       ELSE handled[d] = 1)'
    BY DEF FinalIsFinal
  <2>1. CASE d = c
    <3>1. resp'[c] = r
      BY <1>1, <1>2 DEF TypeOK
    <3>2. r.status = "429" => attempt[c] = MaxRetries
      BY <1>1, <1>6, RequestAssumption DEF Retriable, Exhausted
    <3> QED BY <1>2, <1>5, <1>6, <2>1, <3>1, <3>2
  <2>2. CASE d # c
    <3>1. /\ pc'[d] = pc[d] /\ resp'[d] = resp[d] /\ result' = result
          /\ attempt' = attempt /\ handled'[d] = handled[d]
      BY <1>1, <1>2, <1>4, <1>5, <2>2 DEF TypeOK
    <3>2. Final(d)
      BY <3>1 DEF Final
    <3> QED BY <3>1, <3>2 DEF RInv, FinalIsFinal
  <2> QED BY <2>1, <2>2
<1>11. ResultAtEnd'
  <2> SUFFICES ASSUME NEW d \in Calls
               PROVE  /\ pc'[d] # "done" => result'[d] = "none"
                      /\ result'[d] = "data" => Accepts(d, resp'[d])
    BY DEF ResultAtEnd, Accepts
  <2>1. CASE d = c
    BY <1>2, <1>6, <2>1
  <2>2. CASE d # c
    BY <1>1, <1>2, <1>4, <2>2 DEF RInv, ResultAtEnd, TypeOK
  <2> QED BY <2>1, <2>2
<1>12. SleepSoFar'
  <2>1. Quota(attempt[c]) <= Quota(MaxRetries) /\ Quota(attempt[c]) \in Nat
        /\ Quota(MaxRetries) \in Nat
    <3>1. attempt[c] \in Nat /\ MaxRetries \in Nat /\ attempt[c] <= MaxRetries
      BY <1>6, RequestAssumption
    <3> QED BY <3>1, QuotaGrows, QuotaStep
  <2>2. slept[c] \in Nat /\ slept[c] <= Quota(attempt[c])
    BY <1>2, CapsAreNat DEF RInv, SleepSoFar, TypeOK
  <2>3. slept'[c] <= MaxSleep
    <3>1. MaxSleep = Quota(MaxRetries) + Pause
      BY DEF MaxSleep, Quota
    <3>2. slept'[c] \in Nat
      BY <1>4, CapsAreNat
    <3> QED BY <1>4, <2>1, <2>2, <3>1, <3>2, RequestAssumption
  <2>4. pc'[c] \in {"pause", "judge"}
    BY <1>2, <1>4 DEF TypeOK
  <2> SUFFICES ASSUME NEW d \in Calls
               PROVE  /\ slept'[d] <= MaxSleep
                      /\ pc'[d] = "send" => slept'[d] <= Quota(attempt'[d])
                      /\ pc'[d] = "sleep" => slept'[d] <= Quota(attempt'[d] + 1)
    BY DEF SleepSoFar, MaxSleep, Quota
  <2>5. CASE d = c
    BY <2>3, <2>4, <2>5
  <2>6. CASE d # c
    BY <1>2, <1>4, <2>6 DEF RInv, SleepSoFar, TypeOK
  <2> QED BY <2>5, <2>6
<1> QED BY <1>7, <1>8, <1>9, <1>10, <1>11, <1>12 DEF RInv

LEMMA TryAgainKeepsRInv ==
    ASSUME RInv, NEW c \in Calls, TryAgain(c)
    PROVE  RInv'
<1>1. PICK r \in Response, wait \in Waits \union {Absent} :
        /\ Answer(c, r)
        /\ Retriable(r) /\ ~Exhausted(attempt[c])
        /\ asked' = [asked EXCEPT ![c] = IF wait = Absent THEN 0 ELSE wait]
        /\ Sleep(c, Delay(wait, attempt[c]), "sleep")
  BY DEF TryAgain
<1>2. TypeOK /\ pc[c] = "send" /\ UNCHANGED <<attempt, resp, result>>
  BY DEF RInv, TryAgain
<1>3. attempt[c] \in Nat /\ attempt[c] < MaxRetries /\ r.status = "429"
  BY <1>1, <1>2, RequestAssumption DEF TypeOK, Retriable, Exhausted
<1> DEFINE ticks == Delay(wait, attempt[c])
<1>4. ticks \in Nat /\ ticks <= MaxWait
  BY <1>3, DelayIsCapped
<1>5. /\ pc' = [pc EXCEPT ![c] = "sleep"]
      /\ due' \in [Calls -> Nat]
      /\ slept' \in [Calls -> 0..SleepCap]
      /\ \A d \in Calls \ {c} : slept'[d] = slept[d]
      /\ slept'[c] <= slept[c] + ticks
  <2> HIDE DEF ticks
  <2>1. Sleep(c, ticks, "sleep")
    BY <1>1 DEF ticks
  <2> QED BY <1>2, <1>4, <2>1, SleepFacts
<1> HIDE DEF ticks
<1>6. /\ budget' \in 0..Burst
      /\ handled' \in [Calls -> Nat]
      /\ \A d \in Calls : handled'[d] = handled[d]
  BY <1>1, <1>2, <1>3, AnswerFacts
<1>7. TypeOK'
  <2>1. asked' \in [Calls -> Nat]
    BY <1>1, <1>2, RequestAssumption DEF TypeOK
  <2> QED BY <1>1, <1>2, <1>5, <1>6, <2>1 DEF TypeOK
<1>8. NothingYet' /\ HandledAtMostOnce'
  BY <1>2, <1>5, <1>6 DEF RInv, NothingYet, HandledAtMostOnce, TypeOK
<1>9. RetryLeft'
  BY <1>2, <1>3, <1>5 DEF RInv, RetryLeft, TypeOK
<1>10. result[c] = "none"
  BY <1>2 DEF RInv, ResultAtEnd
<1>11. FinalIsFinal'
  <2> SUFFICES ASSUME NEW d \in Calls, Final(d)'
               PROVE  (IF resp[d].status = "429"
                       THEN attempt[d] = MaxRetries /\ handled[d] = 0
                            /\ resp[d].body # "success"
                       ELSE handled[d] = 1)'
    BY DEF FinalIsFinal
  <2>1. d # c
    BY <1>2, <1>5, <1>10 DEF Final, TypeOK
  <2>2. /\ pc'[d] = pc[d] /\ resp'[d] = resp[d] /\ result' = result
        /\ attempt' = attempt /\ handled'[d] = handled[d]
    BY <1>1, <1>2, <1>5, <1>6, <2>1 DEF TypeOK
  <2>3. Final(d)
    BY <2>2 DEF Final
  <2> QED BY <2>2, <2>3 DEF RInv, FinalIsFinal
<1>12. ResultAtEnd'
  <2> SUFFICES ASSUME NEW d \in Calls
               PROVE  /\ pc'[d] # "done" => result'[d] = "none"
                      /\ result'[d] = "data" => Accepts(d, resp'[d])
    BY DEF ResultAtEnd, Accepts
  <2>1. CASE d = c
    BY <1>2, <1>10, <2>1
  <2>2. CASE d # c
    BY <1>1, <1>2, <1>5, <2>2 DEF RInv, ResultAtEnd, TypeOK
  <2> QED BY <2>1, <2>2
<1>13. SleepSoFar'
  <2>1. /\ Quota(attempt[c]) \in Nat
        /\ Quota(attempt[c] + 1) = Quota(attempt[c]) + MaxWait
    BY <1>3, QuotaStep
  <2>2. Quota(attempt[c] + 1) <= Quota(MaxRetries) /\ Quota(MaxRetries) \in Nat
    <3>1. attempt[c] + 1 \in Nat /\ MaxRetries \in Nat /\ attempt[c] + 1 <= MaxRetries
      BY <1>3, RequestAssumption
    <3> QED BY <3>1, QuotaGrows, QuotaStep
  <2>3. slept[c] \in Nat /\ slept[c] <= Quota(attempt[c]) /\ slept'[c] \in Nat
    BY <1>2, <1>5, CapsAreNat DEF RInv, SleepSoFar, TypeOK
  <2>4. slept'[c] <= Quota(attempt[c] + 1)
    BY <1>4, <1>5, <2>1, <2>3, RequestAssumption
  <2>5. slept'[c] <= MaxSleep
    <3>1. MaxSleep = Quota(MaxRetries) + Pause
      BY DEF MaxSleep, Quota
    <3> QED BY <2>1, <2>2, <2>3, <2>4, <3>1, RequestAssumption
  <2> SUFFICES ASSUME NEW d \in Calls
               PROVE  /\ slept'[d] <= MaxSleep
                      /\ pc'[d] = "send" => slept'[d] <= Quota(attempt'[d])
                      /\ pc'[d] = "sleep" => slept'[d] <= Quota(attempt'[d] + 1)
    BY DEF SleepSoFar, MaxSleep, Quota
  <2>6. CASE d = c
    BY <1>2, <1>5, <2>4, <2>5, <2>6 DEF TypeOK
  <2>7. CASE d # c
    BY <1>2, <1>5, <2>7 DEF RInv, SleepSoFar, TypeOK
  <2> QED BY <2>6, <2>7
<1> QED BY <1>7, <1>8, <1>9, <1>11, <1>12, <1>13 DEF RInv

LEMMA BreaksKeepsRInv ==
    ASSUME RInv, NEW c \in Calls, Breaks(c)
    PROVE  RInv'
<1>1. /\ TypeOK /\ pc[c] = "send"
      /\ pc' = [pc EXCEPT ![c] = "done"]
      /\ result' = [result EXCEPT ![c] = "raised"]
      /\ UNCHANGED <<attempt, due, resp, asked, slept>>
  BY DEF RInv, Breaks
<1>2. /\ budget' \in 0..Burst
      /\ handled' \in [Calls -> Nat]
      /\ \A d \in Calls \ {c} : handled'[d] = handled[d]
      /\ handled'[c] \in {handled[c], handled[c] + 1}
  BY <1>1, RequestAssumption DEF Breaks, Handle, TypeOK
<1>3. handled[c] = 0
  BY <1>1 DEF RInv, NothingYet
<1>4. TypeOK'
  BY <1>1, <1>2 DEF TypeOK
<1>5. NothingYet' /\ HandledAtMostOnce' /\ RetryLeft'
  BY <1>1, <1>2, <1>3 DEF RInv, NothingYet, HandledAtMostOnce, RetryLeft, TypeOK
<1>6. \A d \in Calls : Final(d)' => d # c /\ Final(d)
  BY <1>1 DEF Final, TypeOK
<1>7. FinalIsFinal'
  BY <1>1, <1>2, <1>6 DEF RInv, FinalIsFinal, TypeOK
<1>8. ResultAtEnd'
  BY <1>1 DEF RInv, ResultAtEnd, Accepts, TypeOK
<1>9. SleepSoFar'
  BY <1>1 DEF RInv, SleepSoFar, TypeOK, MaxSleep, Quota
<1> QED BY <1>4, <1>5, <1>7, <1>8, <1>9 DEF RInv

LEMMA WakeKeepsRInv ==
    ASSUME RInv, NEW c \in Calls, Wake(c)
    PROVE  RInv'
<1>1. /\ TypeOK /\ pc[c] \in {"sleep", "pause"}
      /\ pc' = [pc EXCEPT ![c] = IF @ = "sleep" THEN "send" ELSE "judge"]
      /\ attempt' = [attempt EXCEPT ![c] = IF pc[c] = "sleep" THEN NextAttempt(@) ELSE @]
      /\ UNCHANGED <<due, resp, result, budget, handled, asked, slept>>
  BY DEF RInv, Wake
<1>2. attempt[c] \in 0..MaxRetries /\ (pc[c] = "sleep" => attempt[c] < MaxRetries)
  BY <1>1 DEF RInv, RetryLeft, TypeOK
<1>3. attempt' \in [Calls -> 0..MaxRetries]
  BY <1>1, <1>2, RequestAssumption DEF TypeOK, NextAttempt
<1>4. TypeOK'
  BY <1>1, <1>3 DEF TypeOK
<1>5. NothingYet' /\ HandledAtMostOnce' /\ RetryLeft'
  BY <1>1 DEF RInv, NothingYet, HandledAtMostOnce, RetryLeft, TypeOK
<1>6. \A d \in Calls : Final(d)' => Final(d) /\ attempt'[d] = attempt[d]
  <2> SUFFICES ASSUME NEW d \in Calls, Final(d)'
               PROVE  Final(d) /\ attempt'[d] = attempt[d]
    OBVIOUS
  <2>1. CASE d = c
    <3>1. pc[c] = "pause"
      BY <1>1, <2>1 DEF Final, RInv, ResultAtEnd, TypeOK
    <3> QED BY <1>1, <2>1, <3>1 DEF Final, TypeOK
  <2>2. CASE d # c
    BY <1>1, <2>2 DEF Final, TypeOK
  <2> QED BY <2>1, <2>2
<1>7. FinalIsFinal'
  BY <1>1, <1>6 DEF RInv, FinalIsFinal
<1>8. ResultAtEnd'
  BY <1>1 DEF RInv, ResultAtEnd, Accepts, TypeOK
<1>9. SleepSoFar'
  <2> SUFFICES ASSUME NEW d \in Calls
               PROVE  /\ slept[d] <= MaxSleep
                      /\ pc'[d] = "send" => slept[d] <= Quota(attempt'[d])
                      /\ pc'[d] = "sleep" => slept[d] <= Quota(attempt'[d] + 1)
    BY <1>1 DEF SleepSoFar, MaxSleep, Quota
  <2>1. CASE d = c
    BY <1>1, <2>1 DEF RInv, SleepSoFar, TypeOK, NextAttempt
  <2>2. CASE d # c
    BY <1>1, <2>2 DEF RInv, SleepSoFar, TypeOK
  <2> QED BY <2>1, <2>2
<1> QED BY <1>4, <1>5, <1>7, <1>8, <1>9 DEF RInv

LEMMA JudgeKeepsRInv ==
    ASSUME RInv, NEW c \in Calls, Judge(c)
    PROVE  RInv'
<1>1. /\ TypeOK /\ pc[c] = "judge"
      /\ pc' = [pc EXCEPT ![c] = "done"]
      /\ result' = [result EXCEPT ![c] = IF Accepts(c, resp[c]) THEN "data" ELSE "error"]
      /\ UNCHANGED <<attempt, due, resp, budget, handled, asked, slept>>
  BY DEF RInv, Judge
<1>2. TypeOK'
  BY <1>1 DEF TypeOK
<1>3. NothingYet' /\ HandledAtMostOnce' /\ RetryLeft'
  BY <1>1 DEF RInv, NothingYet, HandledAtMostOnce, RetryLeft, TypeOK
<1>4. \A d \in Calls : Final(d)' => Final(d)
  BY <1>1 DEF Final, TypeOK
<1>5. FinalIsFinal'
  BY <1>1, <1>4 DEF RInv, FinalIsFinal
<1>6. ResultAtEnd'
  <2> SUFFICES ASSUME NEW d \in Calls
               PROVE  /\ pc'[d] # "done" => result'[d] = "none"
                      /\ result'[d] = "data" => Accepts(d, resp[d])
    BY <1>1 DEF ResultAtEnd, Accepts
  <2>1. CASE d = c
    BY <1>1, <2>1 DEF TypeOK
  <2>2. CASE d # c
    BY <1>1, <2>2 DEF RInv, ResultAtEnd, TypeOK
  <2> QED BY <2>1, <2>2
<1>7. SleepSoFar'
  BY <1>1 DEF RInv, SleepSoFar, TypeOK, MaxSleep, Quota
<1> QED BY <1>2, <1>3, <1>5, <1>6, <1>7 DEF RInv

LEMMA TickKeepsRInv ==
    ASSUME RInv, Tick
    PROVE  RInv'
<1>1. TypeOK'
  <2>1. TypeOK
    BY DEF RInv
  <2>2. due' \in [Calls -> Nat] /\ asked' \in [Calls -> Nat]
    BY <2>1 DEF Tick, TypeOK
  <2>3. budget' \in 0..Burst
    BY <2>1, RequestAssumption DEF Tick, TypeOK, AtMost
  <2> QED BY <2>1, <2>2, <2>3 DEF Tick, TypeOK
<1>2. UNCHANGED <<pc, attempt, resp, result, handled, slept>>
  BY DEF Tick
<1> QED
  BY <1>1, <1>2 DEF RInv, NothingYet, HandledAtMostOnce, RetryLeft, FinalIsFinal,
     Final, ResultAtEnd, Accepts, SleepSoFar, MaxSleep, Quota

-----------------------------------------------------------------------------
\* The inductive invariant holds in every reachable state: what a call has slept
\* is covered by its attempts, and a response kept is final (client.py:87-168).
THEOREM RequestInv == Spec => []RInv
<1>1. RInv /\ [Next]_rvars => RInv'
  <2> SUFFICES ASSUME RInv, [Next]_rvars PROVE RInv'
    OBVIOUS
  <2>1. ASSUME NEW c \in Calls, Step(c) PROVE RInv'
    BY <2>1, AnsweredKeepsRInv, TryAgainKeepsRInv, BreaksKeepsRInv, WakeKeepsRInv,
       JudgeKeepsRInv DEF Step
  <2>2. CASE Tick
    BY <2>2, TickKeepsRInv
  <2>3. CASE UNCHANGED rvars
    BY <2>3 DEF rvars, RInv, TypeOK, NothingYet, HandledAtMostOnce, RetryLeft,
       FinalIsFinal, Final, ResultAtEnd, Accepts, SleepSoFar, MaxSleep, Quota
  <2> QED BY <2>1, <2>2, <2>3 DEF Next, AllDone
<1> QED BY RInvInit, <1>1, PTL DEF Spec

\* Every variable of a request has its type, and no request is tried more than
\* MaxRetries times again.
THEOREM RequestTypes == Spec => []TypeOK
BY RequestInv, PTL DEF RInv

\* The retry loop never has a request handled twice (client.py:109-116).
THEOREM NeverHandledTwice == Spec => []HandledAtMostOnce
BY RequestInv, PTL DEF RInv

\* Data comes only from a request that was handled and succeeded
\* (client.py:124-168).
THEOREM DataAlwaysGenuine == Spec => []DataIsGenuine
<1>1. RInv => DataIsGenuine
  <2> SUFFICES ASSUME RInv, NEW c \in Calls, result[c] = "data"
               PROVE  /\ handled[c] = 1
                      /\ \/ resp[c].body = "success"
                         \/ /\ c \in Raw /\ resp[c].body # "html"
                            /\ resp[c].status \in {"2xx", "3xx"}
    BY DEF DataIsGenuine
  <2>1. Accepts(c, resp[c]) /\ Final(c)
    BY DEF RInv, ResultAtEnd, Final
  <2>2. resp[c].status # "429"
    BY <2>1 DEF RInv, FinalIsFinal, Accepts
  <2> QED BY <2>1, <2>2 DEF RInv, FinalIsFinal, Accepts
<1> QED BY RequestInv, <1>1, PTL

\* A 429 reaches the caller only when every retry was used and nothing was
\* handled (docs/usage-guide.md section 9).
THEOREM LimitedAlwaysExhausted == Spec => []LimitedOnlyWhenExhausted
<1>1. RInv => LimitedOnlyWhenExhausted
  BY DEF RInv, FinalIsFinal, Final, LimitedOnlyWhenExhausted
<1> QED BY RequestInv, <1>1, PTL

\* Whatever the server advertises, a request sleeps no longer in all than its
\* retries and one pause allow (client.py:40, 116, 121).
THEOREM SleepAlwaysBounded == Spec => []SleepIsBounded
<1>1. RInv => SleepIsBounded
  BY DEF RInv, SleepSoFar, SleepIsBounded
<1> QED BY RequestInv, <1>1, PTL

-----------------------------------------------------------------------------
\* The end comes nearer.

\* One more retry takes a send, a capped wait and a waking.
LEMMA RetriesCount ==
    ASSUME NEW n \in 0..MaxRetries
    PROVE  /\ RetriesLeft(n) \in Nat
           /\ n < MaxRetries =>
                RetriesLeft(n + 1) \in Nat /\ RetriesLeft(n) = RetriesLeft(n + 1) + MaxWait + 2
<1>1. \A k \in Nat : k * (MaxWait + 2) \in Nat /\ (k + 1) * (MaxWait + 2) = k * (MaxWait + 2) + MaxWait + 2
  BY RequestAssumption
<1>2. MaxRetries - n \in Nat /\ (n < MaxRetries => MaxRetries - (n + 1) \in Nat)
  BY RequestAssumption
<1>3. RetriesLeft(n) \in Nat
  BY <1>1, <1>2 DEF RetriesLeft
<1>4. ASSUME n < MaxRetries
      PROVE  RetriesLeft(n + 1) \in Nat /\ RetriesLeft(n) = RetriesLeft(n + 1) + MaxWait + 2
  <2> DEFINE k == MaxRetries - (n + 1)
  <2>1. k \in Nat /\ MaxRetries - n = k + 1
    BY <1>2, <1>4, RequestAssumption
  <2>2. RetriesLeft(n + 1) = k * (MaxWait + 2)
    BY DEF RetriesLeft
  <2>3. RetriesLeft(n) = (k + 1) * (MaxWait + 2)
    BY <2>1 DEF RetriesLeft
  <2> HIDE DEF k
  <2> QED BY <1>1, <2>1, <2>2, <2>3
<1> QED BY <1>3, <1>4

\* What is left, without what is left of a sleep.
StepsAfter(where, n) ==
    CASE where = "send"  -> RetriesLeft(n) + Pause + 3
      [] where = "sleep" -> RetriesLeft(n) - MaxWait + Pause + 2
      [] where = "pause" -> 2
      [] where = "judge" -> 1
      [] where = "done"  -> 0

LEMMA StepsLeftIs == \A c \in Calls : StepsLeft(c) = due[c] + StepsAfter(pc[c], attempt[c])
BY DEF StepsLeft, StepsAfter

\* The same of the next state.
LEMMA StepsLeftWillBe ==
    \A c \in Calls : StepsLeft(c)' = due'[c] + StepsAfter(pc'[c], attempt'[c])
BY DEF StepsLeft, StepsAfter, RetriesLeft

\* What each place has ahead of it.
LEMMA Places ==
    ASSUME NEW n \in 0..MaxRetries
    PROVE  /\ StepsAfter("send", n) = RetriesLeft(n) + Pause + 3
           /\ StepsAfter("pause", n) = 2
           /\ StepsAfter("judge", n) = 1
           /\ StepsAfter("done", n) = 0
           /\ n < MaxRetries =>
                /\ StepsAfter("sleep", n) = StepsAfter("send", n + 1) + 1
                /\ StepsAfter("sleep", n) + MaxWait + 1 = StepsAfter("send", n)
                /\ StepsAfter("sleep", n) \in Nat
<1>1. /\ StepsAfter("send", n) = RetriesLeft(n) + Pause + 3
      /\ StepsAfter("pause", n) = 2
      /\ StepsAfter("judge", n) = 1
      /\ StepsAfter("done", n) = 0
      /\ StepsAfter("sleep", n) = RetriesLeft(n) - MaxWait + Pause + 2
      /\ StepsAfter("send", n + 1) = RetriesLeft(n + 1) + Pause + 3
  BY DEF StepsAfter
<1>2. /\ RetriesLeft(n) \in Nat
      /\ n < MaxRetries =>
           RetriesLeft(n + 1) \in Nat /\ RetriesLeft(n) = RetriesLeft(n + 1) + MaxWait + 2
  BY RetriesCount
<1> QED BY <1>1, <1>2, RequestAssumption

\* Wherever a call stands, that is a number of steps.
LEMMA StepsAreNat ==
    ASSUME RInv, NEW c \in Calls
    PROVE  StepsAfter(pc[c], attempt[c]) \in Nat
<1>1. /\ pc[c] \in {"send", "sleep", "pause", "judge", "done"}
      /\ attempt[c] \in 0..MaxRetries
      /\ pc[c] = "sleep" => attempt[c] < MaxRetries
  BY DEF RInv, TypeOK, RetryLeft
<1>2. RetriesLeft(attempt[c]) \in Nat
  BY <1>1, RetriesCount
<1> QED BY <1>1, <1>2, Places, RequestAssumption

LEMMA StepBringsNearer ==
    ASSUME RInv, NEW c \in Calls, Step(c)
    PROVE  StepsLeft(c)' \in 0..(StepsLeft(c) - 1)
<1>1. /\ TypeOK /\ due[c] \in Nat /\ attempt[c] \in 0..MaxRetries
      /\ pc \in [Calls -> {"send", "sleep", "pause", "judge", "done"}]
      /\ attempt \in [Calls -> 0..MaxRetries] /\ due \in [Calls -> Nat]
  BY DEF RInv, TypeOK
<1>2. /\ StepsLeft(c) = due[c] + StepsAfter(pc[c], attempt[c])
      /\ StepsLeft(c)' = due'[c] + StepsAfter(pc'[c], attempt'[c])
  BY StepsLeftIs, StepsLeftWillBe
<1>3. RetriesLeft(attempt[c]) \in Nat
  BY <1>1, RetriesCount
<1>4. StepsAfter(pc[c], attempt[c]) \in Nat
  BY StepsAreNat
<1>5. CASE Answered(c)
  <2>1. /\ pc[c] = "send" /\ attempt' = attempt
        /\ \E ticks \in 0..Pause, then \in {"pause", "judge"} :
             /\ pc' = [pc EXCEPT ![c] = then]
             /\ due' = [due EXCEPT ![c] = ticks]
    BY <1>5, RequestAssumption DEF Answered, Sleep
  <2>2. PICK ticks \in 0..Pause : \E then \in {"pause", "judge"} :
             pc' = [pc EXCEPT ![c] = then] /\ due' = [due EXCEPT ![c] = ticks]
    BY <2>1
  <2>3. pc'[c] \in {"pause", "judge"} /\ due'[c] = ticks
    BY <1>1, <2>2
  <2>4. StepsAfter(pc'[c], attempt'[c]) \in {1, 2}
    BY <1>1, <2>1, <2>3, Places
  <2>5. StepsAfter(pc[c], attempt[c]) = RetriesLeft(attempt[c]) + Pause + 3
    BY <1>1, <2>1, Places
  <2> QED BY <1>1, <1>2, <1>3, <2>3, <2>4, <2>5, RequestAssumption
<1>6. CASE TryAgain(c)
  <2>1. PICK wait \in Waits \union {Absent} :
          ~Exhausted(attempt[c]) /\ Sleep(c, Delay(wait, attempt[c]), "sleep")
    BY <1>6 DEF TryAgain
  <2>2. pc[c] = "send" /\ attempt' = attempt /\ attempt[c] < MaxRetries
    BY <1>1, <1>6, <2>1, RequestAssumption DEF TryAgain, Exhausted
  <2>3. Delay(wait, attempt[c]) \in Nat /\ Delay(wait, attempt[c]) <= MaxWait
    BY <1>1, DelayIsCapped
  <2>4. pc'[c] = "sleep" /\ due'[c] = Delay(wait, attempt[c])
    BY <1>1, <2>1 DEF Sleep
  <2>5. /\ StepsAfter("sleep", attempt[c]) + MaxWait + 1 = StepsAfter("send", attempt[c])
        /\ StepsAfter("sleep", attempt[c]) \in Nat
    BY <1>1, <2>2, Places
  <2> QED BY <1>1, <1>2, <2>2, <2>3, <2>4, <2>5, RequestAssumption
<1>7. CASE Breaks(c)
  <2>1. pc[c] = "send" /\ pc'[c] = "done" /\ due' = due /\ attempt' = attempt
    BY <1>1, <1>7 DEF Breaks
  <2> QED BY <1>1, <1>2, <1>3, <2>1, Places, RequestAssumption
<1>8. CASE Wake(c)
  <2>1. pc[c] \in {"sleep", "pause"} /\ due' = due
    BY <1>8 DEF Wake
  <2>2. CASE pc[c] = "sleep"
    <3>1. pc'[c] = "send" /\ attempt'[c] = attempt[c] + 1 /\ attempt[c] < MaxRetries
      BY <1>1, <1>8, <2>2 DEF Wake, NextAttempt, RInv, RetryLeft
    <3>2. StepsAfter("sleep", attempt[c]) = StepsAfter("send", attempt[c] + 1) + 1
      BY <1>1, <3>1, Places
    <3>3. StepsAfter("send", attempt[c] + 1) \in Nat
      <4>1. attempt[c] + 1 \in 0..MaxRetries
        BY <1>1, <3>1, RequestAssumption
      <4> QED BY <4>1, Places, RetriesCount, RequestAssumption
    <3> QED BY <1>1, <1>2, <2>1, <2>2, <3>1, <3>2, <3>3
  <2>3. CASE pc[c] = "pause"
    <3>1. pc'[c] = "judge" /\ attempt'[c] = attempt[c]
      BY <1>1, <1>8, <2>3 DEF Wake
    <3> QED BY <1>1, <1>2, <2>1, <2>3, <3>1, Places
  <2> QED BY <2>1, <2>2, <2>3
<1>9. CASE Judge(c)
  <2>1. pc[c] = "judge" /\ pc'[c] = "done" /\ due' = due /\ attempt' = attempt
    BY <1>1, <1>9 DEF Judge
  <2> QED BY <1>1, <1>2, <2>1, Places
<1> QED BY <1>5, <1>6, <1>7, <1>8, <1>9 DEF Step

\* A tick brings the sleepers nearer, and leaves the others where they are.
LEMMA TickBringsNearer ==
    ASSUME RInv, NEW c \in Calls, Tick
    PROVE  IF due[c] > 0
           THEN StepsLeft(c)' \in 0..(StepsLeft(c) - 1)
           ELSE UNCHANGED StepsLeft(c)
<1>1. due[c] \in Nat /\ due'[c] = IF due[c] > 0 THEN due[c] - 1 ELSE 0
  BY DEF RInv, TypeOK, Tick
<1>2. pc' = pc /\ attempt' = attempt
  BY DEF Tick
<1>3. /\ StepsLeft(c) = due[c] + StepsAfter(pc[c], attempt[c])
      /\ StepsLeft(c)' = due'[c] + StepsAfter(pc[c], attempt[c])
  BY <1>2, StepsLeftIs, StepsLeftWillBe
<1>4. StepsAfter(pc[c], attempt[c]) \in Nat
  BY StepsAreNat
<1> QED BY <1>1, <1>3, <1>4

\* The steps of one request leave what others have ahead of them.
LEMMA OthersAreLeft ==
    ASSUME RInv, NEW c \in Calls, NEW d \in Calls \ {c}, Step(d)
    PROVE  UNCHANGED StepsLeft(c)
<1>1. /\ pc'[c] = pc[c] /\ due'[c] = due[c] /\ attempt'[c] = attempt[c]
  <2>1. TypeOK
    BY DEF RInv
  <2>2. CASE Answered(d)
    BY <2>1, <2>2 DEF Answered, Sleep, TypeOK
  <2>3. CASE TryAgain(d)
    BY <2>1, <2>3 DEF TryAgain, Sleep, TypeOK
  <2>4. CASE Breaks(d) \/ Wake(d) \/ Judge(d)
    BY <2>1, <2>4 DEF Breaks, Wake, Judge, TypeOK
  <2> QED BY <2>2, <2>3, <2>4 DEF Step
<1> QED BY <1>1, StepsLeftIs, StepsLeftWillBe

\* Every step of a request and every tick it sleeps through brings its end nearer
\* (client.py:109-122).
THEOREM EveryStepCounted == Spec => EveryStepCounts
<1>1. ASSUME RInv, [Next]_rvars, NEW c \in Calls
      PROVE  \/ IF Step(c) \/ (Tick /\ due[c] > 0)
                THEN StepsLeft(c)' \in 0..(StepsLeft(c) - 1)
                ELSE UNCHANGED StepsLeft(c)
             \/ UNCHANGED rvars
  <2>1. CASE Step(c)
    BY <1>1, <2>1, StepBringsNearer
  <2>2. CASE Tick /\ ~Step(c)
    BY <1>1, <2>2, TickBringsNearer
  <2>3. ASSUME NEW d \in Calls \ {c}, Step(d), ~Step(c), ~Tick
        PROVE  UNCHANGED StepsLeft(c)
    BY <1>1, <2>3, OthersAreLeft
  <2> QED BY <1>1, <2>1, <2>2, <2>3 DEF Next, AllDone
<1>2. RInv /\ [Next]_rvars =>
        [\A c \in Calls :
           IF Step(c) \/ (Tick /\ due[c] > 0)
           THEN StepsLeft(c)' \in 0..(StepsLeft(c) - 1)
           ELSE UNCHANGED StepsLeft(c)]_rvars
  BY <1>1
<1> QED BY RequestInv, <1>2, PTL DEF Spec, EveryStepCounts
=============================================================================
