-------------------------- MODULE AuctionClientProofs --------------------------
(***************************************************************************)
(* Proofs about AuctionClient: its types, the rate of its requests and the *)
(* harmlessness of expired tokens, for every rate and every token life.    *)
(***************************************************************************)
EXTENDS AuctionClient, TLAPS

--------------------------------------------------------------------------------
(* Types *)

\* What the actions have in common: a slot is taken, a call ends.
LEMMA AcquireTyped == ASSUME TypeOK, Acquire PROVE wait' \in Nat /\ sleep' \in Nat /\ pc' \in Locations
BY RateAssumption DEF TypeOK, Acquire, NextSlot, Locations

LEMMA TypingStep == ASSUME TypeOK, [Next]_vars PROVE TypeOK'
<1>1. CASE Call
  BY <1>1, AcquireTyped DEF Call, TypeOK
<1>2. CASE Acquired
  BY <1>2 DEF Acquired, TypeOK, Locations
<1>3. CASE TokenKnown
  BY <1>3, AcquireTyped DEF TokenKnown, Proceed, TypeOK, Locations
<1>4. CASE TokenFetched
  BY <1>4, AcquireTyped, TokenAssumption DEF TokenFetched, Proceed, TypeOK, Locations
<1>5. CASE Send
  <2>1. <<0>> \o recent \in Seq(Nat)
    BY DEF TypeOK
  <2> QED
    BY <1>5, <2>1 DEF Send, Receptions, TypeOK, Locations
<1>6. CASE Tick
  <2>1. recent' \in Seq(Nat)
    BY <1>6 DEF Tick, TypeOK
  <2> QED
    BY <1>6, <2>1 DEF Tick, Left, TypeOK
<1>7. CASE CloseClient
  <2>1. Minute \in Nat
    BY RateAssumption DEF Minute
  <2> QED
    BY <1>7, <2>1 DEF CloseClient, Pause, TypeOK, Locations, Outcomes
<1>8. CASE TokenFails \/ TransportFails \/ Unauthorized \/ Answered
  BY <1>8 DEF TokenFails, TransportFails, Unauthorized, Answered, EndCall, TypeOK, Locations,
     Outcomes
<1>9. CASE Retry \/ StartRun
  BY <1>9 DEF Retry, StartRun, Discarded, TypeOK, Locations
<1>10. CASE UNCHANGED vars
  BY <1>10 DEF vars, TypeOK
<1> QED
  BY <1>1, <1>2, <1>3, <1>4, <1>5, <1>6, <1>7, <1>8, <1>9, <1>10 DEF Next

\* The variables keep their types, whatever the rate and the life of the tokens.
THEOREM Typing == Spec => []TypeOK
<1>1. Init => TypeOK
  BY DEF Init, TypeOK, Locations, Outcomes
<1> QED
  BY <1>1, TypingStep, PTL DEF Spec

--------------------------------------------------------------------------------
(* Expired tokens *)

\* A slot of the limiter has been taken for a request that is not sent yet.
SlotTaken == pc \in {"acquiring", "sending"} \/ (pc = "authorizing" /\ attempt = 1)

\* Only timers that are under way have time left, and the limiter never holds back the
\* next request for longer than an interval after its turn.
TimerInv ==
    /\ pc \notin {"acquiring", "asleep"} => sleep = 0
    /\ pc = "asleep" => wait = 0
    /\ wait <= Interval + (IF pc = "acquiring" THEN sleep ELSE 0)
    /\ pc = "acquiring" => sleep <= Interval

\* The token of a second attempt is new, and outlives the wait for the slot.
TokenInv ==
    /\ attempt = 2 /\ pc = "authorizing" => token = NoToken
    /\ attempt = 2 /\ pc = "acquiring" => token # NoToken /\ token > sleep
    /\ attempt = 2 /\ pc = "sending" => token # NoToken /\ token > 0
    /\ attempt = 2 => pc # "expired"
    /\ ExpiryIsInvisible

LEMMA TimerStep == ASSUME TypeOK, TimerInv, [Next]_vars PROVE TimerInv'
<1> USE RateAssumption
<1>1. CASE Call \/ TokenKnown \/ TokenFetched
  BY <1>1 DEF Call, TokenKnown, TokenFetched, Proceed, Acquire, NextSlot, TypeOK, TimerInv
<1>2. CASE Acquired \/ StartRun
  BY <1>2 DEF Acquired, StartRun, TypeOK, TimerInv
<1>3. CASE TokenFails \/ Send \/ TransportFails \/ Retry \/ Unauthorized \/ Answered
  BY <1>3 DEF TokenFails, Send, Receptions, TransportFails, Retry, Unauthorized, Answered, EndCall, TypeOK,
     TimerInv
<1>4. CASE CloseClient
  BY <1>4 DEF CloseClient, TypeOK, TimerInv
<1>5. CASE Tick
  BY <1>5 DEF Tick, Idling, Left, TypeOK, TimerInv
<1>6. CASE UNCHANGED vars
  BY <1>6 DEF vars, TimerInv
<1> QED
  BY <1>1, <1>2, <1>3, <1>4, <1>5, <1>6 DEF Next

LEMMA TokenStep ==
    ASSUME TypeOK, TimerInv, TokenInv, [Next]_vars PROVE TokenInv'
<1> USE TokenAssumption DEF ExpiryIsInvisible, TokenInv
<1>1. CASE Call
  BY <1>1 DEF Call, Acquire
<1>2. CASE Acquired
  BY <1>2 DEF Acquired, TypeOK
<1>3. CASE TokenKnown
  BY <1>3 DEF TokenKnown, Proceed, Acquire, TypeOK
<1>4. CASE TokenFetched
  BY <1>4, RateAssumption DEF TokenFetched, Proceed, Acquire, TypeOK, TimerInv
<1>5. CASE TokenFails \/ TransportFails \/ Answered \/ Unauthorized
  BY <1>5 DEF TokenFails, TransportFails, Answered, Unauthorized, EndCall
<1>6. CASE Send
  BY <1>6 DEF Send, Receptions
<1>7. CASE Retry
  BY <1>7 DEF Retry, Discarded
<1>8. CASE CloseClient \/ StartRun
  BY <1>8 DEF CloseClient, StartRun, TypeOK
<1>9. CASE Tick
  BY <1>9 DEF Tick, Idling, Left, TypeOK
<1>10. CASE UNCHANGED vars
  BY <1>10 DEF vars
<1> QED
  BY <1>1, <1>2, <1>3, <1>4, <1>5, <1>6, <1>7, <1>8, <1>9, <1>10 DEF Next

\* A call never fails because its token has expired, wherever in the call it expires
\* (auction_client.py:95-103).
THEOREM ExpiryStaysInvisible == Spec => []ExpiryIsInvisible
<1>1. Init => TypeOK /\ TimerInv /\ TokenInv
  BY RateAssumption DEF Init, TypeOK, Locations, Outcomes, TimerInv, TokenInv, ExpiryIsInvisible
<1>2. TypeOK /\ TimerInv /\ TokenInv /\ [Next]_vars => (TypeOK /\ TimerInv /\ TokenInv)'
  BY TypingStep, TimerStep, TokenStep
<1>3. TokenInv => ExpiryIsInvisible
  BY DEF TokenInv
<1> QED
  BY <1>1, <1>2, <1>3, PTL DEF Spec

--------------------------------------------------------------------------------
(* The rate *)

\* The distances between the requests of the last minute, as ages: the i-th last one lies
\* at least i - 2 intervals back, and the slots given since push it further.
SpacingInv ==
    \A i \in DOMAIN recent :
        /\ recent[i] < Minute
        /\ recent[i] >= (i - 2) * Interval
        /\ SlotTaken => /\ recent[i] + sleep >= (i - 1) * Interval
                        /\ recent[i] + wait >= i * Interval
        /\ ~SlotTaken /\ pc # "asleep" => recent[i] + wait >= (i - 1) * Interval
        /\ pc = "asleep" => recent[i] + sleep >= Minute

\* Multiples of the interval.
LEMMA Multiples ==
    ASSUME NEW i \in Int
    PROVE  /\ i * Interval \in Int
           /\ (i - 1) * Interval = i * Interval - Interval
           /\ (i - 2) * Interval = i * Interval - 2 * Interval
BY RateAssumption

\* A step that leaves the ages alone and takes no time off the limiter's books.
LEMMA SpacingKept ==
    ASSUME TypeOK, SpacingInv, recent' = recent,
           \A i \in DOMAIN recent :
             /\ SlotTaken' => /\ recent[i] + sleep' >= (i - 1) * Interval
                              /\ recent[i] + wait' >= i * Interval
             /\ ~SlotTaken' /\ pc' # "asleep" => recent[i] + wait' >= (i - 1) * Interval
             /\ pc' = "asleep" => recent[i] + sleep' >= Minute
    PROVE  SpacingInv'
BY DEF SpacingInv, Minute

LEMMA SpacingStep ==
    ASSUME TypeOK, TimerInv, SpacingInv, [Next]_vars PROVE SpacingInv'
<1>1. \A i \in DOMAIN recent : recent[i] \in Nat /\ i \in Int
  BY DEF TypeOK
<1>2. Interval \in Nat /\ Interval > 0 /\ Minute \in Nat
  BY RateAssumption DEF Minute
<1>3. ASSUME ~SlotTaken, pc # "asleep", Acquire, SlotTaken', recent' = recent, pc' # "asleep"
      PROVE  SpacingInv'
  BY <1>1, <1>2, <1>3, Multiples, SpacingKept DEF SpacingInv, Acquire, NextSlot, TypeOK
<1>4. CASE Call
  BY <1>3, <1>4 DEF Call, Acquire, SlotTaken
<1>5. CASE Acquired
  BY <1>1, <1>5, SpacingKept DEF Acquired, SpacingInv, SlotTaken, TypeOK
<1>6. CASE TokenKnown \/ TokenFetched
  <2>1. CASE attempt = 1
    BY <1>1, <1>6, <2>1, SpacingKept DEF TokenKnown, TokenFetched, Proceed, SpacingInv, SlotTaken
  <2>2. CASE attempt = 2
    BY <1>3, <1>6, <2>2 DEF TokenKnown, TokenFetched, Proceed, Acquire, SlotTaken
  <2> QED
    BY <2>1, <2>2 DEF TypeOK
<1>7. CASE TokenFails \/ TransportFails \/ Retry \/ Unauthorized \/ Answered
  <2>1. /\ recent' = recent /\ wait' = wait /\ ~SlotTaken' /\ pc' # "asleep" /\ pc # "asleep"
    BY <1>7 DEF TokenFails, TransportFails, Retry, Unauthorized, Answered, EndCall, SlotTaken
  <2>2. ASSUME NEW i \in DOMAIN recent PROVE recent[i] + wait >= (i - 1) * Interval
    <3>1. CASE SlotTaken
      <4>1. recent[i] + wait >= i * Interval
        BY <3>1 DEF SpacingInv
      <4>2. i \in Nat /\ i > 0 /\ recent[i] \in Nat /\ wait \in Nat
        BY <1>1 DEF TypeOK
      <4>3. i * Interval >= (i - 1) * Interval
        BY <1>2, <4>2, Multiples
      <4> QED
        BY <1>2, <4>1, <4>2, <4>3
    <3>2. CASE ~SlotTaken
      BY <2>1, <3>2 DEF SpacingInv
    <3> QED
      BY <3>1, <3>2
  <2> QED
    BY <2>1, <2>2, SpacingKept
<1>8. CASE Send
  <2>1. recent' = <<0>> \o recent /\ wait' = wait /\ ~SlotTaken' /\ pc' # "asleep"
    BY <1>8 DEF Send, Receptions, SlotTaken
  <2>2. SlotTaken /\ sleep = 0
    BY <1>8 DEF Send, SlotTaken, TimerInv
  <2>3. SUFFICES ASSUME NEW i \in DOMAIN recent'
                 PROVE  /\ recent'[i] < Minute
                        /\ recent'[i] >= (i - 2) * Interval
                        /\ recent'[i] + wait >= (i - 1) * Interval
    BY <2>1 DEF SpacingInv, Minute
  <2>4. CASE i = 1
    BY <1>2, <2>1, <2>4, RateAssumption DEF TypeOK, Minute
  <2>5. CASE i # 1
    <3>1. i - 1 \in DOMAIN recent /\ recent'[i] = recent[i - 1] /\ i \in Int
      BY <2>1, <2>5 DEF TypeOK
    <3>2. /\ recent[i - 1] < Minute
          /\ recent[i - 1] + sleep >= (i - 1 - 1) * Interval
          /\ recent[i - 1] + wait >= (i - 1) * Interval
      BY <2>2, <3>1 DEF SpacingInv
    <3>3. i - 1 - 1 = i - 2 /\ recent[i - 1] + sleep = recent[i - 1]
      BY <1>1, <2>2, <3>1
    <3> QED
      BY <3>1, <3>2, <3>3
  <2> QED
    BY <2>4, <2>5
<1>9. CASE CloseClient
  BY <1>1, <1>2, <1>9, SpacingKept DEF CloseClient, Pause, SlotTaken
<1>10. CASE StartRun
  <2>1. \A i \in DOMAIN recent : FALSE
    BY <1>1, <1>2, <1>10 DEF StartRun, SpacingInv
  <2> QED
    BY <1>10, <2>1, SpacingKept DEF StartRun
<1>11. CASE Tick
  <2>1. PICK n \in 0..Len(recent) :
            /\ \A i \in 1..n : recent[i] + 1 < Minute
            /\ recent' = [i \in 1..n |-> recent[i] + 1]
    BY <1>11 DEF Tick
  <2>2. pc' = pc /\ attempt' = attempt /\ (SlotTaken' <=> SlotTaken)
    BY <1>11 DEF Tick, SlotTaken
  <2>3. wait' >= wait - 1 /\ wait' \in Nat /\ sleep' >= sleep - 1 /\ sleep' \in Nat
    BY <1>11 DEF Tick, Left, TypeOK
  <2>4. SUFFICES ASSUME NEW i \in 1..n
                 PROVE  /\ recent[i] + 1 < Minute
                        /\ recent[i] + 1 >= (i - 2) * Interval
                        /\ SlotTaken => /\ recent[i] + 1 + sleep' >= (i - 1) * Interval
                                        /\ recent[i] + 1 + wait' >= i * Interval
                        /\ ~SlotTaken /\ pc # "asleep" =>
                             recent[i] + 1 + wait' >= (i - 1) * Interval
                        /\ pc = "asleep" => recent[i] + 1 + sleep' >= Minute
    BY <2>1, <2>2 DEF SpacingInv, Minute
  <2>5. i \in DOMAIN recent
    BY <2>1 DEF TypeOK
  <2>6. /\ i * Interval \in Int /\ (i - 1) * Interval \in Int /\ (i - 2) * Interval \in Int
    BY <1>2
  <2>7. /\ recent[i] >= (i - 2) * Interval
        /\ SlotTaken => recent[i] + sleep >= (i - 1) * Interval /\ recent[i] + wait >= i * Interval
        /\ ~SlotTaken /\ pc # "asleep" => recent[i] + wait >= (i - 1) * Interval
        /\ pc = "asleep" => recent[i] + sleep >= Minute
    BY <2>5 DEF SpacingInv
  <2>8. recent[i] \in Nat /\ wait \in Nat /\ sleep \in Nat
    BY <1>1, <2>5 DEF TypeOK
  <2>9. ASSUME NEW a \in Int, NEW b \in Nat, NEW c \in Nat, c >= b - 1, recent[i] + b >= a
        PROVE  recent[i] + 1 + c >= a
    BY <2>8, <2>9
  <2>10. recent[i] + 1 >= (i - 2) * Interval
    BY <2>6, <2>7, <2>8
  <2>11. SlotTaken => /\ recent[i] + 1 + sleep' >= (i - 1) * Interval
                     /\ recent[i] + 1 + wait' >= i * Interval
    BY <2>3, <2>6, <2>7, <2>8, <2>9
  <2>12. ~SlotTaken /\ pc # "asleep" => recent[i] + 1 + wait' >= (i - 1) * Interval
    BY <2>3, <2>6, <2>7, <2>8, <2>9
  <2>13. pc = "asleep" => recent[i] + 1 + sleep' >= Minute
    BY <1>2, <2>3, <2>7, <2>8, <2>9
  <2> QED
    BY <2>1, <2>10, <2>11, <2>12, <2>13
<1>12. CASE UNCHANGED vars
  BY <1>12 DEF vars, SpacingInv, SlotTaken, Minute
<1> QED
  BY <1>4, <1>5, <1>6, <1>7, <1>8, <1>9, <1>10, <1>11, <1>12 DEF Next

LEMMA SpacingBoundsRate == ASSUME TypeOK, SpacingInv PROVE RateKept
<1> DEFINE n == Len(recent)
<1>1. SUFFICES ASSUME n >= RequestsPerMinute + 2 PROVE FALSE
  BY RateAssumption DEF RateKept, TypeOK
<1>2. n \in DOMAIN recent /\ n \in Nat
  BY <1>1, RateAssumption DEF TypeOK
<1>3. recent[n] < RequestsPerMinute * Interval /\ recent[n] >= (n - 2) * Interval /\ recent[n] \in Nat
  BY <1>2 DEF SpacingInv, Minute, TypeOK
<1>4. (n - 2) * Interval >= RequestsPerMinute * Interval
  <2>1. PICK k \in Nat : n - 2 = RequestsPerMinute + k
    <3>1. n - 2 - RequestsPerMinute \in Nat
      BY <1>1, <1>2, RateAssumption
    <3>2. n - 2 = RequestsPerMinute + (n - 2 - RequestsPerMinute)
      BY <1>2, RateAssumption
    <3> QED
      BY <3>1, <3>2
  <2>2. (RequestsPerMinute + k) * Interval = RequestsPerMinute * Interval + k * Interval
    BY RateAssumption
  <2>3. k * Interval >= 0 /\ RequestsPerMinute * Interval \in Nat /\ k * Interval \in Nat
    BY RateAssumption
  <2> QED
    BY <2>1, <2>2, <2>3
<1>5. RequestsPerMinute * Interval \in Nat /\ (n - 2) * Interval \in Int
  BY <1>2, RateAssumption
<1> QED
  BY <1>3, <1>4, <1>5

\* No minute sees more than one request above the rate, for every rate, whatever the
\* delays, retries and failures (AuctionRateLimiter.acquire, auction_client.py:27-34).
THEOREM RateStaysKept == Spec => []RateKept
<1>1. Init => TypeOK /\ TimerInv /\ SpacingInv
  BY RateAssumption DEF Init, TypeOK, Locations, Outcomes, TimerInv, SpacingInv
<1>2. TypeOK /\ TimerInv /\ SpacingInv /\ [Next]_vars => (TypeOK /\ TimerInv /\ SpacingInv)'
  BY TypingStep, TimerStep, SpacingStep
<1>3. TypeOK /\ SpacingInv => RateKept
  BY SpacingBoundsRate
<1> QED
  BY <1>1, <1>2, <1>3, PTL DEF Spec
================================================================================
