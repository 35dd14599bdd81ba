----------------------------- MODULE AuctionClient -----------------------------
(***************************************************************************)
(* The client of the auction API: the rate limiter, the access token that  *)
(* it keeps until the API answers 401, and the one retry after such an     *)
(* answer.  A run of the auction synchronisation makes a client, calls it  *)
(* sequentially and closes it; the scheduler sleeps for at least a minute  *)
(* before the next run.                                                    *)
(*                                                                         *)
(* Instants are kept relative to now, in ticks: how long the limiter holds *)
(* back the next request, how long the sleep under way still takes, how    *)
(* long the token will live, how long ago a request was sent.              *)
(* A token or an answer may take any number of ticks to come; a timer that *)
(* is over is served before the next tick.                                 *)
(***************************************************************************)
EXTENDS Integers, Sequences

CONSTANTS
    RequestsPerMinute,
    Interval,       \* _interval, in ticks
    TokenLife,      \* ticks for which a new token lives
    NoToken         \* None

ASSUME RateAssumption == RequestsPerMinute \in Nat \ {0} /\ Interval \in Nat \ {0}
\* A new token lives longer than the limiter may hold a request back.
ASSUME TokenAssumption == TokenLife \in Nat /\ TokenLife > Interval /\ NoToken \notin Nat

\* _interval is 60 / requests_per_minute.
Minute == RequestsPerMinute * Interval

VARIABLES
    wait,       \* until _next_request_at, 0 when it has passed
    sleep,      \* until the sleep under way is over
    token,      \* _token: its life left, or NoToken
    pc,
    attempt,    \* 2 after an answer 401
    outcome,    \* how the last call of _get ended
    recent      \* history: ages of the requests of the last minute, newest first

vars == <<wait, sleep, token, pc, attempt, outcome, recent>>

Init ==
    /\ wait = 0 /\ sleep = 0 /\ token = NoToken
    /\ pc = "idle" /\ attempt = 1 /\ outcome = "none" /\ recent = <<>>

--------------------------------------------------------------------------------
(* AuctionClient._get *)

\* Mutation: the next slot is counted from now, not from the slot just given.
SlotFromNow == Interval

NextSlot == wait + Interval

\* AuctionRateLimiter.acquire, up to its sleep.
Acquire ==
    /\ sleep' = wait
    /\ wait' = NextSlot
    /\ pc' = "acquiring"

\* get_lots or get_history.  An error that is no AuctionApiError has ended the run.
Call ==
    /\ pc = "idle" /\ outcome \notin {"token_error", "transport_error"}
    /\ Acquire
    /\ attempt' = 1
    /\ UNCHANGED <<token, outcome, recent>>

\* The first attempt goes on to ask for the token, the second one has it.
Acquired ==
    /\ pc = "acquiring" /\ sleep = 0
    /\ pc' = IF attempt = 1 THEN "authorizing" ELSE "sending"
    /\ UNCHANGED <<wait, sleep, token, attempt, outcome, recent>>

\* _get_token is back: the first attempt is sent, the second one acquires first.
Proceed ==
    IF attempt = 1 THEN pc' = "sending" /\ UNCHANGED <<wait, sleep>> ELSE Acquire

TokenKnown ==
    /\ pc = "authorizing" /\ token # NoToken
    /\ Proceed
    /\ UNCHANGED <<token, attempt, outcome, recent>>

TokenFetched ==
    /\ pc = "authorizing" /\ token = NoToken
    /\ token' = TokenLife
    /\ Proceed
    /\ UNCHANGED <<attempt, outcome, recent>>

EndCall(result) == pc' = "idle" /\ outcome' = result

\* get_access_token raises: no AuctionApiError.
TokenFails ==
    /\ pc = "authorizing" /\ token = NoToken
    /\ EndCall("token_error")
    /\ UNCHANGED <<wait, sleep, token, attempt, recent>>

\* How the API takes a request: it rejects an expired token, and may have revoked another.
Receptions == IF token > 0 THEN {"accepted", "revoked"} ELSE {"expired"}

\* The API looks at the token when the request arrives.
Send ==
    /\ pc = "sending"
    /\ recent' = <<0>> \o recent
    /\ pc' \in Receptions
    /\ UNCHANGED <<wait, sleep, token, attempt, outcome>>

\* No response: the exception of the HTTP library is not caught in _get.
TransportFails ==
    /\ pc \in {"accepted", "revoked", "expired"}
    /\ EndCall("transport_error")
    /\ UNCHANGED <<wait, sleep, token, attempt, recent>>

\* Mutation: the rejected token is kept.
Kept == token

\* The token after an answer 401.
Discarded == NoToken

Retry ==
    /\ pc \in {"revoked", "expired"} /\ attempt = 1
    /\ token' = Discarded
    /\ attempt' = 2 /\ pc' = "authorizing"
    /\ UNCHANGED <<wait, sleep, outcome, recent>>

\* A second 401 is an AuctionApiError like any other status.
Unauthorized ==
    /\ pc \in {"revoked", "expired"} /\ attempt = 2
    /\ EndCall(pc)
    /\ UNCHANGED <<wait, sleep, token, attempt, recent>>

\* A payload that can be parsed, or else an AuctionApiError.
Answered ==
    /\ pc = "accepted"
    /\ \E result \in {"ok", "api_error"} : EndCall(result)
    /\ UNCHANGED <<wait, sleep, token, attempt, recent>>

--------------------------------------------------------------------------------
(* The run and the scheduler around it *)

\* interval_minutes * 60, with the smallest interval_minutes allowed.
Pause == Minute

\* The run closes its client; the next one will make another.
CloseClient ==
    /\ pc = "idle"
    /\ pc' = "asleep" /\ sleep' = Pause
    /\ wait' = 0 /\ token' = NoToken /\ attempt' = 1 /\ outcome' = "none"
    /\ UNCHANGED recent

StartRun ==
    /\ pc = "asleep" /\ sleep = 0
    /\ pc' = "idle"
    /\ UNCHANGED <<wait, sleep, token, attempt, outcome, recent>>

--------------------------------------------------------------------------------
(* Time *)

\* max(0.0, ...)
Left(n) == IF n = 0 THEN 0 ELSE n - 1

\* A timer that is over and a request that is ready do not wait for a tick.
Idling ==
    /\ pc # "sending"
    /\ pc \in {"acquiring", "asleep"} => sleep > 0
    /\ pc = "authorizing" => token = NoToken

\* All ages grow, and the requests of a minute ago are forgotten.
Tick ==
    /\ Idling
    /\ wait' = Left(wait) /\ sleep' = Left(sleep)
    /\ token' = IF token = NoToken THEN NoToken ELSE Left(token)
    /\ \E n \in 0..Len(recent) :
        /\ \A i \in 1..n : recent[i] + 1 < Minute
        /\ n < Len(recent) => recent[n + 1] + 1 >= Minute
        /\ recent' = [i \in 1..n |-> recent[i] + 1]
    /\ UNCHANGED <<pc, attempt, outcome>>

Next ==
    \/ Call \/ Acquired \/ TokenKnown \/ TokenFetched \/ TokenFails \/ Send
    \/ TransportFails \/ Retry \/ Unauthorized \/ Answered
    \/ CloseClient \/ StartRun \/ Tick

Spec == Init /\ [][Next]_vars

--------------------------------------------------------------------------------
(* Properties *)

Locations == {"idle", "acquiring", "authorizing", "sending", "accepted", "revoked",
              "expired", "asleep"}
Outcomes == {"none", "ok", "api_error", "revoked", "expired", "token_error",
             "transport_error"}

\* Every variable has its type.
TypeOK ==
    /\ wait \in Nat /\ sleep \in Nat
    /\ token \in Nat \cup {NoToken}
    /\ pc \in Locations /\ attempt \in {1, 2} /\ outcome \in Outcomes
    /\ recent \in Seq(Nat)

\* In no minute are more than requests_per_minute requests sent, but for one that a slow
\* token endpoint holds back between its slot and its sending (auction_client.py:88-90);
\* retries and the clients of later runs included.
RateKept == Len(recent) <= RequestsPerMinute + 1

\* A token that expires never makes a call fail: the retry is sent with one that still
\* lives after the wait for its slot (auction_client.py:95-103).
ExpiryIsInvisible == outcome # "expired"
================================================================================
