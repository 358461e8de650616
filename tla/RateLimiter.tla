------------------------------ MODULE RateLimiter ------------------------------
(***************************************************************************)
(* The sliding-window rate limiter (middleware/rate_limit.py) that guards  *)
(* the endpoints per session and the analytics path per tenant.  A client  *)
(* has a bucket of admission times, and a second one for bursts when the   *)
(* first is full.  Both stores forget the least recently used bucket when  *)
(* a client they do not know comes and they are full.                      *)
(*                                                                         *)
(* A check and the Retry-After of a denial are one step: nothing else runs *)
(* on the event loop between them.                                         *)
(***************************************************************************)
EXTENDS Integers, Sequences, FiniteSetsExt, Functions

CONSTANTS
    Clients,      \* bucket keys
    MaxRequests,  \* max_requests
    Burst,        \* burst_requests
    Cap,          \* session_state_max
    Second,       \* ticks of the clock in a second
    Window,       \* window_seconds, in ticks
    BurstWindow,  \* burst_window_seconds, in ticks
    MaxTime       \* bound on the clock

ASSUME LimiterConfig ==
    /\ MaxRequests \in Nat \ {0}
    /\ Burst \in Nat
    /\ Cap \in Nat \ {0}
    /\ Second \in Nat \ {0}
    /\ Window \in Nat \ {0}
    /\ BurstWindow \in Nat \ {0}
    /\ MaxTime \in Nat

VARIABLES
    now,      \* monotonic()
    main,     \* _buckets, least recently used first
    burst,    \* _burst_buckets
    granted,  \* admissions of the last window the store has not forgotten
    recent,   \* clients, the one that called last at the end
    promise   \* when a denied client was told to come back

vars == <<now, main, burst, granted, recent, promise>>

Never == -1
Times == 0 .. MaxTime
NoTimes == [c \in Clients |-> <<>>]
NoBuckets == [order |-> <<>>, hits |-> NoTimes]

-----------------------------------------------------------------------------

StoreOK(store, max) ==
    /\ store.order \in Seq(Clients)
    /\ IsInjective(store.order)
    /\ Len(store.order) <= Cap
    /\ store.hits \in [Clients -> Seq(Times)]
    /\ \A c \in Clients :
          /\ Len(store.hits[c]) <= max
          /\ store.hits[c] # <<>> => c \in Range(store.order)

TypeOK ==
    /\ now \in Times
    /\ StoreOK(main, MaxRequests)
    /\ StoreOK(burst, Burst)
    /\ granted.main \in [Clients -> Seq(Times)]
    /\ granted.burst \in [Clients -> Seq(Times)]
    /\ recent \in Seq(Clients)
    /\ promise \in [Clients -> Int]

Init ==
    /\ now = 0
    /\ main = NoBuckets
    /\ burst = NoBuckets
    /\ granted = [main |-> NoTimes, burst |-> NoTimes]
    /\ recent = <<>>
    /\ promise = [c \in Clients |-> Never]

-----------------------------------------------------------------------------

(* What popping from the left leaves: times from the first that is not     *)
(* before the cutoff.                                                      *)
Since(times, cutoff) ==
    LET kept == {i \in DOMAIN times : times[i] >= cutoff}
    IN  IF kept = {} THEN <<>> ELSE SubSeq(times, Min(kept), Len(times))

(* Fault: a time as old as the window is dropped already.                  *)
DropExpiredEarly(times, window) == Since(times, now - window + 1)

DropExpired(times, window) == Since(times, now - window)

Without(seq, c) ==
    IF c \in Range(seq)
    THEN LET i == CHOOSE j \in DOMAIN seq : seq[j] = c
         IN  SubSeq(seq, 1, i - 1) \o SubSeq(seq, i + 1, Len(seq))
    ELSE seq

(* Fault: room is made only once there are more buckets than allowed.      *)
DisplacedLate(store, c) ==
    IF c \notin Range(store.order) /\ Len(store.order) > Cap
    THEN {Head(store.order)} ELSE {}

(* Clients of a store that c's coming makes it forget.                     *)
Displaced(store, c) ==
    IF c \notin Range(store.order) /\ Len(store.order) >= Cap
    THEN {Head(store.order)} ELSE {}

(* Fault: only a new bucket goes to the end of the order.                  *)
TouchInPlace(store, c, window) ==
    LET gone == Displaced(store, c)
        kept == IF gone = {} THEN store.order ELSE Tail(store.order)
    IN  [order |-> IF c \in Range(store.order) THEN kept ELSE Append(kept, c),
         hits  |-> [d \in Clients |->
                       IF d = c THEN DropExpired(store.hits[c], window)
                       ELSE IF d \in gone THEN <<>> ELSE store.hits[d]]]

(* The store with c's bucket found or made, and without its expired times. *)
Touch(store, c, window) ==
    LET gone == Displaced(store, c)
        kept == IF gone = {} THEN store.order ELSE Tail(store.order)
    IN  [order |-> Append(Without(kept, c), c),
         hits  |-> [d \in Clients |->
                       IF d = c THEN DropExpired(store.hits[c], window)
                       ELSE IF d \in gone THEN <<>> ELSE store.hits[d]]]

Record(store, c) == [store EXCEPT !.hits[c] = Append(@, now)]

(* Fault: the seconds left are rounded down.                               *)
RetryAfterDown(store, c) ==
    Max({1, (Window - (now - store.hits[c][1])) \div Second})

(* retry_after_seconds of a client just denied                             *)
RetryAfter(store, c) ==
    Max({1, (Window - (now - store.hits[c][1])) \div Second + 1})

(* Admission by the main bucket, by the burst bucket, or neither.          *)
Verdict(c) ==
    IF Len(DropExpired(main.hits[c], Window)) < MaxRequests THEN "main"
    ELSE IF Len(DropExpired(burst.hits[c], BurstWindow)) < Burst THEN "burst"
    ELSE "denied"

(* The admissions a store has not forgotten, and the one of c just now.    *)
Granted(times, lost, c, admitted) ==
    [d \in Clients |->
        IF d \in lost THEN <<>>
        ELSE IF d = c /\ admitted THEN Append(times[d], now) ELSE times[d]]

(* Fault: an admission by the burst bucket is not recorded.                *)
RequestBurstUnrecorded(c) ==
    LET m == Touch(main, c, Window)
        b == Touch(burst, c, BurstWindow)
        v == Verdict(c)
        bursts == v # "main" /\ Burst > 0
    IN  /\ main' = IF v = "main" THEN Record(m, c) ELSE m
        /\ burst' = IF bursts THEN b ELSE burst
        /\ granted' = [main  |-> Granted(granted.main, Displaced(main, c), c, v = "main"),
                       burst |-> Granted(granted.burst,
                                         IF bursts THEN Displaced(burst, c) ELSE {},
                                         c, v = "burst")]
        /\ recent' = Append(Without(recent, c), c)
        /\ promise' = [promise EXCEPT ![c] = IF v = "denied"
                                             THEN now + RetryAfter(m, c) * Second
                                             ELSE Never]
        /\ UNCHANGED now

(* check_and_record and, on a denial, retry_after_seconds                  *)
Request(c) ==
    LET m == Touch(main, c, Window)
        b == Touch(burst, c, BurstWindow)
        v == Verdict(c)
        bursts == v # "main" /\ Burst > 0
    IN  /\ main' = IF v = "main" THEN Record(m, c) ELSE m
        /\ burst' = CASE ~bursts -> burst
                      [] v = "burst" -> Record(b, c)
                      [] OTHER -> b
        /\ granted' = [main  |-> Granted(granted.main, Displaced(main, c), c, v = "main"),
                       burst |-> Granted(granted.burst,
                                         IF bursts THEN Displaced(burst, c) ELSE {},
                                         c, v = "burst")]
        /\ recent' = Append(Without(recent, c), c)
        /\ promise' = [promise EXCEPT ![c] = IF v = "denied"
                                             THEN now + RetryAfter(m, c) * Second
                                             ELSE Never]
        /\ UNCHANGED now

Tick ==
    /\ now < MaxTime
    /\ now' = now + 1
    /\ granted' = [main  |-> [c \in Clients |-> Since(granted.main[c], now' - Window)],
                   burst |-> [c \in Clients |-> Since(granted.burst[c], now' - Window)]]
    /\ UNCHANGED <<main, burst, recent, promise>>

Next == Tick \/ \E c \in Clients : Request(c)

Spec == Init /\ [][Next]_vars

-----------------------------------------------------------------------------

(* Whatever a client does, no window holds more of its admissions than the *)
(* main bucket allows and one burst for every burst window that begins in  *)
(* it, leaving out what other clients made the stores forget.              *)
RateBounded ==
    \A c \in Clients :
        Len(granted.main[c]) + Len(granted.burst[c])
            <= MaxRequests + Burst * (Window \div (BurstWindow + 1) + 1)

(* A client that comes back when it was told to is admitted, whatever the  *)
(* others have done since.                                                 *)
RetrySuffices ==
    \A c \in Clients : promise[c] # Never /\ now >= promise[c] => Verdict(c) # "denied"

(* The buckets kept are those of the clients that called last: one is      *)
(* forgotten only when as many others as there is room for have called     *)
(* since.  A client cannot shed its count alone.                           *)
ForgetsLeastRecent ==
    LET n == Min({Cap, Len(recent)})
    IN  main.order = SubSeq(recent, Len(recent) - n + 1, Len(recent))

=============================================================================
