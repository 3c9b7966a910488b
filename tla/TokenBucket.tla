----------------------------- MODULE TokenBucket -----------------------------
(***************************************************************************)
(* The token bucket every request of a context waits for                   *)
(* (src/rate_limiter.rs).  Tokens are counted in parts of a token, so that *)
(* the refill of one tick is a whole number; time passes in ticks.  The    *)
(* bucket is computed lazily, under its mutex, when somebody asks, and a   *)
(* caller that finds it empty sleeps outside of the mutex and asks again.  *)
(***************************************************************************)
EXTENDS Naturals, Sequences

CONSTANTS
    Waiters,   \* calls of acquire
    Unit,      \* parts of one token
    Rate,      \* parts added per tick
    Capacity,  \* tokens of a full bucket
    Second,    \* ticks of a second, the longest sleep
    MaxIdle,   \* bound: ticks before which new calls come
    MaxLate    \* bound: ticks a timer fires late

ASSUME BucketAssumption ==
    /\ Unit \in Nat /\ Unit > 0
    /\ Rate \in Nat /\ Rate > 0
    /\ Capacity \in Nat /\ Capacity >= 1
    /\ Second \in Nat /\ Second > 0
    /\ MaxIdle \in Nat /\ MaxLate \in Nat

VARIABLES
    tokens,  \* TokenBucketState::tokens
    last,    \* TokenBucketState::last
    clock,   \* Instant::now()
    waiting, \* where each call of acquire is
    wake,    \* when its sleep ends
    grants   \* history: when each token was taken

limiter == <<tokens, last, clock, waiting, wake, grants>>

Full == Capacity * Unit

LimiterTypeOK ==
    /\ tokens \in 0 .. Full
    /\ clock \in Nat
    /\ last \in 0 .. clock
    /\ waiting \in [Waiters -> {"idle", "asking", "asleep", "granted", "dropped"}]
    /\ wake \in [Waiters -> Nat]
    /\ grants \in Seq(0 .. clock)

LimiterInit ==
    /\ tokens = Full
    /\ clock = 0
    /\ last = 0
    /\ waiting = [w \in Waiters |-> "idle"]
    /\ wake = [w \in Waiters |-> 0]
    /\ grants = <<>>

-----------------------------------------------------------------------------
AtMost(a, b) == IF a <= b THEN a ELSE b
CeilDiv(a, b) == (a + b - 1) \div b

\* Mutant of Refilled: a caller that comes again within a tick counts it again.
RefilledAgain(now) == AtMost(tokens + (now - last + 1) * Rate, Full)

\* state.tokens after the refill at the head of the loop of acquire.
Refilled(now) == AtMost(tokens + (now - last) * Rate, Full)

\* The sleep until one token is there, clamped to a second.
Needed(t) == AtMost(CeilDiv(Unit - t, Rate), Second)

Ask(w) ==
    /\ waiting[w] = "idle"
    /\ waiting' = [waiting EXCEPT ![w] = "asking"]
    /\ UNCHANGED <<tokens, last, clock, wake, grants>>

\* The bucket is refilled and a token taken, in one critical section.
Take(w) ==
    /\ waiting[w] = "asking"
    /\ Refilled(clock) >= Unit
    /\ tokens' = Refilled(clock) - Unit
    /\ last' = clock
    /\ waiting' = [waiting EXCEPT ![w] = "granted"]
    /\ grants' = Append(grants, clock)
    /\ UNCHANGED <<clock, wake>>

\* The bucket is refilled, found empty and released before the sleep.
FallAsleep(w) ==
    /\ waiting[w] = "asking"
    /\ Refilled(clock) < Unit
    /\ tokens' = Refilled(clock)
    /\ last' = clock
    /\ waiting' = [waiting EXCEPT ![w] = "asleep"]
    /\ wake' = [wake EXCEPT ![w] = clock + Needed(Refilled(clock))]
    /\ UNCHANGED <<clock, grants>>

\* Mutant of WakeUp: a timer that fires late is missed.
WakeUpOnTime(w) ==
    /\ waiting[w] = "asleep"
    /\ clock = wake[w]
    /\ waiting' = [waiting EXCEPT ![w] = "asking"]
    /\ UNCHANGED <<tokens, last, clock, wake, grants>>

\* The sleep has ended: back to the head of the loop, behind nobody.
WakeUp(w) ==
    /\ waiting[w] = "asleep"
    /\ clock >= wake[w]
    /\ waiting' = [waiting EXCEPT ![w] = "asking"]
    /\ UNCHANGED <<tokens, last, clock, wake, grants>>

\* The caller drops the future of acquire: it has taken nothing.
DropWaiter(w) ==
    /\ waiting[w] \in {"asking", "asleep"}
    /\ waiting' = [waiting EXCEPT ![w] = "dropped"]
    /\ UNCHANGED <<tokens, last, clock, wake, grants>>

\* Time matters while somebody sleeps; a timer is at most MaxLate ticks late.
PassTime ==
    /\ clock < MaxIdle \/ \E w \in Waiters : waiting[w] = "asleep"
    /\ \A w \in Waiters : waiting[w] = "asleep" => clock < wake[w] + MaxLate
    /\ clock' = clock + 1
    /\ UNCHANGED <<tokens, last, waiting, wake, grants>>

Acquire(w) == Take(w) \/ FallAsleep(w) \/ WakeUp(w)

LimiterNext ==
    \/ \E w \in Waiters : Ask(w) \/ Acquire(w) \/ DropWaiter(w)
    \/ PassTime

LimiterSpec == LimiterInit /\ [][LimiterNext]_limiter

-----------------------------------------------------------------------------
\* What the bucket holds now, whenever it was computed last.
Level == Refilled(clock)

\* In any window of time no more tokens are granted than a full bucket and
\* what the window refills: burst and rate of "rate" and "capacity" in
\* TokenBucket::new, over lazy refills, late timers and racing callers.
WindowRule ==
    \A i, j \in DOMAIN grants :
        i <= j => (j - i + 1) * Unit <= Full + Rate * (grants[j] - grants[i])

\* Each grant is still paid for by the level: what makes WindowRule inductive.
Paid ==
    \A i \in DOMAIN grants :
        (Len(grants) - i + 1) * Unit + Level <= Full + Rate * (clock - grants[i])
=============================================================================
