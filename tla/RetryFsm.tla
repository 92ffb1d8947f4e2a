------------------------------ MODULE RetryFsm ------------------------------
(***************************************************************************)
(* The anti-probe retry-tier state machine of libteleproto3                *)
(* (lib/src/t3_retry.c).  A session keeps a ring of the monotonic times of *)
(* its recent closes; every close re-evaluates the tier, and a user retry  *)
(* leaves the last tier.  Times are abstract ticks; the three windows are  *)
(* constants in the order of the code's NS30 < NS60 < NS5MIN.              *)
(***************************************************************************)
EXTENDS Integers, Sequences, FiniteSets

CONSTANTS NS30, NS60, NS5MIN,  \* the windows, in ticks
          Word,                \* 2^64 of the uint64_t arithmetic, in ticks
          MaxTime,             \* bound: the clock values a caller passes
          MaxCloses            \* bound: closes recorded between two user retries

ASSUME WindowsAssumption ==
  /\ {NS30, NS60, NS5MIN, Word, MaxTime, MaxCloses} \subseteq Nat \ {0}
  /\ NS30 < NS60 /\ NS60 < NS5MIN
  /\ Word > MaxTime

VARIABLES ring,              \* s->ring: the times kept, oldest first
          retry_state,       \* s->state
          tier2_entered_ns,  \* 0 when unset
          last_close_ns,     \* 0 when unset
          result,            \* result of the last call
          log,               \* history: every close since the last user retry
          tier2_since        \* history: when state last became TIER2 (-1: not in TIER2)

retryVars == <<ring, retry_state, tier2_entered_ns, last_close_ns, result, log, tier2_since>>

RingSlots == 8
Times == 0..MaxTime

\* uint64_t subtraction
Elapsed(now, t) == (now - t) % Word

RetryInit ==
  /\ ring = <<>>
  /\ retry_state = "OK"
  /\ tier2_entered_ns = 0
  /\ last_close_ns = 0
  /\ result = "none"
  /\ log = <<>>
  /\ tier2_since = -1

-----------------------------------------------------------------------------
(* t3_retry_ring_record *)

\* The times of the ring at the indices S, oldest first.
Selected(S) ==
  [k \in 1..Cardinality(S) |-> ring[CHOOSE i \in S : Cardinality({j \in S : j <= i}) = k]]

Oldest(S) == CHOOSE i \in S : \A j \in S : i <= j

\* Faulty variant: a close exactly 60 s old is evicted.
RingAfterEarlyEvict(now) ==
  LET live == {i \in DOMAIN ring : Elapsed(now, ring[i]) < NS60}
      kept == IF Cardinality(live) = RingSlots THEN live \ {Oldest(live)} ELSE live
  IN  Append(Selected(kept), now)

\* Slots no older than 60 s, the oldest dropped when all eight are still
\* live, and the new close appended.
RingAfter(now) ==
  LET live == {i \in DOMAIN ring : Elapsed(now, ring[i]) <= NS60}
      kept == IF Cardinality(live) = RingSlots THEN live \ {Oldest(live)} ELSE live
  IN  Append(Selected(kept), now)

InLast30(r, now) == Cardinality({i \in DOMAIN r : Elapsed(now, r[i]) <= NS30})

ContinuousTier2(now) ==
  /\ retry_state = "TIER2"
  /\ tier2_entered_ns # 0
  /\ Elapsed(now, tier2_entered_ns) >= NS5MIN

\* Faulty variant: the sixth close in 30 s escalates, not the fifth.
TierOfLate(r, now) ==
  CASE InLast30(r, now) > 5 \/ ContinuousTier2(now) -> "TIER3"
    [] ~(InLast30(r, now) > 5 \/ ContinuousTier2(now)) /\ Len(r) >= 3 -> "TIER2"
    [] OTHER -> "TIER1"

TierOf(r, now) ==
  CASE InLast30(r, now) >= 5 \/ ContinuousTier2(now) -> "TIER3"
    [] ~(InLast30(r, now) >= 5 \/ ContinuousTier2(now)) /\ Len(r) >= 3 -> "TIER2"
    [] OTHER -> "TIER1"

RingRecord(now) ==
  LET r    == RingAfter(now)
      tier == TierOf(r, now)
  IN  /\ ring' = r
      /\ retry_state' = tier
      /\ tier2_entered_ns' =
           CASE tier # "TIER2" -> 0
             [] retry_state # "TIER2" -> now
             [] OTHER -> tier2_entered_ns

-----------------------------------------------------------------------------
(* The API calls of the host *)

RecordCloseBackwards(now) ==
  /\ last_close_ns # 0 /\ now < last_close_ns
  /\ result' = "CLOCK_BACKWARDS"
  /\ UNCHANGED <<ring, retry_state, tier2_entered_ns, last_close_ns, log, tier2_since>>

RecordClose(now) ==
  /\ ~(last_close_ns # 0 /\ now < last_close_ns)
  /\ Len(log) < MaxCloses
  /\ last_close_ns' = now
  /\ RingRecord(now)
  /\ result' = "OK"
  /\ log' = Append(log, now)
  /\ tier2_since' = CASE retry_state' # "TIER2" -> -1
                      [] retry_state # "TIER2" -> now
                      [] OTHER -> tier2_since

UserRetry ==
  /\ retry_state = "TIER3"
  /\ ring' = <<>>
  /\ retry_state' = "OK"
  /\ tier2_entered_ns' = 0
  /\ last_close_ns' = 0
  /\ result' = "OK"
  /\ log' = <<>>
  /\ tier2_since' = -1

UserRetryRefused ==
  /\ retry_state # "TIER3"
  /\ result' = "INVALID_ARG"
  /\ UNCHANGED <<ring, retry_state, tier2_entered_ns, last_close_ns, log, tier2_since>>

RetryNext ==
  \/ \E now \in Times : RecordClose(now) \/ RecordCloseBackwards(now)
  \/ UserRetry
  \/ UserRetryRefused

RetrySpec == RetryInit /\ [][RetryNext]_retryVars

-----------------------------------------------------------------------------
(* Properties *)

RetryTypeOK ==
  /\ ring \in Seq(Times) /\ Len(ring) <= RingSlots
  /\ retry_state \in {"OK", "TIER1", "TIER2", "TIER3"}
  /\ tier2_entered_ns \in Times
  /\ last_close_ns \in Times
  /\ result \in {"none", "OK", "CLOCK_BACKWARDS", "INVALID_ARG"}
  /\ log \in Seq(Times)
  /\ tier2_since \in Times \cup {-1}

\* The closes of the log within w ticks of the last one.
Recent(w) == {i \in DOMAIN log : log[Len(log)] - log[i] <= w}

\* The ring is exactly the recent history: the closes of the last 60 s, and
\* only the eight latest of them when there are more, in order
\* (t3_retry_ring_record's evict, drop-oldest and rewrite steps).
RingIsRecentCloses ==
  /\ RetryTypeOK
  /\ log # <<>> =>
       LET n == Cardinality(Recent(NS60))
           m == IF n < RingSlots THEN n ELSE RingSlots
       IN  ring = SubSeq(log, Len(log) - m + 1, Len(log))

\* The tier a host reads is the one the close history calls for: five closes
\* in 30 s reach TIER3 even though the ring forgets closes, three in 60 s
\* never stay at TIER1, and no close leaves a session in TIER2 five minutes
\* after it got there, however old the closes that took it there
\* (t3_retry_ring_record's thresholds, through eviction and a full ring; tick
\* 0 is exempt, since tier2_entered_ns uses 0 for "unset").
TierMatchesHistory ==
  log # <<>> =>
    /\ Cardinality(Recent(NS30)) >= 5 => retry_state = "TIER3"
    /\ retry_state = "TIER1" => Cardinality(Recent(NS60)) < 3
    /\ retry_state = "TIER2" => Cardinality(Recent(NS60)) >= 3
    /\ retry_state = "TIER2" /\ tier2_since > 0 => log[Len(log)] - tier2_since < NS5MIN

\* spec/anti-probe.md 7.3.1 makes TIER3 sticky: only a user retry leaves it.
Tier3Sticky ==
  [][ retry_state = "TIER3" /\ retry_state' # "TIER3" => log' = <<>> ]_retryVars
=============================================================================
