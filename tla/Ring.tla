-------------------------------- MODULE Ring --------------------------------
(***************************************************************************)
(* The byte buffer of lib/src/t3_client_stream.c (ring_buf_t).  Despite    *)
(* its name it does not wrap: bytes are written at tail, read at head, and *)
(* head falls back to 0 only when the buffer runs empty or is compacted.   *)
(* A ring is [head, q]: the read position and the unread content, so that  *)
(* the code's tail is head + Len(q).                                       *)
(***************************************************************************)
EXTENDS Integers, Sequences

CONSTANT RingCap   \* RING_CAP: the allocated size, in units

ASSUME RingCapAssumption == RingCap \in Nat \ {0}

\* ring_init
EmptyRing == [head |-> 0, q |-> <<>>]

RingUsed(r)  == Len(r.q)
RingTail(r)  == r.head + Len(r.q)
RingAvail(r) == RingCap - RingUsed(r)

\* Both branches of ring_compact leave the unread bytes at offset 0.
RingCompact(r) == [r EXCEPT !.head = 0]

\* Compaction moves bytes without changing how many there are, so the code's
\* second test of ring_avail can only repeat the first.
RingFits(r, n) == RingAvail(r) >= n

\* What an append leaves behind: the bytes at tail, or -1 and a compacted ring.
RingAppend(r, s) ==
  IF RingFits(r, Len(s)) THEN [r EXCEPT !.q = @ \o s] ELSE RingCompact(r)

\* A successful append that writes past data[cap - 1].
RingOverruns(r, n) == RingFits(r, n) /\ RingTail(r) + n > RingCap

RingConsume(r, n) ==
  IF n >= Len(r.q) THEN EmptyRing
  ELSE [head |-> r.head + n, q |-> SubSeq(r.q, n + 1, Len(r.q))]

RingInBounds(r) == RingTail(r) <= RingCap
=============================================================================
