-------------------------- MODULE JobSignalsProofs --------------------------
(***************************************************************************)
(* Proofs about JobSignals, for any finite number of threads, any classes  *)
(* and signals, any number of references and of signals sent.              *)
(*                                                                         *)
(* EngineSafe is not inductive.  j_refcnt and the lock stay right because  *)
(* of what a thread carries at each place (ThreadShape) and because the    *)
(* thread that saw the count reach zero is alone (FixShape).  A queue      *)
(* holds the job once because JF_QUEUED of a class stands for exactly one  *)
(* entry, in the queue or in a thread's hands (QueueShape).  JS_FINISH is  *)
(* last because it is sent only with one reference left (ClosingShape) and *)
(* because a signal that is set has somebody to look at it (Served): the   *)
(* thread that is alone and not looking knows that no signal waits.        *)
(***************************************************************************)
EXTENDS JobSignals, FiniteSetTheorems, TLAPS

\* Where a thread is, what it carries.
Fits(t, pc, sig, run, back, qf) ==
  /\ back = "exec" => pc \in {"send", "lock1", "or", "lock2", "decRead", "decSub"}
  /\ pc \in {"send", "lock1", "or"} => sig # None
  /\ pc \in {"procLock", "procAnd"} => qf = {ClassOf[t]}
  /\ IF back = "exec" \/ pc = "exec" THEN run \in Sig
     ELSE IF pc \in {"begin", "push"} THEN run # None ELSE run = None

ThreadShape == \A t \in Thread :
  /\ th[t].pc = "idle" => th[t] = Idle
  /\ Fits(t, th[t].pc, th[t].sig, th[t].run, th[t].back, th[t].qf)

\* j_refcnt grows only with the references created.
RefBound == refcnt <= 1 + Holders + sends

\* The queue entry of class c is in the hands of t.
Carries(t, c) == \/ th[t].pc = "push" /\ SigClass[th[t].run] = c
                 \/ th[t].pc \in {"proc", "procLock", "procAnd"} /\ ClassOf[t] = c

\* JF_QUEUED of a class stands for one entry, in its queue or in a thread's hands.
QueueShape == \A c \in Class :
  /\ queue[c] <= 1
  /\ queue[c] = 1 => c \in flags.queued /\ \A t \in Thread : ~Carries(t, c)
  /\ \A t \in Thread : Carries(t, c) => c \in flags.queued
  /\ \A t, u \in Thread : Carries(t, c) /\ Carries(u, c) => t = u
  /\ c \in flags.queued => queue[c] = 1 \/ \E t \in Thread : Carries(t, c)

\* A thread that has seen the last reference go is alone.
FixShape == \A t \in Thread : th[t].pc \in {"decFix", "dropFix"} =>
  /\ refcnt = 0 /\ ~freed
  /\ \A u \in Thread : u # t => th[u].pc = "idle"

\* Somebody will look at the signals that are set.
Served == flags.sigs # {} =>
  \/ \E t \in Thread : InLock(t) \/ th[t].pc \in {"lock2", "push", "proc", "procLock", "procAnd"}
  \/ \E c \in Class : queue[c] > 0

\* JS_FINISH has been or is being sent.
Closing == JS_FINISH \in flags.sigs \/ \E t \in Thread : th[t].sig = JS_FINISH

\* It is sent only with one reference left, which is the sender's, and with no
\* other signal waiting.
ClosingShape ==
  /\ Closing /\ ~freed => /\ held = 0 /\ refcnt = 1 /\ flags.sigs \subseteq {JS_FINISH}
                          /\ \A t \in Thread : th[t].pc # "exec"
  /\ \A t \in Thread :
       /\ th[t].sig = JS_FINISH => th[t].pc \in {"send", "lock1", "unlock", "begin", "push"}
       /\ th[t].sig = JS_FINISH /\ th[t].pc # "send" /\ th[t].pc # "lock1" => JS_FINISH \in flags.sigs
       /\ th[t].pc = "begin" => th[t].run \in flags.sigs

\* A freed job is out of everybody's reach.
FreedShape == freed => /\ held = 0 /\ flags.sigs = {}
                       /\ \A c \in Class : queue[c] = 0
                       /\ \A t \in Thread : th[t].pc = "idle"

\* The inductive invariant.
IInv == /\ TypeOK /\ RefcntExact /\ LockExclusive
        /\ ThreadShape /\ RefBound /\ QueueShape /\ FixShape
        /\ Served /\ ClosingShape /\ FreedShape

\* What is known of a thread.
Rec == [pc : PCs, sig : AllSig \union {None}, run : AllSig \union {None},
        back : {"idle", "exec"}, busy : BOOLEAN, qf : SUBSET Class]

\* A step of t takes it to a place, with what it carries there.
To(t, pc, sig, run, back, qf) ==
  /\ th' \in [Thread -> Rec]
  /\ th'[t].pc = pc /\ th'[t].sig = sig /\ th'[t].run = run
  /\ th'[t].back = back /\ th'[t].qf = qf /\ (pc = "idle" => th'[t] = Idle)
  /\ \A u \in Thread : u # t => th'[u] = th[u]

\* The call is over.
Returned(t) == IF th[t].back = "exec" THEN To(t, "exec", None, th[t].run, "idle", th[t].qf)
               ELSE To(t, "idle", None, None, "idle", {})

\* ... and leaves the flags so.
Flags(locked, queued, sigs) ==
  /\ flags' \in [locked : BOOLEAN, queued : SUBSET Class, sigs : SUBSET AllSig]
  /\ flags'.locked = locked /\ flags'.queued = queued /\ flags'.sigs = sigs

\* What the type invariant says of each variable.
LEMMA Types ==
  ASSUME TypeOK
  PROVE  /\ th \in [Thread -> Rec]
         /\ flags \in [locked : BOOLEAN, queued : SUBSET Class, sigs : SUBSET AllSig]
         /\ refcnt \in Nat /\ held \in Nat /\ sends \in Nat
         /\ queue \in [Class -> Nat]
         /\ \A t \in Thread : ClassOf[t] \in Class
         /\ \A s \in AllSig : SigClass[s] \in Class /\ s \in 0 .. 7
         /\ JS_FINISH \in AllSig /\ JS_FINISH \notin Sig /\ None \notin AllSig
  BY EngineAssumption, FS_CardinalityType DEF TypeOK, Rec, Class, AllSig, JS_FINISH, None

\* unlock_job takes the highest bit: JS_FINISH if it is set.
LEMMA Highest ==
  ASSUME NEW S, S \subseteq AllSig, S # {}
  PROVE  /\ Max(S) \in S /\ Max(S) \in AllSig
         /\ JS_FINISH \in S => Max(S) = JS_FINISH
         /\ Max(S) # JS_FINISH => JS_FINISH \notin S
  <1>1. S \subseteq 0 .. 7
    BY EngineAssumption DEF AllSig, JS_FINISH
  <1>2. \E x \in S : \A y \in S : x >= y
    <2>1. PICK z \in S : TRUE
      OBVIOUS
    <2>2. \A y \in S : y \in Int /\ 0 <= y /\ y <= 7
      BY <1>1
    <2>3. z = 0 \/ z = 1 \/ z = 2 \/ z = 3 \/ z = 4 \/ z = 5 \/ z = 6 \/ z = 7
      BY <2>1, <2>2
    <2>4. QED  BY <2>3, <2>2
  <1>3. Max(S) \in S /\ \A y \in S : Max(S) >= y
    BY <1>2 DEF Max
  <1>4. Max(S) \in 0 .. 7
    BY <1>1, <1>3
  <1>5. JS_FINISH \in S => Max(S) >= 7
    BY <1>3 DEF JS_FINISH
  <1>6. QED  BY <1>3, <1>4, <1>5 DEF JS_FINISH

\* How the assignments of the actions move a thread.
LEMMA GotoTo ==
  ASSUME th \in [Thread -> Rec], NEW t \in Thread, NEW p \in PCs \ {"idle"}, Goto(t, p)
  PROVE  To(t, p, th[t].sig, th[t].run, th[t].back, th[t].qf)
  BY DEF Goto, To, Rec

\* ... with the queue flags it read,
LEMMA ToQf ==
  ASSUME th \in [Thread -> Rec], NEW t \in Thread, NEW p \in PCs \ {"idle"}, NEW q \in SUBSET Class,
         th' = [th EXCEPT ![t].pc = p, ![t].qf = q] \/ th' = [th EXCEPT ![t].qf = q, ![t].pc = p]
  PROVE  To(t, p, th[t].sig, th[t].run, th[t].back, q)
  BY DEF To, Rec

\* the signal it sends,
LEMMA ToSig ==
  ASSUME th \in [Thread -> Rec], NEW t \in Thread, NEW p \in PCs \ {"idle"}, NEW s \in AllSig,
         th' = [th EXCEPT ![t].pc = p, ![t].sig = s]
  PROVE  To(t, p, s, th[t].run, th[t].back, th[t].qf)
  BY DEF To, Rec

\* the handler it runs,
LEMMA ToRun ==
  ASSUME th \in [Thread -> Rec], NEW t \in Thread, NEW p \in PCs \ {"idle"}, NEW r \in AllSig \union {None},
         th' = [th EXCEPT ![t].pc = p, ![t].run = r]
  PROVE  To(t, p, th[t].sig, r, th[t].back, th[t].qf)
  BY ZenonT(60) DEF To, Rec

\* the handler it comes back to,
LEMMA ToBack ==
  ASSUME th \in [Thread -> Rec], NEW t \in Thread, NEW p \in PCs \ {"idle"}, NEW s \in AllSig,
         th' = [th EXCEPT ![t].pc = p, ![t].sig = s, ![t].back = "exec"]
  PROVE  To(t, p, s, th[t].run, "exec", th[t].qf)
  BY ZenonT(60) DEF To, Rec

\* all of them, from the idle loop,
LEMMA ToThr ==
  ASSUME th \in [Thread -> Rec], NEW t \in Thread, NEW p \in PCs \ {"idle"},
         NEW s \in AllSig \union {None}, NEW b \in BOOLEAN,
         th' = [th EXCEPT ![t] = Thr(p, s, b)]
  PROVE  To(t, p, s, None, "idle", {})
  <1>1. Thr(p, s, b) \in Rec
    BY DEF Thr, Rec
  <1>2. QED  BY <1>1 DEF To, Thr

\* and back.
LEMMA DoneTo ==
  ASSUME th \in [Thread -> Rec], NEW t \in Thread, Done(t)
  PROVE  Returned(t)
  <1>1. CASE th[t].back = "exec"
    <2> DEFINE r == [th[t] EXCEPT !.pc = "exec", !.back = "idle", !.sig = None]
    <2>1. th' = [th EXCEPT ![t] = r]
      BY <1>1 DEF Done
    <2>2. /\ r \in Rec /\ r.pc = "exec" /\ r.back = "idle" /\ r.sig = None
          /\ r.run = th[t].run /\ r.qf = th[t].qf
      BY ZenonT(60) DEF Rec, PCs
    <2> HIDE DEF r
    <2>3. QED  BY <1>1, <2>1, <2>2 DEF Returned, To
  <1>2. CASE th[t].back # "exec"
    <2>1. th' = [th EXCEPT ![t] = Idle]
      BY <1>2 DEF Done
    <2>2. /\ Idle \in Rec /\ Idle.pc = "idle" /\ Idle.back = "idle" /\ Idle.sig = None
          /\ Idle.run = None /\ Idle.qf = {}
      BY DEF Rec, PCs, Idle, Thr
    <2>3. QED  BY <1>2, <2>1, <2>2 DEF Returned, To
  <1>3. QED  BY <1>1, <1>2

\* How the assignments change the flags.
LEMMA FlagsSet ==
  ASSUME flags \in [locked : BOOLEAN, queued : SUBSET Class, sigs : SUBSET AllSig],
         NEW l \in BOOLEAN, NEW q \in SUBSET Class, NEW s \in SUBSET AllSig
  PROVE  /\ flags' = [flags EXCEPT !.locked = l] => Flags(l, flags.queued, flags.sigs)
         /\ flags' = [flags EXCEPT !.queued = q] => Flags(flags.locked, q, flags.sigs)
         /\ flags' = [flags EXCEPT !.sigs = s] => Flags(flags.locked, flags.queued, s)
         /\ flags' = [flags EXCEPT !.locked = l, !.queued = q] => Flags(l, q, flags.sigs)
         /\ flags' = [flags EXCEPT !.locked = l, !.sigs = s] => Flags(l, flags.queued, s)
  BY DEF Flags

\* What SignalCreate does, field by field.
LEMMA SignalCreateEffect ==
  ASSUME IInv, NEW t \in Thread, NEW s \in Sig, NEW b \in BOOLEAN, SignalCreate(t, s, b)
  PROVE
    /\ th[t].pc = "idle" /\ held > 0 /\ sends < MaxSends
    /\ To(t, "send", s, None, "idle", {})
    /\ refcnt' = refcnt + 1 /\ sends' = sends + 1
    /\ flags' = flags /\ queue' = queue /\ held' = held /\ freed' = freed
  <1>1. TypeOK /\ ThreadShape
    BY DEF IInv
  <1>2.
    /\ th[t].pc = "idle" /\ held > 0 /\ sends < MaxSends
    /\ refcnt' = refcnt + 1 /\ sends' = sends + 1
    /\ flags' = flags /\ queue' = queue /\ held' = held /\ freed' = freed
    BY <1>1, Types DEF SignalCreate
  <1>3.
    /\ To(t, "send", s, None, "idle", {})
    BY <1>1, Types, ToThr DEF SignalCreate, PCs, AllSig
  <1>4. QED  BY <1>2, <1>3

\* What SignalPass does, field by field.
LEMMA SignalPassEffect ==
  ASSUME IInv, NEW t \in Thread, NEW s \in Sig, NEW b \in BOOLEAN, SignalPass(t, s, b)
  PROVE
    /\ th[t].pc = "idle" /\ held > 0 /\ sends < MaxSends
    /\ To(t, "send", s, None, "idle", {})
    /\ held' = held - 1 /\ sends' = sends + 1
    /\ flags' = flags /\ refcnt' = refcnt /\ queue' = queue /\ freed' = freed
  <1>1. TypeOK /\ ThreadShape
    BY DEF IInv
  <1>2.
    /\ th[t].pc = "idle" /\ held > 0 /\ sends < MaxSends
    /\ held' = held - 1 /\ sends' = sends + 1
    /\ flags' = flags /\ refcnt' = refcnt /\ queue' = queue /\ freed' = freed
    BY <1>1, Types DEF SignalPass
  <1>3.
    /\ To(t, "send", s, None, "idle", {})
    BY <1>1, Types, ToThr DEF SignalPass, PCs, AllSig
  <1>4. QED  BY <1>2, <1>3

\* What JobIncref does, field by field.
LEMMA JobIncrefEffect ==
  ASSUME IInv, NEW t \in Thread, JobIncref(t)
  PROVE
    /\ th[t].pc = "idle" /\ held > 0 /\ held < MaxHeld /\ sends < MaxSends
    /\ th' = th
    /\ refcnt' = refcnt + 1 /\ held' = held + 1 /\ sends' = sends + 1
    /\ flags' = flags /\ queue' = queue /\ freed' = freed
  <1>1. TypeOK /\ ThreadShape
    BY DEF IInv
  <1>2.
    /\ th[t].pc = "idle" /\ held > 0 /\ held < MaxHeld /\ sends < MaxSends
    /\ refcnt' = refcnt + 1 /\ held' = held + 1 /\ sends' = sends + 1
    /\ flags' = flags /\ queue' = queue /\ freed' = freed
    BY <1>1, Types DEF JobIncref
  <1>3.
    /\ th' = th
    BY <1>1, Types DEF JobIncref, PCs
  <1>4. QED  BY <1>2, <1>3

\* What JobDecref does, field by field.
LEMMA JobDecrefEffect ==
  ASSUME IInv, NEW t \in Thread, NEW b \in BOOLEAN, JobDecref(t, b)
  PROVE
    /\ th[t].pc = "idle" /\ held > 0
    /\ To(t, "decRead", None, None, "idle", {})
    /\ held' = held - 1
    /\ flags' = flags /\ refcnt' = refcnt /\ queue' = queue /\ freed' = freed /\ sends' = sends
  <1>1. TypeOK /\ ThreadShape
    BY DEF IInv
  <1>2.
    /\ th[t].pc = "idle" /\ held > 0
    /\ held' = held - 1
    /\ flags' = flags /\ refcnt' = refcnt /\ queue' = queue /\ freed' = freed /\ sends' = sends
    BY <1>1, Types DEF JobDecref
  <1>3.
    /\ To(t, "decRead", None, None, "idle", {})
    BY <1>1, Types, ToThr DEF JobDecref, PCs
  <1>4. QED  BY <1>2, <1>3

\* What Pop does, field by field.
LEMMA PopEffect ==
  ASSUME IInv, NEW t \in Thread, Pop(t)
  PROVE
    /\ th[t].pc = "idle" /\ queue[ClassOf[t]] > 0
    /\ To(t, "proc", th[t].sig, th[t].run, th[t].back, th[t].qf)
    /\ queue' = [queue EXCEPT ![ClassOf[t]] = @ - 1]
    /\ flags' = flags /\ refcnt' = refcnt /\ held' = held /\ freed' = freed /\ sends' = sends
  <1>1. TypeOK /\ ThreadShape
    BY DEF IInv
  <1>2.
    /\ th[t].pc = "idle" /\ queue[ClassOf[t]] > 0
    /\ queue' = [queue EXCEPT ![ClassOf[t]] = @ - 1]
    /\ flags' = flags /\ refcnt' = refcnt /\ held' = held /\ freed' = freed /\ sends' = sends
    BY <1>1, Types DEF Pop
  <1>3.
    /\ To(t, "proc", th[t].sig, th[t].run, th[t].back, th[t].qf)
    BY <1>1, Types, GotoTo DEF Pop, PCs
  <1>4. QED  BY <1>2, <1>3

\* What ReadQueued does, field by field.
LEMMA ReadQueuedEffect ==
  ASSUME IInv, NEW t \in Thread, ReadQueued(t)
  PROVE
    /\ th[t].pc = "proc"
    /\ To(t, "procLock", th[t].sig, th[t].run, th[t].back, flags.queued \intersect {ClassOf[t]})
    /\ flags' = flags /\ refcnt' = refcnt /\ queue' = queue /\ held' = held /\ freed' = freed /\ sends' = sends
  <1>1. TypeOK /\ ThreadShape
    BY DEF IInv
  <1>2.
    /\ th[t].pc = "proc"
    /\ flags' = flags /\ refcnt' = refcnt /\ queue' = queue /\ held' = held /\ freed' = freed /\ sends' = sends
    BY <1>1, Types DEF ReadQueued
  <1>3.
    /\ To(t, "procLock", th[t].sig, th[t].run, th[t].back, flags.queued \intersect {ClassOf[t]})
    BY <1>1, Types, ToQf DEF ReadQueued, PCs
  <1>4. QED  BY <1>2, <1>3

\* What ProcessLock does, field by field.
LEMMA ProcessLockEffect ==
  ASSUME IInv, NEW t \in Thread, ProcessLock(t)
  PROVE
    /\ th[t].pc = "procLock"
    /\ \/ /\ ~flags.locked /\ Flags(TRUE, flags.queued \ th[t].qf, flags.sigs)
          /\ To(t, "unlock", th[t].sig, th[t].run, th[t].back, {})
       \/ /\ flags.locked /\ flags' = flags
          /\ To(t, "procAnd", th[t].sig, th[t].run, th[t].back, th[t].qf)
    /\ refcnt' = refcnt /\ queue' = queue /\ held' = held /\ freed' = freed /\ sends' = sends
  <1>1. TypeOK /\ ThreadShape
    BY DEF IInv
  <1>2.
    /\ th[t].pc = "procLock"
    /\ refcnt' = refcnt /\ queue' = queue /\ held' = held /\ freed' = freed /\ sends' = sends
    BY <1>1, Types DEF ProcessLock
  <1>3.
    /\ \/ /\ ~flags.locked /\ Flags(TRUE, flags.queued \ th[t].qf, flags.sigs)
          /\ To(t, "unlock", th[t].sig, th[t].run, th[t].back, {})
       \/ /\ flags.locked /\ flags' = flags
          /\ To(t, "procAnd", th[t].sig, th[t].run, th[t].back, th[t].qf)
    BY <1>1, Types, ToQf, GotoTo, FlagsSet DEF ProcessLock, PCs
  <1>4. QED  BY <1>2, <1>3

\* What ProcessClear does, field by field.
LEMMA ProcessClearEffect ==
  ASSUME IInv, NEW t \in Thread, ProcessClear(t)
  PROVE
    /\ th[t].pc = "procAnd"
    /\ To(t, "lock2", th[t].sig, th[t].run, th[t].back, {})
    /\ Flags(flags.locked, flags.queued \ th[t].qf, flags.sigs)
    /\ refcnt' = refcnt /\ queue' = queue /\ held' = held /\ freed' = freed /\ sends' = sends
  <1>1. TypeOK /\ ThreadShape
    BY DEF IInv
  <1>2.
    /\ th[t].pc = "procAnd"
    /\ refcnt' = refcnt /\ queue' = queue /\ held' = held /\ freed' = freed /\ sends' = sends
    BY <1>1, Types DEF ProcessClear
  <1>3.
    /\ To(t, "lock2", th[t].sig, th[t].run, th[t].back, {})
    BY <1>1, Types, ToQf DEF ProcessClear, PCs
  <1>4.
    /\ Flags(flags.locked, flags.queued \ th[t].qf, flags.sigs)
    BY <1>1, Types, ToQf, FlagsSet DEF ProcessClear, PCs
  <1>5. QED  BY <1>2, <1>3, <1>4

\* What SendTest does, field by field.
LEMMA SendTestEffect ==
  ASSUME IInv, NEW t \in Thread, SendTest(t)
  PROVE
    /\ th[t].pc = "send"
    /\ IF th[t].sig \in flags.sigs THEN To(t, "decRead", th[t].sig, th[t].run, th[t].back, th[t].qf)
       ELSE To(t, "lock1", th[t].sig, th[t].run, th[t].back, th[t].qf)
    /\ flags' = flags /\ refcnt' = refcnt /\ queue' = queue /\ held' = held /\ freed' = freed /\ sends' = sends
  <1>1. TypeOK /\ ThreadShape
    BY DEF IInv
  <1>2.
    /\ th[t].pc = "send"
    /\ flags' = flags /\ refcnt' = refcnt /\ queue' = queue /\ held' = held /\ freed' = freed /\ sends' = sends
    BY <1>1, Types DEF SendTest
  <1>3.
    /\ IF th[t].sig \in flags.sigs THEN To(t, "decRead", th[t].sig, th[t].run, th[t].back, th[t].qf)
       ELSE To(t, "lock1", th[t].sig, th[t].run, th[t].back, th[t].qf)
    BY <1>1, Types, GotoTo DEF SendTest, PCs
  <1>4. QED  BY <1>2, <1>3

\* What SendLock does, field by field.
LEMMA SendLockEffect ==
  ASSUME IInv, NEW t \in Thread, SendLock(t)
  PROVE
    /\ th[t].pc = "lock1"
    /\ \/ /\ ~flags.locked /\ Flags(TRUE, flags.queued, flags.sigs \union {th[t].sig})
          /\ To(t, "unlock", th[t].sig, th[t].run, th[t].back, th[t].qf)
       \/ /\ flags.locked /\ flags' = flags
          /\ To(t, "or", th[t].sig, th[t].run, th[t].back, th[t].qf)
    /\ refcnt' = refcnt /\ queue' = queue /\ held' = held /\ freed' = freed /\ sends' = sends
  <1>1. TypeOK /\ ThreadShape
    BY DEF IInv
  <1>2. /\ th[t].pc = "lock1" /\ th \in [Thread -> Rec]
        /\ refcnt' = refcnt /\ queue' = queue /\ held' = held /\ freed' = freed /\ sends' = sends
    BY <1>1, Types DEF SendLock
  <1>3. flags.sigs \union {th[t].sig} \in SUBSET AllSig
    BY <1>1, <1>2, Types DEF ThreadShape, Fits, Rec
  <1>4. CASE ~flags.locked
    <2>1. flags' = [flags EXCEPT !.locked = TRUE, !.sigs = flags.sigs \union {th[t].sig}] /\ Goto(t, "unlock")
      BY <1>4 DEF SendLock
    <2>2. Flags(TRUE, flags.queued, flags.sigs \union {th[t].sig})
      BY <1>1, <1>3, <2>1, FlagsSet, Types
    <2>3. To(t, "unlock", th[t].sig, th[t].run, th[t].back, th[t].qf)
      BY <1>2, <2>1, GotoTo DEF PCs
    <2>4. QED  BY <1>2, <1>4, <2>2, <2>3
  <1>5. CASE flags.locked
    <2>1. flags' = flags /\ Goto(t, "or")
      BY <1>5 DEF SendLock
    <2>2. To(t, "or", th[t].sig, th[t].run, th[t].back, th[t].qf)
      BY <1>2, <2>1, GotoTo DEF PCs
    <2>3. QED  BY <1>2, <1>5, <2>1, <2>2
  <1>6. QED  BY <1>4, <1>5

\* What SendOr does, field by field.
LEMMA SendOrEffect ==
  ASSUME IInv, NEW t \in Thread, SendOr(t)
  PROVE
    /\ th[t].pc = "or"
    /\ To(t, "lock2", th[t].sig, th[t].run, th[t].back, th[t].qf)
    /\ Flags(flags.locked, flags.queued, flags.sigs \union {th[t].sig})
    /\ refcnt' = refcnt /\ queue' = queue /\ held' = held /\ freed' = freed /\ sends' = sends
  <1>1. TypeOK /\ ThreadShape
    BY DEF IInv
  <1>2. /\ th[t].pc = "or" /\ th \in [Thread -> Rec] /\ Goto(t, "lock2")
        /\ flags' = [flags EXCEPT !.sigs = flags.sigs \union {th[t].sig}]
        /\ refcnt' = refcnt /\ queue' = queue /\ held' = held /\ freed' = freed /\ sends' = sends
    BY <1>1, Types DEF SendOr
  <1>3. flags.sigs \union {th[t].sig} \in SUBSET AllSig
    BY <1>1, <1>2, Types DEF ThreadShape, Fits, Rec
  <1>4. Flags(flags.locked, flags.queued, flags.sigs \union {th[t].sig})
    BY <1>1, <1>2, <1>3, FlagsSet, Types
  <1>5. To(t, "lock2", th[t].sig, th[t].run, th[t].back, th[t].qf)
    BY <1>2, GotoTo DEF PCs
  <1>6. QED  BY <1>2, <1>4, <1>5

\* What LockAgain does, field by field.
LEMMA LockAgainEffect ==
  ASSUME IInv, NEW t \in Thread, LockAgain(t)
  PROVE
    /\ th[t].pc = "lock2"
    /\ \/ /\ ~flags.locked /\ Flags(TRUE, flags.queued, flags.sigs)
          /\ To(t, "unlock", th[t].sig, th[t].run, th[t].back, th[t].qf)
       \/ /\ flags.locked /\ flags' = flags
          /\ To(t, "decRead", th[t].sig, th[t].run, th[t].back, th[t].qf)
    /\ refcnt' = refcnt /\ queue' = queue /\ held' = held /\ freed' = freed /\ sends' = sends
  <1>1. TypeOK /\ ThreadShape
    BY DEF IInv
  <1>2.
    /\ th[t].pc = "lock2"
    /\ refcnt' = refcnt /\ queue' = queue /\ held' = held /\ freed' = freed /\ sends' = sends
    BY <1>1, Types DEF LockAgain
  <1>3.
    /\ \/ /\ ~flags.locked /\ Flags(TRUE, flags.queued, flags.sigs)
          /\ To(t, "unlock", th[t].sig, th[t].run, th[t].back, th[t].qf)
       \/ /\ flags.locked /\ flags' = flags
          /\ To(t, "decRead", th[t].sig, th[t].run, th[t].back, th[t].qf)
    BY <1>1, Types, GotoTo, FlagsSet DEF LockAgain, PCs
  <1>4. QED  BY <1>2, <1>3

\* What DecRead does, field by field.
LEMMA DecReadEffect ==
  ASSUME IInv, NEW t \in Thread, DecRead(t)
  PROVE
    /\ th[t].pc = "decRead"
    /\ IF refcnt >= 2 THEN To(t, "decSub", th[t].sig, th[t].run, th[t].back, th[t].qf)
       ELSE To(t, "send", JS_FINISH, th[t].run, th[t].back, th[t].qf)
    /\ flags' = flags /\ refcnt' = refcnt /\ queue' = queue /\ held' = held /\ freed' = freed /\ sends' = sends
  <1>1. TypeOK
    BY DEF IInv
  <1>2. /\ th[t].pc = "decRead" /\ th \in [Thread -> Rec]
        /\ flags' = flags /\ refcnt' = refcnt /\ queue' = queue
        /\ held' = held /\ freed' = freed /\ sends' = sends
    BY <1>1, Types DEF DecRead
  <1>3. CASE refcnt >= 2
    <2>1. Goto(t, "decSub")
      BY <1>3 DEF DecRead, Goto
    <2>2. QED  BY <1>2, <1>3, <2>1, GotoTo DEF PCs
  <1>4. CASE ~(refcnt >= 2)
    <2>1. th' = [th EXCEPT ![t].pc = "send", ![t].sig = JS_FINISH]
      BY <1>4, <1>2 DEF DecRead
    <2>2. QED  BY <1>1, <1>2, <1>4, <2>1, ToSig, Types DEF PCs
  <1>5. QED  BY <1>3, <1>4

\* What DecSub does, field by field.
LEMMA DecSubEffect ==
  ASSUME IInv, NEW t \in Thread, DecSub(t)
  PROVE
    /\ th[t].pc = "decSub"
    /\ refcnt' = refcnt - 1
    /\ IF refcnt # 1 THEN Returned(t) ELSE To(t, "decFix", th[t].sig, th[t].run, th[t].back, th[t].qf)
    /\ flags' = flags /\ queue' = queue /\ held' = held /\ freed' = freed /\ sends' = sends
  <1>1. TypeOK /\ ThreadShape
    BY DEF IInv
  <1>2.
    /\ th[t].pc = "decSub"
    /\ refcnt' = refcnt - 1
    /\ flags' = flags /\ queue' = queue /\ held' = held /\ freed' = freed /\ sends' = sends
    BY <1>1, Types DEF DecSub
  <1>3.
    /\ IF refcnt # 1 THEN Returned(t) ELSE To(t, "decFix", th[t].sig, th[t].run, th[t].back, th[t].qf)
    BY <1>1, Types, GotoTo, DoneTo DEF DecSub, PCs
  <1>4. QED  BY <1>2, <1>3

\* What DecFix does, field by field.
LEMMA DecFixEffect ==
  ASSUME IInv, NEW t \in Thread, DecFix(t)
  PROVE
    /\ th[t].pc = "decFix"
    /\ refcnt' = 1
    /\ To(t, "send", JS_FINISH, th[t].run, th[t].back, th[t].qf)
    /\ flags' = flags /\ queue' = queue /\ held' = held /\ freed' = freed /\ sends' = sends
  <1>1. TypeOK /\ ThreadShape
    BY DEF IInv
  <1>2.
    /\ th[t].pc = "decFix"
    /\ refcnt' = 1
    /\ flags' = flags /\ queue' = queue /\ held' = held /\ freed' = freed /\ sends' = sends
    BY <1>1, Types DEF DecFix
  <1>3.
    /\ To(t, "send", JS_FINISH, th[t].run, th[t].back, th[t].qf)
    BY <1>1, Types, ToSig DEF DecFix, PCs
  <1>4. QED  BY <1>2, <1>3

\* What UnlockIdle does, field by field.
LEMMA UnlockIdleEffect ==
  ASSUME IInv, NEW t \in Thread, UnlockIdle(t)
  PROVE
    /\ th[t].pc = "unlock" /\ flags.sigs = {}
    /\ Flags(FALSE, flags.queued, flags.sigs)
    /\ To(t, "dropRead", th[t].sig, th[t].run, th[t].back, th[t].qf)
    /\ refcnt' = refcnt /\ queue' = queue /\ held' = held /\ freed' = freed /\ sends' = sends
  <1>1. TypeOK /\ ThreadShape
    BY DEF IInv
  <1>2.
    /\ th[t].pc = "unlock" /\ flags.sigs = {}
    /\ refcnt' = refcnt /\ queue' = queue /\ held' = held /\ freed' = freed /\ sends' = sends
    BY <1>1, Types DEF UnlockIdle, Owner
  <1>3.
    /\ Flags(FALSE, flags.queued, flags.sigs)
    BY <1>1, Types, GotoTo, FlagsSet DEF UnlockIdle, PCs, Owner
  <1>4.
    /\ To(t, "dropRead", th[t].sig, th[t].run, th[t].back, th[t].qf)
    BY <1>1, Types, GotoTo DEF UnlockIdle, PCs, Owner
  <1>5. QED  BY <1>2, <1>3, <1>4

\* What Choose does, field by field.
LEMMA ChooseEffect ==
  ASSUME IInv, NEW t \in Thread, Choose(t)
  PROVE
    /\ th[t].pc = "unlock" /\ flags.sigs # {}
    /\ To(t, "begin", th[t].sig, Max(flags.sigs), th[t].back, th[t].qf)
    /\ flags' = flags /\ refcnt' = refcnt /\ queue' = queue /\ held' = held /\ freed' = freed /\ sends' = sends
  <1>1. TypeOK /\ ThreadShape
    BY DEF IInv
  <1>2.
    /\ th[t].pc = "unlock" /\ flags.sigs # {}
    /\ flags' = flags /\ refcnt' = refcnt /\ queue' = queue /\ held' = held /\ freed' = freed /\ sends' = sends
    BY <1>1, Types DEF Choose, Owner
  <1>3.
    /\ To(t, "begin", th[t].sig, Max(flags.sigs), th[t].back, th[t].qf)
    BY <1>1, Types, ToRun, Highest DEF Choose, PCs, Owner
  <1>4. QED  BY <1>2, <1>3

\* What Requeue does, field by field.
LEMMA RequeueEffect ==
  ASSUME IInv, NEW t \in Thread, Requeue(t)
  PROVE
    /\ th[t].pc = "unlock" /\ flags.sigs # {}
    /\ Flags(FALSE, flags.queued \union {SigClass[Max(flags.sigs)]}, flags.sigs)
    /\ IF SigClass[Max(flags.sigs)] \in flags.queued THEN To(t, "decRead", th[t].sig, th[t].run, th[t].back, th[t].qf)
       ELSE To(t, "push", th[t].sig, Max(flags.sigs), th[t].back, th[t].qf)
    /\ refcnt' = refcnt /\ queue' = queue /\ held' = held /\ freed' = freed /\ sends' = sends
  <1>1. TypeOK
    BY DEF IInv
  <1> DEFINE s == Max(flags.sigs)
  <1>2. /\ th[t].pc = "unlock" /\ flags.sigs # {} /\ th \in [Thread -> Rec]
        /\ flags' = [flags EXCEPT !.locked = FALSE, !.queued = flags.queued \union {SigClass[s]}]
        /\ IF SigClass[s] \in flags.queued THEN Goto(t, "decRead")
           ELSE th' = [th EXCEPT ![t].pc = "push", ![t].run = s]
        /\ refcnt' = refcnt /\ queue' = queue /\ held' = held /\ freed' = freed /\ sends' = sends
    BY <1>1, Types DEF Requeue, Owner
  <1>3. s \in AllSig
    BY <1>1, <1>2, Types, Highest
  <1> HIDE DEF s
  <1>4. flags.queued \union {SigClass[s]} \in SUBSET Class
    BY <1>1, <1>3, Types
  <1>5. Flags(FALSE, flags.queued \union {SigClass[s]}, flags.sigs)
    BY <1>1, <1>2, <1>4, FlagsSet, Types
  <1>6. IF SigClass[s] \in flags.queued
        THEN To(t, "decRead", th[t].sig, th[t].run, th[t].back, th[t].qf)
        ELSE To(t, "push", th[t].sig, s, th[t].back, th[t].qf)
    BY <1>2, <1>3, GotoTo, ToRun DEF PCs
  <1>7. QED  BY <1>2, <1>5, <1>6 DEF s

\* What Push does, field by field.
LEMMA PushEffect ==
  ASSUME IInv, NEW t \in Thread, Push(t)
  PROVE
    /\ th[t].pc = "push"
    /\ queue' = [queue EXCEPT ![SigClass[th[t].run]] = @ + 1]
    /\ Returned(t)
    /\ flags' = flags /\ refcnt' = refcnt /\ held' = held /\ freed' = freed /\ sends' = sends
  <1>1. TypeOK /\ ThreadShape
    BY DEF IInv
  <1>2.
    /\ th[t].pc = "push"
    /\ queue' = [queue EXCEPT ![SigClass[th[t].run]] = @ + 1]
    /\ flags' = flags /\ refcnt' = refcnt /\ held' = held /\ freed' = freed /\ sends' = sends
    BY <1>1, Types DEF Push
  <1>3.
    /\ Returned(t)
    BY <1>1, Types, DoneTo DEF Push, PCs
  <1>4. QED  BY <1>2, <1>3

\* What Begin does, field by field.
LEMMA BeginEffect ==
  ASSUME IInv, NEW t \in Thread, Begin(t)
  PROVE
    /\ th[t].pc = "begin"
    /\ Flags(flags.locked, flags.queued, flags.sigs \ {th[t].run})
    /\ IF th[t].run = JS_FINISH THEN freed' = TRUE /\ Returned(t)
       ELSE freed' = freed /\ To(t, "exec", th[t].sig, th[t].run, th[t].back, th[t].qf)
    /\ refcnt' = refcnt /\ queue' = queue /\ held' = held /\ sends' = sends
  <1>1. TypeOK /\ ThreadShape
    BY DEF IInv
  <1>2.
    /\ th[t].pc = "begin"
    /\ refcnt' = refcnt /\ queue' = queue /\ held' = held /\ sends' = sends
    BY <1>1, Types DEF Begin
  <1>3.
    /\ Flags(flags.locked, flags.queued, flags.sigs \ {th[t].run})
    BY <1>1, Types, GotoTo, DoneTo, FlagsSet DEF Begin, PCs
  <1>4.
    /\ IF th[t].run = JS_FINISH THEN freed' = TRUE /\ Returned(t)
       ELSE freed' = freed /\ To(t, "exec", th[t].sig, th[t].run, th[t].back, th[t].qf)
    BY <1>1, Types, GotoTo, DoneTo DEF Begin, PCs
  <1>5. QED  BY <1>2, <1>3, <1>4

\* What HandlerSignal does, field by field.
LEMMA HandlerSignalEffect ==
  ASSUME IInv, NEW t \in Thread, NEW s \in Sig, HandlerSignal(t, s)
  PROVE
    /\ th[t].pc = "exec" /\ sends < MaxSends
    /\ To(t, "send", s, th[t].run, "exec", th[t].qf)
    /\ refcnt' = refcnt + 1 /\ sends' = sends + 1
    /\ flags' = flags /\ queue' = queue /\ held' = held /\ freed' = freed
  <1>1. TypeOK /\ ThreadShape
    BY DEF IInv
  <1>2.
    /\ th[t].pc = "exec" /\ sends < MaxSends
    /\ refcnt' = refcnt + 1 /\ sends' = sends + 1
    /\ flags' = flags /\ queue' = queue /\ held' = held /\ freed' = freed
    BY <1>1, Types DEF HandlerSignal
  <1>3.
    /\ To(t, "send", s, th[t].run, "exec", th[t].qf)
    BY <1>1, Types, ToBack DEF HandlerSignal, PCs, AllSig
  <1>4. QED  BY <1>2, <1>3

\* What HandlerReturn does, field by field.
LEMMA HandlerReturnEffect ==
  ASSUME IInv, NEW t \in Thread, NEW S \in SUBSET Sig, HandlerReturn(t, S)
  PROVE
    /\ th[t].pc = "exec"
    /\ To(t, "unlock", th[t].sig, None, th[t].back, th[t].qf)
    /\ Flags(flags.locked, flags.queued, flags.sigs \union S)
    /\ sends' \in {sends, sends + 1} /\ sends' \in 0 .. MaxSends
    /\ refcnt' = refcnt /\ queue' = queue /\ held' = held /\ freed' = freed
  <1>1. TypeOK
    BY DEF IInv
  <1>2. /\ th[t].pc = "exec" /\ th \in [Thread -> Rec]
        /\ flags' = [flags EXCEPT !.sigs = flags.sigs \union S]
        /\ th' = [th EXCEPT ![t].pc = "unlock", ![t].run = None]
        /\ refcnt' = refcnt /\ queue' = queue /\ held' = held /\ freed' = freed
    BY <1>1, Types DEF HandlerReturn
  <1>3. sends' \in {sends, sends + 1} /\ sends' \in 0 .. MaxSends
    <2>1. sends \in 0 .. MaxSends /\ MaxSends \in Nat
      BY <1>1, EngineAssumption DEF TypeOK
    <2>2. sends' = sends \/ (sends < MaxSends /\ sends' = sends + 1)
      BY DEF HandlerReturn
    <2>3. QED  BY <2>1, <2>2
  <1>4. flags.sigs \union S \in SUBSET AllSig
    BY <1>1, Types DEF AllSig
  <1>5. Flags(flags.locked, flags.queued, flags.sigs \union S)
    BY <1>1, <1>2, <1>4, FlagsSet, Types
  <1>6. To(t, "unlock", th[t].sig, None, th[t].back, th[t].qf)
    BY <1>2, ToRun DEF PCs
  <1>7. QED  BY <1>2, <1>3, <1>5, <1>6

\* What DropRead does, field by field.
LEMMA DropReadEffect ==
  ASSUME IInv, NEW t \in Thread, DropRead(t)
  PROVE
    /\ th[t].pc = "dropRead"
    /\ IF refcnt >= 2 THEN flags' = flags /\ To(t, "dropSub", th[t].sig, th[t].run, th[t].back, th[t].qf)
       ELSE Flags(TRUE, flags.queued, flags.sigs \union {JS_FINISH}) /\ To(t, "unlock", th[t].sig, th[t].run, th[t].back, th[t].qf)
    /\ refcnt' = refcnt /\ queue' = queue /\ held' = held /\ freed' = freed /\ sends' = sends
  <1>1. TypeOK /\ ThreadShape
    BY DEF IInv
  <1>2.
    /\ th[t].pc = "dropRead"
    /\ refcnt' = refcnt /\ queue' = queue /\ held' = held /\ freed' = freed /\ sends' = sends
    BY <1>1, Types DEF DropRead
  <1>3.
    /\ IF refcnt >= 2 THEN flags' = flags /\ To(t, "dropSub", th[t].sig, th[t].run, th[t].back, th[t].qf)
       ELSE Flags(TRUE, flags.queued, flags.sigs \union {JS_FINISH}) /\ To(t, "unlock", th[t].sig, th[t].run, th[t].back, th[t].qf)
    BY <1>1, Types, GotoTo, FlagsSet DEF DropRead, PCs
  <1>4. QED  BY <1>2, <1>3

\* What DropSub does, field by field.
LEMMA DropSubEffect ==
  ASSUME IInv, NEW t \in Thread, DropSub(t)
  PROVE
    /\ th[t].pc = "dropSub"
    /\ refcnt' = refcnt - 1
    /\ IF refcnt # 1 THEN Returned(t) ELSE To(t, "dropFix", th[t].sig, th[t].run, th[t].back, th[t].qf)
    /\ flags' = flags /\ queue' = queue /\ held' = held /\ freed' = freed /\ sends' = sends
  <1>1. TypeOK /\ ThreadShape
    BY DEF IInv
  <1>2.
    /\ th[t].pc = "dropSub"
    /\ refcnt' = refcnt - 1
    /\ flags' = flags /\ queue' = queue /\ held' = held /\ freed' = freed /\ sends' = sends
    BY <1>1, Types DEF DropSub
  <1>3.
    /\ IF refcnt # 1 THEN Returned(t) ELSE To(t, "dropFix", th[t].sig, th[t].run, th[t].back, th[t].qf)
    BY <1>1, Types, GotoTo, DoneTo DEF DropSub, PCs
  <1>4. QED  BY <1>2, <1>3

\* What DropFix does, field by field.
LEMMA DropFixEffect ==
  ASSUME IInv, NEW t \in Thread, DropFix(t)
  PROVE
    /\ th[t].pc = "dropFix"
    /\ refcnt' = 1
    /\ Flags(TRUE, flags.queued, flags.sigs \union {JS_FINISH})
    /\ To(t, "unlock", th[t].sig, th[t].run, th[t].back, th[t].qf)
    /\ queue' = queue /\ held' = held /\ freed' = freed /\ sends' = sends
  <1>1. TypeOK /\ ThreadShape
    BY DEF IInv
  <1>2.
    /\ th[t].pc = "dropFix"
    /\ refcnt' = 1
    /\ queue' = queue /\ held' = held /\ freed' = freed /\ sends' = sends
    BY <1>1, Types DEF DropFix
  <1>3.
    /\ Flags(TRUE, flags.queued, flags.sigs \union {JS_FINISH})
    BY <1>1, Types, GotoTo, FlagsSet DEF DropFix, PCs
  <1>4.
    /\ To(t, "unlock", th[t].sig, th[t].run, th[t].back, th[t].qf)
    BY <1>1, Types, GotoTo DEF DropFix, PCs
  <1>5. QED  BY <1>2, <1>3, <1>4

-----------------------------------------------------------------------------
(* What the invariant says of a thread that is about to take a step *)

Queued == {c \in Class : queue[c] > 0}
Nesting == {t \in Thread : Nested(t)}

\* The three kinds of references are finite sets, and j_refcnt is their sum.
LEMMA Counts ==
  ASSUME IInv
  PROVE  /\ Cardinality(Queued) \in Nat /\ Cardinality(Holding) \in Nat /\ Cardinality(Nesting) \in Nat
         /\ IsFiniteSet(Queued) /\ IsFiniteSet(Holding) /\ IsFiniteSet(Nesting)
         /\ Cardinality(Queued) = 0 => Queued = {}
         /\ Cardinality(Holding) = 0 => Holding = {}
         /\ Cardinality(Nesting) = 0 => Nesting = {}
         /\ ~freed => refcnt = held + Cardinality(Queued) + Cardinality(Holding) + Cardinality(Nesting)
         /\ held \in Nat
  <1>1. IsFiniteSet(Thread)
    BY EngineAssumption
  <1>2. IsFiniteSet(Class)
    <2> DEFINE f == [t \in Thread |-> ClassOf[t]]
    <2>1. f \in Surjection(Thread, Class)
      BY DEF Surjection, Class
    <2> HIDE DEF f
    <2>2. QED  BY <1>1, <2>1, FS_Surjection
  <1>3. IsFiniteSet(Queued)
    BY <1>2, FS_Subset DEF Queued
  <1>4. IsFiniteSet(Holding) /\ IsFiniteSet(Nesting)
    BY <1>1, FS_Subset DEF Holding, Nesting
  <1>5. ~freed => refcnt = held + Cardinality(Queued) + Cardinality(Holding) + Cardinality(Nesting)
    BY DEF IInv, RefcntExact, Queued, Nesting
  <1>6. held \in Nat
    BY EngineAssumption DEF IInv, TypeOK
  <1>7. QED  BY <1>3, <1>4, <1>5, <1>6, FS_CardinalityType, FS_EmptySet

\* A job that is freed is left alone.
LEMMA Live ==
  ASSUME IInv, NEW t \in Thread,
         th[t].pc # "idle" \/ held > 0 \/ queue[ClassOf[t]] > 0
  PROVE  ~freed
  <1>1. ClassOf[t] \in Class
    BY DEF Class
  <1>2. QED  BY <1>1 DEF IInv, FreedShape

\* Nobody takes a step next to a thread that has dropped the last reference.
LEMMA NoFix ==
  ASSUME IInv, NEW t \in Thread, NEW u \in Thread, u # t,
         th[t].pc # "idle" \/ held > 0 \/ queue[ClassOf[t]] > 0
  PROVE  th[u].pc \notin {"decFix", "dropFix"}
  <1>1. SUFFICES ASSUME th[u].pc \in {"decFix", "dropFix"} PROVE FALSE
    OBVIOUS
  <1>2. refcnt = 0 /\ ~freed /\ th[t].pc = "idle"
    BY <1>1 DEF IInv, FixShape
  <1>3. held = 0 /\ Cardinality(Queued) = 0
    BY <1>2, Counts
  <1>4. ClassOf[t] \in Class
    BY DEF Class
  <1>5. queue[ClassOf[t]] > 0 => ClassOf[t] \in Queued
    BY <1>4 DEF Queued
  <1>6. Queued = {}
    BY <1>3, Counts
  <1>7. QED  BY <1>2, <1>3, <1>5, <1>6

\* A thread that finds j_refcnt below 2 holds the only reference there is.
LEMMA Alone ==
  ASSUME IInv, NEW t \in Thread, th[t].pc \notin {"idle", "decFix", "dropFix"}, ~(refcnt >= 2)
  PROVE  /\ refcnt = 1 /\ held = 0 /\ \A c \in Class : queue[c] = 0
         /\ \A u \in Thread : ~Nested(u)
         /\ \A u \in Thread : u # t => th[u].pc = "idle"
  <1>1. ~freed
    BY Live
  <1>2. t \in Holding
    BY DEF Holding
  <1>3. Cardinality(Holding) # 0
    BY <1>2, Counts
  <1>4. refcnt = 1 /\ held = 0 /\ Cardinality(Queued) = 0 /\ Cardinality(Nesting) = 0 /\ Cardinality(Holding) = 1
    <2>1. refcnt \in Nat
      BY Types DEF IInv
    <2>2. QED  BY <1>1, <1>3, <2>1, Counts
  <1>5. Holding = {t}
    <2>1. Cardinality(Holding \ {t}) = 0 /\ IsFiniteSet(Holding \ {t})
      BY <1>2, <1>4, Counts, FS_RemoveElement
    <2>2. Holding \ {t} = {}
      BY <2>1, FS_EmptySet
    <2>3. QED  BY <1>2, <2>2
  <1>6. \A c \in Class : queue[c] = 0
    <2>1. Queued = {}
      BY <1>4, Counts
    <2>2. \A c \in Class : queue[c] \in Nat
      BY DEF IInv, TypeOK
    <2>3. QED  BY <2>1, <2>2 DEF Queued
  <1>7. \A u \in Thread : ~Nested(u)
    BY <1>4, Counts DEF Nesting
  <1>8. ASSUME NEW u \in Thread, u # t PROVE th[u].pc = "idle"
    <2>1. u \notin Holding
      BY <1>5, <1>8
    <2>2. th[u].pc \notin {"decFix", "dropFix"}
      BY <1>8, NoFix
    <2>3. QED  BY <2>1, <2>2 DEF Holding
  <1>9. QED  BY <1>4, <1>6, <1>7, <1>8

\* Whoever holds a reference finds it counted.
LEMMA Positive ==
  ASSUME IInv, NEW t \in Thread
  PROVE  /\ th[t].pc \notin {"idle", "decFix", "dropFix"} => refcnt >= 1
         /\ Nested(t) => refcnt >= 2
         /\ held > 0 => refcnt >= 1
  <1>1. ASSUME th[t].pc \notin {"idle", "decFix", "dropFix"} PROVE refcnt >= 1
    BY <1>1, Alone DEF IInv, TypeOK
  <1>2. ASSUME Nested(t) PROVE refcnt >= 2
    <2>1. th[t].pc \notin {"idle", "decFix", "dropFix"}
      BY <1>2 DEF IInv, ThreadShape, Fits, Nested
    <2>2. QED  BY <1>2, <2>1, Alone
  <1>3. ASSUME held > 0 PROVE refcnt >= 1
    <2>1. ~freed
      BY <1>3, Live
    <2>2. QED  BY <1>3, <2>1, Counts
  <1>4. QED  BY <1>1, <1>2, <1>3

\* The owner of the lock is alone in it.
LEMMA Owns ==
  ASSUME IInv, NEW t \in Thread, InLock(t)
  PROVE  /\ flags.locked /\ ~freed
         /\ \A u \in Thread : u # t => ~InLock(u)
         /\ th[t].pc \in {"unlock", "begin", "exec"} => ~Nested(t)
  <1>1. th[t].pc # "idle"
    BY DEF IInv, ThreadShape, InLock, Nested, Fits
  <1>2. ~freed
    BY <1>1, Live
  <1>3. QED  BY <1>2 DEF IInv, LockExclusive, ThreadShape, Fits, Nested

-----------------------------------------------------------------------------
(* What a step has to show, conjunct by conjunct *)

Token(p) == p \notin {"idle", "decFix", "dropFix"}
Looks(p) == p \in {"lock2", "push", "proc", "procLock", "procAnd", "unlock", "begin", "exec"}

\* Only t moves.
Others(t) == \A u \in Thread : u # t => th'[u] = th[u]

\* Where t has come to.
LEMMA Landed ==
  ASSUME NEW t \in Thread, NEW p, NEW s, NEW r, NEW b, NEW q, To(t, p, s, r, b, q)
  PROVE  /\ Others(t) /\ th'[t].pc = p /\ th'[t].sig = s /\ th'[t].run = r
         /\ th'[t].back = b /\ th'[t].qf = q
  BY DEF To, Others

\* What t carries where it has come to is all that ThreadShape asks.
LEMMA Shaped ==
  ASSUME IInv, NEW t \in Thread, NEW p, NEW s, NEW r, NEW b, NEW q,
         To(t, p, s, r, b, q), Fits(t, p, s, r, b, q)
  PROVE  ThreadShape'
  <1>1. ASSUME NEW u \in Thread, u # t
        PROVE  /\ th'[u].pc = "idle" => th'[u] = Idle
               /\ Fits(u, th'[u].pc, th'[u].sig, th'[u].run, th'[u].back, th'[u].qf)
    <2>1. th'[u] = th[u]
      BY <1>1 DEF To
    <2>2. QED  BY <2>1 DEF IInv, ThreadShape
  <1>2. /\ th'[t].pc = "idle" => th'[t] = Idle
        /\ Fits(t, th'[t].pc, th'[t].sig, th'[t].run, th'[t].back, th'[t].qf)
    BY DEF To
  <1>3. \A u \in Thread : /\ th'[u].pc = "idle" => th'[u] = Idle
                          /\ Fits(u, th'[u].pc, th'[u].sig, th'[u].run, th'[u].back, th'[u].qf)
    BY <1>1, <1>2
  <1>4. QED  BY <1>3 DEF ThreadShape, Idle, Thr, Fits

\* The references on the threads' stacks.
LEMMA HoldingStep ==
  ASSUME IInv, NEW t \in Thread, NEW p, NEW s, NEW r, NEW b, NEW q, To(t, p, s, r, b, q)
  PROVE  /\ Token(p) <=> Token(th[t].pc) => Holding' = Holding
         /\ Token(p) /\ ~Token(th[t].pc) => Cardinality(Holding') = Cardinality(Holding) + 1
         /\ ~Token(p) /\ Token(th[t].pc) => Cardinality(Holding') = Cardinality(Holding) - 1
         /\ b = th[t].back => Nesting' = Nesting
         /\ b = "exec" /\ th[t].back # "exec" => Cardinality(Nesting') = Cardinality(Nesting) + 1
         /\ b # "exec" /\ th[t].back = "exec" => Cardinality(Nesting') = Cardinality(Nesting) - 1
  <1>1. \A u \in Thread : u # t => th'[u] = th[u]
    BY DEF To
  <1>2. th'[t].pc = p /\ th'[t].back = b
    BY DEF To
  <1>3. (Token(p) <=> Token(th[t].pc)) => Holding' = Holding
    BY <1>1, <1>2 DEF Holding, Token
  <1>4. Token(p) /\ ~Token(th[t].pc) => Holding' = Holding \union {t} /\ t \notin Holding
    BY <1>1, <1>2 DEF Holding, Token
  <1>5. ~Token(p) /\ Token(th[t].pc) => Holding' = Holding \ {t} /\ t \in Holding
    BY <1>1, <1>2 DEF Holding, Token
  <1>6. b = th[t].back => Nesting' = Nesting
    BY <1>1, <1>2 DEF Nesting, Nested
  <1>7. b = "exec" /\ th[t].back # "exec" => Nesting' = Nesting \union {t} /\ t \notin Nesting
    BY <1>1, <1>2 DEF Nesting, Nested
  <1>8. b # "exec" /\ th[t].back = "exec" => Nesting' = Nesting \ {t} /\ t \in Nesting
    BY <1>1, <1>2 DEF Nesting, Nested
  <1>9. QED  BY <1>3, <1>4, <1>5, <1>6, <1>7, <1>8, Counts, FS_AddElement, FS_RemoveElement

\* A step that neither makes, moves nor drops a reference.
LEMMA Quiet ==
  ASSUME IInv, NEW t \in Thread, NEW p, NEW s, NEW r, NEW b, NEW q,
         To(t, p, s, r, b, q), Token(p), Token(th[t].pc), b = th[t].back,
         flags' \in [locked : BOOLEAN, queued : SUBSET Class, sigs : SUBSET AllSig],
         refcnt' = refcnt, queue' = queue, held' = held, freed' = freed,
         sends' \in {sends, sends + 1}, sends' \in 0 .. MaxSends
  PROVE  TypeOK' /\ RefBound' /\ RefcntExact' /\ FixShape' /\ FreedShape'
  <1>1. TypeOK'
    BY DEF IInv, TypeOK, To, Rec
  <1>2. RefBound'
    <2>1. refcnt \in Nat /\ sends \in Nat /\ Holders \in Nat /\ refcnt <= 1 + Holders + sends
      BY Types, EngineAssumption DEF IInv, RefBound
    <2>2. sends' = sends \/ sends' = sends + 1
      OBVIOUS
    <2>3. CASE sends' = sends
      BY <2>1, <2>3 DEF RefBound
    <2>4. CASE sends' = sends + 1
      BY <2>1, <2>4 DEF RefBound
    <2>5. QED  BY <2>2, <2>3, <2>4
  <1>3. RefcntExact'
    <2>1. Holding' = Holding /\ Nesting' = Nesting
      BY HoldingStep
    <2>2. QED  BY <2>1 DEF IInv, RefcntExact, Nesting
  <1>4. ~freed /\ th[t].pc # "idle"
    BY Live DEF Token
  <1>5. FixShape'
    <2>1. \A u \in Thread : th'[u].pc \notin {"decFix", "dropFix"}
      BY <1>4, NoFix DEF To, Token
    <2>2. QED  BY <2>1 DEF FixShape
  <1>6. QED  BY <1>1, <1>2, <1>3, <1>4, <1>5 DEF FreedShape

\* The lock: it stays as it is, is taken, or is given up.
LEMMA LockKept ==
  ASSUME IInv, NEW t \in Thread, NEW p, NEW s, NEW r, NEW b, NEW q,
         To(t, p, s, r, b, q), flags'.locked = flags.locked, freed' = freed,
         (p \in {"unlock", "begin", "exec"} \/ b = "exec") <=> InLock(t)
  PROVE  LockExclusive'
  <1>1. \A u \in Thread : InLock(u)' <=> InLock(u)
    BY DEF To, InLock, Nested
  <1>2. QED  BY <1>1 DEF IInv, LockExclusive

\* try_lock_job: nobody had the lock.
LEMMA LockTaken ==
  ASSUME IInv, NEW t \in Thread, NEW p, NEW s, NEW r, NEW b, NEW q,
         To(t, p, s, r, b, q), flags'.locked = TRUE, ~freed,
         \A u \in Thread : u # t => ~InLock(u),
         p = "unlock"
  PROVE  LockExclusive'
  <1>1. \A u \in Thread : InLock(u)' <=> u = t
    BY DEF To, InLock, Nested
  <1>2. QED  BY <1>1 DEF LockExclusive

\* unlock_job: nobody has it now.
LEMMA LockLeft ==
  ASSUME IInv, NEW t \in Thread, Others(t), flags'.locked = FALSE,
         InLock(t), th'[t].pc \notin {"unlock", "begin", "exec"}, th'[t].back # "exec"
  PROVE  LockExclusive'
  <1>1. \A u \in Thread : ~InLock(u)'
    BY Owns DEF Others, InLock, Nested
  <1>2. QED  BY <1>1 DEF LockExclusive

\* No entry changes hands.
LEMMA QueueKept ==
  ASSUME IInv, NEW t \in Thread, NEW p, NEW s, NEW r, NEW b, NEW q,
         To(t, p, s, r, b, q), flags'.queued = flags.queued, queue' = queue,
         \/ p # "push" /\ th[t].pc # "push"
            /\ (p \in {"proc", "procLock", "procAnd"} <=> th[t].pc \in {"proc", "procLock", "procAnd"})
  PROVE  QueueShape'
  <1>1. \A c \in Class : \A u \in Thread : Carries(u, c)' <=> Carries(u, c)
    BY DEF To, Carries
  <1>2. QED  BY <1>1 DEF IInv, QueueShape

\* A signal that is set is still going to be looked at.
LEMMA ServedHere ==
  ASSUME NEW t \in Thread, NEW p, NEW s, NEW r, NEW b, NEW q,
         To(t, p, s, r, b, q), Looks(p) \/ b = "exec"
  PROVE  Served'
  BY DEF Served, To, InLock, Nested, Looks

\* by whoever was going to,
LEMMA ServedElsewhere ==
  ASSUME IInv, NEW t \in Thread, NEW p, NEW s, NEW r, NEW b, NEW q,
         To(t, p, s, r, b, q), queue' = queue, flags'.sigs = flags.sigs,
         ~Looks(th[t].pc), Nested(t) => b = "exec"
  PROVE  Served'
  <1>1. CASE Nested(t)
    BY <1>1, ServedHere
  <1>2. ASSUME ~Nested(t), NEW u \in Thread, InLock(u) \/ th[u].pc \in {"lock2", "push", "proc", "procLock", "procAnd"}
        PROVE  InLock(u)' \/ th'[u].pc \in {"lock2", "push", "proc", "procLock", "procAnd"}
    <2>1. u # t
      BY <1>2 DEF InLock, Looks
    <2>2. QED  BY <1>2, <2>1 DEF To, InLock, Nested
  <1>3. CASE ~Nested(t)
    BY <1>2, <1>3 DEF IInv, Served
  <1>4. QED  BY <1>1, <1>3

\* by the owner of the lock,
LEMMA ServedByOwner ==
  ASSUME IInv, NEW t \in Thread, NEW p, NEW s, NEW r, NEW b, NEW q,
         To(t, p, s, r, b, q), flags.locked, ~freed, InLock(t) => b = "exec"
  PROVE  Served'
  <1>1. PICK u \in Thread : InLock(u)
    BY DEF IInv, LockExclusive
  <1>2. CASE u = t
    BY <1>1, <1>2, ServedHere
  <1>3. CASE u # t
    <2>1. InLock(u)'
      BY <1>1, <1>3 DEF To, InLock, Nested
    <2>2. QED  BY <2>1 DEF Served
  <1>4. QED  BY <1>2, <1>3

\* An entry that is queued will be popped.
LEMMA ServedQueued ==
  ASSUME IInv, NEW t \in Thread, NEW p, NEW s, NEW r, NEW b, NEW q,
         To(t, p, s, r, b, q), queue' = queue, NEW c \in Class, c \in flags.queued, ~Carries(t, c)
  PROVE  Served'
  <1>1. CASE queue[c] = 1
    BY <1>1 DEF Served
  <1>2. CASE \E u \in Thread : Carries(u, c)
    <2>1. PICK u \in Thread : Carries(u, c)
      BY <1>2
    <2>2. u # t
      BY <2>1
    <2>3. th'[u].pc \in {"push", "proc", "procLock", "procAnd"}
      BY <2>1, <2>2 DEF Carries, To
    <2>4. QED  BY <2>3 DEF Served
  <1>3. QED  BY <1>1, <1>2 DEF IInv, QueueShape

\* t gives its entry up with the bit that stands for it,
LEMMA Dequeued ==
  ASSUME IInv, NEW t \in Thread, NEW p, NEW s, NEW r, NEW b, NEW q,
         To(t, p, s, r, b, q), th[t].pc \in {"procLock", "procAnd"}, p \in {"unlock", "lock2"},
         queue' = queue, flags'.queued = flags.queued \ {ClassOf[t]}
  PROVE  QueueShape'
  <1>1. ClassOf[t] \in Class /\ \A c \in Class : Carries(t, c) <=> c = ClassOf[t]
    BY DEF Class, Carries
  <1>2. \A c \in Class : ~Carries(t, c)'
    BY DEF To, Carries
  <1>3. \A c \in Class : \A u \in Thread : u # t => (Carries(u, c)' <=> Carries(u, c))
    BY DEF To, Carries
  <1>4. \A c \in Class : queue[c] \in Nat
    BY DEF IInv, TypeOK
  <1>5. QED  BY <1>1, <1>2, <1>3, <1>4 DEF IInv, QueueShape

\* or sets the bit and has the entry to push.
LEMMA Enqueued ==
  ASSUME IInv, NEW t \in Thread, NEW s, NEW r \in AllSig, NEW b, NEW q,
         To(t, "push", s, r, b, q), th[t].pc = "unlock", SigClass[r] \notin flags.queued,
         queue' = queue, flags'.queued = flags.queued \union {SigClass[r]}
  PROVE  QueueShape'
  <1>1. SigClass[r] \in Class /\ \A c \in Class : ~Carries(t, c)
    BY Types DEF IInv, Carries
  <1>2. \A c \in Class : Carries(t, c)' <=> c = SigClass[r]
    BY DEF To, Carries
  <1>3. \A c \in Class : \A u \in Thread : u # t => (Carries(u, c)' <=> Carries(u, c))
    BY DEF To, Carries
  <1>4. QED  BY <1>1, <1>2, <1>3 DEF IInv, QueueShape

\* Signals that are set are not left to a thread that does not look at them.
LEMMA AloneUnserved ==
  ASSUME IInv, NEW t \in Thread, Token(th[t].pc), ~Looks(th[t].pc), ~(refcnt >= 2)
  PROVE  flags.sigs = {} /\ ~flags.locked
  <1>1. /\ \A c \in Class : queue[c] = 0
        /\ \A u \in Thread : ~Nested(u)
        /\ \A u \in Thread : u # t => th[u].pc = "idle"
    BY Alone DEF Token
  <1>2. \A u \in Thread : ~InLock(u) /\ ~Looks(th[u].pc)
    BY <1>1 DEF InLock, Looks
  <1>3. ~freed
    BY Live DEF Token
  <1>4. QED  BY <1>1, <1>2, <1>3 DEF IInv, Served, LockExclusive, Looks

\* The thread that sends JS_FINISH finds the job unlocked and without signals.
LEMMA FinishFirst ==
  ASSUME IInv, NEW t \in Thread, th[t].sig = JS_FINISH, th[t].pc \in {"send", "lock1"}
  PROVE  /\ flags.sigs = {} /\ ~flags.locked /\ held = 0 /\ refcnt = 1
         /\ \A u \in Thread : u # t => th[u].pc = "idle"
  <1>1. ~freed
    BY Live
  <1>2. held = 0 /\ refcnt = 1
    BY <1>1 DEF IInv, ClosingShape, Closing
  <1>3. QED  BY <1>2, Alone, AloneUnserved DEF Token, Looks

\* ... and while others work nobody has sent it.
LEMMA Unclosed ==
  ASSUME IInv, NEW t \in Thread, Token(th[t].pc), ~Looks(th[t].pc), th[t].sig # JS_FINISH
  PROVE  ~Closing
  <1>1. SUFFICES ASSUME Closing PROVE FALSE
    OBVIOUS
  <1>2. ~freed
    BY Live DEF Token
  <1>3. refcnt = 1
    BY <1>1, <1>2 DEF IInv, ClosingShape
  <1>4. flags.sigs = {}
    BY <1>3, AloneUnserved
  <1>5. \A u \in Thread : u # t => th[u].pc = "idle"
    BY <1>3, Alone DEF Token
  <1>6. \A u \in Thread : th[u].pc = "idle" => th[u].sig # JS_FINISH
    BY DEF IInv, ThreadShape, Idle, Thr, None, JS_FINISH
  <1>7. QED  BY <1>1, <1>4, <1>5, <1>6 DEF Closing

\* JS_FINISH: the step leaves alone what is being finished.
LEMMA ClosingKept ==
  ASSUME IInv, NEW t \in Thread, Others(t), flags'.sigs = flags.sigs,
         th'[t].sig = th[t].sig, th[t].sig # JS_FINISH,
         held' = held, refcnt' = refcnt, freed' = freed, th'[t].pc # "exec",
         th'[t].pc = "begin" => th'[t].run \in flags.sigs
  PROVE  ClosingShape'
  <1>1. Closing' <=> Closing
    BY DEF Closing, Others
  <1>2. QED  BY <1>1 DEF IInv, ClosingShape, Others

\* t goes on sending it.
LEMMA ClosingGoesOn ==
  ASSUME IInv, NEW t \in Thread, Others(t), flags'.sigs = flags.sigs, th'[t].sig = th[t].sig,
         held' = held, refcnt' = refcnt, freed' = freed,
         \/ th'[t].pc \in {"send", "lock1"}
         \/ th'[t].pc \in {"unlock", "begin", "push"} /\ JS_FINISH \in flags.sigs,
         th'[t].pc = "begin" => th'[t].run \in flags.sigs
  PROVE  ClosingShape'
  <1>1. Closing' <=> Closing
    BY DEF Closing, Others
  <1>2. QED  BY <1>1 DEF IInv, ClosingShape, Others

\* Nobody sends it, t neither.
LEMMA NotClosing ==
  ASSUME IInv, NEW t \in Thread, NEW p, NEW s, NEW r, NEW b, NEW q,
         To(t, p, s, r, b, q), ~Closing, flags.sigs \subseteq flags'.sigs,
         JS_FINISH \notin flags'.sigs, s # JS_FINISH, p # "begin"
  PROVE  ClosingShape'
  <1>1. ~Closing'
    BY DEF Closing, To
  <1>2. \A u \in Thread : u # t => th'[u] = th[u]
    BY DEF To
  <1>3. th'[t].sig = s /\ th'[t].pc = p
    BY DEF To
  <1>4. QED  BY <1>1, <1>2, <1>3 DEF IInv, ClosingShape, Closing

\* JS_FINISH is sent by the thread that is alone.
LEMMA ClosingNow ==
  ASSUME IInv, NEW t \in Thread, NEW p, NEW s, NEW r, NEW b, NEW q,
         To(t, p, s, r, b, q), \A u \in Thread : u # t => th[u].pc = "idle",
         held' = 0, refcnt' = 1, flags'.sigs \subseteq {JS_FINISH},
         \/ p \in {"send", "lock1"} /\ s = JS_FINISH
         \/ p = "unlock" /\ JS_FINISH \in flags'.sigs
  PROVE  ClosingShape'
  <1>1. ASSUME NEW u \in Thread, u # t PROVE th'[u].pc = "idle" /\ th'[u].sig = None
    <2>1. th'[u] = Idle
      BY <1>1 DEF To, IInv, ThreadShape
    <2>2. QED  BY <2>1 DEF Idle, Thr
  <1>2. th'[t].sig = s /\ th'[t].pc = p
    BY DEF To
  <1>3. None # JS_FINISH
    BY DEF None, JS_FINISH
  <1>4. QED  BY <1>1, <1>2, <1>3 DEF ClosingShape

\* A class whose bit is set has an entry, and the entry a reference.
LEMMA QueuedElsewhere ==
  ASSUME IInv, NEW t \in Thread, NEW c \in Class, c \in flags.queued, th[t].pc = "unlock"
  PROVE  refcnt >= 2
  <1>1. SUFFICES ASSUME ~(refcnt >= 2) PROVE FALSE
    OBVIOUS
  <1>2. queue[c] = 0 /\ \A u \in Thread : u # t => th[u].pc = "idle"
    BY <1>1, Alone
  <1>3. \A u \in Thread : ~Carries(u, c)
    BY <1>2 DEF Carries
  <1>4. QED  BY <1>2, <1>3 DEF IInv, QueueShape

\* ReadQueued keeps the invariant.
LEMMA ReadQueuedInv ==
  ASSUME IInv, NEW t \in Thread, ReadQueued(t)
  PROVE  IInv'
  <1>1. th[t].pc = "proc" /\ refcnt' = refcnt /\ queue' = queue
        /\ held' = held /\ freed' = freed
    BY ReadQueuedEffect
  <1>2. sends' \in {sends, sends + 1} /\ sends' \in 0 .. MaxSends
    BY ReadQueuedEffect DEF IInv, TypeOK
  <1>3. TypeOK /\ ThreadShape /\ LockExclusive /\ ClosingShape
    BY DEF IInv
  <1>4. Fits(t, th[t].pc, th[t].sig, th[t].run, th[t].back, th[t].qf) /\ ~freed
    BY <1>1, <1>3, Live DEF ThreadShape
  <1>5. To(t, "procLock", th[t].sig, th[t].run, th[t].back, flags.queued \intersect {ClassOf[t]})
    BY ReadQueuedEffect
  <1>6. flags' \in [locked : BOOLEAN, queued : SUBSET Class, sigs : SUBSET AllSig]
    BY <1>3, ReadQueuedEffect, Types DEF Flags
  <1>7. flags'.locked = flags.locked /\ flags'.sigs = flags.sigs /\ flags'.queued = flags.queued
    BY <1>3, ReadQueuedEffect, Types DEF Flags
  <1>8. Token("procLock") /\ Token(th[t].pc)
    BY <1>1 DEF Token
  <1>9. /\ Others(t) /\ th'[t].pc = "procLock" /\ th'[t].sig = th[t].sig
        /\ th'[t].run = th[t].run /\ th'[t].back = th[t].back
    BY <1>5, Landed
  <1>10. TypeOK' /\ RefBound' /\ RefcntExact' /\ FixShape' /\ FreedShape'
    BY <1>2, <1>1, <1>5, <1>7, <1>8, <1>6, Quiet
  <1>11. ThreadShape'
    <2>1. ClassOf[t] \in Class /\ Carries(t, ClassOf[t])
      BY <1>1 DEF Class, Carries
    <2>2. ClassOf[t] \in flags.queued
      BY <2>1 DEF IInv, QueueShape
    <2>3. QED  BY <1>1, <1>3, <1>4, <1>5, <1>7, <2>2, Shaped DEF Fits
  <1>12. LockExclusive'
    BY <1>1, <1>3, <1>4, <1>5, <1>7, LockKept DEF InLock, Nested, Fits
  <1>13. QueueShape'
    BY <1>1, <1>3, <1>4, <1>5, <1>7, QueueKept
  <1>14. Served'
    BY <1>5, ServedHere DEF Looks
  <1>15. ClosingShape'
    <2>1. th[t].sig # JS_FINISH
      BY <1>1, <1>3 DEF ClosingShape
    <2>2. QED  BY <1>1, <1>9, <1>7, <2>1, ClosingKept
  <1>16. QED  BY <1>10, <1>11, <1>12, <1>13, <1>14, <1>15 DEF IInv

\* ProcessLock keeps the invariant.
LEMMA ProcessLockInv ==
  ASSUME IInv, NEW t \in Thread, ProcessLock(t)
  PROVE  IInv'
  <1>1. th[t].pc = "procLock" /\ refcnt' = refcnt /\ queue' = queue
        /\ held' = held /\ freed' = freed
    BY ProcessLockEffect
  <1>2. sends' \in {sends, sends + 1} /\ sends' \in 0 .. MaxSends
    BY ProcessLockEffect DEF IInv, TypeOK
  <1>3. TypeOK /\ ThreadShape /\ LockExclusive /\ ClosingShape
    BY DEF IInv
  <1>4. Fits(t, th[t].pc, th[t].sig, th[t].run, th[t].back, th[t].qf) /\ ~freed
    BY <1>1, <1>3, Live DEF ThreadShape
  <1>5. CASE ~flags.locked
    <2>1. To(t, "unlock", th[t].sig, th[t].run, th[t].back, {})
      BY <1>5, ProcessLockEffect
    <2>2. flags' \in [locked : BOOLEAN, queued : SUBSET Class, sigs : SUBSET AllSig]
      BY <1>5, <1>3, ProcessLockEffect, Types DEF Flags
    <2>3. flags'.locked = TRUE /\ flags'.sigs = flags.sigs /\ flags'.queued = flags.queued \ th[t].qf
      BY <1>5, <1>3, ProcessLockEffect, Types DEF Flags
    <2>4. Token("unlock") /\ Token(th[t].pc)
      BY <1>1 DEF Token
    <2>5. /\ Others(t) /\ th'[t].pc = "unlock" /\ th'[t].sig = th[t].sig
          /\ th'[t].run = th[t].run /\ th'[t].back = th[t].back
      BY <2>1, Landed
    <2>6. TypeOK' /\ RefBound' /\ RefcntExact' /\ FixShape' /\ FreedShape'
      BY <1>2, <1>1, <2>1, <2>3, <2>4, <2>2, Quiet
    <2>7. ThreadShape'
      BY <1>5, <1>1, <1>3, <1>4, <2>1, <2>3, Shaped, Types DEF Fits
    <2>8. LockExclusive'
      BY <1>5, <1>1, <1>3, <1>4, <2>1, <2>3, LockTaken DEF LockExclusive
    <2>9. QueueShape'
      BY <1>5, <1>1, <1>3, <1>4, <2>1, <2>3, Dequeued DEF Fits
    <2>10. Served'
      BY <2>1, ServedHere DEF Looks
    <2>11. ClosingShape'
      <3>1. th[t].sig # JS_FINISH
        BY <1>1, <1>3 DEF ClosingShape
      <3>2. QED  BY <1>1, <2>5, <2>3, <3>1, ClosingKept
    <2>12. QED  BY <2>6, <2>7, <2>8, <2>9, <2>10, <2>11 DEF IInv
  <1>6. CASE flags.locked
    <2>1. To(t, "procAnd", th[t].sig, th[t].run, th[t].back, th[t].qf)
      BY <1>6, ProcessLockEffect
    <2>2. flags' \in [locked : BOOLEAN, queued : SUBSET Class, sigs : SUBSET AllSig]
      BY <1>6, <1>3, ProcessLockEffect, Types DEF Flags
    <2>3. flags'.locked = flags.locked /\ flags'.sigs = flags.sigs /\ flags'.queued = flags.queued
      BY <1>6, <1>3, ProcessLockEffect, Types DEF Flags
    <2>4. Token("procAnd") /\ Token(th[t].pc)
      BY <1>1 DEF Token
    <2>5. /\ Others(t) /\ th'[t].pc = "procAnd" /\ th'[t].sig = th[t].sig
          /\ th'[t].run = th[t].run /\ th'[t].back = th[t].back
      BY <2>1, Landed
    <2>6. TypeOK' /\ RefBound' /\ RefcntExact' /\ FixShape' /\ FreedShape'
      BY <1>2, <1>1, <2>1, <2>3, <2>4, <2>2, Quiet
    <2>7. ThreadShape'
      BY <1>6, <1>1, <1>3, <1>4, <2>1, <2>3, Shaped, Types DEF Fits
    <2>8. LockExclusive'
      BY <1>6, <1>1, <1>3, <1>4, <2>1, <2>3, LockKept DEF InLock, Nested, Fits
    <2>9. QueueShape'
      BY <1>6, <1>1, <1>3, <1>4, <2>1, <2>3, QueueKept
    <2>10. Served'
      BY <2>1, ServedHere DEF Looks
    <2>11. ClosingShape'
      <3>1. th[t].sig # JS_FINISH
        BY <1>1, <1>3 DEF ClosingShape
      <3>2. QED  BY <1>1, <2>5, <2>3, <3>1, ClosingKept
    <2>12. QED  BY <2>6, <2>7, <2>8, <2>9, <2>10, <2>11 DEF IInv
  <1>7. QED  BY <1>5, <1>6

\* ProcessClear keeps the invariant.
LEMMA ProcessClearInv ==
  ASSUME IInv, NEW t \in Thread, ProcessClear(t)
  PROVE  IInv'
  <1>1. th[t].pc = "procAnd" /\ refcnt' = refcnt /\ queue' = queue
        /\ held' = held /\ freed' = freed
    BY ProcessClearEffect
  <1>2. sends' \in {sends, sends + 1} /\ sends' \in 0 .. MaxSends
    BY ProcessClearEffect DEF IInv, TypeOK
  <1>3. TypeOK /\ ThreadShape /\ LockExclusive /\ ClosingShape
    BY DEF IInv
  <1>4. Fits(t, th[t].pc, th[t].sig, th[t].run, th[t].back, th[t].qf) /\ ~freed
    BY <1>1, <1>3, Live DEF ThreadShape
  <1>5. To(t, "lock2", th[t].sig, th[t].run, th[t].back, {})
    BY ProcessClearEffect
  <1>6. flags' \in [locked : BOOLEAN, queued : SUBSET Class, sigs : SUBSET AllSig]
    BY <1>3, ProcessClearEffect, Types DEF Flags
  <1>7. flags'.locked = flags.locked /\ flags'.sigs = flags.sigs /\ flags'.queued = flags.queued \ th[t].qf
    BY <1>3, ProcessClearEffect, Types DEF Flags
  <1>8. Token("lock2") /\ Token(th[t].pc)
    BY <1>1 DEF Token
  <1>9. /\ Others(t) /\ th'[t].pc = "lock2" /\ th'[t].sig = th[t].sig
        /\ th'[t].run = th[t].run /\ th'[t].back = th[t].back
    BY <1>5, Landed
  <1>10. TypeOK' /\ RefBound' /\ RefcntExact' /\ FixShape' /\ FreedShape'
    BY <1>2, <1>1, <1>5, <1>7, <1>8, <1>6, Quiet
  <1>11. ThreadShape'
    BY <1>1, <1>3, <1>4, <1>5, <1>7, Shaped, Types DEF Fits
  <1>12. LockExclusive'
    BY <1>1, <1>3, <1>4, <1>5, <1>7, LockKept DEF InLock, Nested, Fits
  <1>13. QueueShape'
    BY <1>1, <1>3, <1>4, <1>5, <1>7, Dequeued DEF Fits
  <1>14. Served'
    BY <1>5, ServedHere DEF Looks
  <1>15. ClosingShape'
    <2>1. th[t].sig # JS_FINISH
      BY <1>1, <1>3 DEF ClosingShape
    <2>2. QED  BY <1>1, <1>9, <1>7, <2>1, ClosingKept
  <1>16. QED  BY <1>10, <1>11, <1>12, <1>13, <1>14, <1>15 DEF IInv

\* SendTest keeps the invariant.
LEMMA SendTestInv ==
  ASSUME IInv, NEW t \in Thread, SendTest(t)
  PROVE  IInv'
  <1>1. th[t].pc = "send" /\ refcnt' = refcnt /\ queue' = queue
        /\ held' = held /\ freed' = freed
    BY SendTestEffect
  <1>2. sends' \in {sends, sends + 1} /\ sends' \in 0 .. MaxSends
    BY SendTestEffect DEF IInv, TypeOK
  <1>3. TypeOK /\ ThreadShape /\ LockExclusive /\ ClosingShape
    BY DEF IInv
  <1>4. Fits(t, th[t].pc, th[t].sig, th[t].run, th[t].back, th[t].qf) /\ ~freed
    BY <1>1, <1>3, Live DEF ThreadShape
  <1>5. CASE th[t].sig \in flags.sigs
    <2>1. To(t, "decRead", th[t].sig, th[t].run, th[t].back, th[t].qf)
      BY <1>5, SendTestEffect
    <2>2. flags' \in [locked : BOOLEAN, queued : SUBSET Class, sigs : SUBSET AllSig]
      BY <1>5, <1>3, SendTestEffect, Types DEF Flags
    <2>3. flags'.locked = flags.locked /\ flags'.sigs = flags.sigs /\ flags'.queued = flags.queued
      BY <1>5, <1>3, SendTestEffect, Types DEF Flags
    <2>4. Token("decRead") /\ Token(th[t].pc)
      BY <1>1 DEF Token
    <2>5. /\ Others(t) /\ th'[t].pc = "decRead" /\ th'[t].sig = th[t].sig
          /\ th'[t].run = th[t].run /\ th'[t].back = th[t].back
      BY <2>1, Landed
    <2>6. TypeOK' /\ RefBound' /\ RefcntExact' /\ FixShape' /\ FreedShape'
      BY <1>2, <1>1, <2>1, <2>3, <2>4, <2>2, Quiet
    <2>7. ThreadShape'
      BY <1>5, <1>1, <1>3, <1>4, <2>1, <2>3, Shaped, Types DEF Fits
    <2>8. LockExclusive'
      BY <1>5, <1>1, <1>3, <1>4, <2>1, <2>3, LockKept DEF InLock, Nested, Fits
    <2>9. QueueShape'
      BY <1>5, <1>1, <1>3, <1>4, <2>1, <2>3, QueueKept
    <2>10. Served'
      BY <1>5, <1>1, <1>3, <1>4, <2>1, <2>3, ServedElsewhere DEF Looks, Nested
    <2>11. ClosingShape'
      <3>1. th[t].sig # JS_FINISH
        BY <1>5, <1>1, <1>3, <1>4, <2>1, <2>3, FinishFirst
      <3>2. QED  BY <1>1, <2>5, <2>3, <3>1, ClosingKept
    <2>12. QED  BY <2>6, <2>7, <2>8, <2>9, <2>10, <2>11 DEF IInv
  <1>6. CASE th[t].sig \notin flags.sigs
    <2>1. To(t, "lock1", th[t].sig, th[t].run, th[t].back, th[t].qf)
      BY <1>6, SendTestEffect
    <2>2. flags' \in [locked : BOOLEAN, queued : SUBSET Class, sigs : SUBSET AllSig]
      BY <1>6, <1>3, SendTestEffect, Types DEF Flags
    <2>3. flags'.locked = flags.locked /\ flags'.sigs = flags.sigs /\ flags'.queued = flags.queued
      BY <1>6, <1>3, SendTestEffect, Types DEF Flags
    <2>4. Token("lock1") /\ Token(th[t].pc)
      BY <1>1 DEF Token
    <2>5. /\ Others(t) /\ th'[t].pc = "lock1" /\ th'[t].sig = th[t].sig
          /\ th'[t].run = th[t].run /\ th'[t].back = th[t].back
      BY <2>1, Landed
    <2>6. TypeOK' /\ RefBound' /\ RefcntExact' /\ FixShape' /\ FreedShape'
      BY <1>2, <1>1, <2>1, <2>3, <2>4, <2>2, Quiet
    <2>7. ThreadShape'
      BY <1>6, <1>1, <1>3, <1>4, <2>1, <2>3, Shaped, Types DEF Fits
    <2>8. LockExclusive'
      BY <1>6, <1>1, <1>3, <1>4, <2>1, <2>3, LockKept DEF InLock, Nested, Fits
    <2>9. QueueShape'
      BY <1>6, <1>1, <1>3, <1>4, <2>1, <2>3, QueueKept
    <2>10. Served'
      BY <1>6, <1>1, <1>3, <1>4, <2>1, <2>3, ServedElsewhere DEF Looks, Nested
    <2>11. ClosingShape'
      <3>1. CASE th[t].sig # JS_FINISH
        BY <1>1, <2>5, <2>3, <3>1, Highest, Types, <1>3, ClosingKept
      <3>2. CASE th[t].sig = JS_FINISH
        <4>1. "lock1" \in {"send", "lock1"} \/ JS_FINISH \in flags.sigs
          BY <1>1, <1>3, <3>2 DEF ClosingShape
        <4>2. QED  BY <1>1, <1>3, <2>5, <2>3, <4>1, Highest, Types, ClosingGoesOn
      <3>3. QED  BY <3>1, <3>2
    <2>12. QED  BY <2>6, <2>7, <2>8, <2>9, <2>10, <2>11 DEF IInv
  <1>7. QED  BY <1>5, <1>6

\* SendLock keeps the invariant.
LEMMA SendLockInv ==
  ASSUME IInv, NEW t \in Thread, SendLock(t)
  PROVE  IInv'
  <1>1. th[t].pc = "lock1" /\ refcnt' = refcnt /\ queue' = queue
        /\ held' = held /\ freed' = freed
    BY SendLockEffect
  <1>2. sends' \in {sends, sends + 1} /\ sends' \in 0 .. MaxSends
    BY SendLockEffect DEF IInv, TypeOK
  <1>3. TypeOK /\ ThreadShape /\ LockExclusive /\ ClosingShape
    BY DEF IInv
  <1>4. Fits(t, th[t].pc, th[t].sig, th[t].run, th[t].back, th[t].qf) /\ ~freed
    BY <1>1, <1>3, Live DEF ThreadShape
  <1>5. CASE ~flags.locked
    <2>1. To(t, "unlock", th[t].sig, th[t].run, th[t].back, th[t].qf)
      BY <1>5, SendLockEffect
    <2>2. flags' \in [locked : BOOLEAN, queued : SUBSET Class, sigs : SUBSET AllSig]
      BY <1>5, <1>3, SendLockEffect, Types DEF Flags
    <2>3. flags'.locked = TRUE /\ flags'.sigs = flags.sigs \union {th[t].sig} /\ flags'.queued = flags.queued
      BY <1>5, <1>3, SendLockEffect, Types DEF Flags
    <2>4. Token("unlock") /\ Token(th[t].pc)
      BY <1>1 DEF Token
    <2>5. /\ Others(t) /\ th'[t].pc = "unlock" /\ th'[t].sig = th[t].sig
          /\ th'[t].run = th[t].run /\ th'[t].back = th[t].back
      BY <2>1, Landed
    <2>6. TypeOK' /\ RefBound' /\ RefcntExact' /\ FixShape' /\ FreedShape'
      BY <1>2, <1>1, <2>1, <2>3, <2>4, <2>2, Quiet
    <2>7. ThreadShape'
      BY <1>5, <1>1, <1>3, <1>4, <2>1, <2>3, Shaped DEF Fits, LockExclusive, InLock, Nested
    <2>8. LockExclusive'
      BY <1>5, <1>1, <1>3, <1>4, <2>1, <2>3, LockTaken DEF LockExclusive
    <2>9. QueueShape'
      BY <1>5, <1>1, <1>3, <1>4, <2>1, <2>3, QueueKept
    <2>10. Served'
      BY <2>1, ServedHere DEF Looks
    <2>11. ClosingShape'
      <3>1. CASE th[t].sig = JS_FINISH
        BY <1>5, <1>1, <1>3, <1>4, <2>1, <2>3, <3>1, FinishFirst, ClosingNow
      <3>2. CASE th[t].sig # JS_FINISH
        BY <1>5, <1>1, <1>3, <1>4, <2>1, <2>3, <3>2, Unclosed, NotClosing DEF Token, Looks,
           Closing
      <3>3. QED  BY <3>1, <3>2
    <2>12. QED  BY <2>6, <2>7, <2>8, <2>9, <2>10, <2>11 DEF IInv
  <1>6. CASE flags.locked
    <2>1. To(t, "or", th[t].sig, th[t].run, th[t].back, th[t].qf)
      BY <1>6, SendLockEffect
    <2>2. flags' \in [locked : BOOLEAN, queued : SUBSET Class, sigs : SUBSET AllSig]
      BY <1>6, <1>3, SendLockEffect, Types DEF Flags
    <2>3. flags'.locked = flags.locked /\ flags'.sigs = flags.sigs /\ flags'.queued = flags.queued
      BY <1>6, <1>3, SendLockEffect, Types DEF Flags
    <2>4. Token("or") /\ Token(th[t].pc)
      BY <1>1 DEF Token
    <2>5. /\ Others(t) /\ th'[t].pc = "or" /\ th'[t].sig = th[t].sig
          /\ th'[t].run = th[t].run /\ th'[t].back = th[t].back
      BY <2>1, Landed
    <2>6. TypeOK' /\ RefBound' /\ RefcntExact' /\ FixShape' /\ FreedShape'
      BY <1>2, <1>1, <2>1, <2>3, <2>4, <2>2, Quiet
    <2>7. ThreadShape'
      BY <1>6, <1>1, <1>3, <1>4, <2>1, <2>3, Shaped, Types DEF Fits
    <2>8. LockExclusive'
      BY <1>6, <1>1, <1>3, <1>4, <2>1, <2>3, LockKept DEF InLock, Nested, Fits
    <2>9. QueueShape'
      BY <1>6, <1>1, <1>3, <1>4, <2>1, <2>3, QueueKept
    <2>10. Served'
      BY <1>6, <1>1, <1>3, <1>4, <2>1, <2>3, ServedElsewhere DEF Looks, Nested
    <2>11. ClosingShape'
      <3>1. th[t].sig # JS_FINISH
        BY <1>6, <1>1, <1>3, <1>4, <2>1, <2>3, FinishFirst
      <3>2. QED  BY <1>1, <2>5, <2>3, <3>1, ClosingKept
    <2>12. QED  BY <2>6, <2>7, <2>8, <2>9, <2>10, <2>11 DEF IInv
  <1>7. QED  BY <1>5, <1>6

\* SendOr keeps the invariant.
LEMMA SendOrInv ==
  ASSUME IInv, NEW t \in Thread, SendOr(t)
  PROVE  IInv'
  <1>1. th[t].pc = "or" /\ refcnt' = refcnt /\ queue' = queue
        /\ held' = held /\ freed' = freed
    BY SendOrEffect
  <1>2. sends' \in {sends, sends + 1} /\ sends' \in 0 .. MaxSends
    BY SendOrEffect DEF IInv, TypeOK
  <1>3. TypeOK /\ ThreadShape /\ LockExclusive /\ ClosingShape
    BY DEF IInv
  <1>4. Fits(t, th[t].pc, th[t].sig, th[t].run, th[t].back, th[t].qf) /\ ~freed
    BY <1>1, <1>3, Live DEF ThreadShape
  <1>5. To(t, "lock2", th[t].sig, th[t].run, th[t].back, th[t].qf)
    BY SendOrEffect
  <1>6. flags' \in [locked : BOOLEAN, queued : SUBSET Class, sigs : SUBSET AllSig]
    BY <1>3, SendOrEffect, Types DEF Flags
  <1>7. flags'.locked = flags.locked /\ flags'.sigs = flags.sigs \union {th[t].sig} /\ flags'.queued = flags.queued
    BY <1>3, SendOrEffect, Types DEF Flags
  <1>8. Token("lock2") /\ Token(th[t].pc)
    BY <1>1 DEF Token
  <1>9. /\ Others(t) /\ th'[t].pc = "lock2" /\ th'[t].sig = th[t].sig
        /\ th'[t].run = th[t].run /\ th'[t].back = th[t].back
    BY <1>5, Landed
  <1>10. TypeOK' /\ RefBound' /\ RefcntExact' /\ FixShape' /\ FreedShape'
    BY <1>2, <1>1, <1>5, <1>7, <1>8, <1>6, Quiet
  <1>11. ThreadShape'
    BY <1>1, <1>3, <1>4, <1>5, <1>7, Shaped, Types DEF Fits
  <1>12. LockExclusive'
    BY <1>1, <1>3, <1>4, <1>5, <1>7, LockKept DEF InLock, Nested, Fits
  <1>13. QueueShape'
    BY <1>1, <1>3, <1>4, <1>5, <1>7, QueueKept
  <1>14. Served'
    BY <1>5, ServedHere DEF Looks
  <1>15. ClosingShape'
    BY <1>1, <1>3, <1>4, <1>5, <1>7, Unclosed, NotClosing DEF Token, Looks, Closing,
       ClosingShape
  <1>16. QED  BY <1>10, <1>11, <1>12, <1>13, <1>14, <1>15 DEF IInv

\* LockAgain keeps the invariant.
LEMMA LockAgainInv ==
  ASSUME IInv, NEW t \in Thread, LockAgain(t)
  PROVE  IInv'
  <1>1. th[t].pc = "lock2" /\ refcnt' = refcnt /\ queue' = queue
        /\ held' = held /\ freed' = freed
    BY LockAgainEffect
  <1>2. sends' \in {sends, sends + 1} /\ sends' \in 0 .. MaxSends
    BY LockAgainEffect DEF IInv, TypeOK
  <1>3. TypeOK /\ ThreadShape /\ LockExclusive /\ ClosingShape
    BY DEF IInv
  <1>4. Fits(t, th[t].pc, th[t].sig, th[t].run, th[t].back, th[t].qf) /\ ~freed
    BY <1>1, <1>3, Live DEF ThreadShape
  <1>5. CASE ~flags.locked
    <2>1. To(t, "unlock", th[t].sig, th[t].run, th[t].back, th[t].qf)
      BY <1>5, LockAgainEffect
    <2>2. flags' \in [locked : BOOLEAN, queued : SUBSET Class, sigs : SUBSET AllSig]
      BY <1>5, <1>3, LockAgainEffect, Types DEF Flags
    <2>3. flags'.locked = TRUE /\ flags'.sigs = flags.sigs /\ flags'.queued = flags.queued
      BY <1>5, <1>3, LockAgainEffect, Types DEF Flags
    <2>4. Token("unlock") /\ Token(th[t].pc)
      BY <1>1 DEF Token
    <2>5. /\ Others(t) /\ th'[t].pc = "unlock" /\ th'[t].sig = th[t].sig
          /\ th'[t].run = th[t].run /\ th'[t].back = th[t].back
      BY <2>1, Landed
    <2>6. TypeOK' /\ RefBound' /\ RefcntExact' /\ FixShape' /\ FreedShape'
      BY <1>2, <1>1, <2>1, <2>3, <2>4, <2>2, Quiet
    <2>7. ThreadShape'
      BY <1>5, <1>1, <1>3, <1>4, <2>1, <2>3, Shaped DEF Fits, LockExclusive, InLock, Nested
    <2>8. LockExclusive'
      BY <1>5, <1>1, <1>3, <1>4, <2>1, <2>3, LockTaken DEF LockExclusive
    <2>9. QueueShape'
      BY <1>5, <1>1, <1>3, <1>4, <2>1, <2>3, QueueKept
    <2>10. Served'
      BY <2>1, ServedHere DEF Looks
    <2>11. ClosingShape'
      <3>1. th[t].sig # JS_FINISH
        BY <1>1, <1>3 DEF ClosingShape
      <3>2. QED  BY <1>1, <2>5, <2>3, <3>1, ClosingKept
    <2>12. QED  BY <2>6, <2>7, <2>8, <2>9, <2>10, <2>11 DEF IInv
  <1>6. CASE flags.locked
    <2>1. To(t, "decRead", th[t].sig, th[t].run, th[t].back, th[t].qf)
      BY <1>6, LockAgainEffect
    <2>2. flags' \in [locked : BOOLEAN, queued : SUBSET Class, sigs : SUBSET AllSig]
      BY <1>6, <1>3, LockAgainEffect, Types DEF Flags
    <2>3. flags'.locked = flags.locked /\ flags'.sigs = flags.sigs /\ flags'.queued = flags.queued
      BY <1>6, <1>3, LockAgainEffect, Types DEF Flags
    <2>4. Token("decRead") /\ Token(th[t].pc)
      BY <1>1 DEF Token
    <2>5. /\ Others(t) /\ th'[t].pc = "decRead" /\ th'[t].sig = th[t].sig
          /\ th'[t].run = th[t].run /\ th'[t].back = th[t].back
      BY <2>1, Landed
    <2>6. TypeOK' /\ RefBound' /\ RefcntExact' /\ FixShape' /\ FreedShape'
      BY <1>2, <1>1, <2>1, <2>3, <2>4, <2>2, Quiet
    <2>7. ThreadShape'
      BY <1>6, <1>1, <1>3, <1>4, <2>1, <2>3, Shaped, Types DEF Fits
    <2>8. LockExclusive'
      BY <1>6, <1>1, <1>3, <1>4, <2>1, <2>3, LockKept DEF InLock, Nested, Fits
    <2>9. QueueShape'
      BY <1>6, <1>1, <1>3, <1>4, <2>1, <2>3, QueueKept
    <2>10. Served'
      BY <1>6, <1>1, <1>3, <1>4, <2>1, <2>3, ServedByOwner DEF InLock, Nested
    <2>11. ClosingShape'
      <3>1. th[t].sig # JS_FINISH
        BY <1>1, <1>3 DEF ClosingShape
      <3>2. QED  BY <1>1, <2>5, <2>3, <3>1, ClosingKept
    <2>12. QED  BY <2>6, <2>7, <2>8, <2>9, <2>10, <2>11 DEF IInv
  <1>7. QED  BY <1>5, <1>6

\* DecRead keeps the invariant.
LEMMA DecReadInv ==
  ASSUME IInv, NEW t \in Thread, DecRead(t)
  PROVE  IInv'
  <1>1. th[t].pc = "decRead" /\ refcnt' = refcnt /\ queue' = queue
        /\ held' = held /\ freed' = freed
    BY DecReadEffect
  <1>2. sends' \in {sends, sends + 1} /\ sends' \in 0 .. MaxSends
    BY DecReadEffect DEF IInv, TypeOK
  <1>3. TypeOK /\ ThreadShape /\ LockExclusive /\ ClosingShape
    BY DEF IInv
  <1>4. Fits(t, th[t].pc, th[t].sig, th[t].run, th[t].back, th[t].qf) /\ ~freed
    BY <1>1, <1>3, Live DEF ThreadShape
  <1>5. CASE refcnt >= 2
    <2>1. To(t, "decSub", th[t].sig, th[t].run, th[t].back, th[t].qf)
      BY <1>5, DecReadEffect
    <2>2. flags' \in [locked : BOOLEAN, queued : SUBSET Class, sigs : SUBSET AllSig]
      BY <1>5, <1>3, DecReadEffect, Types DEF Flags
    <2>3. flags'.locked = flags.locked /\ flags'.sigs = flags.sigs /\ flags'.queued = flags.queued
      BY <1>5, <1>3, DecReadEffect, Types DEF Flags
    <2>4. Token("decSub") /\ Token(th[t].pc)
      BY <1>1 DEF Token
    <2>5. /\ Others(t) /\ th'[t].pc = "decSub" /\ th'[t].sig = th[t].sig
          /\ th'[t].run = th[t].run /\ th'[t].back = th[t].back
      BY <2>1, Landed
    <2>6. TypeOK' /\ RefBound' /\ RefcntExact' /\ FixShape' /\ FreedShape'
      BY <1>2, <1>1, <2>1, <2>3, <2>4, <2>2, Quiet
    <2>7. ThreadShape'
      BY <1>5, <1>1, <1>3, <1>4, <2>1, <2>3, Shaped, Types DEF Fits
    <2>8. LockExclusive'
      BY <1>5, <1>1, <1>3, <1>4, <2>1, <2>3, LockKept DEF InLock, Nested, Fits
    <2>9. QueueShape'
      BY <1>5, <1>1, <1>3, <1>4, <2>1, <2>3, QueueKept
    <2>10. Served'
      BY <1>5, <1>1, <1>3, <1>4, <2>1, <2>3, ServedElsewhere DEF Looks, Nested
    <2>11. ClosingShape'
      <3>1. th[t].sig # JS_FINISH
        BY <1>1, <1>3 DEF ClosingShape
      <3>2. QED  BY <1>1, <2>5, <2>3, <3>1, ClosingKept
    <2>12. QED  BY <2>6, <2>7, <2>8, <2>9, <2>10, <2>11 DEF IInv
  <1>6. CASE ~(refcnt >= 2)
    <2>1. To(t, "send", JS_FINISH, th[t].run, th[t].back, th[t].qf)
      BY <1>6, DecReadEffect
    <2>2. flags' \in [locked : BOOLEAN, queued : SUBSET Class, sigs : SUBSET AllSig]
      BY <1>6, <1>3, DecReadEffect, Types DEF Flags
    <2>3. flags'.locked = flags.locked /\ flags'.sigs = flags.sigs /\ flags'.queued = flags.queued
      BY <1>6, <1>3, DecReadEffect, Types DEF Flags
    <2>4. Token("send") /\ Token(th[t].pc)
      BY <1>1 DEF Token
    <2>5. /\ Others(t) /\ th'[t].pc = "send" /\ th'[t].sig = JS_FINISH
          /\ th'[t].run = th[t].run /\ th'[t].back = th[t].back
      BY <2>1, Landed
    <2>6. TypeOK' /\ RefBound' /\ RefcntExact' /\ FixShape' /\ FreedShape'
      BY <1>2, <1>1, <2>1, <2>3, <2>4, <2>2, Quiet
    <2>7. ThreadShape'
      BY <1>6, <1>1, <1>3, <1>4, <2>1, <2>3, Shaped, Types DEF Fits
    <2>8. LockExclusive'
      BY <1>6, <1>1, <1>3, <1>4, <2>1, <2>3, LockKept DEF InLock, Nested, Fits
    <2>9. QueueShape'
      BY <1>6, <1>1, <1>3, <1>4, <2>1, <2>3, QueueKept
    <2>10. Served'
      BY <1>6, <1>1, <1>3, <1>4, <2>1, <2>3, ServedElsewhere DEF Looks, Nested
    <2>11. ClosingShape'
      <3>1. /\ refcnt = 1 /\ held = 0 /\ flags.sigs = {}
            /\ \A u \in Thread : u # t => th[u].pc = "idle"
        BY <1>6, <1>1, <1>3, <1>4, <2>1, <2>3, Alone, AloneUnserved DEF Token, Looks
      <3>2. QED  BY <1>6, <1>1, <1>3, <1>4, <2>1, <2>3, <3>1, ClosingNow
    <2>12. QED  BY <2>6, <2>7, <2>8, <2>9, <2>10, <2>11 DEF IInv
  <1>7. QED  BY <1>5, <1>6

\* UnlockIdle keeps the invariant.
LEMMA UnlockIdleInv ==
  ASSUME IInv, NEW t \in Thread, UnlockIdle(t)
  PROVE  IInv'
  <1>1. th[t].pc = "unlock" /\ flags.sigs = {} /\ refcnt' = refcnt /\ queue' = queue
        /\ held' = held /\ freed' = freed
    BY UnlockIdleEffect
  <1>2. sends' \in {sends, sends + 1} /\ sends' \in 0 .. MaxSends
    BY UnlockIdleEffect DEF IInv, TypeOK
  <1>3. TypeOK /\ ThreadShape /\ LockExclusive /\ ClosingShape
    BY DEF IInv
  <1>4. Fits(t, th[t].pc, th[t].sig, th[t].run, th[t].back, th[t].qf) /\ ~freed
    BY <1>1, <1>3, Live DEF ThreadShape
  <1>5. To(t, "dropRead", th[t].sig, th[t].run, th[t].back, th[t].qf)
    BY UnlockIdleEffect
  <1>6. flags' \in [locked : BOOLEAN, queued : SUBSET Class, sigs : SUBSET AllSig]
    BY <1>3, UnlockIdleEffect, Types DEF Flags
  <1>7. flags'.locked = FALSE /\ flags'.sigs = flags.sigs /\ flags'.queued = flags.queued
    BY <1>3, UnlockIdleEffect, Types DEF Flags
  <1>8. Token("dropRead") /\ Token(th[t].pc)
    BY <1>1 DEF Token
  <1>9. /\ Others(t) /\ th'[t].pc = "dropRead" /\ th'[t].sig = th[t].sig
        /\ th'[t].run = th[t].run /\ th'[t].back = th[t].back
    BY <1>5, Landed
  <1>10. TypeOK' /\ RefBound' /\ RefcntExact' /\ FixShape' /\ FreedShape'
    BY <1>2, <1>1, <1>5, <1>7, <1>8, <1>6, Quiet
  <1>11. ThreadShape'
    BY <1>1, <1>3, <1>4, <1>5, <1>7, Shaped, Types DEF Fits
  <1>12. LockExclusive'
    <2>1. InLock(t) /\ th[t].back # "exec"
      BY <1>1, <1>4 DEF InLock, Fits
    <2>2. QED  BY <1>9, <1>7, <2>1, LockLeft
  <1>13. QueueShape'
    BY <1>1, <1>3, <1>4, <1>5, <1>7, QueueKept
  <1>14. Served'
    BY <1>1, <1>3, <1>4, <1>5, <1>7 DEF Served
  <1>15. ClosingShape'
    <2>1. th[t].sig # JS_FINISH
      BY <1>1, <1>3 DEF ClosingShape
    <2>2. QED  BY <1>1, <1>9, <1>7, <2>1, ClosingKept
  <1>16. QED  BY <1>10, <1>11, <1>12, <1>13, <1>14, <1>15 DEF IInv

\* Choose keeps the invariant.
LEMMA ChooseInv ==
  ASSUME IInv, NEW t \in Thread, Choose(t)
  PROVE  IInv'
  <1>1. th[t].pc = "unlock" /\ flags.sigs # {} /\ refcnt' = refcnt /\ queue' = queue
        /\ held' = held /\ freed' = freed
    BY ChooseEffect
  <1>2. sends' \in {sends, sends + 1} /\ sends' \in 0 .. MaxSends
    BY ChooseEffect DEF IInv, TypeOK
  <1>3. TypeOK /\ ThreadShape /\ LockExclusive /\ ClosingShape
    BY DEF IInv
  <1>4. Fits(t, th[t].pc, th[t].sig, th[t].run, th[t].back, th[t].qf) /\ ~freed
    BY <1>1, <1>3, Live DEF ThreadShape
  <1>5. To(t, "begin", th[t].sig, Max(flags.sigs), th[t].back, th[t].qf)
    BY ChooseEffect
  <1>6. flags' \in [locked : BOOLEAN, queued : SUBSET Class, sigs : SUBSET AllSig]
    BY <1>3, ChooseEffect, Types DEF Flags
  <1>7. flags'.locked = flags.locked /\ flags'.sigs = flags.sigs /\ flags'.queued = flags.queued
    BY <1>3, ChooseEffect, Types DEF Flags
  <1>8. Token("begin") /\ Token(th[t].pc)
    BY <1>1 DEF Token
  <1>9. /\ Others(t) /\ th'[t].pc = "begin" /\ th'[t].sig = th[t].sig
        /\ th'[t].run = Max(flags.sigs) /\ th'[t].back = th[t].back
    BY <1>5, Landed
  <1>10. TypeOK' /\ RefBound' /\ RefcntExact' /\ FixShape' /\ FreedShape'
    BY <1>2, <1>1, <1>5, <1>7, <1>8, <1>6, Quiet
  <1>11. ThreadShape'
    BY <1>1, <1>3, <1>4, <1>5, <1>7, Highest, Types, Shaped DEF Fits
  <1>12. LockExclusive'
    BY <1>1, <1>3, <1>4, <1>5, <1>7, LockKept DEF InLock, Nested, Fits
  <1>13. QueueShape'
    BY <1>1, <1>3, <1>4, <1>5, <1>7, QueueKept
  <1>14. Served'
    BY <1>5, ServedHere DEF Looks
  <1>15. ClosingShape'
    <2>1. CASE th[t].sig # JS_FINISH
      BY <1>1, <1>9, <1>7, <2>1, Highest, Types, <1>3, ClosingKept
    <2>2. CASE th[t].sig = JS_FINISH
      <3>1. "begin" \in {"send", "lock1"} \/ JS_FINISH \in flags.sigs
        BY <1>1, <1>3, <2>2 DEF ClosingShape
      <3>2. QED  BY <1>1, <1>3, <1>9, <1>7, <3>1, Highest, Types, ClosingGoesOn
    <2>3. QED  BY <2>1, <2>2
  <1>16. QED  BY <1>10, <1>11, <1>12, <1>13, <1>14, <1>15 DEF IInv

\* Requeue keeps the invariant.
LEMMA RequeueInv ==
  ASSUME IInv, NEW t \in Thread, Requeue(t)
  PROVE  IInv'
  <1>1. th[t].pc = "unlock" /\ flags.sigs # {} /\ refcnt' = refcnt /\ queue' = queue
        /\ held' = held /\ freed' = freed
    BY RequeueEffect
  <1>2. sends' \in {sends, sends + 1} /\ sends' \in 0 .. MaxSends
    BY RequeueEffect DEF IInv, TypeOK
  <1>3. TypeOK /\ ThreadShape /\ LockExclusive /\ ClosingShape
    BY DEF IInv
  <1>4. Fits(t, th[t].pc, th[t].sig, th[t].run, th[t].back, th[t].qf) /\ ~freed
    BY <1>1, <1>3, Live DEF ThreadShape
  <1>5. CASE SigClass[Max(flags.sigs)] \in flags.queued
    <2>1. To(t, "decRead", th[t].sig, th[t].run, th[t].back, th[t].qf)
      BY <1>5, RequeueEffect
    <2>2. flags' \in [locked : BOOLEAN, queued : SUBSET Class, sigs : SUBSET AllSig]
      BY <1>5, <1>3, RequeueEffect, Types DEF Flags
    <2>3. flags'.locked = FALSE /\ flags'.sigs = flags.sigs /\ flags'.queued = flags.queued \union {SigClass[Max(flags.sigs)]}
      BY <1>5, <1>3, RequeueEffect, Types DEF Flags
    <2>4. Token("decRead") /\ Token(th[t].pc)
      BY <1>1 DEF Token
    <2>5. /\ Others(t) /\ th'[t].pc = "decRead" /\ th'[t].sig = th[t].sig
          /\ th'[t].run = th[t].run /\ th'[t].back = th[t].back
      BY <2>1, Landed
    <2>6. TypeOK' /\ RefBound' /\ RefcntExact' /\ FixShape' /\ FreedShape'
      BY <1>2, <1>1, <2>1, <2>3, <2>4, <2>2, Quiet
    <2>7. ThreadShape'
      BY <1>5, <1>1, <1>3, <1>4, <2>1, <2>3, Shaped, Types DEF Fits
    <2>8. LockExclusive'
      <3>1. InLock(t) /\ th[t].back # "exec"
        BY <1>1, <1>4 DEF InLock, Fits
      <3>2. QED  BY <2>5, <2>3, <3>1, LockLeft
    <2>9. QueueShape'
      BY <1>5, <1>1, <1>3, <1>4, <2>1, <2>3, QueueKept
    <2>10. Served'
      <3>1. SigClass[Max(flags.sigs)] \in Class
        BY <1>5, <1>1, <1>3, <1>4, <2>1, <2>3, Highest, Types
      <3>2. QED  BY <1>5, <1>1, <1>3, <1>4, <2>1, <2>3, <3>1, ServedQueued DEF Carries
    <2>11. ClosingShape'
      <3>1. SigClass[Max(flags.sigs)] \in Class
        BY <1>5, <1>1, <1>3, <1>4, <2>1, <2>3, Highest, Types
      <3>2. refcnt >= 2
        BY <1>5, <1>1, <1>3, <1>4, <2>1, <2>3, <3>1, QueuedElsewhere
      <3>3. ~Closing
        BY <1>3, <1>4, <3>2 DEF ClosingShape
      <3>4. th[t].sig # JS_FINISH
        BY <1>3, <3>3 DEF ClosingShape, Closing
      <3>5. QED  BY <1>1, <2>5, <2>3, <3>4, ClosingKept
    <2>12. QED  BY <2>6, <2>7, <2>8, <2>9, <2>10, <2>11 DEF IInv
  <1>6. CASE SigClass[Max(flags.sigs)] \notin flags.queued
    <2>1. To(t, "push", th[t].sig, Max(flags.sigs), th[t].back, th[t].qf)
      BY <1>6, RequeueEffect
    <2>2. flags' \in [locked : BOOLEAN, queued : SUBSET Class, sigs : SUBSET AllSig]
      BY <1>6, <1>3, RequeueEffect, Types DEF Flags
    <2>3. flags'.locked = FALSE /\ flags'.sigs = flags.sigs /\ flags'.queued = flags.queued \union {SigClass[Max(flags.sigs)]}
      BY <1>6, <1>3, RequeueEffect, Types DEF Flags
    <2>4. Token("push") /\ Token(th[t].pc)
      BY <1>1 DEF Token
    <2>5. /\ Others(t) /\ th'[t].pc = "push" /\ th'[t].sig = th[t].sig
          /\ th'[t].run = Max(flags.sigs) /\ th'[t].back = th[t].back
      BY <2>1, Landed
    <2>6. TypeOK' /\ RefBound' /\ RefcntExact' /\ FixShape' /\ FreedShape'
      BY <1>2, <1>1, <2>1, <2>3, <2>4, <2>2, Quiet
    <2>7. ThreadShape'
      BY <1>6, <1>1, <1>3, <1>4, <2>1, <2>3, Highest, Types, Shaped DEF Fits
    <2>8. LockExclusive'
      <3>1. InLock(t) /\ th[t].back # "exec"
        BY <1>1, <1>4 DEF InLock, Fits
      <3>2. QED  BY <2>5, <2>3, <3>1, LockLeft
    <2>9. QueueShape'
      BY <1>6, <1>1, <1>3, <1>4, <2>1, <2>3, Highest, Types, Enqueued
    <2>10. Served'
      BY <2>1, ServedHere DEF Looks
    <2>11. ClosingShape'
      <3>1. CASE th[t].sig # JS_FINISH
        BY <1>1, <2>5, <2>3, <3>1, Highest, Types, <1>3, ClosingKept
      <3>2. CASE th[t].sig = JS_FINISH
        <4>1. "push" \in {"send", "lock1"} \/ JS_FINISH \in flags.sigs
          BY <1>1, <1>3, <3>2 DEF ClosingShape
        <4>2. QED  BY <1>1, <1>3, <2>5, <2>3, <4>1, Highest, Types, ClosingGoesOn
      <3>3. QED  BY <3>1, <3>2
    <2>12. QED  BY <2>6, <2>7, <2>8, <2>9, <2>10, <2>11 DEF IInv
  <1>7. QED  BY <1>5, <1>6

\* HandlerReturn keeps the invariant.
LEMMA HandlerReturnInv ==
  ASSUME IInv, NEW t \in Thread, NEW S \in SUBSET Sig, HandlerReturn(t, S)
  PROVE  IInv'
  <1>1. th[t].pc = "exec" /\ refcnt' = refcnt /\ queue' = queue
        /\ held' = held /\ freed' = freed
    BY HandlerReturnEffect
  <1>2. sends' \in {sends, sends + 1} /\ sends' \in 0 .. MaxSends
    BY HandlerReturnEffect DEF IInv, TypeOK
  <1>3. TypeOK /\ ThreadShape /\ LockExclusive /\ ClosingShape
    BY DEF IInv
  <1>4. Fits(t, th[t].pc, th[t].sig, th[t].run, th[t].back, th[t].qf) /\ ~freed
    BY <1>1, <1>3, Live DEF ThreadShape
  <1>5. To(t, "unlock", th[t].sig, None, th[t].back, th[t].qf)
    BY HandlerReturnEffect
  <1>6. flags' \in [locked : BOOLEAN, queued : SUBSET Class, sigs : SUBSET AllSig]
    BY <1>3, HandlerReturnEffect, Types DEF Flags
  <1>7. flags'.locked = flags.locked /\ flags'.sigs = flags.sigs \union S /\ flags'.queued = flags.queued
    BY <1>3, HandlerReturnEffect, Types DEF Flags
  <1>8. Token("unlock") /\ Token(th[t].pc)
    BY <1>1 DEF Token
  <1>9. /\ Others(t) /\ th'[t].pc = "unlock" /\ th'[t].sig = th[t].sig
        /\ th'[t].run = None /\ th'[t].back = th[t].back
    BY <1>5, Landed
  <1>10. TypeOK' /\ RefBound' /\ RefcntExact' /\ FixShape' /\ FreedShape'
    BY <1>2, <1>1, <1>5, <1>7, <1>8, <1>6, Quiet
  <1>11. ThreadShape'
    BY <1>1, <1>3, <1>4, <1>5, <1>7, Shaped, Types DEF Fits
  <1>12. LockExclusive'
    BY <1>1, <1>3, <1>4, <1>5, <1>7, LockKept DEF InLock, Nested, Fits
  <1>13. QueueShape'
    BY <1>1, <1>3, <1>4, <1>5, <1>7, QueueKept
  <1>14. Served'
    BY <1>5, ServedHere DEF Looks
  <1>15. ClosingShape'
    BY <1>1, <1>3, <1>4, <1>5, <1>7, NotClosing, Types DEF Closing, ClosingShape
  <1>16. QED  BY <1>10, <1>11, <1>12, <1>13, <1>14, <1>15 DEF IInv

\* DropRead keeps the invariant.
LEMMA DropReadInv ==
  ASSUME IInv, NEW t \in Thread, DropRead(t)
  PROVE  IInv'
  <1>1. th[t].pc = "dropRead" /\ refcnt' = refcnt /\ queue' = queue
        /\ held' = held /\ freed' = freed
    BY DropReadEffect
  <1>2. sends' \in {sends, sends + 1} /\ sends' \in 0 .. MaxSends
    BY DropReadEffect DEF IInv, TypeOK
  <1>3. TypeOK /\ ThreadShape /\ LockExclusive /\ ClosingShape
    BY DEF IInv
  <1>4. Fits(t, th[t].pc, th[t].sig, th[t].run, th[t].back, th[t].qf) /\ ~freed
    BY <1>1, <1>3, Live DEF ThreadShape
  <1>5. CASE refcnt >= 2
    <2>1. To(t, "dropSub", th[t].sig, th[t].run, th[t].back, th[t].qf)
      BY <1>5, DropReadEffect
    <2>2. flags' \in [locked : BOOLEAN, queued : SUBSET Class, sigs : SUBSET AllSig]
      BY <1>5, <1>3, DropReadEffect, Types DEF Flags
    <2>3. flags'.locked = flags.locked /\ flags'.sigs = flags.sigs /\ flags'.queued = flags.queued
      BY <1>5, <1>3, DropReadEffect, Types DEF Flags
    <2>4. Token("dropSub") /\ Token(th[t].pc)
      BY <1>1 DEF Token
    <2>5. /\ Others(t) /\ th'[t].pc = "dropSub" /\ th'[t].sig = th[t].sig
          /\ th'[t].run = th[t].run /\ th'[t].back = th[t].back
      BY <2>1, Landed
    <2>6. TypeOK' /\ RefBound' /\ RefcntExact' /\ FixShape' /\ FreedShape'
      BY <1>2, <1>1, <2>1, <2>3, <2>4, <2>2, Quiet
    <2>7. ThreadShape'
      BY <1>5, <1>1, <1>3, <1>4, <2>1, <2>3, Shaped, Types DEF Fits
    <2>8. LockExclusive'
      BY <1>5, <1>1, <1>3, <1>4, <2>1, <2>3, LockKept DEF InLock, Nested, Fits
    <2>9. QueueShape'
      BY <1>5, <1>1, <1>3, <1>4, <2>1, <2>3, QueueKept
    <2>10. Served'
      BY <1>5, <1>1, <1>3, <1>4, <2>1, <2>3, ServedElsewhere DEF Looks, Nested
    <2>11. ClosingShape'
      <3>1. th[t].sig # JS_FINISH
        BY <1>1, <1>3 DEF ClosingShape
      <3>2. QED  BY <1>1, <2>5, <2>3, <3>1, ClosingKept
    <2>12. QED  BY <2>6, <2>7, <2>8, <2>9, <2>10, <2>11 DEF IInv
  <1>6. CASE ~(refcnt >= 2)
    <2>1. To(t, "unlock", th[t].sig, th[t].run, th[t].back, th[t].qf)
      BY <1>6, DropReadEffect
    <2>2. flags' \in [locked : BOOLEAN, queued : SUBSET Class, sigs : SUBSET AllSig]
      BY <1>6, <1>3, DropReadEffect, Types DEF Flags
    <2>3. flags'.locked = TRUE /\ flags'.sigs = flags.sigs \union {JS_FINISH} /\ flags'.queued = flags.queued
      BY <1>6, <1>3, DropReadEffect, Types DEF Flags
    <2>4. Token("unlock") /\ Token(th[t].pc)
      BY <1>1 DEF Token
    <2>5. /\ Others(t) /\ th'[t].pc = "unlock" /\ th'[t].sig = th[t].sig
          /\ th'[t].run = th[t].run /\ th'[t].back = th[t].back
      BY <2>1, Landed
    <2>6. TypeOK' /\ RefBound' /\ RefcntExact' /\ FixShape' /\ FreedShape'
      BY <1>2, <1>1, <2>1, <2>3, <2>4, <2>2, Quiet
    <2>7. ThreadShape'
      BY <1>6, <1>1, <1>3, <1>4, <2>1, <2>3, Shaped, Types DEF Fits
    <2>8. LockExclusive'
      BY <1>6, <1>1, <1>3, <1>4, <2>1, <2>3, Alone, LockTaken DEF InLock
    <2>9. QueueShape'
      BY <1>6, <1>1, <1>3, <1>4, <2>1, <2>3, QueueKept
    <2>10. Served'
      BY <2>1, ServedHere DEF Looks
    <2>11. ClosingShape'
      <3>1. /\ refcnt = 1 /\ held = 0 /\ flags.sigs = {}
            /\ \A u \in Thread : u # t => th[u].pc = "idle"
        BY <1>6, <1>1, <1>3, <1>4, <2>1, <2>3, Alone, AloneUnserved DEF Token, Looks
      <3>2. QED  BY <1>6, <1>1, <1>3, <1>4, <2>1, <2>3, <3>1, ClosingNow
    <2>12. QED  BY <2>6, <2>7, <2>8, <2>9, <2>10, <2>11 DEF IInv
  <1>7. QED  BY <1>5, <1>6

-----------------------------------------------------------------------------
(* The steps that make, move or drop a reference *)

\* The new count is the sum of the new references.
LEMMA Recounted ==
  ASSUME IInv, ~freed, freed' = freed, th' \in [Thread -> Rec],
         flags' \in [locked : BOOLEAN, queued : SUBSET Class, sigs : SUBSET AllSig],
         queue' \in [Class -> Nat], held' \in 0 .. MaxHeld, sends' \in 0 .. MaxSends,
         refcnt' \in Nat, refcnt' <= 1 + Holders + sends',
         refcnt' = held' + Cardinality(Queued') + Cardinality(Holding') + Cardinality(Nesting')
  PROVE  TypeOK' /\ RefBound' /\ RefcntExact' /\ FreedShape'
  <1>1. refcnt' \in 0 .. (MaxHeld + MaxSends + Cardinality(Thread) + 1)
    <2>1. Cardinality(Thread) \in Nat
      BY EngineAssumption, FS_CardinalityType
    <2>2. sends' \in Nat /\ sends' <= MaxSends /\ Holders \in Nat /\ MaxSends \in Nat
          /\ MaxHeld \in Nat /\ Holders <= MaxHeld
      BY EngineAssumption
    <2>3. QED  BY <2>1, <2>2
  <1>2. TypeOK'
    BY <1>1 DEF IInv, TypeOK, Rec
  <1>3. RefBound' /\ FreedShape'
    BY DEF RefBound, FreedShape
  <1>4. RefcntExact'
    BY DEF RefcntExact, Queued, Nesting
  <1>5. QED  BY <1>2, <1>3, <1>4

\* A thread with a reference has nobody next to it who dropped the last one.
LEMMA NobodyFixes ==
  ASSUME IInv, NEW t \in Thread, Others(t), th'[t].pc \notin {"decFix", "dropFix"},
         th[t].pc # "idle" \/ held > 0 \/ queue[ClassOf[t]] > 0
  PROVE  FixShape'
  <1>1. \A u \in Thread : th'[u].pc \notin {"decFix", "dropFix"}
    BY NoFix DEF Others
  <1>2. QED  BY <1>1 DEF FixShape

\* Nobody has sent JS_FINISH and t does not send it.
LEMMA StaysOpen ==
  ASSUME IInv, NEW t \in Thread, Others(t), ~Closing, JS_FINISH \notin flags'.sigs,
         th'[t].sig # JS_FINISH, th'[t].pc # "begin",
         \A u \in Thread : u # t /\ th[u].pc = "begin" => th[u].run \in flags'.sigs
  PROVE  ClosingShape'
  <1>1. ~Closing'
    BY DEF Closing, Others
  <1>2. QED  BY <1>1 DEF IInv, ClosingShape, Closing, Others

\* ... and nobody has while somebody else holds a reference.
LEMMA OpenWhileHeld ==
  ASSUME IInv, NEW t \in Thread, held > 0 \/ (th[t].pc # "idle" /\ refcnt # 1) \/ th[t].pc = "exec"
  PROVE  ~Closing /\ JS_FINISH \notin flags.sigs
  <1>1. ~freed
    BY Live
  <1>2. QED  BY <1>1 DEF IInv, ClosingShape, Closing

\* The signal a thread is about to run is still set.
LEMMA BeginsKept ==
  ASSUME IInv, flags'.sigs = flags.sigs
  PROVE  \A u \in Thread : th[u].pc = "begin" => th[u].run \in flags'.sigs
  BY DEF IInv, ClosingShape

\* A thread that is not in the engine carries nothing.
LEMMA IdleThread ==
  ASSUME IInv, NEW t \in Thread, th[t].pc = "idle"
  PROVE  /\ th[t].sig = None /\ th[t].run = None /\ th[t].back = "idle" /\ th[t].qf = {}
         /\ ~InLock(t) /\ ~Nested(t) /\ ~Token(th[t].pc) /\ ~Looks(th[t].pc) /\ None # JS_FINISH
  <1>1. th[t] = Idle
    BY DEF IInv, ThreadShape
  <1>2. QED  BY <1>1 DEF Idle, Thr, InLock, Nested, Token, Looks, None, JS_FINISH

\* The thread that dropped the last reference.
LEMMA FixAlone ==
  ASSUME IInv, NEW t \in Thread, th[t].pc \in {"decFix", "dropFix"}
  PROVE  /\ refcnt = 0 /\ ~freed /\ held = 0 /\ flags.sigs = {}
         /\ Cardinality(Queued) = 0 /\ Cardinality(Holding) = 0 /\ Cardinality(Nesting) = 0
         /\ \A u \in Thread : u # t => th[u].pc = "idle"
         /\ \A u \in Thread : ~InLock(u)
         /\ th[t].back # "exec" /\ th[t].run = None
  <1>1. /\ refcnt = 0 /\ ~freed
        /\ \A u \in Thread : u # t => th[u].pc = "idle"
    BY DEF IInv, FixShape
  <1>2. held = 0 /\ Cardinality(Queued) = 0 /\ Cardinality(Holding) = 0 /\ Cardinality(Nesting) = 0
    BY <1>1, Counts
  <1>3. Queued = {} /\ Nesting = {}
    BY <1>2, Counts
  <1>4. \A u \in Thread : ~InLock(u) /\ ~Looks(th[u].pc)
    BY <1>1, <1>3 DEF Nesting, InLock, Looks
  <1>5. \A c \in Class : ~(queue[c] > 0)
    BY <1>3 DEF Queued
  <1>6. flags.sigs = {}
    BY <1>4, <1>5 DEF IInv, Served, Looks
  <1>7. th[t].back # "exec" /\ th[t].run = None
    BY <1>4 DEF IInv, ThreadShape, Fits, InLock, Nested
  <1>8. QED  BY <1>1, <1>2, <1>4, <1>6, <1>7

\* SignalCreate keeps the invariant.
LEMMA SignalCreateInv ==
  ASSUME IInv, NEW t \in Thread, NEW s \in Sig, NEW b \in BOOLEAN, SignalCreate(t, s, b)
  PROVE  IInv'
  <1>1. To(t, "send", s, None, "idle", {})
    BY SignalCreateEffect
  <1>2. /\ th[t].pc = "idle" /\ held > 0 /\ sends < MaxSends
        /\ refcnt' = refcnt + 1 /\ held' = held /\ sends' = sends + 1
    BY SignalCreateEffect
  <1>3. queue' = queue /\ freed' = freed /\ flags' = flags
    BY SignalCreateEffect
  <1>4. flags'.sigs = flags.sigs /\ flags'.queued = flags.queued /\ flags'.locked = flags.locked
    BY <1>3
  <1>5. TypeOK /\ ~freed
    BY <1>2, Live DEF IInv
  <1>6. /\ th[t].back = "idle" /\ th[t].qf = {} /\ ~InLock(t) /\ ~Nested(t)
        /\ ~Token(th[t].pc) /\ ~Looks(th[t].pc) /\ None # JS_FINISH
    BY <1>2, IdleThread
  <1>7. /\ Others(t) /\ th'[t].pc = "send" /\ th'[t].sig = s
    BY <1>1, Landed
  <1>8. TypeOK' /\ RefBound' /\ RefcntExact' /\ FreedShape'
    <2>1. Cardinality(Holding') = Cardinality(Holding) + 1 /\ Nesting' = Nesting /\ Queued' = Queued
      <3>1. Token("send")
        BY DEF Token
      <3>2. Queued' = Queued
        BY <1>3 DEF Queued
      <3>3. QED  BY <1>1, <1>6, <3>1, <3>2, HoldingStep
    <2>2. /\ refcnt \in Nat /\ held \in Nat /\ sends \in Nat /\ sends <= MaxSends /\ held <= MaxHeld
          /\ refcnt <= 1 + Holders + sends /\ Holders \in Nat /\ MaxSends \in Nat /\ MaxHeld \in Nat
      BY <1>5, Types, EngineAssumption DEF IInv, TypeOK, RefBound
    <2>3. refcnt' = held' + Cardinality(Queued') + Cardinality(Holding') + Cardinality(Nesting')
      BY <1>2, <1>5, <2>1, <2>2, Counts
    <2>4. /\ refcnt' \in Nat /\ held' \in 0 .. MaxHeld /\ sends' \in 0 .. MaxSends
          /\ refcnt' <= 1 + Holders + sends'
      BY <1>2, <2>2
    <2>5. th' \in [Thread -> Rec]
      BY <1>1 DEF To
    <2>6. flags' \in [locked : BOOLEAN, queued : SUBSET Class, sigs : SUBSET AllSig] /\ queue' \in [Class -> Nat]
      BY <1>3, <1>5, Types
    <2>7. QED  BY <1>3, <1>5, <2>3, <2>4, <2>5, <2>6, Recounted
  <1>9. ThreadShape'
    <2>1. Fits(t, "send", s, None, "idle", {})
      BY EngineAssumption DEF Fits, None
    <2>2. QED  BY <1>1, <2>1, Shaped
  <1>10. LockExclusive'
    BY <1>1, <1>3, <1>4, <1>6, LockKept
  <1>11. QueueShape'
    BY <1>1, <1>2, <1>3, <1>4, QueueKept
  <1>12. FixShape'
    BY <1>2, <1>7, NobodyFixes
  <1>13. Served'
    BY <1>1, <1>3, <1>4, <1>6, ServedElsewhere
  <1>14. ClosingShape'
    <2>1. ~Closing /\ JS_FINISH \notin flags.sigs
      BY <1>2, OpenWhileHeld
    <2>2. s # JS_FINISH
      BY <1>5, <1>6, Types
    <2>3. \A u \in Thread : th[u].pc = "begin" => th[u].run \in flags'.sigs
      BY <1>4, BeginsKept
    <2>4. QED  BY <1>4, <1>7, <2>1, <2>2, <2>3, StaysOpen
  <1>15. QED  BY <1>8, <1>9, <1>10, <1>11, <1>12, <1>13, <1>14 DEF IInv

\* SignalPass keeps the invariant.
LEMMA SignalPassInv ==
  ASSUME IInv, NEW t \in Thread, NEW s \in Sig, NEW b \in BOOLEAN, SignalPass(t, s, b)
  PROVE  IInv'
  <1>1. To(t, "send", s, None, "idle", {})
    BY SignalPassEffect
  <1>2. /\ th[t].pc = "idle" /\ held > 0 /\ sends < MaxSends
        /\ refcnt' = refcnt /\ held' = held - 1 /\ sends' = sends + 1
    BY SignalPassEffect
  <1>3. queue' = queue /\ freed' = freed /\ flags' = flags
    BY SignalPassEffect
  <1>4. flags'.sigs = flags.sigs /\ flags'.queued = flags.queued /\ flags'.locked = flags.locked
    BY <1>3
  <1>5. TypeOK /\ ~freed
    BY <1>2, Live DEF IInv
  <1>6. /\ th[t].back = "idle" /\ th[t].qf = {} /\ ~InLock(t) /\ ~Nested(t)
        /\ ~Token(th[t].pc) /\ ~Looks(th[t].pc) /\ None # JS_FINISH
    BY <1>2, IdleThread
  <1>7. /\ Others(t) /\ th'[t].pc = "send" /\ th'[t].sig = s
    BY <1>1, Landed
  <1>8. TypeOK' /\ RefBound' /\ RefcntExact' /\ FreedShape'
    <2>1. Cardinality(Holding') = Cardinality(Holding) + 1 /\ Nesting' = Nesting /\ Queued' = Queued
      <3>1. Token("send")
        BY DEF Token
      <3>2. Queued' = Queued
        BY <1>3 DEF Queued
      <3>3. QED  BY <1>1, <1>6, <3>1, <3>2, HoldingStep
    <2>2. /\ refcnt \in Nat /\ held \in Nat /\ sends \in Nat /\ sends <= MaxSends /\ held <= MaxHeld
          /\ refcnt <= 1 + Holders + sends /\ Holders \in Nat /\ MaxSends \in Nat /\ MaxHeld \in Nat
      BY <1>5, Types, EngineAssumption DEF IInv, TypeOK, RefBound
    <2>3. refcnt' = held' + Cardinality(Queued') + Cardinality(Holding') + Cardinality(Nesting')
      BY <1>2, <1>5, <2>1, <2>2, Counts
    <2>4. /\ refcnt' \in Nat /\ held' \in 0 .. MaxHeld /\ sends' \in 0 .. MaxSends
          /\ refcnt' <= 1 + Holders + sends'
      BY <1>2, <2>2
    <2>5. th' \in [Thread -> Rec]
      BY <1>1 DEF To
    <2>6. flags' \in [locked : BOOLEAN, queued : SUBSET Class, sigs : SUBSET AllSig] /\ queue' \in [Class -> Nat]
      BY <1>3, <1>5, Types
    <2>7. QED  BY <1>3, <1>5, <2>3, <2>4, <2>5, <2>6, Recounted
  <1>9. ThreadShape'
    <2>1. Fits(t, "send", s, None, "idle", {})
      BY EngineAssumption DEF Fits, None
    <2>2. QED  BY <1>1, <2>1, Shaped
  <1>10. LockExclusive'
    BY <1>1, <1>3, <1>4, <1>6, LockKept
  <1>11. QueueShape'
    BY <1>1, <1>2, <1>3, <1>4, QueueKept
  <1>12. FixShape'
    BY <1>2, <1>7, NobodyFixes
  <1>13. Served'
    BY <1>1, <1>3, <1>4, <1>6, ServedElsewhere
  <1>14. ClosingShape'
    <2>1. ~Closing /\ JS_FINISH \notin flags.sigs
      BY <1>2, OpenWhileHeld
    <2>2. s # JS_FINISH
      BY <1>5, <1>6, Types
    <2>3. \A u \in Thread : th[u].pc = "begin" => th[u].run \in flags'.sigs
      BY <1>4, BeginsKept
    <2>4. QED  BY <1>4, <1>7, <2>1, <2>2, <2>3, StaysOpen
  <1>15. QED  BY <1>8, <1>9, <1>10, <1>11, <1>12, <1>13, <1>14 DEF IInv

\* JobDecref keeps the invariant.
LEMMA JobDecrefInv ==
  ASSUME IInv, NEW t \in Thread, NEW b \in BOOLEAN, JobDecref(t, b)
  PROVE  IInv'
  <1>1. To(t, "decRead", None, None, "idle", {})
    BY JobDecrefEffect
  <1>2. /\ th[t].pc = "idle" /\ held > 0
        /\ refcnt' = refcnt /\ held' = held - 1 /\ sends' = sends
    BY JobDecrefEffect
  <1>3. queue' = queue /\ freed' = freed /\ flags' = flags
    BY JobDecrefEffect
  <1>4. flags'.sigs = flags.sigs /\ flags'.queued = flags.queued /\ flags'.locked = flags.locked
    BY <1>3
  <1>5. TypeOK /\ ~freed
    BY <1>2, Live DEF IInv
  <1>6. /\ th[t].back = "idle" /\ th[t].qf = {} /\ ~InLock(t) /\ ~Nested(t)
        /\ ~Token(th[t].pc) /\ ~Looks(th[t].pc) /\ None # JS_FINISH
    BY <1>2, IdleThread
  <1>7. /\ Others(t) /\ th'[t].pc = "decRead" /\ th'[t].sig = None
    BY <1>1, Landed
  <1>8. TypeOK' /\ RefBound' /\ RefcntExact' /\ FreedShape'
    <2>1. Cardinality(Holding') = Cardinality(Holding) + 1 /\ Nesting' = Nesting /\ Queued' = Queued
      <3>1. Token("decRead")
        BY DEF Token
      <3>2. Queued' = Queued
        BY <1>3 DEF Queued
      <3>3. QED  BY <1>1, <1>6, <3>1, <3>2, HoldingStep
    <2>2. /\ refcnt \in Nat /\ held \in Nat /\ sends \in Nat /\ sends <= MaxSends /\ held <= MaxHeld
          /\ refcnt <= 1 + Holders + sends /\ Holders \in Nat /\ MaxSends \in Nat /\ MaxHeld \in Nat
      BY <1>5, Types, EngineAssumption DEF IInv, TypeOK, RefBound
    <2>3. refcnt' = held' + Cardinality(Queued') + Cardinality(Holding') + Cardinality(Nesting')
      BY <1>2, <1>5, <2>1, <2>2, Counts
    <2>4. /\ refcnt' \in Nat /\ held' \in 0 .. MaxHeld /\ sends' \in 0 .. MaxSends
          /\ refcnt' <= 1 + Holders + sends'
      BY <1>2, <2>2
    <2>5. th' \in [Thread -> Rec]
      BY <1>1 DEF To
    <2>6. flags' \in [locked : BOOLEAN, queued : SUBSET Class, sigs : SUBSET AllSig] /\ queue' \in [Class -> Nat]
      BY <1>3, <1>5, Types
    <2>7. QED  BY <1>3, <1>5, <2>3, <2>4, <2>5, <2>6, Recounted
  <1>9. ThreadShape'
    <2>1. Fits(t, "decRead", None, None, "idle", {})
      BY EngineAssumption DEF Fits, None
    <2>2. QED  BY <1>1, <2>1, Shaped
  <1>10. LockExclusive'
    BY <1>1, <1>3, <1>4, <1>6, LockKept
  <1>11. QueueShape'
    BY <1>1, <1>2, <1>3, <1>4, QueueKept
  <1>12. FixShape'
    BY <1>2, <1>7, NobodyFixes
  <1>13. Served'
    BY <1>1, <1>3, <1>4, <1>6, ServedElsewhere
  <1>14. ClosingShape'
    <2>1. ~Closing /\ JS_FINISH \notin flags.sigs
      BY <1>2, OpenWhileHeld
    <2>2. None # JS_FINISH
      BY <1>5, <1>6, Types
    <2>3. \A u \in Thread : th[u].pc = "begin" => th[u].run \in flags'.sigs
      BY <1>4, BeginsKept
    <2>4. QED  BY <1>4, <1>7, <2>1, <2>2, <2>3, StaysOpen
  <1>15. QED  BY <1>8, <1>9, <1>10, <1>11, <1>12, <1>13, <1>14 DEF IInv

\* JobIncref keeps the invariant.
LEMMA JobIncrefInv ==
  ASSUME IInv, NEW t \in Thread, JobIncref(t)
  PROVE  IInv'
  <1>1. /\ th' = th /\ queue' = queue /\ freed' = freed /\ flags' = flags
        /\ held > 0 /\ held < MaxHeld /\ sends < MaxSends
        /\ refcnt' = refcnt + 1 /\ held' = held + 1 /\ sends' = sends + 1
    BY JobIncrefEffect
  <1>2. TypeOK /\ ~freed
    BY <1>1, Live DEF IInv
  <1>3. TypeOK' /\ RefBound' /\ RefcntExact' /\ FreedShape'
    <2>1. Holding' = Holding /\ Nesting' = Nesting /\ Queued' = Queued
      BY <1>1 DEF Holding, Nesting, Nested, Queued
    <2>2. /\ refcnt \in Nat /\ held \in Nat /\ sends \in Nat
          /\ refcnt <= 1 + Holders + sends /\ Holders \in Nat /\ MaxSends \in Nat /\ MaxHeld \in Nat
      BY <1>2, Types, EngineAssumption DEF IInv, RefBound
    <2>3. refcnt' = held' + Cardinality(Queued') + Cardinality(Holding') + Cardinality(Nesting')
      BY <1>1, <1>2, <2>1, <2>2, Counts
    <2>4. /\ refcnt' \in Nat /\ held' \in 0 .. MaxHeld /\ sends' \in 0 .. MaxSends
          /\ refcnt' <= 1 + Holders + sends'
      BY <1>1, <2>2
    <2>5. /\ th' \in [Thread -> Rec] /\ queue' \in [Class -> Nat]
          /\ flags' \in [locked : BOOLEAN, queued : SUBSET Class, sigs : SUBSET AllSig]
      BY <1>1, <1>2, Types
    <2>6. QED  BY <1>1, <1>2, <2>3, <2>4, <2>5, Recounted
  <1>4. ThreadShape' /\ LockExclusive' /\ QueueShape' /\ Served'
    BY <1>1 DEF IInv, ThreadShape, LockExclusive, InLock, Nested, QueueShape, Carries, Served
  <1>5. Others(t)
    BY <1>1 DEF Others
  <1>6. FixShape'
    <2>1. th[t].pc = "idle"
      BY JobIncrefEffect
    <2>2. QED  BY <1>1, <1>5, <2>1, NobodyFixes
  <1>7. ClosingShape'
    <2>1. ~Closing
      BY <1>1, OpenWhileHeld
    <2>2. QED  BY <1>1, <2>1 DEF IInv, ClosingShape, Closing
  <1>8. QED  BY <1>3, <1>4, <1>6, <1>7 DEF IInv

\* Pop keeps the invariant.
LEMMA PopInv ==
  ASSUME IInv, NEW t \in Thread, Pop(t)
  PROVE  IInv'
  <1> DEFINE c0 == ClassOf[t]
  <1>1. To(t, "proc", th[t].sig, th[t].run, th[t].back, th[t].qf)
    BY PopEffect
  <1>2. /\ th[t].pc = "idle" /\ queue[c0] > 0
        /\ queue' = [queue EXCEPT ![c0] = @ - 1]
    BY PopEffect
  <1>3. /\ freed' = freed /\ flags' = flags /\ refcnt' = refcnt /\ held' = held /\ sends' = sends
    BY PopEffect
  <1>4. flags'.sigs = flags.sigs /\ flags'.queued = flags.queued /\ flags'.locked = flags.locked
    BY <1>3
  <1>5. TypeOK /\ ~freed
    BY <1>2, Live DEF IInv
  <1>6. /\ th[t].back = "idle" /\ th[t].sig = None /\ th[t].run = None /\ ~InLock(t) /\ ~Nested(t)
        /\ ~Token(th[t].pc) /\ None # JS_FINISH
    BY <1>2, IdleThread
  <1>7. Others(t) /\ th'[t].pc = "proc" /\ th'[t].sig = th[t].sig
    BY <1>1, Landed
  <1>8. /\ c0 \in Class /\ queue \in [Class -> Nat] /\ queue[c0] = 1 /\ c0 \in flags.queued
        /\ \A u \in Thread : ~Carries(u, c0)
    <2>1. c0 \in Class /\ queue \in [Class -> Nat]
      BY <1>5, Types
    <2>2. queue[c0] <= 1
      BY <2>1 DEF IInv, QueueShape
    <2>3. queue[c0] = 1
      BY <1>2, <2>1, <2>2
    <2>4. QED  BY <2>1, <2>3 DEF IInv, QueueShape
  <1>9. queue' \in [Class -> Nat] /\ queue'[c0] = 0 /\ \A c \in Class : c # c0 => queue'[c] = queue[c]
    BY <1>2, <1>8
  <1> HIDE DEF c0
  <1>10. TypeOK' /\ RefBound' /\ RefcntExact' /\ FreedShape'
    <2>1. Cardinality(Holding') = Cardinality(Holding) + 1 /\ Nesting' = Nesting
      <3>1. Token("proc")
        BY DEF Token
      <3>2. QED  BY <1>1, <1>6, <3>1, HoldingStep
    <2>2. Cardinality(Queued') = Cardinality(Queued) - 1
      <3>1. Queued' = Queued \ {c0} /\ c0 \in Queued
        BY <1>8, <1>9 DEF Queued
      <3>2. QED  BY <3>1, Counts, FS_RemoveElement
    <2>3. refcnt \in Nat /\ held \in 0 .. MaxHeld /\ sends \in 0 .. MaxSends /\ refcnt <= 1 + Holders + sends
      BY <1>5, Types DEF IInv, TypeOK, RefBound
    <2>4. refcnt' = held' + Cardinality(Queued') + Cardinality(Holding') + Cardinality(Nesting')
      BY <1>3, <1>5, <2>1, <2>2, <2>3, Counts
    <2>5. th' \in [Thread -> Rec]
      BY <1>1 DEF To
    <2>6. flags' \in [locked : BOOLEAN, queued : SUBSET Class, sigs : SUBSET AllSig]
      BY <1>3, <1>5, Types
    <2>7. QED  BY <1>3, <1>5, <1>9, <2>3, <2>4, <2>5, <2>6, Recounted
  <1>11. ThreadShape'
    <2>1. Fits(t, "proc", th[t].sig, th[t].run, th[t].back, th[t].qf)
      BY <1>6 DEF Fits
    <2>2. QED  BY <1>1, <2>1, Shaped
  <1>12. LockExclusive'
    BY <1>1, <1>3, <1>4, <1>6, LockKept
  <1>13. QueueShape'
    <2>1. \A c \in Class : \A u \in Thread : u # t => (Carries(u, c)' <=> Carries(u, c))
      BY <1>7 DEF Others, Carries
    <2>2. \A c \in Class : ~Carries(t, c)
      BY <1>2 DEF Carries
    <2>3. \A c \in Class : Carries(t, c)' <=> c = c0
      BY <1>7 DEF Carries, c0
    <2>4. QED  BY <1>4, <1>8, <1>9, <2>1, <2>2, <2>3 DEF IInv, QueueShape
  <1>14. FixShape'
    BY <1>2, <1>7, NobodyFixes DEF c0
  <1>15. Served'
    BY <1>1, ServedHere DEF Looks
  <1>16. ClosingShape'
    BY <1>3, <1>4, <1>6, <1>7, ClosingKept
  <1>17. QED  BY <1>10, <1>11, <1>12, <1>13, <1>14, <1>15, <1>16 DEF IInv

\* DecSub keeps the invariant.
LEMMA DecSubInv ==
  ASSUME IInv, NEW t \in Thread, DecSub(t)
  PROVE  IInv'
  <1>1. /\ th[t].pc = "decSub" /\ refcnt' = refcnt - 1
        /\ queue' = queue /\ freed' = freed /\ held' = held /\ sends' = sends /\ flags' = flags
    BY DecSubEffect
  <1>2. flags'.sigs = flags.sigs /\ flags'.queued = flags.queued /\ flags'.locked = flags.locked
    BY <1>1
  <1>3. TypeOK /\ ~freed
    BY <1>1, Live DEF IInv
  <1>4. /\ refcnt \in Nat /\ refcnt >= 1 /\ refcnt' \in Nat /\ refcnt' <= 1 + Holders + sends'
        /\ held' \in 0 .. MaxHeld /\ sends' \in 0 .. MaxSends /\ queue' \in [Class -> Nat]
        /\ flags' \in [locked : BOOLEAN, queued : SUBSET Class, sigs : SUBSET AllSig]
        /\ Queued' = Queued
    <2>1. refcnt >= 1
      BY <1>1, Positive
    <2>2. /\ refcnt \in Nat /\ sends \in Nat /\ Holders \in Nat /\ refcnt <= 1 + Holders + sends
      BY <1>3, Types, EngineAssumption DEF IInv, RefBound
    <2>3. refcnt' \in Nat /\ refcnt' <= 1 + Holders + sends'
      BY <1>1, <2>1, <2>2
    <2>4. held' \in 0 .. MaxHeld /\ sends' \in 0 .. MaxSends
      BY <1>1, <1>3 DEF TypeOK
    <2>5. queue' \in [Class -> Nat] /\ flags' \in [locked : BOOLEAN, queued : SUBSET Class, sigs : SUBSET AllSig]
      BY <1>1, <1>3, Types
    <2>6. Queued' = Queued
      BY <1>1 DEF Queued
    <2>7. QED  BY <2>1, <2>2, <2>3, <2>4, <2>5, <2>6
  <1>5. /\ ~Closing /\ JS_FINISH \notin flags.sigs /\ None # JS_FINISH /\ th[t].sig # JS_FINISH
        /\ \A u \in Thread : th[u].pc = "begin" => th[u].run \in flags'.sigs
    <2>1. th[t].sig # JS_FINISH
      BY <1>1 DEF IInv, ClosingShape
    <2>2. ~Closing
      BY <1>1, <2>1, Unclosed DEF Token, Looks
    <2>3. None # JS_FINISH
      BY DEF None, JS_FINISH
    <2>4. QED  BY <1>2, <2>1, <2>2, <2>3, BeginsKept DEF Closing
  <1>6. CASE refcnt # 1 /\ th[t].back # "exec"
    <2>1. To(t, "idle", None, None, "idle", {})
      BY <1>6, DecSubEffect DEF Returned
    <2>2. Others(t) /\ th'[t].pc = "idle" /\ th'[t].sig = None
      BY <2>1, Landed
    <2>3. Cardinality(Holding') = Cardinality(Holding) - 1 /\ Nesting' = Nesting
      <3>1. ~Token("idle") /\ Token(th[t].pc) /\ th[t].back = "idle"
        <4>1. th[t].back \in {"idle", "exec"}
          BY <1>3, Types DEF Rec
        <4>2. QED  BY <1>1, <1>6, <4>1 DEF Token
      <3>2. QED  BY <2>1, <3>1, HoldingStep
    <2>4. TypeOK' /\ RefBound' /\ RefcntExact' /\ FreedShape'
      <3>1. refcnt' = held' + Cardinality(Queued') + Cardinality(Holding') + Cardinality(Nesting')
        BY <1>1, <1>3, <1>4, <2>3, Counts
      <3>2. th' \in [Thread -> Rec]
        BY <2>1 DEF To
      <3>3. QED  BY <1>1, <1>3, <1>4, <3>1, <3>2, Recounted
    <2>5. ThreadShape'
      <3>1. Fits(t, "idle", None, None, "idle", {})
        BY DEF Fits
      <3>2. QED  BY <2>1, <3>1, Shaped
    <2>6. LockExclusive'
      BY <1>1, <1>2, <1>6, <2>1, LockKept DEF InLock, Nested
    <2>7. QueueShape'
      BY <1>1, <1>2, <2>1, QueueKept
    <2>8. FixShape'
      BY <1>1, <2>2, NobodyFixes
    <2>9. Served'
      BY <1>1, <1>2, <1>6, <2>1, ServedElsewhere DEF Looks, Nested
    <2>10. ClosingShape'
      BY <1>2, <1>5, <2>2, StaysOpen
    <2>11. QED  BY <2>4, <2>5, <2>6, <2>7, <2>8, <2>9, <2>10 DEF IInv
  <1>7. CASE refcnt # 1 /\ th[t].back = "exec"
    <2>1. To(t, "exec", None, th[t].run, "idle", th[t].qf)
      BY <1>7, DecSubEffect DEF Returned
    <2>2. Others(t) /\ th'[t].pc = "exec" /\ th'[t].sig = None
      BY <2>1, Landed
    <2>3. Holding' = Holding /\ Cardinality(Nesting') = Cardinality(Nesting) - 1
      <3>1. Token("exec") /\ Token(th[t].pc)
        BY <1>1 DEF Token
      <3>2. QED  BY <1>7, <2>1, <3>1, HoldingStep
    <2>4. TypeOK' /\ RefBound' /\ RefcntExact' /\ FreedShape'
      <3>1. refcnt' = held' + Cardinality(Queued') + Cardinality(Holding') + Cardinality(Nesting')
        BY <1>1, <1>3, <1>4, <2>3, Counts
      <3>2. th' \in [Thread -> Rec]
        BY <2>1 DEF To
      <3>3. QED  BY <1>1, <1>3, <1>4, <3>1, <3>2, Recounted
    <2>5. ThreadShape'
      <3>1. Fits(t, "exec", None, th[t].run, "idle", th[t].qf)
        BY <1>7 DEF IInv, ThreadShape, Fits
      <3>2. QED  BY <2>1, <3>1, Shaped
    <2>6. LockExclusive'
      BY <1>1, <1>2, <1>7, <2>1, LockKept DEF InLock, Nested
    <2>7. QueueShape'
      BY <1>1, <1>2, <2>1, QueueKept
    <2>8. FixShape'
      BY <1>1, <2>2, NobodyFixes
    <2>9. Served'
      BY <2>1, ServedHere DEF Looks
    <2>10. ClosingShape'
      BY <1>2, <1>5, <2>2, StaysOpen
    <2>11. QED  BY <2>4, <2>5, <2>6, <2>7, <2>8, <2>9, <2>10 DEF IInv
  <1>8. CASE refcnt = 1
    <2>1. To(t, "decFix", th[t].sig, th[t].run, th[t].back, th[t].qf)
      BY <1>8, DecSubEffect
    <2>2. Others(t) /\ th'[t].pc = "decFix" /\ th'[t].sig = th[t].sig
      BY <2>1, Landed
    <2>3. /\ \A u \in Thread : u # t => th[u].pc = "idle"
          /\ ~Nested(t)
      BY <1>1, <1>4, <1>8, Alone
    <2>4. Cardinality(Holding') = Cardinality(Holding) - 1 /\ Nesting' = Nesting
      <3>1. ~Token("decFix") /\ Token(th[t].pc)
        BY <1>1 DEF Token
      <3>2. QED  BY <2>1, <3>1, HoldingStep
    <2>5. TypeOK' /\ RefBound' /\ RefcntExact' /\ FreedShape'
      <3>1. refcnt' = held' + Cardinality(Queued') + Cardinality(Holding') + Cardinality(Nesting')
        BY <1>1, <1>3, <1>4, <2>4, Counts
      <3>2. th' \in [Thread -> Rec]
        BY <2>1 DEF To
      <3>3. QED  BY <1>1, <1>3, <1>4, <3>1, <3>2, Recounted
    <2>6. ThreadShape'
      <3>1. Fits(t, "decFix", th[t].sig, th[t].run, th[t].back, th[t].qf)
        BY <1>1, <2>3 DEF IInv, ThreadShape, Fits, Nested
      <3>2. QED  BY <2>1, <3>1, Shaped
    <2>7. LockExclusive'
      BY <1>1, <1>2, <2>3, <2>1, LockKept DEF InLock, Nested
    <2>8. QueueShape'
      BY <1>1, <1>2, <2>1, QueueKept
    <2>9. FixShape'
      <3>1. refcnt' = 0 /\ ~freed'
        BY <1>1, <1>3, <1>8
      <3>2. \A u \in Thread : u # t => th'[u].pc = "idle"
        BY <2>2, <2>3 DEF Others
      <3>3. QED  BY <2>2, <3>1, <3>2 DEF FixShape
    <2>10. Served'
      BY <1>1, <1>2, <2>3, <2>1, ServedElsewhere DEF Looks
    <2>11. ClosingShape'
      BY <1>2, <1>5, <2>2, StaysOpen
    <2>12. QED  BY <2>5, <2>6, <2>7, <2>8, <2>9, <2>10, <2>11 DEF IInv
  <1>9. QED  BY <1>6, <1>7, <1>8

\* DecFix keeps the invariant.
LEMMA DecFixInv ==
  ASSUME IInv, NEW t \in Thread, DecFix(t)
  PROVE  IInv'
  <1>1. /\ th[t].pc = "decFix" /\ refcnt' = 1
        /\ queue' = queue /\ freed' = freed /\ held' = held /\ sends' = sends
    BY DecFixEffect
  <1>2. TypeOK
    BY DEF IInv
  <1>3. flags'.locked = flags.locked /\ flags'.sigs = flags.sigs /\ flags'.queued = flags.queued
    BY DecFixEffect DEF Flags
  <1>4. flags' \in [locked : BOOLEAN, queued : SUBSET Class, sigs : SUBSET AllSig]
    BY <1>2, DecFixEffect, Types DEF Flags
  <1>5. To(t, "send", JS_FINISH, th[t].run, th[t].back, th[t].qf)
    BY DecFixEffect
  <1>6. Others(t) /\ th'[t].pc = "send" /\ th'[t].sig = JS_FINISH
    BY <1>5, Landed
  <1>7. /\ refcnt = 0 /\ ~freed /\ held = 0 /\ flags.sigs = {}
        /\ Cardinality(Queued) = 0 /\ Cardinality(Holding) = 0 /\ Cardinality(Nesting) = 0
    BY <1>1, FixAlone
  <1>8. /\ \A u \in Thread : u # t => th[u].pc = "idle"
        /\ \A u \in Thread : ~InLock(u)
        /\ th[t].back # "exec" /\ th[t].run = None
    BY <1>1, FixAlone
  <1>9. TypeOK' /\ RefBound' /\ RefcntExact' /\ FreedShape'
    <2>1. Cardinality(Holding') = Cardinality(Holding) + 1 /\ Nesting' = Nesting /\ Queued' = Queued
      <3>1. Token("send") /\ ~Token(th[t].pc)
        BY <1>1 DEF Token
      <3>2. Queued' = Queued
        BY <1>1 DEF Queued
      <3>3. QED  BY <1>5, <3>1, <3>2, HoldingStep
    <2>2. refcnt' = held' + Cardinality(Queued') + Cardinality(Holding') + Cardinality(Nesting')
      BY <1>1, <1>7, <2>1
    <2>3. /\ refcnt' \in Nat /\ held' \in 0 .. MaxHeld /\ sends' \in 0 .. MaxSends
          /\ queue' \in [Class -> Nat]
      BY <1>1, <1>2 DEF TypeOK
    <2>4. refcnt' <= 1 + Holders + sends'
      BY <1>1, <1>2, Types, EngineAssumption
    <2>5. th' \in [Thread -> Rec]
      BY <1>5 DEF To
    <2>6. QED  BY <1>1, <1>4, <1>7, <2>2, <2>3, <2>4, <2>5, Recounted
  <1>10. ThreadShape'
    <2>1. Fits(t, "send", JS_FINISH, th[t].run, th[t].back, th[t].qf)
      BY <1>8 DEF Fits, JS_FINISH, None
    <2>2. QED  BY <1>5, <2>1, Shaped
  <1>11. LockExclusive'
    BY <1>1, <1>3, <1>5, <1>7, <1>8, LockKept
  <1>12. QueueShape'
    BY <1>1, <1>3, <1>5, QueueKept
  <1>13. FixShape'
    BY <1>1, <1>6, NobodyFixes
  <1>14. Served'
    BY <1>3, <1>7 DEF Served
  <1>15. ClosingShape'
    <2>1. held' = 0 /\ refcnt' = 1 /\ flags'.sigs \subseteq {JS_FINISH}
      BY <1>1, <1>3, <1>7
    <2>2. QED  BY <1>5, <1>8, <2>1, ClosingNow
  <1>16. QED  BY <1>9, <1>10, <1>11, <1>12, <1>13, <1>14, <1>15 DEF IInv

\* Push keeps the invariant.
LEMMA PushInv ==
  ASSUME IInv, NEW t \in Thread, Push(t)
  PROVE  IInv'
  <1> DEFINE c0 == SigClass[th[t].run]
  <1>1. /\ th[t].pc = "push" /\ refcnt' = refcnt /\ freed' = freed
        /\ held' = held /\ sends' = sends /\ flags' = flags
    BY PushEffect
  <1>2. flags'.sigs = flags.sigs /\ flags'.queued = flags.queued /\ flags'.locked = flags.locked
    BY <1>1
  <1>3. TypeOK /\ ~freed
    BY <1>1, Live DEF IInv
  <1>4. th[t].back # "exec" /\ th[t].back = "idle" /\ th[t].run \in AllSig
    <2>1. th[t].back # "exec" /\ th[t].run # None
      BY <1>1 DEF IInv, ThreadShape, Fits
    <2>2. th[t].back \in {"idle", "exec"} /\ th[t].run \in AllSig \union {None}
      BY <1>3, Types DEF Rec
    <2>3. QED  BY <2>1, <2>2
  <1>5. To(t, "idle", None, None, "idle", {})
    BY <1>4, PushEffect DEF Returned
  <1>6. Others(t) /\ th'[t].pc = "idle" /\ th'[t].sig = None
    BY <1>5, Landed
  <1>7. c0 \in Class /\ queue \in [Class -> Nat] /\ queue' = [queue EXCEPT ![c0] = @ + 1]
    BY <1>3, <1>4, Types, PushEffect
  <1> HIDE DEF c0
  <1>8. /\ Carries(t, c0) /\ c0 \in flags.queued /\ queue[c0] = 0
        /\ \A u \in Thread : Carries(u, c0) => u = t
    <2>1. Carries(t, c0)
      BY <1>1 DEF Carries, c0
    <2>2. c0 \in flags.queued /\ queue[c0] # 1 /\ queue[c0] <= 1
      BY <1>7, <2>1 DEF IInv, QueueShape
    <2>3. \A u \in Thread : Carries(u, c0) => u = t
      BY <1>7, <2>1 DEF IInv, QueueShape
    <2>4. QED  BY <1>7, <2>1, <2>2, <2>3
  <1>9. queue' \in [Class -> Nat] /\ queue'[c0] = 1 /\ \A c \in Class : c # c0 => queue'[c] = queue[c]
    BY <1>7, <1>8
  <1>10. TypeOK' /\ RefBound' /\ RefcntExact' /\ FreedShape'
    <2>1. Cardinality(Holding') = Cardinality(Holding) - 1 /\ Nesting' = Nesting
      <3>1. ~Token("idle") /\ Token(th[t].pc)
        BY <1>1 DEF Token
      <3>2. QED  BY <1>4, <1>5, <3>1, HoldingStep
    <2>2. Cardinality(Queued') = Cardinality(Queued) + 1
      <3>1. Queued' = Queued \union {c0} /\ c0 \notin Queued
        BY <1>7, <1>8, <1>9 DEF Queued
      <3>2. QED  BY <3>1, Counts, FS_AddElement
    <2>3. refcnt \in Nat /\ held \in 0 .. MaxHeld /\ sends \in 0 .. MaxSends /\ refcnt <= 1 + Holders + sends
      BY <1>3, Types DEF IInv, TypeOK, RefBound
    <2>4. refcnt' = held' + Cardinality(Queued') + Cardinality(Holding') + Cardinality(Nesting')
      BY <1>1, <1>3, <2>1, <2>2, <2>3, Counts
    <2>5. th' \in [Thread -> Rec]
      BY <1>5 DEF To
    <2>6. flags' \in [locked : BOOLEAN, queued : SUBSET Class, sigs : SUBSET AllSig]
      BY <1>1, <1>3, Types
    <2>7. QED  BY <1>1, <1>3, <1>9, <2>3, <2>4, <2>5, <2>6, Recounted
  <1>11. ThreadShape'
    <2>1. Fits(t, "idle", None, None, "idle", {})
      BY DEF Fits
    <2>2. QED  BY <1>5, <2>1, Shaped
  <1>12. LockExclusive'
    BY <1>1, <1>2, <1>4, <1>5, LockKept DEF InLock, Nested
  <1>13. QueueShape'
    <2>1. \A c \in Class : \A u \in Thread : u # t => (Carries(u, c)' <=> Carries(u, c))
      BY <1>6 DEF Others, Carries
    <2>2. \A c \in Class : c # c0 => ~Carries(t, c)
      BY <1>1 DEF Carries, c0
    <2>3. \A c \in Class : ~Carries(t, c)'
      BY <1>6 DEF Carries
    <2>4. QED  BY <1>2, <1>7, <1>8, <1>9, <2>1, <2>2, <2>3 DEF IInv, QueueShape
  <1>14. FixShape'
    BY <1>1, <1>6, NobodyFixes
  <1>15. Served'
    BY <1>7, <1>9 DEF Served
  <1>16. ClosingShape'
    <2>1. th[t].sig = JS_FINISH => JS_FINISH \in flags.sigs
      BY <1>1 DEF IInv, ClosingShape
    <2>2. None # JS_FINISH
      BY DEF None, JS_FINISH
    <2>3. Closing' <=> Closing
      BY <1>2, <1>6, <2>1, <2>2 DEF Closing, Others
    <2>4. QED  BY <1>1, <1>2, <1>6, <2>2, <2>3 DEF IInv, ClosingShape, Others
  <1>17. QED  BY <1>10, <1>11, <1>12, <1>13, <1>14, <1>15, <1>16 DEF IInv

\* Begin keeps the invariant.
LEMMA BeginInv ==
  ASSUME IInv, NEW t \in Thread, Begin(t)
  PROVE  IInv'
  <1>1. /\ th[t].pc = "begin" /\ refcnt' = refcnt
        /\ queue' = queue /\ held' = held /\ sends' = sends
    BY BeginEffect
  <1>2. /\ flags'.sigs = flags.sigs \ {th[t].run} /\ flags'.queued = flags.queued
        /\ flags'.locked = flags.locked
    BY BeginEffect DEF Flags
  <1>3. flags' \in [locked : BOOLEAN, queued : SUBSET Class, sigs : SUBSET AllSig]
    BY BeginEffect DEF Flags
  <1>4. TypeOK /\ ~freed
    BY <1>1, Live DEF IInv
  <1>5. th[t].back # "exec" /\ th[t].run \in AllSig /\ th[t].run \in flags.sigs
    <2>1. th[t].back # "exec" /\ th[t].run # None
      BY <1>1 DEF IInv, ThreadShape, Fits
    <2>2. th[t].run \in AllSig \union {None}
      BY <1>4, Types DEF Rec
    <2>3. th[t].run \in flags.sigs
      BY <1>1 DEF IInv, ClosingShape
    <2>4. QED  BY <2>1, <2>2, <2>3
  <1>6. CASE th[t].run # JS_FINISH
    <2>1. freed' = freed /\ To(t, "exec", th[t].sig, th[t].run, th[t].back, th[t].qf)
      BY <1>6, BeginEffect
    <2>2. Others(t) /\ th'[t].pc = "exec" /\ th'[t].sig = th[t].sig
      BY <2>1, Landed
    <2>3. Token("exec") /\ Token(th[t].pc)
      BY <1>1 DEF Token
    <2>4. sends' \in {sends, sends + 1} /\ sends' \in 0 .. MaxSends
      BY <1>1, <1>4 DEF TypeOK
    <2>5. TypeOK' /\ RefBound' /\ RefcntExact' /\ FixShape' /\ FreedShape'
      BY <1>1, <1>3, <2>1, <2>3, <2>4, Quiet
    <2>6. ThreadShape'
      <3>1. Fits(t, "exec", th[t].sig, th[t].run, th[t].back, th[t].qf)
        BY <1>5, <1>6 DEF Fits, AllSig
      <3>2. QED  BY <2>1, <3>1, Shaped
    <2>7. LockExclusive'
      BY <1>1, <1>2, <2>1, LockKept DEF InLock
    <2>8. QueueShape'
      BY <1>1, <1>2, <2>1, QueueKept
    <2>9. Served'
      BY <2>1, ServedHere DEF Looks
    <2>10. ClosingShape'
      <3>1. ~Closing
        BY <1>4, <1>5, <1>6 DEF IInv, ClosingShape
      <3>2. JS_FINISH \notin flags'.sigs /\ th[t].sig # JS_FINISH
        BY <1>2, <3>1 DEF Closing
      <3>3. \A u \in Thread : u # t => th[u].pc # "begin"
        BY <1>1, Owns DEF InLock
      <3>4. QED  BY <2>2, <3>1, <3>2, <3>3, StaysOpen
    <2>11. QED  BY <2>5, <2>6, <2>7, <2>8, <2>9, <2>10 DEF IInv
  <1>7. CASE th[t].run = JS_FINISH
    <2>1. freed' = TRUE /\ To(t, "idle", None, None, "idle", {})
      BY <1>5, <1>7, BeginEffect DEF Returned
    <2>2. Others(t) /\ th'[t].pc = "idle" /\ th'[t].sig = None /\ th'[t].back = "idle"
      BY <2>1, Landed
    <2>3. held = 0 /\ refcnt = 1 /\ flags.sigs \subseteq {JS_FINISH}
      BY <1>4, <1>5, <1>7 DEF IInv, ClosingShape, Closing
    <2>4. (\A c \in Class : queue[c] = 0) /\ (\A u \in Thread : u # t => th[u].pc = "idle")
      BY <1>1, <2>3, Alone
    <2>5. ASSUME NEW u \in Thread
          PROVE  th'[u].pc = "idle" /\ th'[u].sig = None /\ th'[u].back = "idle"
      <3>1. CASE u = t
        BY <2>2, <3>1
      <3>2. CASE u # t
        <4>1. th'[u] = th[u] /\ th[u].pc = "idle"
          BY <2>2, <2>4, <3>2 DEF Others
        <4>2. QED  BY <4>1, IdleThread
      <3>3. QED  BY <3>1, <3>2
    <2>6. flags'.sigs = {}
      BY <1>2, <1>7, <2>3
    <2>7. TypeOK'
      BY <1>1, <1>3, <1>4, <2>1 DEF TypeOK, To, Rec
    <2>8. RefBound' /\ RefcntExact'
      BY <1>1, <2>1 DEF IInv, RefBound, RefcntExact
    <2>9. FixShape' /\ FreedShape'
      BY <1>1, <2>3, <2>4, <2>5, <2>6 DEF FixShape, FreedShape
    <2>10. ThreadShape'
      <3>1. Fits(t, "idle", None, None, "idle", {})
        BY DEF Fits
      <3>2. QED  BY <2>1, <3>1, Shaped
    <2>11. LockExclusive'
      <3>1. \A u \in Thread : ~InLock(u)'
        BY <2>5 DEF InLock, Nested
      <3>2. QED  BY <2>1, <3>1 DEF LockExclusive
    <2>12. QueueShape'
      BY <1>1, <1>2, <2>1, QueueKept
    <2>13. Served' /\ ClosingShape'
      <3>1. None # JS_FINISH
        BY DEF None, JS_FINISH
      <3>2. QED  BY <2>1, <2>5, <2>6, <3>1 DEF Served, ClosingShape
    <2>14. QED  BY <2>7, <2>8, <2>9, <2>10, <2>11, <2>12, <2>13 DEF IInv
  <1>8. QED  BY <1>6, <1>7

\* HandlerSignal keeps the invariant.
LEMMA HandlerSignalInv ==
  ASSUME IInv, NEW t \in Thread, NEW s \in Sig, HandlerSignal(t, s)
  PROVE  IInv'
  <1>1. /\ th[t].pc = "exec" /\ sends < MaxSends /\ refcnt' = refcnt + 1 /\ sends' = sends + 1
        /\ queue' = queue /\ freed' = freed /\ held' = held /\ flags' = flags
    BY HandlerSignalEffect
  <1>2. flags'.sigs = flags.sigs /\ flags'.queued = flags.queued /\ flags'.locked = flags.locked
    BY <1>1
  <1>3. TypeOK /\ ~freed
    BY <1>1, Live DEF IInv
  <1>4. To(t, "send", s, th[t].run, "exec", th[t].qf)
    BY HandlerSignalEffect
  <1>5. Others(t) /\ th'[t].pc = "send" /\ th'[t].sig = s
    BY <1>4, Landed
  <1>6. th[t].back # "exec" /\ th[t].run \in Sig
    BY <1>1 DEF IInv, ThreadShape, Fits
  <1>7. TypeOK' /\ RefBound' /\ RefcntExact' /\ FreedShape'
    <2>1. Holding' = Holding /\ Cardinality(Nesting') = Cardinality(Nesting) + 1 /\ Queued' = Queued
      <3>1. Token("send") /\ Token(th[t].pc)
        BY <1>1 DEF Token
      <3>2. Queued' = Queued
        BY <1>1 DEF Queued
      <3>3. QED  BY <1>4, <1>6, <3>1, <3>2, HoldingStep
    <2>2. /\ refcnt \in Nat /\ sends \in Nat /\ held \in 0 .. MaxHeld
          /\ refcnt <= 1 + Holders + sends /\ Holders \in Nat /\ MaxSends \in Nat
      BY <1>3, Types, EngineAssumption DEF IInv, TypeOK, RefBound
    <2>3. refcnt' = held' + Cardinality(Queued') + Cardinality(Holding') + Cardinality(Nesting')
      BY <1>1, <1>3, <2>1, <2>2, Counts
    <2>4. /\ refcnt' \in Nat /\ held' \in 0 .. MaxHeld /\ sends' \in 0 .. MaxSends
          /\ refcnt' <= 1 + Holders + sends'
      BY <1>1, <2>2
    <2>5. th' \in [Thread -> Rec]
      BY <1>4 DEF To
    <2>6. /\ queue' \in [Class -> Nat]
          /\ flags' \in [locked : BOOLEAN, queued : SUBSET Class, sigs : SUBSET AllSig]
      BY <1>1, <1>3, Types
    <2>7. QED  BY <1>1, <1>3, <2>3, <2>4, <2>5, <2>6, Recounted
  <1>8. ThreadShape'
    <2>1. Fits(t, "send", s, th[t].run, "exec", th[t].qf)
      BY <1>6, EngineAssumption DEF Fits, None
    <2>2. QED  BY <1>4, <2>1, Shaped
  <1>9. LockExclusive'
    BY <1>1, <1>2, <1>4, LockKept DEF InLock
  <1>10. QueueShape'
    BY <1>1, <1>2, <1>4, QueueKept
  <1>11. FixShape'
    BY <1>1, <1>5, NobodyFixes
  <1>12. Served'
    BY <1>4, ServedHere
  <1>13. ClosingShape'
    <2>1. ~Closing /\ JS_FINISH \notin flags.sigs
      BY <1>1, OpenWhileHeld
    <2>2. s # JS_FINISH
      BY <1>3, Types
    <2>3. \A u \in Thread : th[u].pc = "begin" => th[u].run \in flags'.sigs
      BY <1>2, BeginsKept
    <2>4. QED  BY <1>2, <1>5, <2>1, <2>2, <2>3, StaysOpen
  <1>14. QED  BY <1>7, <1>8, <1>9, <1>10, <1>11, <1>12, <1>13 DEF IInv

\* DropSub keeps the invariant.
LEMMA DropSubInv ==
  ASSUME IInv, NEW t \in Thread, DropSub(t)
  PROVE  IInv'
  <1>1. /\ th[t].pc = "dropSub" /\ refcnt' = refcnt - 1
        /\ queue' = queue /\ freed' = freed /\ held' = held /\ sends' = sends /\ flags' = flags
    BY DropSubEffect
  <1>2. flags'.sigs = flags.sigs /\ flags'.queued = flags.queued /\ flags'.locked = flags.locked
    BY <1>1
  <1>3. TypeOK /\ ~freed
    BY <1>1, Live DEF IInv
  <1>4. /\ refcnt \in Nat /\ refcnt >= 1 /\ refcnt' \in Nat /\ refcnt' <= 1 + Holders + sends'
        /\ held' \in 0 .. MaxHeld /\ sends' \in 0 .. MaxSends /\ queue' \in [Class -> Nat]
        /\ flags' \in [locked : BOOLEAN, queued : SUBSET Class, sigs : SUBSET AllSig]
        /\ Queued' = Queued
    <2>1. refcnt >= 1
      BY <1>1, Positive
    <2>2. /\ refcnt \in Nat /\ sends \in Nat /\ Holders \in Nat /\ refcnt <= 1 + Holders + sends
      BY <1>3, Types, EngineAssumption DEF IInv, RefBound
    <2>3. refcnt' \in Nat /\ refcnt' <= 1 + Holders + sends'
      BY <1>1, <2>1, <2>2
    <2>4. held' \in 0 .. MaxHeld /\ sends' \in 0 .. MaxSends
      BY <1>1, <1>3 DEF TypeOK
    <2>5. queue' \in [Class -> Nat] /\ flags' \in [locked : BOOLEAN, queued : SUBSET Class, sigs : SUBSET AllSig]
      BY <1>1, <1>3, Types
    <2>6. Queued' = Queued
      BY <1>1 DEF Queued
    <2>7. QED  BY <2>1, <2>2, <2>3, <2>4, <2>5, <2>6
  <1>5. /\ ~Closing /\ JS_FINISH \notin flags.sigs /\ None # JS_FINISH /\ th[t].sig # JS_FINISH
        /\ \A u \in Thread : th[u].pc = "begin" => th[u].run \in flags'.sigs
    <2>1. th[t].sig # JS_FINISH
      BY <1>1 DEF IInv, ClosingShape
    <2>2. ~Closing
      BY <1>1, <2>1, Unclosed DEF Token, Looks
    <2>3. None # JS_FINISH
      BY DEF None, JS_FINISH
    <2>4. QED  BY <1>2, <2>1, <2>2, <2>3, BeginsKept DEF Closing
  <1>6. CASE refcnt # 1 /\ th[t].back # "exec"
    <2>1. To(t, "idle", None, None, "idle", {})
      BY <1>6, DropSubEffect DEF Returned
    <2>2. Others(t) /\ th'[t].pc = "idle" /\ th'[t].sig = None
      BY <2>1, Landed
    <2>3. Cardinality(Holding') = Cardinality(Holding) - 1 /\ Nesting' = Nesting
      <3>1. ~Token("idle") /\ Token(th[t].pc) /\ th[t].back = "idle"
        <4>1. th[t].back \in {"idle", "exec"}
          BY <1>3, Types DEF Rec
        <4>2. QED  BY <1>1, <1>6, <4>1 DEF Token
      <3>2. QED  BY <2>1, <3>1, HoldingStep
    <2>4. TypeOK' /\ RefBound' /\ RefcntExact' /\ FreedShape'
      <3>1. refcnt' = held' + Cardinality(Queued') + Cardinality(Holding') + Cardinality(Nesting')
        BY <1>1, <1>3, <1>4, <2>3, Counts
      <3>2. th' \in [Thread -> Rec]
        BY <2>1 DEF To
      <3>3. QED  BY <1>1, <1>3, <1>4, <3>1, <3>2, Recounted
    <2>5. ThreadShape'
      <3>1. Fits(t, "idle", None, None, "idle", {})
        BY DEF Fits
      <3>2. QED  BY <2>1, <3>1, Shaped
    <2>6. LockExclusive'
      BY <1>1, <1>2, <1>6, <2>1, LockKept DEF InLock, Nested
    <2>7. QueueShape'
      BY <1>1, <1>2, <2>1, QueueKept
    <2>8. FixShape'
      BY <1>1, <2>2, NobodyFixes
    <2>9. Served'
      BY <1>1, <1>2, <1>6, <2>1, ServedElsewhere DEF Looks, Nested
    <2>10. ClosingShape'
      BY <1>2, <1>5, <2>2, StaysOpen
    <2>11. QED  BY <2>4, <2>5, <2>6, <2>7, <2>8, <2>9, <2>10 DEF IInv
  <1>7. th[t].back # "exec"
    BY <1>1 DEF IInv, ThreadShape, Fits
  <1>8. CASE refcnt = 1
    <2>1. To(t, "dropFix", th[t].sig, th[t].run, th[t].back, th[t].qf)
      BY <1>8, DropSubEffect
    <2>2. Others(t) /\ th'[t].pc = "dropFix" /\ th'[t].sig = th[t].sig
      BY <2>1, Landed
    <2>3. /\ \A u \in Thread : u # t => th[u].pc = "idle"
          /\ ~Nested(t)
      BY <1>1, <1>4, <1>8, Alone
    <2>4. Cardinality(Holding') = Cardinality(Holding) - 1 /\ Nesting' = Nesting
      <3>1. ~Token("dropFix") /\ Token(th[t].pc)
        BY <1>1 DEF Token
      <3>2. QED  BY <2>1, <3>1, HoldingStep
    <2>5. TypeOK' /\ RefBound' /\ RefcntExact' /\ FreedShape'
      <3>1. refcnt' = held' + Cardinality(Queued') + Cardinality(Holding') + Cardinality(Nesting')
        BY <1>1, <1>3, <1>4, <2>4, Counts
      <3>2. th' \in [Thread -> Rec]
        BY <2>1 DEF To
      <3>3. QED  BY <1>1, <1>3, <1>4, <3>1, <3>2, Recounted
    <2>6. ThreadShape'
      <3>1. Fits(t, "dropFix", th[t].sig, th[t].run, th[t].back, th[t].qf)
        BY <1>1, <2>3 DEF IInv, ThreadShape, Fits, Nested
      <3>2. QED  BY <2>1, <3>1, Shaped
    <2>7. LockExclusive'
      BY <1>1, <1>2, <2>3, <2>1, LockKept DEF InLock, Nested
    <2>8. QueueShape'
      BY <1>1, <1>2, <2>1, QueueKept
    <2>9. FixShape'
      <3>1. refcnt' = 0 /\ ~freed'
        BY <1>1, <1>3, <1>8
      <3>2. \A u \in Thread : u # t => th'[u].pc = "idle"
        BY <2>2, <2>3 DEF Others
      <3>3. QED  BY <2>2, <3>1, <3>2 DEF FixShape
    <2>10. Served'
      BY <1>1, <1>2, <2>3, <2>1, ServedElsewhere DEF Looks
    <2>11. ClosingShape'
      BY <1>2, <1>5, <2>2, StaysOpen
    <2>12. QED  BY <2>5, <2>6, <2>7, <2>8, <2>9, <2>10, <2>11 DEF IInv
  <1>9. QED  BY <1>6, <1>7, <1>8

\* DropFix keeps the invariant.
LEMMA DropFixInv ==
  ASSUME IInv, NEW t \in Thread, DropFix(t)
  PROVE  IInv'
  <1>1. /\ th[t].pc = "dropFix" /\ refcnt' = 1
        /\ queue' = queue /\ freed' = freed /\ held' = held /\ sends' = sends
    BY DropFixEffect
  <1>2. TypeOK
    BY DEF IInv
  <1>3. flags'.locked = TRUE /\ flags'.sigs = flags.sigs \union {JS_FINISH} /\ flags'.queued = flags.queued
    BY DropFixEffect DEF Flags
  <1>4. flags' \in [locked : BOOLEAN, queued : SUBSET Class, sigs : SUBSET AllSig]
    BY <1>2, DropFixEffect, Types DEF Flags
  <1>5. To(t, "unlock", th[t].sig, th[t].run, th[t].back, th[t].qf)
    BY DropFixEffect
  <1>6. Others(t) /\ th'[t].pc = "unlock" /\ th'[t].sig = th[t].sig
    BY <1>5, Landed
  <1>7. /\ refcnt = 0 /\ ~freed /\ held = 0 /\ flags.sigs = {}
        /\ Cardinality(Queued) = 0 /\ Cardinality(Holding) = 0 /\ Cardinality(Nesting) = 0
    BY <1>1, FixAlone
  <1>8. /\ \A u \in Thread : u # t => th[u].pc = "idle"
        /\ \A u \in Thread : ~InLock(u)
        /\ th[t].back # "exec" /\ th[t].run = None
    BY <1>1, FixAlone
  <1>9. TypeOK' /\ RefBound' /\ RefcntExact' /\ FreedShape'
    <2>1. Cardinality(Holding') = Cardinality(Holding) + 1 /\ Nesting' = Nesting /\ Queued' = Queued
      <3>1. Token("unlock") /\ ~Token(th[t].pc)
        BY <1>1 DEF Token
      <3>2. Queued' = Queued
        BY <1>1 DEF Queued
      <3>3. QED  BY <1>5, <3>1, <3>2, HoldingStep
    <2>2. refcnt' = held' + Cardinality(Queued') + Cardinality(Holding') + Cardinality(Nesting')
      BY <1>1, <1>7, <2>1
    <2>3. /\ refcnt' \in Nat /\ held' \in 0 .. MaxHeld /\ sends' \in 0 .. MaxSends
          /\ queue' \in [Class -> Nat]
      BY <1>1, <1>2 DEF TypeOK
    <2>4. refcnt' <= 1 + Holders + sends'
      BY <1>1, <1>2, Types, EngineAssumption
    <2>5. th' \in [Thread -> Rec]
      BY <1>5 DEF To
    <2>6. QED  BY <1>1, <1>4, <1>7, <2>2, <2>3, <2>4, <2>5, Recounted
  <1>10. ThreadShape'
    <2>1. Fits(t, "unlock", th[t].sig, th[t].run, th[t].back, th[t].qf)
      BY <1>8 DEF Fits, JS_FINISH, None
    <2>2. QED  BY <1>5, <2>1, Shaped
  <1>11. LockExclusive'
    BY <1>1, <1>3, <1>5, <1>7, <1>8, LockTaken
  <1>12. QueueShape'
    BY <1>1, <1>3, <1>5, QueueKept
  <1>13. FixShape'
    BY <1>1, <1>6, NobodyFixes
  <1>14. Served'
    BY <1>5, ServedHere DEF Looks
  <1>15. ClosingShape'
    <2>1. held' = 0 /\ refcnt' = 1 /\ flags'.sigs \subseteq {JS_FINISH} /\ JS_FINISH \in flags'.sigs
      BY <1>1, <1>3, <1>7
    <2>2. QED  BY <1>5, <1>8, <2>1, ClosingNow
  <1>16. QED  BY <1>9, <1>10, <1>11, <1>12, <1>13, <1>14, <1>15 DEF IInv

-----------------------------------------------------------------------------
(* The invariant *)

\* create_async_job establishes the invariant
LEMMA InitInv == Init => IInv
  <1> SUFFICES ASSUME Init PROVE IInv
    OBVIOUS
  <1>1. /\ flags = [locked |-> TRUE, queued |-> {}, sigs |-> {}]
        /\ refcnt = 1 + Holders /\ queue = [c \in Class |-> 0] /\ held = Holders
        /\ freed = FALSE /\ sends = 0
    BY DEF Init
  <1>2. th[Creator] = Thr("unlock", None, FALSE) /\ \A u \in Thread : u # Creator => th[u] = Idle
    BY EngineAssumption DEF Init
  <1>3. /\ th[Creator].pc = "unlock" /\ th[Creator].sig = None /\ th[Creator].run = None
        /\ th[Creator].back = "idle" /\ th[Creator].qf = {}
    BY <1>2 DEF Thr
  <1>4. \A u \in Thread : u # Creator =>
          /\ th[u] = Idle /\ th[u].pc = "idle" /\ th[u].sig = None /\ th[u].run = None
          /\ th[u].back = "idle" /\ th[u].qf = {}
    <2>1. /\ Idle.pc = "idle" /\ Idle.sig = None /\ Idle.run = None
          /\ Idle.back = "idle" /\ Idle.qf = {}
      BY DEF Idle, Thr
    <2>2. QED  BY <1>2, <2>1
  <1>5. Creator \in Thread /\ IsFiniteSet(Thread)
    BY EngineAssumption
  <1>6. TypeOK
    <2>1. th \in [Thread -> Rec]
      <3>1. Thr("unlock", None, FALSE) \in Rec /\ Idle \in Rec
        BY DEF Thr, Idle, Rec, PCs
      <3>2. QED  BY <3>1 DEF Init
    <2>2. refcnt \in 0 .. (MaxHeld + MaxSends + Cardinality(Thread) + 1)
      BY <1>1, <1>5, EngineAssumption, FS_CardinalityType
    <2>3. held \in 0 .. MaxHeld /\ sends \in 0 .. MaxSends
      BY <1>1, EngineAssumption
    <2>4. QED  BY <1>1, <2>1, <2>2, <2>3 DEF TypeOK, Rec
  <1>7. RefcntExact
    <2>1. Holding = {Creator}
      BY <1>3, <1>4, <1>5 DEF Holding
    <2>2. Queued = {} /\ Nesting = {}
      BY <1>1, <1>3, <1>4, <1>5 DEF Queued, Nesting, Nested
    <2>3. Cardinality(Holding) = 1 /\ Cardinality(Queued) = 0 /\ Cardinality(Nesting) = 0
      BY <2>1, <2>2, FS_Singleton, FS_EmptySet
    <2>4. refcnt = held + Cardinality(Queued) + Cardinality(Holding) + Cardinality(Nesting)
      BY <1>1, <2>3, EngineAssumption
    <2>5. QED  BY <2>4 DEF RefcntExact, Queued, Nesting
  <1>8. LockExclusive
    <2>1. \A u \in Thread : InLock(u) <=> u = Creator
      BY <1>3, <1>4, <1>5 DEF InLock, Nested
    <2>2. QED  BY <1>1, <1>5, <2>1 DEF LockExclusive
  <1>9. ThreadShape
    BY <1>3, <1>4, <1>5 DEF ThreadShape, Fits
  <1>10. RefBound
    BY <1>1, EngineAssumption DEF RefBound
  <1>11. QueueShape
    <2>1. \A u \in Thread : \A c \in Class : ~Carries(u, c)
      BY <1>3, <1>4 DEF Carries
    <2>2. QED  BY <1>1, <2>1 DEF QueueShape
  <1>12. FixShape /\ Served /\ FreedShape
    BY <1>1, <1>3, <1>4 DEF FixShape, Served, FreedShape
  <1>13. ClosingShape
    <2>1. \A u \in Thread : th[u].sig # JS_FINISH /\ th[u].pc # "begin"
      BY <1>3, <1>4 DEF None, JS_FINISH
    <2>2. QED  BY <1>1, <2>1 DEF ClosingShape, Closing
  <1>14. QED  BY <1>6, <1>7, <1>8, <1>9, <1>10, <1>11, <1>12, <1>13 DEF IInv

\* and every step keeps it.
LEMMA NextInv == IInv /\ [Next]_vars => IInv'
  <1> SUFFICES ASSUME IInv, [Next]_vars PROVE IInv'
    OBVIOUS
  <1>1. ASSUME NEW t \in Thread, NEW s \in Sig, NEW b \in BOOLEAN, SignalCreate(t, s, b) PROVE IInv'
    BY <1>1, SignalCreateInv
  <1>2. ASSUME NEW t \in Thread, NEW s \in Sig, NEW b \in BOOLEAN, SignalPass(t, s, b) PROVE IInv'
    BY <1>2, SignalPassInv
  <1>3. ASSUME NEW t \in Thread, JobIncref(t) PROVE IInv'
    BY <1>3, JobIncrefInv
  <1>4. ASSUME NEW t \in Thread, NEW b \in BOOLEAN, JobDecref(t, b) PROVE IInv'
    BY <1>4, JobDecrefInv
  <1>5. ASSUME NEW t \in Thread, Pop(t) PROVE IInv'
    BY <1>5, PopInv
  <1>6. ASSUME NEW t \in Thread, ReadQueued(t) PROVE IInv'
    BY <1>6, ReadQueuedInv
  <1>7. ASSUME NEW t \in Thread, ProcessLock(t) PROVE IInv'
    BY <1>7, ProcessLockInv
  <1>8. ASSUME NEW t \in Thread, ProcessClear(t) PROVE IInv'
    BY <1>8, ProcessClearInv
  <1>9. ASSUME NEW t \in Thread, SendTest(t) PROVE IInv'
    BY <1>9, SendTestInv
  <1>10. ASSUME NEW t \in Thread, SendLock(t) PROVE IInv'
    BY <1>10, SendLockInv
  <1>11. ASSUME NEW t \in Thread, SendOr(t) PROVE IInv'
    BY <1>11, SendOrInv
  <1>12. ASSUME NEW t \in Thread, LockAgain(t) PROVE IInv'
    BY <1>12, LockAgainInv
  <1>13. ASSUME NEW t \in Thread, DecRead(t) PROVE IInv'
    BY <1>13, DecReadInv
  <1>14. ASSUME NEW t \in Thread, DecSub(t) PROVE IInv'
    BY <1>14, DecSubInv
  <1>15. ASSUME NEW t \in Thread, DecFix(t) PROVE IInv'
    BY <1>15, DecFixInv
  <1>16. ASSUME NEW t \in Thread, UnlockIdle(t) PROVE IInv'
    BY <1>16, UnlockIdleInv
  <1>17. ASSUME NEW t \in Thread, Choose(t) PROVE IInv'
    BY <1>17, ChooseInv
  <1>18. ASSUME NEW t \in Thread, Requeue(t) PROVE IInv'
    BY <1>18, RequeueInv
  <1>19. ASSUME NEW t \in Thread, Push(t) PROVE IInv'
    BY <1>19, PushInv
  <1>20. ASSUME NEW t \in Thread, Begin(t) PROVE IInv'
    BY <1>20, BeginInv
  <1>21. ASSUME NEW t \in Thread, NEW s \in Sig, HandlerSignal(t, s) PROVE IInv'
    BY <1>21, HandlerSignalInv
  <1>22. ASSUME NEW t \in Thread, NEW S \in SUBSET Sig, HandlerReturn(t, S) PROVE IInv'
    BY <1>22, HandlerReturnInv
  <1>23. ASSUME NEW t \in Thread, DropRead(t) PROVE IInv'
    BY <1>23, DropReadInv
  <1>24. ASSUME NEW t \in Thread, DropSub(t) PROVE IInv'
    BY <1>24, DropSubInv
  <1>25. ASSUME NEW t \in Thread, DropFix(t) PROVE IInv'
    BY <1>25, DropFixInv
  <1>26. CASE UNCHANGED vars
    BY <1>26 DEF vars, IInv, TypeOK, RefcntExact, Holding, LockExclusive, InLock, Nested,
       ThreadShape,
       RefBound, QueueShape, Carries, FixShape, Served, ClosingShape, Closing, FreedShape
  <1>27. ASSUME NEW t \in Thread, Engine(t) PROVE IInv'
    BY <1>27, <1>6, <1>7, <1>8, <1>9, <1>10, <1>11, <1>12, <1>13, <1>14, <1>15, <1>16, <1>17,
       <1>18, <1>19, <1>20, <1>23, <1>24, <1>25 DEF Engine
  <1>28. ASSUME NEW t \in Thread, Program(t) PROVE IInv'
    <2>1. \A b \in Busy(t) : b \in BOOLEAN
      BY DEF Busy
    <2>2. QED  BY <1>28, <2>1, <1>1, <1>2, <1>3, <1>4, <1>21 DEF Program
  <1>29. ASSUME NEW t \in Thread, Returns(t) PROVE IInv'
    BY <1>29, <1>22 DEF Returns
  <1>30. QED  BY <1>26, <1>27, <1>28, <1>29, <1>5 DEF Next, Idling

\* What the invariant says of the end of the job, and of the queues.
LEMMA LastStep == IInv => QueuedOnce /\ FinishIsLast
  <1> SUFFICES ASSUME IInv PROVE QueuedOnce /\ FinishIsLast
    OBVIOUS
  <1>1. QueuedOnce
    BY DEF IInv, QueueShape, QueuedOnce
  <1>2. ASSUME NEW t \in Thread, th[t].pc = "begin", th[t].run = JS_FINISH, ~freed
        PROVE  /\ held = 0 /\ \A c \in Class : queue[c] = 0
               /\ flags.sigs \subseteq {JS_FINISH}
               /\ \A u \in Thread : u # t => th[u].pc = "idle"
    <2>1. JS_FINISH \in flags.sigs
      BY <1>2 DEF IInv, ClosingShape
    <2>2. held = 0 /\ refcnt = 1 /\ flags.sigs \subseteq {JS_FINISH}
      BY <1>2, <2>1 DEF IInv, ClosingShape, Closing
    <2>3. QED  BY <1>2, <2>2, Alone
  <1>3. FinishIsLast
    BY <1>2 DEF IInv, FreedShape, FinishIsLast
  <1>4. QED  BY <1>1, <1>3

\* So it always holds.
LEMMA Invariance == Spec => []IInv
  BY InitInv, NextInv, PTL DEF Spec

\* Whatever the threads, classes, signals and holders: j_refcnt counts the
\* references, JF_LOCKED is a lock, a class's queue holds the job at most once
\* and JS_FINISH comes last.
THEOREM EngineIsSafe == Spec => []EngineSafe
  <1>1. IInv => EngineSafe
    BY LastStep DEF IInv, EngineSafe
  <1>2. QED  BY <1>1, Invariance, PTL

-----------------------------------------------------------------------------
(* The engine implements the abstract job *)

\* A handler of the job runs on t, or made the call t is in.
Works(t) == th[t].pc = "exec" \/ Nested(t)

\* The abstract job's running handler is that of the thread that works.
RunShape == /\ \A t \in Thread : Works(t) => Running = th[t].run /\ Running \in Sig
            /\ (\A t \in Thread : ~Works(t)) => Running = None
            /\ None \notin Sig

LEMMA RunningIs == IInv => RunShape
  <1> SUFFICES ASSUME IInv PROVE RunShape
    OBVIOUS
  <1> DEFINE P(t) == InLock(t) /\ th[t].run \in Sig /\ th[t].pc # "begin"
  <1>1. None \notin Sig
    BY EngineAssumption DEF None
  <1>2. ASSUME NEW t \in Thread PROVE P(t) <=> Works(t)
    BY <1>1 DEF IInv, ThreadShape, Fits, InLock, Works, Nested
  <1>3. \A t, u \in Thread : P(t) /\ P(u) => t = u
    BY DEF IInv, LockExclusive
  <1>4. Running = IF \E t \in Thread : P(t) THEN th[CHOOSE t \in Thread : P(t)].run ELSE None
    BY DEF Running
  <1>5. ASSUME NEW t \in Thread, Works(t) PROVE Running = th[t].run /\ Running \in Sig
    <2>1. P(t)
      BY <1>2, <1>5
    <2> HIDE DEF P
    <2>2. (CHOOSE u \in Thread : P(u)) = t
      BY <1>3, <2>1
    <2>3. Running = th[t].run
      BY <1>4, <2>1, <2>2
    <2>4. QED  BY <2>1, <2>3 DEF P
  <1>6. ASSUME \A t \in Thread : ~Works(t) PROVE Running = None
    <2>1. \A t \in Thread : ~P(t)
      BY <1>2, <1>6
    <2> HIDE DEF P
    <2>2. QED  BY <1>4, <2>1
  <1>7. QED  BY <1>1, <1>5, <1>6 DEF RunShape

\* A step that the abstract job does not see.
Unseen(t) == /\ Others(t) /\ freed' = freed
             /\ flags'.sigs \ {JS_FINISH} = flags.sigs \ {JS_FINISH}
             /\ Works(t)' <=> Works(t)
             /\ Works(t) => th'[t].run = th[t].run

\* ... is a stuttering step of it.
LEMMA Stutters ==
  ASSUME IInv, IInv', NEW t \in Thread, Unseen(t)
  PROVE  UNCHANGED A!vars
  <1>1. \A u \in Thread : Works(u)' <=> Works(u)
    BY DEF Unseen, Others, Works, Nested
  <1>2. \A u \in Thread : Works(u) => th'[u].run = th[u].run
    BY DEF Unseen, Others
  <1>3. RunShape
    BY RunningIs
  <1>4. RunShape'
    BY RunningIs, PTL
  <1>5. Running' = Running
    BY <1>1, <1>2, <1>3, <1>4 DEF RunShape
  <1>6. QED  BY <1>5 DEF Unseen, A!vars

\* The abstract job does not see SignalCreate.
LEMMA SignalCreateUnseen ==
  ASSUME IInv, NEW t \in Thread, NEW s \in Sig, NEW b \in BOOLEAN, SignalCreate(t, s, b)
  PROVE  Unseen(t)
  <1>1. th[t].pc = "idle" => th[t].back = "idle"
    BY IdleThread
  <1>2. ThreadShape
    BY DEF IInv
  <1>3. QED  BY <1>1, <1>2, SignalCreateEffect DEF Unseen, Works, Nested, Others, ThreadShape,
                Fits, To

\* The abstract job does not see SignalPass.
LEMMA SignalPassUnseen ==
  ASSUME IInv, NEW t \in Thread, NEW s \in Sig, NEW b \in BOOLEAN, SignalPass(t, s, b)
  PROVE  Unseen(t)
  <1>1. th[t].pc = "idle" => th[t].back = "idle"
    BY IdleThread
  <1>2. ThreadShape
    BY DEF IInv
  <1>3. QED  BY <1>1, <1>2, SignalPassEffect DEF Unseen, Works, Nested, Others, ThreadShape,
                Fits, To

\* The abstract job does not see JobIncref.
LEMMA JobIncrefUnseen ==
  ASSUME IInv, NEW t \in Thread, JobIncref(t)
  PROVE  Unseen(t)
  <1>1. th[t].pc = "idle" => th[t].back = "idle"
    BY IdleThread
  <1>2. ThreadShape
    BY DEF IInv
  <1>3. QED  BY <1>1, <1>2, JobIncrefEffect DEF Unseen, Works, Nested, Others, ThreadShape,
                Fits

\* The abstract job does not see JobDecref.
LEMMA JobDecrefUnseen ==
  ASSUME IInv, NEW t \in Thread, NEW b \in BOOLEAN, JobDecref(t, b)
  PROVE  Unseen(t)
  <1>1. th[t].pc = "idle" => th[t].back = "idle"
    BY IdleThread
  <1>2. ThreadShape
    BY DEF IInv
  <1>3. QED  BY <1>1, <1>2, JobDecrefEffect DEF Unseen, Works, Nested, Others, ThreadShape,
                Fits, To

\* The abstract job does not see Pop.
LEMMA PopUnseen ==
  ASSUME IInv, NEW t \in Thread, Pop(t)
  PROVE  Unseen(t)
  <1>1. th[t].pc = "idle" => th[t].back = "idle"
    BY IdleThread
  <1>2. ThreadShape
    BY DEF IInv
  <1>3. QED  BY <1>1, <1>2, PopEffect DEF Unseen, Works, Nested, Others, ThreadShape, Fits, To

\* The abstract job does not see ReadQueued.
LEMMA ReadQueuedUnseen ==
  ASSUME IInv, NEW t \in Thread, ReadQueued(t)
  PROVE  Unseen(t)
  <1>1. th[t].pc = "idle" => th[t].back = "idle"
    BY IdleThread
  <1>2. ThreadShape
    BY DEF IInv
  <1>3. QED  BY <1>1, <1>2, ReadQueuedEffect DEF Unseen, Works, Nested, Others, ThreadShape,
                Fits, To

\* The abstract job does not see ProcessLock.
LEMMA ProcessLockUnseen ==
  ASSUME IInv, NEW t \in Thread, ProcessLock(t)
  PROVE  Unseen(t)
  <1>1. th[t].pc = "idle" => th[t].back = "idle"
    BY IdleThread
  <1>2. ThreadShape
    BY DEF IInv
  <1>3. QED  BY <1>1, <1>2, ProcessLockEffect DEF Unseen, Works, Nested, Others, ThreadShape,
                Fits, To, Flags

\* The abstract job does not see ProcessClear.
LEMMA ProcessClearUnseen ==
  ASSUME IInv, NEW t \in Thread, ProcessClear(t)
  PROVE  Unseen(t)
  <1>1. th[t].pc = "idle" => th[t].back = "idle"
    BY IdleThread
  <1>2. ThreadShape
    BY DEF IInv
  <1>3. QED  BY <1>1, <1>2, ProcessClearEffect DEF Unseen, Works, Nested, Others, ThreadShape,
                Fits, To, Flags

\* The abstract job does not see SendTest.
LEMMA SendTestUnseen ==
  ASSUME IInv, NEW t \in Thread, SendTest(t)
  PROVE  Unseen(t)
  <1>1. th[t].pc = "idle" => th[t].back = "idle"
    BY IdleThread
  <1>2. ThreadShape
    BY DEF IInv
  <1>3. QED  BY <1>1, <1>2, SendTestEffect DEF Unseen, Works, Nested, Others, ThreadShape, Fits,
                To

\* The abstract job does not see LockAgain.
LEMMA LockAgainUnseen ==
  ASSUME IInv, NEW t \in Thread, LockAgain(t)
  PROVE  Unseen(t)
  <1>1. th[t].pc = "idle" => th[t].back = "idle"
    BY IdleThread
  <1>2. ThreadShape
    BY DEF IInv
  <1>3. QED  BY <1>1, <1>2, LockAgainEffect DEF Unseen, Works, Nested, Others, ThreadShape,
                Fits, To, Flags

\* The abstract job does not see DecRead.
LEMMA DecReadUnseen ==
  ASSUME IInv, NEW t \in Thread, DecRead(t)
  PROVE  Unseen(t)
  <1>1. th[t].pc = "idle" => th[t].back = "idle"
    BY IdleThread
  <1>2. ThreadShape
    BY DEF IInv
  <1>3. QED  BY <1>1, <1>2, DecReadEffect DEF Unseen, Works, Nested, Others, ThreadShape, Fits,
                To

\* The abstract job does not see DecSub.
LEMMA DecSubUnseen ==
  ASSUME IInv, NEW t \in Thread, DecSub(t)
  PROVE  Unseen(t)
  <1>1. th[t].pc = "idle" => th[t].back = "idle"
    BY IdleThread
  <1>2. ThreadShape
    BY DEF IInv
  <1>3. QED  BY <1>1, <1>2, DecSubEffect DEF Unseen, Works, Nested, Others, ThreadShape, Fits,
                To, Returned

\* The abstract job does not see DecFix.
LEMMA DecFixUnseen ==
  ASSUME IInv, NEW t \in Thread, DecFix(t)
  PROVE  Unseen(t)
  <1>1. th[t].pc = "idle" => th[t].back = "idle"
    BY IdleThread
  <1>2. ThreadShape
    BY DEF IInv
  <1>3. QED  BY <1>1, <1>2, DecFixEffect DEF Unseen, Works, Nested, Others, ThreadShape, Fits,
                To

\* The abstract job does not see UnlockIdle.
LEMMA UnlockIdleUnseen ==
  ASSUME IInv, NEW t \in Thread, UnlockIdle(t)
  PROVE  Unseen(t)
  <1>1. th[t].pc = "idle" => th[t].back = "idle"
    BY IdleThread
  <1>2. ThreadShape
    BY DEF IInv
  <1>3. QED  BY <1>1, <1>2, UnlockIdleEffect DEF Unseen, Works, Nested, Others, ThreadShape,
                Fits, To, Flags

\* The abstract job does not see Choose.
LEMMA ChooseUnseen ==
  ASSUME IInv, NEW t \in Thread, Choose(t)
  PROVE  Unseen(t)
  <1>1. th[t].pc = "idle" => th[t].back = "idle"
    BY IdleThread
  <1>2. ThreadShape
    BY DEF IInv
  <1>3. QED  BY <1>1, <1>2, ChooseEffect DEF Unseen, Works, Nested, Others, ThreadShape, Fits,
                To

\* The abstract job does not see Requeue.
LEMMA RequeueUnseen ==
  ASSUME IInv, NEW t \in Thread, Requeue(t)
  PROVE  Unseen(t)
  <1>1. th[t].pc = "idle" => th[t].back = "idle"
    BY IdleThread
  <1>2. ThreadShape
    BY DEF IInv
  <1>3. QED  BY <1>1, <1>2, RequeueEffect DEF Unseen, Works, Nested, Others, ThreadShape, Fits,
                To, Flags

\* The abstract job does not see Push.
LEMMA PushUnseen ==
  ASSUME IInv, NEW t \in Thread, Push(t)
  PROVE  Unseen(t)
  <1>1. th[t].pc = "idle" => th[t].back = "idle"
    BY IdleThread
  <1>2. ThreadShape
    BY DEF IInv
  <1>3. QED  BY <1>1, <1>2, PushEffect DEF Unseen, Works, Nested, Others, ThreadShape, Fits, To,
                Returned

\* The abstract job does not see HandlerSignal.
LEMMA HandlerSignalUnseen ==
  ASSUME IInv, NEW t \in Thread, NEW s \in Sig, HandlerSignal(t, s)
  PROVE  Unseen(t)
  <1>1. th[t].pc = "idle" => th[t].back = "idle"
    BY IdleThread
  <1>2. ThreadShape
    BY DEF IInv
  <1>3. QED  BY <1>1, <1>2, HandlerSignalEffect DEF Unseen, Works, Nested, Others, ThreadShape,
                Fits, To

\* The abstract job does not see DropRead.
LEMMA DropReadUnseen ==
  ASSUME IInv, NEW t \in Thread, DropRead(t)
  PROVE  Unseen(t)
  <1>1. th[t].pc = "idle" => th[t].back = "idle"
    BY IdleThread
  <1>2. ThreadShape
    BY DEF IInv
  <1>3. QED  BY <1>1, <1>2, DropReadEffect DEF Unseen, Works, Nested, Others, ThreadShape, Fits,
                To, Flags

\* The abstract job does not see DropSub.
LEMMA DropSubUnseen ==
  ASSUME IInv, NEW t \in Thread, DropSub(t)
  PROVE  Unseen(t)
  <1>1. th[t].pc = "idle" => th[t].back = "idle"
    BY IdleThread
  <1>2. ThreadShape
    BY DEF IInv
  <1>3. QED  BY <1>1, <1>2, DropSubEffect DEF Unseen, Works, Nested, Others, ThreadShape, Fits,
                To, Returned

\* The abstract job does not see DropFix.
LEMMA DropFixUnseen ==
  ASSUME IInv, NEW t \in Thread, DropFix(t)
  PROVE  Unseen(t)
  <1>1. th[t].pc = "idle" => th[t].back = "idle"
    BY IdleThread
  <1>2. ThreadShape
    BY DEF IInv
  <1>3. QED  BY <1>1, <1>2, DropFixEffect DEF Unseen, Works, Nested, Others, ThreadShape, Fits,
                To, Flags

\* The step that sets a signal's bit is Job!Send.
LEMMA SendSeen ==
  ASSUME IInv, IInv', NEW t \in Thread, SendLock(t) \/ SendOr(t)
  PROVE  A!Next \/ UNCHANGED A!vars
  <1>1. th[t].pc \in {"lock1", "or"} /\ freed' = freed
    BY SendLockEffect, SendOrEffect
  <1>2. \E p \in {"unlock", "or", "lock2"} : To(t, p, th[t].sig, th[t].run, th[t].back, th[t].qf)
    BY SendLockEffect, SendOrEffect
  <1>3. flags'.sigs = flags.sigs \/ flags'.sigs = flags.sigs \union {th[t].sig}
    BY SendLockEffect, SendOrEffect DEF Flags
  <1>4. PICK p \in {"unlock", "or", "lock2"} : To(t, p, th[t].sig, th[t].run, th[t].back, th[t].qf)
    BY <1>2
  <1>5. Others(t) /\ th'[t].pc = p /\ th'[t].back = th[t].back /\ th'[t].run = th[t].run
    BY <1>4, Landed
  <1>6. Works(t)' <=> Works(t)
    BY <1>1, <1>4, <1>5 DEF Works, Nested
  <1>7. ~freed /\ th[t].sig \in AllSig
    <2>1. th[t].sig # None /\ TypeOK
      BY <1>1 DEF IInv, ThreadShape, Fits
    <2>2. th[t].sig \in AllSig \union {None}
      BY <2>1, Types DEF Rec
    <2>3. QED  BY <1>1, <2>1, <2>2, Live
  <1>8. CASE flags'.sigs \ {JS_FINISH} = flags.sigs \ {JS_FINISH}
    BY <1>1, <1>5, <1>6, <1>8, Stutters DEF Unseen
  <1>9. CASE flags'.sigs \ {JS_FINISH} # flags.sigs \ {JS_FINISH}
    <2>1. flags'.sigs = flags.sigs \union {th[t].sig} /\ th[t].sig # JS_FINISH
      BY <1>3, <1>9
    <2>2. th[t].sig \in Sig
      BY <1>7, <2>1 DEF AllSig
    <2>3. Running' = Running
      <3>1. \A u \in Thread : Works(u)' <=> Works(u)
        BY <1>5, <1>6 DEF Others, Works, Nested
      <3>2. \A u \in Thread : th'[u].run = th[u].run
        BY <1>5 DEF Others
      <3>3. RunShape
        BY RunningIs
      <3>4. RunShape'
        BY RunningIs, PTL
      <3>5. QED  BY <3>1, <3>2, <3>3, <3>4 DEF RunShape
    <2>4. A!Send(th[t].sig)
      BY <1>1, <1>7, <2>1, <2>3 DEF A!Send
    <2>5. QED  BY <2>2, <2>4 DEF A!Next
  <1>10. QED  BY <1>8, <1>9

\* The step that clears it is Job!Begin; that of JS_FINISH, Job!Finish.
LEMMA BeginSeen ==
  ASSUME IInv, IInv', NEW t \in Thread, Begin(t)
  PROVE  A!Next
  <1>1. th[t].pc = "begin" /\ flags'.sigs = flags.sigs \ {th[t].run}
    BY BeginEffect DEF Flags
  <1>2. TypeOK /\ ~freed
    BY <1>1, Live DEF IInv
  <1>3. th[t].run \in AllSig /\ th[t].run \in flags.sigs
    <2>1. th[t].run # None
      BY <1>1 DEF IInv, ThreadShape, Fits
    <2>2. th[t].run \in AllSig \union {None}
      BY <1>2, Types DEF Rec
    <2>3. th[t].run \in flags.sigs
      BY <1>1 DEF IInv, ClosingShape
    <2>4. QED  BY <2>1, <2>2, <2>3
  <1>4. Running = None
    <2>1. \A u \in Thread : ~Works(u)
      BY <1>1, Owns DEF InLock, Works, Nested
    <2>2. QED  BY <2>1, RunningIs DEF RunShape
  <1>5. CASE th[t].run # JS_FINISH
    <2>1. freed' = freed /\ To(t, "exec", th[t].sig, th[t].run, th[t].back, th[t].qf)
      BY <1>5, BeginEffect
    <2>2. Works(t)' /\ th'[t].run = th[t].run
      BY <2>1, Landed DEF Works
    <2>3. RunShape'
      BY RunningIs, PTL
    <2>4. Running' = th'[t].run
      BY <2>2, <2>3 DEF RunShape
    <2>5. th[t].run \in Sig
      BY <1>3, <1>5 DEF AllSig
    <2>6. flags'.sigs \ {JS_FINISH} = (flags.sigs \ {JS_FINISH}) \ {th[t].run}
      BY <1>1
    <2>7. A!Begin(th[t].run)
      BY <1>2, <1>3, <1>4, <1>5, <2>1, <2>2, <2>4, <2>6 DEF A!Begin
    <2>8. QED  BY <2>5, <2>7 DEF A!Next
  <1>6. CASE th[t].run = JS_FINISH
    <2>1. freed' = TRUE
      BY <1>6, BeginEffect
    <2>2. flags.sigs \ {JS_FINISH} = {} /\ flags'.sigs \ {JS_FINISH} = {}
      BY <1>1, <1>2, <1>3, <1>6 DEF IInv, ClosingShape, Closing
    <2>3. Running' = None
      <3>1. \A u \in Thread : th'[u].pc = "idle"
        BY <2>1 DEF IInv, FreedShape
      <3>2. \A u \in Thread : th'[u].pc = "idle" => th'[u].back = "idle"
        BY DEF IInv, ThreadShape, Idle, Thr
      <3>3. \A u \in Thread : ~Works(u)'
        BY <3>1, <3>2 DEF Works, Nested
      <3>4. RunShape'
        BY RunningIs, PTL
      <3>5. QED  BY <3>3, <3>4 DEF RunShape
    <2>4. A!Finish
      BY <1>2, <1>4, <2>1, <2>2, <2>3 DEF A!Finish
    <2>5. QED  BY <2>4 DEF A!Next
  <1>7. QED  BY <1>5, <1>6

\* The handler's return is Job!Return.
LEMMA ReturnSeen ==
  ASSUME IInv, IInv', NEW t \in Thread, NEW S \in SUBSET Sig, HandlerReturn(t, S)
  PROVE  A!Next
  <1>1. /\ th[t].pc = "exec" /\ flags'.sigs = flags.sigs \union S /\ freed' = freed
        /\ To(t, "unlock", th[t].sig, None, th[t].back, th[t].qf)
    BY HandlerReturnEffect DEF Flags
  <1>2. Others(t) /\ th'[t].pc = "unlock" /\ th'[t].back = th[t].back
    BY <1>1, Landed
  <1>3. Running # None
    BY <1>1, RunningIs DEF Works, RunShape
  <1>4. Running' = None
    <2>1. \A u \in Thread : u # t => ~Works(u)
      BY <1>1, Owns DEF InLock, Works, Nested
    <2>2. th[t].back # "exec"
      BY <1>1 DEF IInv, ThreadShape, Fits
    <2>3. \A u \in Thread : ~Works(u)'
      BY <1>2, <2>1, <2>2 DEF Works, Nested, Others
    <2>4. RunShape'
      BY RunningIs, PTL
    <2>5. QED  BY <2>3, <2>4 DEF RunShape
  <1>5. flags'.sigs \ {JS_FINISH} = (flags.sigs \ {JS_FINISH}) \union S
    <2>1. JS_FINISH \notin S
      BY EngineAssumption DEF JS_FINISH
    <2>2. QED  BY <1>1, <2>1
  <1>6. A!Return(S)
    BY <1>1, <1>3, <1>4, <1>5 DEF A!Return
  <1>7. QED  BY <1>6 DEF A!Next

\* Every step of the engine is one of the abstract job, or none.
LEMMA StepImplements ==
  ASSUME IInv, IInv', [Next]_vars
  PROVE  [A!Next]_(A!vars)
  <1>1. ASSUME NEW t \in Thread, NEW s \in Sig, NEW b \in BOOLEAN, SignalCreate(t, s, b) PROVE [A!Next]_(A!vars)
    BY <1>1, SignalCreateUnseen, Stutters
  <1>2. ASSUME NEW t \in Thread, NEW s \in Sig, NEW b \in BOOLEAN, SignalPass(t, s, b) PROVE [A!Next]_(A!vars)
    BY <1>2, SignalPassUnseen, Stutters
  <1>3. ASSUME NEW t \in Thread, JobIncref(t) PROVE [A!Next]_(A!vars)
    BY <1>3, JobIncrefUnseen, Stutters
  <1>4. ASSUME NEW t \in Thread, NEW b \in BOOLEAN, JobDecref(t, b) PROVE [A!Next]_(A!vars)
    BY <1>4, JobDecrefUnseen, Stutters
  <1>5. ASSUME NEW t \in Thread, Pop(t) PROVE [A!Next]_(A!vars)
    BY <1>5, PopUnseen, Stutters
  <1>6. ASSUME NEW t \in Thread, ReadQueued(t) PROVE [A!Next]_(A!vars)
    BY <1>6, ReadQueuedUnseen, Stutters
  <1>7. ASSUME NEW t \in Thread, ProcessLock(t) PROVE [A!Next]_(A!vars)
    BY <1>7, ProcessLockUnseen, Stutters
  <1>8. ASSUME NEW t \in Thread, ProcessClear(t) PROVE [A!Next]_(A!vars)
    BY <1>8, ProcessClearUnseen, Stutters
  <1>9. ASSUME NEW t \in Thread, SendTest(t) PROVE [A!Next]_(A!vars)
    BY <1>9, SendTestUnseen, Stutters
  <1>10. ASSUME NEW t \in Thread, SendLock(t) PROVE [A!Next]_(A!vars)
    BY <1>10, SendSeen
  <1>11. ASSUME NEW t \in Thread, SendOr(t) PROVE [A!Next]_(A!vars)
    BY <1>11, SendSeen
  <1>12. ASSUME NEW t \in Thread, LockAgain(t) PROVE [A!Next]_(A!vars)
    BY <1>12, LockAgainUnseen, Stutters
  <1>13. ASSUME NEW t \in Thread, DecRead(t) PROVE [A!Next]_(A!vars)
    BY <1>13, DecReadUnseen, Stutters
  <1>14. ASSUME NEW t \in Thread, DecSub(t) PROVE [A!Next]_(A!vars)
    BY <1>14, DecSubUnseen, Stutters
  <1>15. ASSUME NEW t \in Thread, DecFix(t) PROVE [A!Next]_(A!vars)
    BY <1>15, DecFixUnseen, Stutters
  <1>16. ASSUME NEW t \in Thread, UnlockIdle(t) PROVE [A!Next]_(A!vars)
    BY <1>16, UnlockIdleUnseen, Stutters
  <1>17. ASSUME NEW t \in Thread, Choose(t) PROVE [A!Next]_(A!vars)
    BY <1>17, ChooseUnseen, Stutters
  <1>18. ASSUME NEW t \in Thread, Requeue(t) PROVE [A!Next]_(A!vars)
    BY <1>18, RequeueUnseen, Stutters
  <1>19. ASSUME NEW t \in Thread, Push(t) PROVE [A!Next]_(A!vars)
    BY <1>19, PushUnseen, Stutters
  <1>20. ASSUME NEW t \in Thread, Begin(t) PROVE [A!Next]_(A!vars)
    BY <1>20, BeginSeen
  <1>21. ASSUME NEW t \in Thread, NEW s \in Sig, HandlerSignal(t, s) PROVE [A!Next]_(A!vars)
    BY <1>21, HandlerSignalUnseen, Stutters
  <1>22. ASSUME NEW t \in Thread, NEW S \in SUBSET Sig, HandlerReturn(t, S) PROVE [A!Next]_(A!vars)
    BY <1>22, ReturnSeen
  <1>23. ASSUME NEW t \in Thread, DropRead(t) PROVE [A!Next]_(A!vars)
    BY <1>23, DropReadUnseen, Stutters
  <1>24. ASSUME NEW t \in Thread, DropSub(t) PROVE [A!Next]_(A!vars)
    BY <1>24, DropSubUnseen, Stutters
  <1>25. ASSUME NEW t \in Thread, DropFix(t) PROVE [A!Next]_(A!vars)
    BY <1>25, DropFixUnseen, Stutters
  <1>26. CASE UNCHANGED vars
    BY <1>26 DEF vars, A!vars, Running, InLock, Nested
  <1>27. ASSUME NEW t \in Thread, Engine(t) PROVE [A!Next]_(A!vars)
    BY <1>27, <1>6, <1>7, <1>8, <1>9, <1>10, <1>11, <1>12, <1>13, <1>14, <1>15, <1>16, <1>17,
       <1>18, <1>19, <1>20, <1>23, <1>24, <1>25 DEF Engine
  <1>28. ASSUME NEW t \in Thread, Program(t) PROVE [A!Next]_(A!vars)
    <2>1. \A b \in Busy(t) : b \in BOOLEAN
      BY DEF Busy
    <2>2. QED  BY <1>28, <2>1, <1>1, <1>2, <1>3, <1>4, <1>21 DEF Program
  <1>29. ASSUME NEW t \in Thread, Returns(t) PROVE [A!Next]_(A!vars)
    BY <1>29, <1>22 DEF Returns
  <1>30. QED  BY <1>26, <1>27, <1>28, <1>29, <1>5 DEF Next, Idling

\* The engine implements the abstract job: no signal is run twice or invented,
\* one handler runs at a time, and the job is finished once, with nothing waiting.
THEOREM Refinement == Spec => ImplementsJob
  <1>1. Init => A!Init
    <2> SUFFICES ASSUME Init PROVE A!Init
      OBVIOUS
    <2>1. IInv /\ flags.sigs = {} /\ freed = FALSE
      BY InitInv DEF Init
    <2>2. \A u \in Thread : ~Works(u)
      BY DEF Init, Works, Nested, Idle, Thr
    <2>3. Running = None
      BY <2>1, <2>2, RunningIs DEF RunShape
    <2>4. QED  BY <2>1, <2>3 DEF A!Init
  <1>2. IInv /\ IInv' /\ [Next]_vars => [A!Next]_(A!vars)
    BY StepImplements
  <1>3. QED  BY <1>1, <1>2, Invariance, PTL DEF Spec, ImplementsJob, A!Spec
=============================================================================
