----------------------------- MODULE JobSignals -----------------------------
(* The signal, lock and reference protocol of one job, jobs/jobs.c:603-821. *)
(* Every step is one atomic access to j_flags, j_refcnt or a class queue; a *)
(* compare-and-swap loop is the step of its successful iteration (a failed  *)
(* one changes nothing and reads again).  Threads of different classes send *)
(* signals, pop the job from their class's queue, lock it, run the handlers *)
(* of the classes they serve, and pass it on for the others.                *)
EXTENDS Integers, FiniteSets, FiniteSetsExt

CONSTANTS Thread,      \* job threads
          ClassOf,     \* [Thread -> Class]   JT->thread_class
          Sig,         \* signals the job allows, JS_FINISH excepted
          SigClass,    \* [Sig \union {JS_FINISH} -> Class]   j_sigclass
          Creator,     \* the thread that creates the job
          Holders,     \* references other objects hold when it is created
          MaxHeld,     \* bound on references held outside the engine
          MaxSends     \* bound on the signals and references created

JS_FINISH == 7
None == -1
AllSig == Sig \union {JS_FINISH}
Class == {ClassOf[t] : t \in Thread}

ASSUME EngineAssumption ==
    /\ IsFiniteSet(Thread)
    /\ Sig \subseteq 0 .. 6
    /\ ClassOf \in [Thread -> Nat]
    /\ SigClass \in [AllSig -> Class]
    /\ Creator \in Thread
    /\ Holders \in Nat /\ MaxHeld \in Nat /\ MaxSends \in Nat
    /\ Holders <= MaxHeld

VARIABLES flags,   \* j_flags: [locked, queued (a set of classes), sigs]
          refcnt,  \* j_refcnt
          queue,   \* entries of the job in the queue of each class
          held,    \* references held by other objects
          freed,   \* job_free was called
          th,      \* per thread: where it is in the engine's code
          sends    \* signals and references created so far (bound only)
vars == <<flags, refcnt, queue, held, freed, th, sends>>

(* th[t].pc is the next access the thread makes; back is where it returns   *)
(* to (the idle loop or the handler that made the call), sig the signal it  *)
(* is sending, run the handler it runs, busy whether it is inside another   *)
(* job's handler (JT->current_job), qf the queue flags it read.             *)
PCs == {"idle", "send", "lock1", "or", "lock2", "unlock", "push", "begin",
        "exec", "proc", "procLock", "procAnd",
        "decRead", "decSub", "decFix", "dropRead", "dropSub", "dropFix"}

Thr(pc, sig, busy) == [pc |-> pc, sig |-> sig, run |-> None, back |-> "idle",
                       busy |-> busy, qf |-> {}]
Idle == Thr("idle", None, FALSE)

\* create_async_job leaves the job locked; its creator unlocks it
Init == /\ flags = [locked |-> TRUE, queued |-> {}, sigs |-> {}]
        /\ refcnt = 1 + Holders
        /\ queue = [c \in Class |-> 0]
        /\ held = Holders
        /\ freed = FALSE
        /\ th = [t \in Thread |-> IF t = Creator THEN Thr("unlock", None, FALSE)
                                                 ELSE Idle]
        /\ sends = 0

Goto(t, pc) == th' = [th EXCEPT ![t].pc = pc]
\* the call is over: on to the handler that made it, or to the idle loop
Done(t) == th' = [th EXCEPT ![t] = IF @.back = "exec"
                   THEN [@ EXCEPT !.pc = "exec", !.back = "idle", !.sig = None]
                   ELSE Idle]

-----------------------------------------------------------------------------
(* What threads do with the job. *)

\* job_signal (JOB_REF_CREATE_PASS (job), s) by code that knows a holder
SignalCreate(t, s, b) ==
    /\ th[t].pc = "idle" /\ held > 0 /\ sends < MaxSends
    /\ refcnt' = refcnt + 1
    /\ th' = [th EXCEPT ![t] = Thr("send", s, b)]
    /\ sends' = sends + 1
    /\ UNCHANGED <<flags, queue, held, freed>>

\* job_signal (JOB_REF_PASS (job), s): the reference goes with the signal
SignalPass(t, s, b) ==
    /\ th[t].pc = "idle" /\ held > 0 /\ sends < MaxSends
    /\ held' = held - 1
    /\ th' = [th EXCEPT ![t] = Thr("send", s, b)]
    /\ sends' = sends + 1
    /\ UNCHANGED <<flags, refcnt, queue, freed>>

\* job_incref for a new holder
JobIncref(t) ==
    /\ th[t].pc = "idle" /\ held > 0 /\ held < MaxHeld /\ sends < MaxSends
    /\ refcnt' = refcnt + 1 /\ held' = held + 1
    /\ sends' = sends + 1
    /\ UNCHANGED <<flags, queue, freed, th>>

\* job_decref (JOB_REF_PASS (job)) by a holder
JobDecref(t, b) ==
    /\ th[t].pc = "idle" /\ held > 0
    /\ held' = held - 1
    /\ th' = [th EXCEPT ![t] = Thr("decRead", None, b)]
    /\ UNCHANGED <<flags, refcnt, queue, freed, sends>>

\* job_thread_ex: mpq_pop from the class's queue; the entry's reference comes along
Pop(t) ==
    /\ th[t].pc = "idle" /\ queue[ClassOf[t]] > 0
    /\ queue' = [queue EXCEPT ![ClassOf[t]] = @ - 1]
    /\ Goto(t, "proc")
    /\ UNCHANGED <<flags, refcnt, held, freed, sends>>

-----------------------------------------------------------------------------
(* process_one_job *)

ReadQueued(t) ==
    /\ th[t].pc = "proc"
    /\ th' = [th EXCEPT ![t].qf = flags.queued \intersect {ClassOf[t]},
                        ![t].pc = "procLock"]
    /\ UNCHANGED <<flags, refcnt, queue, held, freed, sends>>

\* try_lock_job (job, 0, queued_flag)
ProcessLock(t) ==
    /\ th[t].pc = "procLock"
    /\ \/ /\ ~flags.locked
          /\ flags' = [flags EXCEPT !.locked = TRUE, !.queued = @ \ th[t].qf]
          /\ th' = [th EXCEPT ![t].pc = "unlock", ![t].qf = {}]
       \/ /\ flags.locked
          /\ Goto(t, "procAnd")
          /\ UNCHANGED flags
    /\ UNCHANGED <<refcnt, queue, held, freed, sends>>

ProcessClear(t) ==
    /\ th[t].pc = "procAnd"
    /\ flags' = [flags EXCEPT !.queued = @ \ th[t].qf]
    /\ th' = [th EXCEPT ![t].pc = "lock2", ![t].qf = {}]
    /\ UNCHANGED <<refcnt, queue, held, freed, sends>>

-----------------------------------------------------------------------------
(* job_send_signals *)

SendTest(t) ==
    /\ th[t].pc = "send"
    /\ Goto(t, IF th[t].sig \in flags.sigs THEN "decRead" ELSE "lock1")
    /\ UNCHANGED <<flags, refcnt, queue, held, freed, sends>>

\* try_lock_job (job, sigset, 0)
SendLock(t) ==
    /\ th[t].pc = "lock1"
    /\ \/ /\ ~flags.locked
          /\ flags' = [flags EXCEPT !.locked = TRUE, !.sigs = @ \union {th[t].sig}]
          /\ Goto(t, "unlock")
       \/ /\ flags.locked
          /\ Goto(t, "or")
          /\ UNCHANGED flags
    /\ UNCHANGED <<refcnt, queue, held, freed, sends>>

\* Faulty variant: after setting the bit the sender trusts the lock's owner.
SendOrOnly(t) ==
    /\ th[t].pc = "or"
    /\ flags' = [flags EXCEPT !.sigs = @ \union {th[t].sig}]
    /\ Goto(t, "decRead")
    /\ UNCHANGED <<refcnt, queue, held, freed, sends>>

SendOr(t) ==
    /\ th[t].pc = "or"
    /\ flags' = [flags EXCEPT !.sigs = @ \union {th[t].sig}]
    /\ Goto(t, "lock2")
    /\ UNCHANGED <<refcnt, queue, held, freed, sends>>

\* try_lock_job (job, 0, 0), the second attempt of both callers
LockAgain(t) ==
    /\ th[t].pc = "lock2"
    /\ \/ /\ ~flags.locked
          /\ flags' = [flags EXCEPT !.locked = TRUE]
          /\ Goto(t, "unlock")
       \/ /\ flags.locked
          /\ Goto(t, "decRead")
          /\ UNCHANGED flags
    /\ UNCHANGED <<refcnt, queue, held, freed, sends>>

-----------------------------------------------------------------------------
(* job_decref: drop one reference; the last one becomes the JS_FINISH signal *)

\* Faulty variant: two references left count as the last one.
DecReadEarly(t) ==
    /\ th[t].pc = "decRead"
    /\ th' = [th EXCEPT ![t] = IF refcnt > 2 THEN [@ EXCEPT !.pc = "decSub"]
                               ELSE [@ EXCEPT !.pc = "send", !.sig = JS_FINISH]]
    /\ UNCHANGED <<flags, refcnt, queue, held, freed, sends>>

DecRead(t) ==
    /\ th[t].pc = "decRead"
    /\ th' = [th EXCEPT ![t] = IF refcnt >= 2 THEN [@ EXCEPT !.pc = "decSub"]
                               ELSE [@ EXCEPT !.pc = "send", !.sig = JS_FINISH]]
    /\ UNCHANGED <<flags, refcnt, queue, held, freed, sends>>

\* __sync_fetch_and_add (&job->j_refcnt, -1) != 1
DecSub(t) ==
    /\ th[t].pc = "decSub"
    /\ refcnt' = refcnt - 1
    /\ IF refcnt # 1 THEN Done(t) ELSE Goto(t, "decFix")
    /\ UNCHANGED <<flags, queue, held, freed, sends>>

DecFix(t) ==
    /\ th[t].pc = "decFix"
    /\ refcnt' = 1
    /\ th' = [th EXCEPT ![t].pc = "send", ![t].sig = JS_FINISH]
    /\ UNCHANGED <<flags, queue, held, freed, sends>>

-----------------------------------------------------------------------------
(* unlock_job *)

Owner(t) == th[t].pc = "unlock"

\* nothing to do: the lock goes first, the reference after it
UnlockIdle(t) ==
    /\ Owner(t) /\ flags.sigs = {}
    /\ flags' = [flags EXCEPT !.locked = FALSE]
    /\ Goto(t, "dropRead")
    /\ UNCHANGED <<refcnt, queue, held, freed, sends>>

\* the highest waiting signal is one this thread may run now
CanRun(t, s) == SigClass[s] = ClassOf[t] /\ ~th[t].busy

Choose(t) ==
    /\ Owner(t) /\ flags.sigs # {}
    /\ CanRun(t, Max(flags.sigs))
    /\ th' = [th EXCEPT ![t].pc = "begin", ![t].run = Max(flags.sigs)]
    /\ UNCHANGED <<flags, refcnt, queue, held, freed, sends>>

\* it is not: leave the job to a thread of its class, once
Requeue(t) ==
    /\ Owner(t) /\ flags.sigs # {}
    /\ LET s == Max(flags.sigs)  c == SigClass[s] IN
       /\ ~CanRun(t, s)
       /\ flags' = [flags EXCEPT !.locked = FALSE, !.queued = @ \union {c}]
       /\ IF c \in flags.queued THEN Goto(t, "decRead")
          ELSE th' = [th EXCEPT ![t].pc = "push", ![t].run = s]
    /\ UNCHANGED <<refcnt, queue, held, freed, sends>>

Push(t) ==
    /\ th[t].pc = "push"
    /\ queue' = [queue EXCEPT ![SigClass[th[t].run]] = @ + 1]
    /\ Done(t)
    /\ UNCHANGED <<flags, refcnt, held, freed, sends>>

\* Faulty variant: the whole signal word is cleared.
BeginClearsAll(t) ==
    /\ th[t].pc = "begin"
    /\ flags' = [flags EXCEPT !.sigs = {}]
    /\ IF th[t].run = JS_FINISH
       THEN /\ freed' = TRUE
            /\ Done(t)
       ELSE /\ Goto(t, "exec")
            /\ UNCHANGED freed
    /\ UNCHANGED <<refcnt, queue, held, sends>>

\* the bit is cleared before the handler runs; JS_FINISH frees the job
Begin(t) ==
    /\ th[t].pc = "begin"
    /\ flags' = [flags EXCEPT !.sigs = @ \ {th[t].run}]
    /\ IF th[t].run = JS_FINISH
       THEN /\ freed' = TRUE
            /\ Done(t)
       ELSE /\ Goto(t, "exec")
            /\ UNCHANGED freed
    /\ UNCHANGED <<refcnt, queue, held, sends>>

\* the handler signals its own job (fail_connection, job_signal to self)
HandlerSignal(t, s) ==
    /\ th[t].pc = "exec" /\ sends < MaxSends
    /\ refcnt' = refcnt + 1
    /\ th' = [th EXCEPT ![t].pc = "send", ![t].sig = s, ![t].back = "exec"]
    /\ sends' = sends + 1
    /\ UNCHANGED <<flags, queue, held, freed>>

\* the handler returns 0, JOB_COMPLETED or JOB_SENDSIG bits
HandlerReturn(t, S) ==
    /\ th[t].pc = "exec"
    /\ S # {} => sends < MaxSends
    /\ flags' = [flags EXCEPT !.sigs = @ \union S]
    /\ th' = [th EXCEPT ![t].pc = "unlock", ![t].run = None]
    /\ sends' = IF S = {} THEN sends ELSE sends + 1
    /\ UNCHANGED <<refcnt, queue, held, freed>>

DropRead(t) ==
    /\ th[t].pc = "dropRead"
    /\ IF refcnt >= 2
       THEN /\ Goto(t, "dropSub")
            /\ UNCHANGED flags
       ELSE /\ flags' = [flags EXCEPT !.locked = TRUE, !.sigs = @ \union {JS_FINISH}]
            /\ Goto(t, "unlock")
    /\ UNCHANGED <<refcnt, queue, held, freed, sends>>

\* Faulty variant: the counter is decremented without looking at the old value.
DropSubBlind(t) ==
    /\ th[t].pc = "dropSub"
    /\ refcnt' = refcnt - 1
    /\ Done(t)
    /\ UNCHANGED <<flags, queue, held, freed, sends>>

DropSub(t) ==
    /\ th[t].pc = "dropSub"
    /\ refcnt' = refcnt - 1
    /\ IF refcnt # 1 THEN Done(t) ELSE Goto(t, "dropFix")
    /\ UNCHANGED <<flags, queue, held, freed, sends>>

DropFix(t) ==
    /\ th[t].pc = "dropFix"
    /\ refcnt' = 1
    /\ flags' = [flags EXCEPT !.locked = TRUE, !.sigs = @ \union {JS_FINISH}]
    /\ Goto(t, "unlock")
    /\ UNCHANGED <<queue, held, freed, sends>>

-----------------------------------------------------------------------------
\* the steps a thread owes once it is inside the engine
Engine(t) ==
    \/ ReadQueued(t) \/ ProcessLock(t) \/ ProcessClear(t)
    \/ SendTest(t) \/ SendLock(t) \/ SendOr(t) \/ LockAgain(t)
    \/ DecRead(t) \/ DecSub(t) \/ DecFix(t)
    \/ UnlockIdle(t) \/ Choose(t) \/ Requeue(t) \/ Push(t) \/ Begin(t)
    \/ DropRead(t) \/ DropSub(t) \/ DropFix(t)

\* Inside another job's handler or not: no matter to a thread whose class runs
\* none of this job's signals.
Busy(t) == IF \E s \in AllSig : SigClass[s] = ClassOf[t] THEN BOOLEAN ELSE {TRUE}

\* what the program around the engine may do
Program(t) ==
    \/ \E s \in Sig : HandlerSignal(t, s)
    \/ \E b \in Busy(t) : JobDecref(t, b) \/ \E s \in Sig : SignalCreate(t, s, b) \/ SignalPass(t, s, b)
    \/ JobIncref(t)

Returns(t) == \E S \in {{}} \union {{s} : s \in Sig} : HandlerReturn(t, S)

\* the engine's threads never exit: with nothing to do they wait
Idling == (\A t \in Thread : th[t].pc = "idle") /\ UNCHANGED vars

Next == (\E t \in Thread : Engine(t) \/ Pop(t) \/ Program(t) \/ Returns(t)) \/ Idling

Spec == Init /\ [][Next]_vars

\* Threads are scheduled, an idle thread takes what its queue holds, and
\* handlers return; nothing is assumed about when signals are sent.
Fairness == \A t \in Thread : WF_vars(Engine(t) \/ Pop(t) \/ Returns(t))
FairSpec == Spec /\ Fairness

-----------------------------------------------------------------------------
(* Properties *)

TypeOK == /\ flags \in [locked : BOOLEAN, queued : SUBSET Class, sigs : SUBSET AllSig]
          /\ refcnt \in 0 .. (MaxHeld + MaxSends + Cardinality(Thread) + 1)
          /\ queue \in [Class -> Nat]
          /\ held \in 0 .. MaxHeld
          /\ freed \in BOOLEAN
          /\ th \in [Thread -> [pc : PCs, sig : AllSig \union {None},
                                run : AllSig \union {None}, back : {"idle", "exec"},
                                busy : BOOLEAN, qf : SUBSET Class]]
          /\ sends \in 0 .. MaxSends

Nested(t) == th[t].back = "exec"
InLock(t) == th[t].pc \in {"unlock", "begin", "exec"} \/ Nested(t)

\* Threads that hold a reference of their own: all that are in the engine, but
\* the one that saw the old value 1, which has subtracted its reference already.
Holding == {t \in Thread : th[t].pc \notin {"idle", "decFix", "dropFix"}}

(* j_refcnt is exactly the number of references that exist: those of other  *)
(* objects, of queue entries (QueuedOnce: one for each class at most), of   *)
(* the threads inside the engine and of the handlers that called it.        *)
RefcntExact ==
    ~freed => refcnt = held + Cardinality({c \in Class : queue[c] > 0})
                            + Cardinality(Holding) + Cardinality({t \in Thread : Nested(t)})

(* JF_LOCKED is a lock: exactly when it is set one thread, and one only, is *)
(* between try_lock_job and the end of unlock_job, handlers included.       *)
LockExclusive ==
    /\ \A t, u \in Thread : InLock(t) /\ InLock(u) => t = u
    /\ ~freed => (flags.locked <=> \E t \in Thread : InLock(t))

(* When a thread is about to run JS_FINISH nobody else can reach the job:   *)
(* no holder, no queue entry, no thread on its way, and no waiting signal   *)
(* that would be lost with it.  After job_free no thread touches it.        *)
FinishIsLast ==
    \A t \in Thread :
        (th[t].pc = "begin" /\ th[t].run = JS_FINISH) \/ freed =>
            /\ held = 0 /\ \A c \in Class : queue[c] = 0
            /\ flags.sigs \subseteq {JS_FINISH}
            /\ \A u \in Thread : th[u].pc = "idle" \/ (u = t /\ ~freed)

(* A job is in the queue of a class at most once, however many signals of   *)
(* that class are sent while it waits.                                      *)
QueuedOnce == \A c \in Class : queue[c] <= 1

(* The engine's bookkeeping, as a whole: its types, the reference count,    *)
(* the lock bit and the queues agree with what the threads are doing, and   *)
(* what ends a job's life comes last.                                       *)
EngineSafe == TypeOK /\ RefcntExact /\ LockExclusive /\ QueuedOnce /\ FinishIsLast

(* No signal is lost: a bit that is set is delivered, whoever held the lock *)
(* when it was sent and whatever was queued.                                *)
SignalsServed == \A s \in Sig : (s \in flags.sigs) ~> (s \notin flags.sigs)

(* A job nobody holds any more is freed.                                    *)
Released == (held = 0) ~> freed

(* The protocol implements the abstract job.                                *)
Running == IF \E t \in Thread : InLock(t) /\ th[t].run \in Sig /\ th[t].pc # "begin"
           THEN th[CHOOSE t \in Thread : InLock(t) /\ th[t].run \in Sig /\ th[t].pc # "begin"].run
           ELSE None
A == INSTANCE Job WITH Signals <- Sig, NoSignal <- None,
                       pending <- flags.sigs \ {JS_FINISH},
                       running <- Running, finished <- freed
ImplementsJob == A!Spec
=============================================================================
