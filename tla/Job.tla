-------------------------------- MODULE Job --------------------------------
(* What the job engine (src/server/src/jobs/jobs.c) promises to the code    *)
(* built on it: a job has a set of signals that wait for delivery, runs at  *)
(* most one of them at a time, keeps the ones that arrive while it runs, and*)
(* is finished once, when nothing waits and nobody can signal it again.     *)
(* JobSignals implements this specification; Connection is written over it. *)
CONSTANTS Signals,   \* signal numbers other than JS_FINISH
          NoSignal   \* "no handler is running", not a signal number

VARIABLES pending, running, finished
vars == <<pending, running, finished>>

Init == /\ pending = {}
        /\ running = NoSignal
        /\ finished = FALSE

\* job_signal by anybody who holds a reference, the running handler included
Send(s) == /\ ~finished
           /\ pending' = pending \union {s}
           /\ UNCHANGED <<running, finished>>

\* j_execute (job, s) starts: its bit is cleared before, not after, the call
Begin(s) == /\ ~finished /\ running = NoSignal
            /\ s \in pending
            /\ pending' = pending \ {s}
            /\ running' = s
            /\ UNCHANGED finished

\* j_execute returns, possibly with JOB_SENDSIG bits
Return(S) == /\ running # NoSignal
             /\ running' = NoSignal
             /\ pending' = pending \union S
             /\ UNCHANGED finished

\* j_execute (job, JS_FINISH): the last thing that ever happens to the job
Finish == /\ ~finished /\ running = NoSignal /\ pending = {}
          /\ finished' = TRUE
          /\ UNCHANGED <<pending, running>>

Next == \/ \E s \in Signals : Send(s) \/ Begin(s)
        \/ \E S \in SUBSET Signals : Return(S)
        \/ Finish

Spec == Init /\ [][Next]_vars
=============================================================================
