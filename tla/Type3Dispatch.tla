--------------------------- MODULE Type3Dispatch ---------------------------
(* What the server does with the first bytes of a Type3 connection: the     *)
(* dispatch hook of net/net-tcp-rpc-ext-server.c in HTTP stream mode, the   *)
(* dispatch and the kill switch of net/net-type3-dispatch.c, the alarm, and *)
(* the bench sessions a client may ask for.  One thread runs every handler. *)
(* Input is a sequence of four-byte words, told apart by what               *)
(* t3_header_parse says of them: head (a session header), bench (one with   *)
(* command BENCH), bad; a word of payload may look like any of these.       *)
EXTENDS BenchRegistry, Integers, Sequences

CONSTANTS Fd,          \* descriptors
          MaxGen,      \* bound: connections accepted in all
          InitWords,   \* words of the 64-byte obfs2 init
          MaxRead,     \* bound: words that arrive together
          Half         \* an int is one of -Half .. Half - 1 (2^31)

ASSUME DispatchAssumption == /\ MaxGen \in Nat /\ InitWords \in Nat \ {0}
                             /\ MaxRead \in Nat \ {0} /\ Half \in Nat \ (0 .. 7)
                             /\ Empty \notin [fd : Fd, gen : 1 .. MaxGen, idle : BOOLEAN]

VARIABLES enabled,    \* g_bench_handler_enabled
          hard,       \* g_ks_hard_close
          domain,     \* default_domain_info # NULL
          marker,     \* the kill switch's file exists
          ks,         \* g_ks_state
          conn,       \* per descriptor: the connection, or NoConn
          gen,        \* generations given out
          sessions, marks,
          aborted     \* an assertion failed
settings == <<enabled, hard, domain>>
vars == <<enabled, hard, domain, marker, ks, conn, gen, sessions, marks, aborted>>

\* arithmetic of the build (-fwrapv), and the counts the parser may return
Wrap(n) == ((n + Half) % (2 * Half)) - Half
SKIP_ALL_BYTES == -Half
GlobalSkip == -(Half \div 8)

(* phase is open until the obfs2 init (in_packet_num = -3), then session,   *)
(* or relayed when the connection is proxied to the default domain; skip is *)
(* the reader's skip_bytes, timer: the alarm is set.  The rest is           *)
(* history: the last header was accepted, the dispatch dropped it and why,  *)
(* it was routed to the bench, with a mark or when the marks were full.     *)
NoConn == [phase |-> "none", gen |-> 0, in |-> <<>>, skip |-> 0, timer |-> FALSE,
           accepted |-> FALSE, dropped |-> "no", bench |-> FALSE, marked |-> FALSE]
Word == {"head", "bench", "bad"}
Reads == UNION {[1 .. n -> Word] : n \in 1 .. MaxRead}

Init == /\ enabled \in BOOLEAN /\ hard \in BOOLEAN /\ domain \in BOOLEAN
        /\ marker = FALSE /\ ks = "IDLE"
        /\ conn = [f \in Fd |-> NoConn]
        /\ gen = 0
        /\ sessions = NoEntries /\ marks = NoEntries /\ aborted = FALSE

\* tcp_rpcs_ext_init_accepted, and the POST that starts the stream
Accept(f) ==
    /\ ~aborted /\ conn[f] = NoConn /\ gen < MaxGen
    /\ gen' = gen + 1
    /\ conn' = [conn EXCEPT ![f] = [NoConn EXCEPT !.phase = "open", !.gen = gen', !.timer = TRUE]]
    /\ UNCHANGED <<settings, marker, ks, sessions, marks, aborted>>

-----------------------------------------------------------------------------
(* One call of the parser *)

Close(f) == conn' = [conn EXCEPT ![f] = NoConn]
Keep(f, k) == conn' = [conn EXCEPT ![f] = k]

\* bench_drain_connection: the handler goes on with all of the input taken, or
\* it is done or in error and the connection fails
Drains(f, k, S, M) ==
    \/ /\ Keep(f, [k EXCEPT !.in = <<>>])
       /\ sessions' = Touch(S, f, k.gen) /\ marks' = M
    \/ /\ Close(f)
       /\ sessions' = Clear(S, f, k.gen) /\ marks' = Clear(M, f, k.gen)

\* type3_dispatch_silent_close and SKIP_ALL_BYTES, with an alarm or without;
\* held: bytes of the stream that are still in in_u
Drop(f, k, why, alarm) ==
    /\ \E held \in {0, 1} :
          Keep(f, [k EXCEPT !.in = <<>>, !.skip = Wrap(SKIP_ALL_BYTES - held), !.dropped = why,
                            !.timer = @ \/ alarm])
    /\ UNCHANGED <<sessions, marks>>

\* TYPE3_DISPATCH_BENCH: install a session, or refuse when the table is full
Bench(f, k) ==
    LET reaped == Reap(sessions) IN
    IF Full(reaped)
    THEN Close(f) /\ sessions' = reaped /\ UNCHANGED marks
    ELSE Drains(f, [k EXCEPT !.accepted = FALSE, !.bench = TRUE, !.marked = ~Full(marks)],
                Add(reaped, f, k.gen), Add(marks, f, k.gen))

\* TYPE3_DISPATCH_ACCEPT: the obfs2 init when it is all there, else the reader is
\* told how much to wait for; one that does not decrypt to a header puts it into
\* global skip mode
Accepted(f, k) ==
    /\ IF k.in = <<>> THEN Keep(f, k)
       ELSE IF Len(k.in) < InitWords
       THEN \E held \in {0, 1} : Keep(f, [k EXCEPT !.skip = InitWords - Len(k.in) + held])
       ELSE \/ Keep(f, [k EXCEPT !.phase = "session", !.in = <<>>, !.timer = FALSE])
            \/ Keep(f, [k EXCEPT !.skip = GlobalSkip, !.in = <<>>])
    /\ UNCHANGED <<sessions, marks>>

\* type3_dispatch_on_crypto_init and what the hook makes of its outcome
Dispatch(f, k) ==
    LET rest == [k EXCEPT !.in = Tail(k.in)] IN
    CASE ks # "IDLE"             -> Drop(f, k, "switch", TRUE)
      [] ks = "IDLE" /\ Head(k.in) = "bad"   -> Drop(f, k, "header", TRUE)
      [] ks = "IDLE" /\ Head(k.in) = "bench" -> IF enabled THEN Bench(f, rest)
                                                ELSE Drop(f, rest, "bench", FALSE)
      [] ks = "IDLE" /\ Head(k.in) = "head"  -> Accepted(f, [rest EXCEPT !.accepted = TRUE])

\* Faulty variant: a marked connection without a session is dispatched again.
RecvUnguarded(f, words) ==
    /\ ~aborted /\ conn[f].phase = "open" /\ conn[f].skip \in 0 .. InitWords
    /\ LET k == [conn[f] EXCEPT !.in = @ \o words, !.skip = 0] IN
       IF Len(k.in) < conn[f].skip
       THEN Keep(f, [k EXCEPT !.skip = conn[f].skip]) /\ UNCHANGED <<sessions, marks>>
       ELSE IF Find(sessions, f, k.gen) # {} THEN Drains(f, k, sessions, marks)
       ELSE Dispatch(f, k)
    /\ UNCHANGED <<settings, marker, ks, gen, aborted>>

\* bytes arrive, as many as the reader waits for (bound: one that waits for more
\* than an init is not fed): the bench session, the guard of marked connections,
\* dispatch
Recv(f, words) ==
    /\ ~aborted /\ conn[f].phase = "open" /\ conn[f].skip \in 0 .. InitWords
    /\ LET k == [conn[f] EXCEPT !.in = @ \o words, !.skip = 0] IN
       IF Len(k.in) < conn[f].skip
       THEN Keep(f, [k EXCEPT !.skip = conn[f].skip]) /\ UNCHANGED <<sessions, marks>>
       ELSE IF Find(sessions, f, k.gen) # {} THEN Drains(f, k, sessions, marks)
       ELSE IF Find(marks, f, k.gen) # {}
       THEN Close(f) /\ marks' = Clear(marks, f, k.gen) /\ UNCHANGED sessions
       ELSE Dispatch(f, k)
    /\ UNCHANGED <<settings, marker, ks, gen, aborted>>

\* cpu_tcp_server_reader while it has bytes to skip: it skips what it got, at most
\* what it was told to, and rwm_process_ex asserts that the count is not negative
Discard(f) ==
    /\ ~aborted /\ conn[f].phase = "open" /\ conn[f].skip < 0
    /\ LET left == Wrap(-conn[f].skip)
           skips == IF 1 > left THEN left ELSE 1
       IN aborted' = (skips < 0)
    /\ UNCHANGED <<settings, marker, ks, conn, gen, sessions, marks>>

-----------------------------------------------------------------------------
(* Everything else *)

\* the connection ends without a word: the bench tables are not told
Ends(f) ==
    /\ ~aborted /\ conn[f] # NoConn
    /\ Close(f)
    /\ UNCHANGED <<settings, marker, ks, gen, sessions, marks, aborted>>

\* tcp_rpcs_ext_alarm: ten seconds after the accept, or the silent close; a
\* connection that is relayed takes what it has received along
Alarm(f) ==
    /\ ~aborted /\ conn[f].timer
    /\ LET k == [conn[f] EXCEPT !.timer = FALSE] IN
       Keep(f, IF k.phase = "open" /\ domain THEN [k EXCEPT !.phase = "relayed", !.in = <<>>]
               ELSE k)
    /\ UNCHANGED <<settings, marker, ks, gen, sessions, marks, aborted>>

\* more than BENCH_SLOT_IDLE_SEC since the session's last activity
GoIdle(i) ==
    /\ ~aborted /\ sessions[i] # Empty /\ ~sessions[i].idle
    /\ sessions' = [sessions EXCEPT ![i].idle = TRUE]
    /\ UNCHANGED <<settings, marker, ks, conn, gen, marks, aborted>>

Touched == /\ ~aborted /\ marker' = ~marker
           /\ UNCHANGED <<settings, ks, conn, gen, sessions, marks, aborted>>

\* Faulty variant: the marker counts only when hard close is asked for.
PollHardOnly ==
    /\ ~aborted
    /\ ks' = IF marker /\ hard THEN "HARD_CLOSED" ELSE "IDLE"
    /\ UNCHANGED <<settings, marker, conn, gen, sessions, marks, aborted>>

\* type3_dispatch_kill_switch_poll
Poll ==
    /\ ~aborted
    /\ ks' = IF ~marker THEN "IDLE" ELSE IF hard THEN "HARD_CLOSED" ELSE "DRAINING"
    /\ UNCHANGED <<settings, marker, conn, gen, sessions, marks, aborted>>

Next == \/ \E f \in Fd : \/ Accept(f) \/ Ends(f) \/ Alarm(f) \/ Discard(f)
                         \/ \E words \in Reads : Recv(f, words)
        \/ \E i \in Entry : GoIdle(i)
        \/ Touched \/ Poll

Spec == Init /\ [][Next]_vars

\* the poll runs every second
FairSpec == Spec /\ WF_vars(Poll)

-----------------------------------------------------------------------------
(* Properties *)

EntryOrEmpty == {Empty} \union [fd : Fd, gen : 1 .. MaxGen, idle : BOOLEAN]
Conn == [phase : {"none", "open", "session", "relayed"}, gen : 0 .. MaxGen, in : Seq(Word),
         skip : Int, timer : BOOLEAN, accepted : BOOLEAN,
         dropped : {"no", "switch", "header", "bench"}, bench : BOOLEAN, marked : BOOLEAN]
TypeOK == /\ enabled \in BOOLEAN /\ hard \in BOOLEAN /\ domain \in BOOLEAN /\ marker \in BOOLEAN
          /\ ks \in {"IDLE", "DRAINING", "HARD_CLOSED"}
          /\ gen \in 0 .. MaxGen /\ aborted \in BOOLEAN
          /\ sessions \in [Entry -> EntryOrEmpty] /\ marks \in [Entry -> EntryOrEmpty]
          /\ conn \in [Fd -> Conn] /\ \A f \in Fd : Len(conn[f].in) < InitWords

(* A connection routed to the bench and marked has a session or its mark as *)
(* long as it lives, and its payload is never taken for a session header:   *)
(* the idle reaper may take the session away under it at any time.          *)
BenchGuarded == \A f \in Fd : conn[f].marked =>
    /\ conn[f].phase = "open" => Find(sessions, f, conn[f].gen) \union Find(marks, f, conn[f].gen) # {}
    /\ conn[f].phase # "session" /\ ~conn[f].accepted

(* The tables' entries outlive connections that end without a word.  A      *)
(* connection that gets the descriptor of such a one inherits neither its   *)
(* session nor its mark, and none has two.                                  *)
NoInheritance ==
    /\ TypeOK
    /\ \A f \in Fd : conn[f] # NoConn =>
          /\ Find(sessions, f, conn[f].gen) \union Find(marks, f, conn[f].gen) # {} => conn[f].bench
          /\ Cardinality(Find(sessions, f, conn[f].gen)) <= 1
          /\ Cardinality(Find(marks, f, conn[f].gen)) <= 1

(* The kill switch works at the latest one poll after its file appeared: if *)
(* the file stays no header is accepted and no bench session begins any     *)
(* more; if it stays away the dispatch is open again.                       *)
NoStart == \A f \in Fd : /\ conn'[f].accepted => conn[f].accepted
                         /\ conn'[f].bench => conn[f].bench
KillSwitchWorks == /\ <>[]marker => <>[][NoStart]_vars
                   /\ <>[]~marker => <>[](ks = "IDLE" \/ aborted)

(* "successful parse -> session proceeds": a connection whose header was    *)
(* accepted is not dropped for its header.                                  *)
AcceptedGoesOn == \A f \in Fd : ~(conn[f].accepted /\ conn[f].dropped = "header")

(* The guard is there because of a "storm" of proxy pass connections: a     *)
(* connection routed to the bench is never relayed to the domain.           *)
BenchNotRelayed == \A f \in Fd : ~(conn[f].bench /\ conn[f].phase = "relayed")

(* rwm_process_ex asserts "bytes >= 0" of every count it is given.          *)
SkipInRange == ~aborted

(* "tcp_rpcs_ext_alarm handler calls fail_connection": the alarm of a       *)
(* connection the dispatch dropped closes it.                               *)
AlarmCloses == [][\A f \in Fd : conn[f].dropped \in {"switch", "header"} /\ conn[f].timer
                     /\ conn'[f].gen = conn[f].gen => conn'[f].timer]_vars
=============================================================================
