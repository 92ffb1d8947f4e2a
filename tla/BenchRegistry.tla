--------------------------- MODULE BenchRegistry ---------------------------
(* The two fixed tables of net/bench-session.c: sessions, and marks that    *)
(* outlive them.  An entry names a connection by its descriptor and its     *)
(* generation, since descriptors are used again.                            *)
EXTENDS Naturals, FiniteSets, FiniteSetsExt

CONSTANTS MaxSessions,   \* BENCH_MAX_SESSIONS
          Empty          \* an unused entry

ASSUME RegistryAssumption == MaxSessions \in Nat \ {0}

Entry == 1 .. MaxSessions
NoEntries == [i \in Entry |-> Empty]
Fresh(fd, gen) == [fd |-> fd, gen |-> gen, idle |-> FALSE]

\* Faulty variant: the generation is not compared.
NamesFdOnly(e, fd, gen) == e # Empty /\ e.fd = fd

\* bench_slot_match
Names(e, fd, gen) == e # Empty /\ e.fd = fd /\ e.gen = gen

Find(table, fd, gen) == {i \in Entry : Names(table[i], fd, gen)}

\* bench_session_destroy and bench_connection_clear
Clear(table, fd, gen) == [i \in Entry |-> IF Names(table[i], fd, gen) THEN Empty ELSE table[i]]

\* bench_reap_stale_slots
Reap(table) == [i \in Entry |-> IF table[i] # Empty /\ table[i].idle THEN Empty ELSE table[i]]

\* the lowest free entry is taken; a full table stays as it is
Full(table) == \A i \in Entry : table[i] # Empty
Add(table, fd, gen) ==
    IF Find(table, fd, gen) # {} \/ Full(table) THEN table
    ELSE [table EXCEPT ![Min({i \in Entry : table[i] = Empty})] = Fresh(fd, gen)]

\* the time of the last activity is now
Touch(table, fd, gen) == [i \in Entry |-> IF Names(table[i], fd, gen) THEN Fresh(fd, gen)
                                          ELSE table[i]]
=============================================================================
