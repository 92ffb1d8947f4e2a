------------------------ MODULE DispatchStreamProofs ------------------------
(***************************************************************************)
(* Proofs about the two ends of the dispatch hook: Type3Dispatch, for      *)
(* every number of descriptors, table entries, connections and words, and  *)
(* ServerStream, for every length of the request, the init, the chunks,    *)
(* the reads and the messages.                                             *)
(*                                                                         *)
(* NoInheritance is not inductive: it says nothing of the entries that no  *)
(* connection owns, which a later connection could inherit.  Current does: *)
(* every entry's generation has been given out, and if it is that of the   *)
(* connection now on the entry's descriptor then that one is a bench       *)
(* connection.  Once is why Add never makes a second entry.  BenchGuarded  *)
(* needs more than it says: the reaper takes sessions away, so a marked    *)
(* connection must have its mark (MarkKept).  Every call of the parser on  *)
(* descriptor f is shown to be a "turn" (Turned): it replaces conn[f],     *)
(* keeps its generation or closes it, and changes the tables only          *)
(* Local-ly.  One lemma then shows that turns keep the invariant.          *)
(*                                                                         *)
(* ReceivedInOrder says nothing of what is still framed, nor of the time   *)
(* before the keys.  StreamInv adds where the reader stands: what is on    *)
(* the wire is whole chunks over consecutive units (WireShape), and the    *)
(* token behind those taken is where the units up to p end (Unframed),     *)
(* with p the units of the opening before the keys are set (HeadShape) and *)
(* Pre + dec afterwards (CipherShape).  HeadInClear needs the two places   *)
(* an answer may still be in: OutShape numbers sent, out_p and out in one  *)
(* run.                                                                    *)
(***************************************************************************)
EXTENDS Type3Dispatch, ServerStream, FiniteSetTheorems, WellFoundedInduction,
        SequenceTheorems, TLAPS

\* No two entries of a table name the same connection.
Once(T) == \A i, j \in Entry : T[i] # Empty /\ T[j] # Empty
              /\ T[i].fd = T[j].fd /\ T[i].gen = T[j].gen => i = j

\* Generations are never used again, and an entry that names the connection
\* that is there was made for it.
Current(T) == \A i \in Entry : T[i] # Empty =>
    /\ T[i].gen <= gen
    /\ conn[T[i].fd] # NoConn /\ conn[T[i].fd].gen = T[i].gen => conn[T[i].fd].bench

\* A marked connection keeps its mark, and is not dispatched again.
MarkKept == \A f \in Fd : conn[f].marked =>
    /\ Find(marks, f, conn[f].gen) # {}
    /\ conn[f].phase # "session" /\ ~conn[f].accepted

Generations == \A f \in Fd : /\ conn[f].gen <= gen
                             /\ conn[f] # NoConn => conn[f].gen >= 1

IInv == /\ TypeOK /\ Generations /\ MarkKept
        /\ Once(sessions) /\ Once(marks) /\ Current(sessions) /\ Current(marks)

-----------------------------------------------------------------------------
(* The tables *)

LEMMA MinIn ==
  ASSUME NEW S \in SUBSET Nat, S # {}
  PROVE  Min(S) \in S
  <1>1. PICK x \in S : \A y \in S : ~(<<y, x>> \in OpToRel(<, Nat))
    BY NatLessThanWellFounded, WFMin
  <1>2. ASSUME NEW y \in S PROVE x <= y
    <2>1. x \in Nat /\ y \in Nat
      OBVIOUS
    <2>2. CASE y < x
      <3>1. <<y, x>> \in OpToRel(<, Nat)
        BY <2>1, <2>2, Zenon DEF OpToRel
      <3>2. QED  BY <1>1, <3>1
    <2>3. QED  BY <2>1, <2>2
  <1>3. QED  BY <1>2 DEF Min

Table == [Entry -> EntryOrEmpty]

LEMMA FreshType ==
  ASSUME NEW f \in Fd, NEW g \in 1 .. MaxGen
  PROVE  /\ Fresh(f, g) \in EntryOrEmpty /\ Fresh(f, g) # Empty
         /\ Fresh(f, g).fd = f /\ Fresh(f, g).gen = g
  <1>1. Fresh(f, g) \in [fd : Fd, gen : 1 .. MaxGen, idle : BOOLEAN]
    BY DEF Fresh
  <1>2. QED  BY <1>1, DispatchAssumption DEF Fresh, EntryOrEmpty

\* What Clear, Reap, Touch and Add may do to a table.
LEMMA ClearTable ==
  ASSUME NEW T \in Table, NEW f \in Fd, NEW g \in 0 .. MaxGen
  PROVE  /\ Clear(T, f, g) \in Table
         /\ \A i \in Entry : Clear(T, f, g)[i] = IF Names(T[i], f, g) THEN Empty ELSE T[i]
  BY DEF Clear, Table, EntryOrEmpty

LEMMA ReapTable ==
  ASSUME NEW T \in Table
  PROVE  /\ Reap(T) \in Table
         /\ \A i \in Entry : Reap(T)[i] \in {Empty, T[i]}
  BY DEF Reap, Table, EntryOrEmpty

LEMMA TouchTable ==
  ASSUME NEW T \in Table, NEW f \in Fd, NEW g \in 1 .. MaxGen
  PROVE  /\ Touch(T, f, g) \in Table
         /\ \A i \in Entry : Touch(T, f, g)[i] = IF Names(T[i], f, g) THEN Fresh(f, g) ELSE T[i]
  BY FreshType DEF Touch, Table

LEMMA AddTable ==
  ASSUME NEW T \in Table, NEW f \in Fd, NEW g \in 1 .. MaxGen
  PROVE  /\ Add(T, f, g) \in Table
         /\ \/ (Find(T, f, g) # {} \/ Full(T)) /\ Add(T, f, g) = T
            \/ /\ Find(T, f, g) = {} /\ ~Full(T)
               /\ \E i \in Entry : T[i] = Empty /\ Add(T, f, g) = [T EXCEPT ![i] = Fresh(f, g)]
  <1>1. CASE Find(T, f, g) # {} \/ Full(T)
    BY <1>1 DEF Add
  <1>2. CASE Find(T, f, g) = {} /\ ~Full(T)
    <2> DEFINE S == {i \in Entry : T[i] = Empty}
    <2>1. S # {} /\ S \in SUBSET Nat
      BY <1>2 DEF Full, Entry
    <2>2. Min(S) \in S
      BY <2>1, MinIn
    <2>3. Add(T, f, g) = [T EXCEPT ![Min(S)] = Fresh(f, g)]
      BY <1>2 DEF Add
    <2>4. QED  BY <1>2, <2>2, <2>3, FreshType, SMTT(60) DEF Table
  <1>3. QED  BY <1>1, <1>2

\* What a step on the connection (f, g) may do to a table T: entries vanish or
\* stay what they were, or name f and g.
Local(T, U, f, g) ==
  /\ U \in Table
  /\ \A i \in Entry : \/ U[i] \in {Empty, T[i]}
                      \/ U[i] # Empty /\ U[i].fd = f /\ U[i].gen = g
  /\ Once(T) => Once(U)

LEMMA LocalClear ==
  ASSUME NEW T \in Table, NEW f \in Fd, NEW g \in 0 .. MaxGen
  PROVE  Local(T, Clear(T, f, g), f, g)
  BY ClearTable DEF Local, Once
LEMMA LocalReap ==
  ASSUME NEW T \in Table, NEW f \in Fd, NEW g \in 0 .. MaxGen
  PROVE  Local(T, Reap(T), f, g)
  BY ReapTable DEF Local, Once
LEMMA LocalTouch ==
  ASSUME NEW T \in Table, NEW f \in Fd, NEW g \in 1 .. MaxGen
  PROVE  Local(T, Touch(T, f, g), f, g)
  BY TouchTable, FreshType DEF Local, Once, Names
LEMMA LocalAdd ==
  ASSUME NEW T \in Table, NEW f \in Fd, NEW g \in 1 .. MaxGen
  PROVE  Local(T, Add(T, f, g), f, g)
  <1>1. CASE Add(T, f, g) = T
    BY <1>1 DEF Local
  <1>2. CASE Find(T, f, g) = {} /\ \E i \in Entry : T[i] = Empty /\ Add(T, f, g) = [T EXCEPT ![i] = Fresh(f, g)]
    <2>1. \A i \in Entry : ~(T[i] # Empty /\ T[i].fd = f /\ T[i].gen = g)
      BY <1>2 DEF Find, Names
    <2>2. QED  BY <1>2, <2>1, AddTable, FreshType DEF Local, Once, Table
  <1>3. QED  BY <1>1, <1>2, AddTable
LEMMA LocalTrans ==
  ASSUME NEW T, NEW U, NEW V, NEW f \in Fd, NEW g \in 0 .. MaxGen, Local(T, U, f, g), Local(U, V, f, g)
  PROVE  Local(T, V, f, g)
  BY DEF Local
LEMMA LocalRefl ==
  ASSUME NEW T \in Table, NEW f, NEW g
  PROVE  Local(T, T, f, g)
  BY DEF Local

\* and keeps the entries of every other connection.
Spares(T, U, f, g) == \A i \in Entry : T[i] # Empty /\ ~Names(T[i], f, g) => U[i] = T[i]

LEMMA SparesClear ==
  ASSUME NEW T \in Table, NEW f \in Fd, NEW g \in 0 .. MaxGen
  PROVE  Spares(T, Clear(T, f, g), f, g)
  BY ClearTable DEF Spares
LEMMA SparesAdd ==
  ASSUME NEW T \in Table, NEW f \in Fd, NEW g \in 1 .. MaxGen
  PROVE  /\ Spares(T, Add(T, f, g), f, g)
         /\ ~Full(T) => Find(Add(T, f, g), f, g) # {}
  BY AddTable, FreshType DEF Spares, Table, Find, Names
LEMMA SparesClearAdd ==
  ASSUME NEW T \in Table, NEW f \in Fd, NEW g \in 1 .. MaxGen
  PROVE  Spares(T, Clear(Add(T, f, g), f, g), f, g)
  <1>1. Add(T, f, g) \in Table /\ Spares(T, Add(T, f, g), f, g)
    BY AddTable, SparesAdd
  <1>2. QED  BY <1>1, ClearTable DEF Spares

-----------------------------------------------------------------------------
(* One call of the parser *)

LEMMA IntTypes == /\ SKIP_ALL_BYTES \in Int /\ GlobalSkip \in Int
                  /\ \A n \in Int : Wrap(n) \in Int
  BY DispatchAssumption DEF SKIP_ALL_BYTES, GlobalSkip, Wrap

LEMMA EmptyInput == <<>> \in Seq(Word) /\ Len(<<>>) = 0
  OBVIOUS

LEMMA NoConnType == NoConn \in Conn /\ NoConn.in = <<>> /\ ~NoConn.marked /\ NoConn.gen = 0
                    /\ NoConn.phase = "none" /\ ~NoConn.bench
  BY DispatchAssumption DEF NoConn, Conn

LEMMA WithInput ==
  ASSUME NEW c \in Conn, NEW s \in Seq(Word)
  PROVE  LET k == [c EXCEPT !.in = s, !.skip = 0]
         IN  /\ k \in Conn /\ k.in = s /\ k.gen = c.gen /\ k.bench = c.bench
             /\ k.marked = c.marked /\ k.phase = c.phase /\ k.accepted = c.accepted
  <1>1. 0 \in Int
    OBVIOUS
  <1>2. ASSUME NEW n \in Int
        PROVE  LET k == [c EXCEPT !.in = s, !.skip = n]
               IN  /\ k \in Conn /\ k.in = s /\ k.gen = c.gen /\ k.bench = c.bench
                   /\ k.marked = c.marked /\ k.phase = c.phase /\ k.accepted = c.accepted
    BY DEF Conn
  <1>3. QED  BY <1>1, <1>2

LEMMA NewConn ==
  ASSUME NEW g \in 1 .. MaxGen
  PROVE  LET r == [NoConn EXCEPT !.phase = "open", !.gen = g, !.timer = TRUE]
         IN  r \in Conn /\ r.gen = g /\ ~r.marked /\ r.in = <<>>
  <1>1. g \in 0 .. MaxGen
    BY DispatchAssumption
  <1>2. ASSUME NEW c \in Conn
        PROVE  LET k == [c EXCEPT !.phase = "open", !.gen = g, !.timer = TRUE]
               IN  k \in Conn /\ k.gen = g /\ k.marked = c.marked /\ k.in = c.in
    BY <1>1 DEF Conn
  <1>3. QED  BY <1>2, NoConnType

\* What may become of a connection k of descriptor f in one call of the parser.
Turned(f, k, r) ==
  /\ r \in Conn /\ Len(r.in) < InitWords
  /\ conn' = [conn EXCEPT ![f] = r]
  /\ Local(sessions, sessions', f, k.gen) /\ Local(marks, marks', f, k.gen)
  /\ Spares(marks, marks', f, k.gen)
  /\ \/ r = NoConn
     \/ /\ r.gen = k.gen
        /\ r.bench \/ (sessions' = sessions /\ marks' = marks /\ r.bench = k.bench)
        /\ r.marked => /\ Find(marks', f, k.gen) # {}
                       /\ r.phase # "session" /\ ~r.accepted

LEMMA DropTurned ==
  ASSUME NEW f \in Fd, NEW k \in Conn, NEW why \in {"switch", "header", "bench"}, NEW alarm \in BOOLEAN,
         sessions \in Table, marks \in Table, ~k.marked, Drop(f, k, why, alarm)
  PROVE  \E r \in Conn : Turned(f, k, r)
  <1>1. PICK held \in {0, 1} : Keep(f, [k EXCEPT !.in = <<>>, !.skip = Wrap(SKIP_ALL_BYTES - held),
                                                 !.dropped = why, !.timer = @ \/ alarm])
    BY DEF Drop
  <1> DEFINE r == [k EXCEPT !.in = <<>>, !.skip = Wrap(SKIP_ALL_BYTES - held),
                            !.dropped = why, !.timer = @ \/ alarm]
  <1>2. Wrap(SKIP_ALL_BYTES - held) \in Int
    BY IntTypes
  <1>3. /\ r \in Conn /\ r.in = <<>> /\ r.gen = k.gen /\ r.bench = k.bench /\ r.marked = k.marked
    BY <1>2, EmptyInput DEF Conn
  <1>4. Len(r.in) < InitWords
    BY <1>3, DispatchAssumption
  <1>5. Turned(f, k, r)
    BY <1>1, <1>3, <1>4, LocalRefl DEF Turned, Keep, Drop, Spares
  <1>6. QED  BY <1>3, <1>5

LEMMA DrainsTurned ==
  ASSUME NEW f \in Fd, NEW k \in Conn, NEW S \in Table, NEW M \in Table,
         k.gen \in 1 .. MaxGen, Local(sessions, S, f, k.gen), Local(marks, M, f, k.gen),
         Spares(marks, M, f, k.gen), Spares(marks, Clear(M, f, k.gen), f, k.gen),
         k.bench, k.marked => /\ Find(M, f, k.gen) # {}
                              /\ k.phase # "session" /\ ~k.accepted,
         Drains(f, k, S, M)
  PROVE  \E r \in Conn : Turned(f, k, r)
  <1>1. CASE /\ Keep(f, [k EXCEPT !.in = <<>>])
             /\ sessions' = Touch(S, f, k.gen) /\ marks' = M
    <2> DEFINE r == [k EXCEPT !.in = <<>>]
    <2>1. /\ r \in Conn /\ r.in = <<>> /\ r.gen = k.gen /\ r.bench = k.bench /\ r.marked = k.marked
          /\ r.phase = k.phase /\ r.accepted = k.accepted
      BY EmptyInput DEF Conn
    <2>2. Len(r.in) < InitWords
      BY <2>1, DispatchAssumption
    <2>3. Local(sessions, sessions', f, k.gen)
      BY <1>1, LocalTouch, LocalTrans DEF Conn
    <2>4. Turned(f, k, r)
      BY <1>1, <2>1, <2>2, <2>3 DEF Turned, Keep
    <2>5. QED  BY <2>1, <2>4
  <1>2. CASE /\ Close(f)
             /\ sessions' = Clear(S, f, k.gen) /\ marks' = Clear(M, f, k.gen)
    <2>1. Local(sessions, sessions', f, k.gen) /\ Local(marks, marks', f, k.gen)
      BY <1>2, LocalClear, LocalTrans DEF Conn
    <2>2. Len(NoConn.in) < InitWords
      BY NoConnType, DispatchAssumption
    <2>3. Turned(f, k, NoConn)
      BY <1>2, <2>1, <2>2, NoConnType DEF Turned, Close
    <2>4. QED  BY <2>3, NoConnType
  <1>3. QED  BY <1>1, <1>2 DEF Drains

LEMMA BenchTurned ==
  ASSUME NEW f \in Fd, NEW k \in Conn, sessions \in Table, marks \in Table,
         k.gen \in 1 .. MaxGen, k.phase = "open", Bench(f, k)
  PROVE  \E r \in Conn : Turned(f, k, r)
  <1> DEFINE reaped == Reap(sessions)
             b == [k EXCEPT !.accepted = FALSE, !.bench = TRUE, !.marked = ~Full(marks)]
  <1>1. reaped \in Table /\ Local(sessions, reaped, f, k.gen)
    BY ReapTable, LocalReap DEF Conn
  <1>2. CASE Full(reaped)
    <2>1. Close(f) /\ sessions' = reaped /\ marks' = marks
      BY <1>2 DEF Bench
    <2>2. Len(NoConn.in) < InitWords
      BY NoConnType, DispatchAssumption
    <2>3. Turned(f, k, NoConn)
      BY <1>1, <2>1, <2>2, NoConnType, LocalRefl DEF Turned, Close, Spares
    <2>4. QED  BY <2>3, NoConnType
  <1>3. CASE ~Full(reaped)
    <2>1. Full(marks) \in BOOLEAN
      BY DEF Full
    <2>2. /\ b \in Conn /\ b.gen = k.gen /\ b.bench /\ b.marked = ~Full(marks)
          /\ ~b.accepted /\ b.phase = "open"
      BY <2>1 DEF Conn
    <2> HIDE DEF b
    <2>3. Drains(f, b, Add(reaped, f, b.gen), Add(marks, f, b.gen))
      BY <1>3, <2>2 DEF Bench, b
    <2>4. /\ Add(reaped, f, b.gen) \in Table /\ Add(marks, f, b.gen) \in Table
          /\ Local(sessions, Add(reaped, f, b.gen), f, b.gen)
          /\ Local(marks, Add(marks, f, b.gen), f, b.gen)
      BY <1>1, <2>2, AddTable, LocalAdd, LocalTrans DEF Conn
    <2>5. /\ Spares(marks, Add(marks, f, b.gen), f, b.gen)
          /\ Spares(marks, Clear(Add(marks, f, b.gen), f, b.gen), f, b.gen)
          /\ b.marked => Find(Add(marks, f, b.gen), f, b.gen) # {}
      BY <2>2, SparesAdd, SparesClearAdd
    <2>6. b.phase # "session"
      BY <2>2
    <2>7. PICK r \in Conn : Turned(f, b, r)
      BY <2>2, <2>3, <2>4, <2>5, <2>6, DrainsTurned
    <2>8. Turned(f, k, r)
      BY <2>2, <2>7 DEF Turned
    <2>9. QED  BY <2>8
  <1>4. QED  BY <1>2, <1>3

LEMMA AcceptedTurned ==
  ASSUME NEW f \in Fd, NEW k \in Conn, sessions \in Table, marks \in Table,
         ~k.marked, Accepted(f, k)
  PROVE  \E r \in Conn : Turned(f, k, r)
  <1> SUFFICES \E r \in Conn : /\ Keep(f, r) /\ Len(r.in) < InitWords /\ r.gen = k.gen
                               /\ r.bench = k.bench /\ r.marked = k.marked
    BY LocalRefl DEF Turned, Accepted, Keep, Spares
  <1>0. k.in \in Seq(Word) /\ Len(k.in) \in Nat
    BY DEF Conn
  <1>1. CASE k.in = <<>>
    <2>1. Keep(f, k) /\ Len(k.in) < InitWords
      BY <1>1, EmptyInput, DispatchAssumption DEF Accepted
    <2>2. QED  BY <2>1
  <1>2. CASE k.in # <<>> /\ Len(k.in) < InitWords
    <2>1. PICK held \in {0, 1} : Keep(f, [k EXCEPT !.skip = InitWords - Len(k.in) + held])
      BY <1>2 DEF Accepted
    <2> DEFINE r == [k EXCEPT !.skip = InitWords - Len(k.in) + held]
    <2>2. InitWords - Len(k.in) + held \in Int
      BY <1>0, DispatchAssumption
    <2>3. r \in Conn /\ r.in = k.in /\ r.gen = k.gen /\ r.bench = k.bench /\ r.marked = k.marked
      BY <2>2 DEF Conn
    <2>4. QED  BY <1>2, <2>1, <2>3
  <1>3. CASE k.in # <<>> /\ ~(Len(k.in) < InitWords)
    <2> DEFINE r == [k EXCEPT !.phase = "session", !.in = <<>>, !.timer = FALSE]
               s == [k EXCEPT !.skip = GlobalSkip, !.in = <<>>]
    <2>1. Keep(f, r) \/ Keep(f, s)
      BY <1>3 DEF Accepted
    <2>2. r \in Conn /\ r.in = <<>> /\ r.gen = k.gen /\ r.bench = k.bench /\ r.marked = k.marked
      BY EmptyInput DEF Conn
    <2>3. s \in Conn /\ s.in = <<>> /\ s.gen = k.gen /\ s.bench = k.bench /\ s.marked = k.marked
      BY EmptyInput, IntTypes DEF Conn
    <2>4. Len(r.in) < InitWords /\ Len(s.in) < InitWords
      BY <2>2, <2>3, EmptyInput, DispatchAssumption
    <2>5. QED  BY <2>1, <2>2, <2>3, <2>4
  <1>4. QED  BY <1>1, <1>2, <1>3

\* Turned depends on k's generation and bench flag only.
LEMMA TurnedSame ==
  ASSUME NEW f, NEW k, NEW l, NEW r, Turned(f, l, r), l.gen = k.gen, l.bench = k.bench
  PROVE  Turned(f, k, r)
  BY DEF Turned

LEMMA DispatchTurned ==
  ASSUME NEW f \in Fd, NEW k \in Conn, sessions \in Table, marks \in Table,
         k.gen \in 1 .. MaxGen, k.phase = "open", ~k.marked, k.in # <<>>,
         ks \in {"IDLE", "DRAINING", "HARD_CLOSED"}, Dispatch(f, k)
  PROVE  \E r \in Conn : Turned(f, k, r)
  <1> DEFINE rest == [k EXCEPT !.in = Tail(k.in)]
             taken == [rest EXCEPT !.accepted = TRUE]
  <1>1. k.in \in Seq(Word) /\ Tail(k.in) \in Seq(Word) /\ Head(k.in) \in Word
    BY DEF Conn
  <1>2. /\ rest \in Conn /\ rest.gen = k.gen /\ rest.bench = k.bench
        /\ rest.marked = k.marked /\ rest.phase = k.phase
    BY <1>1 DEF Conn
  <1>3. taken \in Conn /\ taken.gen = k.gen /\ taken.bench = k.bench /\ taken.marked = k.marked
    BY <1>2 DEF Conn
  <1> HIDE DEF rest, taken
  <1>4. CASE Drop(f, k, "switch", TRUE) \/ Drop(f, k, "header", TRUE)
    BY <1>4, DropTurned
  <1>5. CASE Drop(f, rest, "bench", FALSE)
    BY <1>2, <1>5, DropTurned, TurnedSame
  <1>6. CASE Bench(f, rest)
    BY <1>2, <1>6, BenchTurned, TurnedSame
  <1>7. CASE Accepted(f, taken)
    BY <1>3, <1>7, AcceptedTurned, TurnedSame
  <1>8. Head(k.in) \in {"head", "bench", "bad"}
    BY <1>1 DEF Word
  <1>9. \/ Drop(f, k, "switch", TRUE) \/ Drop(f, k, "header", TRUE)
        \/ Drop(f, rest, "bench", FALSE) \/ Bench(f, rest) \/ Accepted(f, taken)
    BY <1>8 DEF Dispatch, rest, taken
  <1>10. QED  BY <1>4, <1>5, <1>6, <1>7, <1>9

LEMMA RecvTurned ==
  ASSUME IInv, NEW f \in Fd, NEW words \in Reads, Recv(f, words)
  PROVE  \E r \in Conn : Turned(f, conn[f], r)
  <1> DEFINE k == [conn[f] EXCEPT !.in = @ \o words, !.skip = 0]
             w == [k EXCEPT !.skip = conn[f].skip]
  <1>1. /\ conn[f] \in Conn /\ conn[f].phase = "open" 
        /\ sessions \in Table /\ marks \in Table
        /\ conn[f].gen \in 1 .. MaxGen /\ conn[f].skip \in 0 .. InitWords
        /\ ks \in {"IDLE", "DRAINING", "HARD_CLOSED"}
    <2>1. conn[f] # NoConn
      BY NoConnType DEF Recv
    <2>2. QED  BY <2>1 DEF IInv, TypeOK, Generations, Recv, Table, Conn
  <1>2. words \in Seq(Word) /\ words # <<>> /\ Len(words) \in Nat \ {0}
    BY DispatchAssumption DEF Reads
  <1>3. conn[f].in \in Seq(Word)
    BY <1>1 DEF Conn
  <1>4. conn[f].in \o words \in Seq(Word) /\ conn[f].in \o words # <<>>
        /\ Len(conn[f].in \o words) \in Nat
    BY <1>2, <1>3
  <1>5. /\ k \in Conn /\ k.in # <<>> /\ k.gen = conn[f].gen /\ k.bench = conn[f].bench
        /\ k.marked = conn[f].marked /\ k.phase = "open" /\ k.accepted = conn[f].accepted
        /\ Len(k.in) \in Nat
    <2>1. PICK s \in Seq(Word) : s = conn[f].in \o words
      BY <1>4
    <2>2. k = [conn[f] EXCEPT !.in = s, !.skip = 0]
      BY <2>1
    <2> HIDE DEF k
    <2>3. /\ k \in Conn /\ k.in = s /\ k.gen = conn[f].gen /\ k.bench = conn[f].bench
          /\ k.marked = conn[f].marked /\ k.phase = "open" /\ k.accepted = conn[f].accepted
      BY <1>1, <2>2, WithInput
    <2>4. QED  BY <1>4, <2>1, <2>3
  <1>6. /\ w \in Conn /\ w.in = k.in /\ w.gen = conn[f].gen /\ w.bench = conn[f].bench
        /\ w.marked = conn[f].marked /\ w.phase = "open" /\ w.accepted = conn[f].accepted
    BY <1>1, <1>5 DEF Conn
  <1>7. conn[f].marked => /\ Find(marks, f, conn[f].gen) # {}
                          /\ conn[f].phase # "session" /\ ~conn[f].accepted
    BY DEF IInv, MarkKept
  <1>8. \/ /\ Len(k.in) < conn[f].skip
           /\ Keep(f, w) /\ UNCHANGED <<sessions, marks>>
        \/ Find(sessions, f, k.gen) # {} /\ Drains(f, k, sessions, marks)
        \/ Close(f) /\ marks' = Clear(marks, f, k.gen) /\ sessions' = sessions
        \/ Find(marks, f, k.gen) = {} /\ Dispatch(f, k)
    BY DEF Recv
  <1> HIDE DEF k, w
  <1>9. CASE /\ Len(k.in) < conn[f].skip
             /\ Keep(f, w) /\ UNCHANGED <<sessions, marks>>
    <2>1. Len(w.in) < InitWords
      BY <1>1, <1>5, <1>6, <1>9, DispatchAssumption
    <2>2. Turned(f, conn[f], w)
      BY <1>1, <1>6, <1>7, <1>9, <2>1, LocalRefl DEF Turned, Keep, Spares
    <2>3. QED  BY <1>6, <2>2
  <1>10. CASE Find(sessions, f, k.gen) # {} /\ Drains(f, k, sessions, marks)
    <2>1. k.bench
      BY <1>1, <1>5, <1>10, NoConnType DEF IInv, Current, Find, Names
    <2>2. /\ Local(sessions, sessions, f, k.gen) /\ Local(marks, marks, f, k.gen)
          /\ Spares(marks, marks, f, k.gen) /\ Spares(marks, Clear(marks, f, k.gen), f, k.gen)
      BY <1>1, <1>5, LocalRefl, SparesClear DEF Spares
    <2>3. \E r \in Conn : Turned(f, k, r)
      BY <1>1, <1>5, <1>7, <1>10, <2>1, <2>2, DrainsTurned
    <2>4. QED  BY <1>5, <2>3, TurnedSame
  <1>11. CASE Close(f) /\ marks' = Clear(marks, f, k.gen) /\ sessions' = sessions
    <2>1. Len(NoConn.in) < InitWords
      BY NoConnType, EmptyInput, DispatchAssumption
    <2>2. Turned(f, conn[f], NoConn)
      BY <1>1, <1>5, <1>11, <2>1, NoConnType, LocalRefl, LocalClear, SparesClear DEF Turned, Close
    <2>3. QED  BY <2>2, NoConnType
  <1>12. CASE Find(marks, f, k.gen) = {} /\ Dispatch(f, k)
    <2>1. ~k.marked
      BY <1>5, <1>7, <1>12
    <2>2. QED  BY <1>1, <1>5, <1>12, <2>1, DispatchTurned, TurnedSame
  <1>13. QED  BY <1>8, <1>9, <1>10, <1>11, <1>12

\* A connection that has so turned keeps the invariant.
LEMMA TurnedInv ==
  ASSUME IInv, NEW f \in Fd, NEW r \in Conn, Turned(f, conn[f], r), conn[f] # NoConn,
         UNCHANGED <<settings, marker, ks, gen, aborted>>
  PROVE  IInv'
  <1>1. /\ conn \in [Fd -> Conn] /\ gen \in Nat /\ conn[f].gen \in 1 .. MaxGen
        /\ sessions \in Table /\ marks \in Table /\ conn[f].gen <= gen
    BY DispatchAssumption DEF IInv, TypeOK, Generations, Table, Conn
  <1>2. conn' = [conn EXCEPT ![f] = r] /\ conn'[f] = r /\ \A h \in Fd \ {f} : conn'[h] = conn[h]
    BY <1>1 DEF Turned
  <1>3. TypeOK'
    BY <1>1, <1>2 DEF IInv, TypeOK, Turned, settings, Local, Table
  <1>4. Generations'
    BY <1>1, <1>2, NoConnType DEF IInv, Generations, Turned
  <1>5. Once(sessions)' /\ Once(marks)'
    BY DEF IInv, Turned, Local, Once
  <1>6. ASSUME NEW T \in Table, NEW U \in Table, Local(T, U, f, conn[f].gen), Current(T), NEW i \in Entry, U[i] # Empty,
               r = NoConn \/ (r.gen = conn[f].gen /\ (r.bench \/ (U = T /\ r.bench = conn[f].bench)))
        PROVE  /\ U[i].gen <= gen
               /\ conn'[U[i].fd] # NoConn /\ conn'[U[i].fd].gen = U[i].gen => conn'[U[i].fd].bench
    <2>1. U[i].fd \in Fd
      BY <1>6 DEF Table, EntryOrEmpty
    <2>2. U[i] = T[i] \/ (U[i].fd = f /\ U[i].gen = conn[f].gen)
      BY <1>6 DEF Local
    <2>3. QED  BY <1>1, <1>2, <1>6, <2>1, <2>2 DEF Current
  <1>7. r = NoConn \/ (r.gen = conn[f].gen /\ (r.bench \/ (sessions' = sessions /\ marks' = marks /\ r.bench = conn[f].bench)))
    BY DEF Turned
  <1>8. /\ Local(sessions, sessions', f, conn[f].gen) /\ Local(marks, marks', f, conn[f].gen)
        /\ sessions' \in Table /\ marks' \in Table
    BY DEF Turned, Local
  <1>9. Current(sessions)'
    BY <1>1, <1>6, <1>7, <1>8 DEF IInv, Current
  <1>10. Current(marks)'
    BY <1>1, <1>6, <1>7, <1>8 DEF IInv, Current
  <1>11. MarkKept'
    <2> SUFFICES ASSUME NEW h \in Fd, conn'[h].marked
                 PROVE  /\ Find(marks', h, conn'[h].gen) # {}
                        /\ conn'[h].phase # "session" /\ ~conn'[h].accepted
      BY DEF MarkKept, Find, Names
    <2>1. CASE h = f
      BY <1>2, <2>1, NoConnType DEF Turned
    <2>2. CASE h # f
      <3>1. PICK i \in Entry : Names(marks[i], h, conn[h].gen)
        BY <1>2, <2>2 DEF IInv, MarkKept, Find
      <3>2. marks'[i] = marks[i]
        BY <2>2, <3>1 DEF Turned, Spares, Names
      <3>3. QED  BY <1>2, <2>2, <3>1, <3>2 DEF IInv, MarkKept, Find
    <2>3. QED  BY <2>1, <2>2
  <1>12. QED  BY <1>3, <1>4, <1>5, <1>9, <1>10, <1>11 DEF IInv

-----------------------------------------------------------------------------
(* The inductive invariant *)

LEMMA InitInv == Init => IInv
  <1> SUFFICES ASSUME Init PROVE IInv
    OBVIOUS
  <1>1. TypeOK
    <2>1. conn \in [Fd -> Conn] /\ \A f \in Fd : Len(conn[f].in) < InitWords
      BY NoConnType, EmptyInput, DispatchAssumption DEF Init
    <2>2. NoEntries \in [Entry -> EntryOrEmpty]
      BY DEF NoEntries, EntryOrEmpty
    <2>3. gen \in 0 .. MaxGen
      BY DispatchAssumption DEF Init
    <2>4. QED  BY <2>1, <2>2, <2>3 DEF Init, TypeOK
  <1>2. Generations /\ MarkKept
    BY NoConnType DEF Init, Generations, MarkKept
  <1>3. Once(sessions) /\ Once(marks) /\ Current(sessions) /\ Current(marks)
    BY DEF Init, NoEntries, Once, Current
  <1>4. QED  BY <1>1, <1>2, <1>3 DEF IInv

LEMMA AcceptInv ==
  ASSUME IInv, NEW f \in Fd, Accept(f)
  PROVE  IInv'
  <1> DEFINE r == [NoConn EXCEPT !.phase = "open", !.gen = gen', !.timer = TRUE]
  <1>1. gen \in Nat /\ gen' = gen + 1 /\ gen' \in 1 .. MaxGen
    BY DispatchAssumption DEF Accept, IInv, TypeOK
  <1>2. /\ r \in Conn /\ r.gen = gen' /\ ~r.marked /\ r.in = <<>>
    BY <1>1, NewConn
  <1>3. conn \in [Fd -> Conn] /\ conn' = [conn EXCEPT ![f] = r]
    BY DEF IInv, TypeOK, Accept
  <1> HIDE DEF r
  <1>4. conn'[f] = r /\ \A h \in Fd \ {f} : conn'[h] = conn[h]
    BY <1>3
  <1>5. UNCHANGED <<settings, marker, ks, sessions, marks, aborted>>
    BY DEF Accept
  <1>6. TypeOK'
    <2>1. conn' \in [Fd -> Conn]
      BY <1>2, <1>3
    <2>2. \A h \in Fd : Len(conn'[h].in) < InitWords
      BY <1>2, <1>4, EmptyInput, DispatchAssumption DEF IInv, TypeOK
    <2>3. gen' \in 0 .. MaxGen
      BY <1>1, DispatchAssumption
    <2>4. QED  BY <1>5, <2>1, <2>2, <2>3 DEF IInv, TypeOK, settings
  <1>7. Generations'
    <2>1. \A h \in Fd : conn[h].gen \in Nat
      BY <1>3 DEF Conn
    <2>2. QED  BY <1>1, <1>2, <1>4, <2>1 DEF IInv, Generations
  <1>8. MarkKept'
    BY <1>2, <1>4, <1>5 DEF IInv, MarkKept, Find
  <1>9. Once(sessions)' /\ Once(marks)'
    BY <1>5 DEF IInv, Once
  <1>10. ASSUME NEW T \in Table, Current(T), NEW i \in Entry, T[i] # Empty
         PROVE  /\ T[i].gen <= gen'
                /\ conn'[T[i].fd] # NoConn /\ conn'[T[i].fd].gen = T[i].gen => conn'[T[i].fd].bench
    <2>1. T[i].fd \in Fd /\ T[i].gen \in Nat /\ T[i].gen <= gen
      BY <1>10 DEF Table, EntryOrEmpty, Current
    <2>2. QED  BY <1>1, <1>2, <1>4, <1>10, <2>1 DEF Current
  <1>11. Current(sessions)' /\ Current(marks)'
    BY <1>5, <1>10 DEF IInv, TypeOK, Table, Current
  <1>12. QED  BY <1>6, <1>7, <1>8, <1>9, <1>11 DEF IInv

\* A step that changes neither a table nor a generation, and of a connection no
\* more than its input, its phase (but not to session), its timer and its count.
LEMMA AlarmInv ==
  ASSUME IInv, NEW f \in Fd, Alarm(f)
  PROVE  IInv'
  <1> DEFINE k == [conn[f] EXCEPT !.timer = FALSE]
             l == [k EXCEPT !.phase = "relayed", !.in = <<>>]
  <1>1. conn[f] \in Conn /\ sessions \in Table /\ marks \in Table /\ Len(conn[f].in) < InitWords
    BY DEF IInv, TypeOK, Table
  <1>2. /\ k \in Conn /\ k.in = conn[f].in /\ k.gen = conn[f].gen /\ k.bench = conn[f].bench
        /\ k.marked = conn[f].marked /\ k.accepted = conn[f].accepted /\ k.phase = conn[f].phase
    BY <1>1 DEF Conn
  <1>3. /\ l \in Conn /\ l.in = <<>> /\ l.gen = conn[f].gen /\ l.bench = conn[f].bench
        /\ l.marked = conn[f].marked /\ l.accepted = conn[f].accepted /\ l.phase = "relayed"
    BY <1>2, EmptyInput DEF Conn
  <1>4. Keep(f, k) \/ Keep(f, l)
    BY DEF Alarm
  <1>5. UNCHANGED <<settings, marker, ks, gen, sessions, marks, aborted>> /\ conn[f] # NoConn
    BY DEF Alarm, NoConn
  <1> HIDE DEF k, l
  <1>6. PICK r \in {k, l} : Keep(f, r)
    BY <1>4
  <1>7. Len(r.in) < InitWords
    BY <1>1, <1>2, <1>3, <1>6, EmptyInput, DispatchAssumption
  <1>8. Turned(f, conn[f], r)
    BY <1>1, <1>2, <1>3, <1>5, <1>6, <1>7, LocalRefl DEF IInv, MarkKept, Turned, Keep, Spares
  <1>9. QED  BY <1>2, <1>3, <1>5, <1>8, TurnedInv

LEMMA EndsInv ==
  ASSUME IInv, NEW f \in Fd, Ends(f)
  PROVE  IInv'
  <1>1. sessions \in Table /\ marks \in Table /\ Len(NoConn.in) < InitWords
    BY NoConnType, EmptyInput, DispatchAssumption DEF IInv, TypeOK, Table
  <1>2. Turned(f, conn[f], NoConn)
    BY <1>1, NoConnType, LocalRefl DEF Turned, Ends, Close, Spares
  <1>3. QED  BY <1>2, NoConnType, TurnedInv DEF Ends

LEMMA GoIdleInv ==
  ASSUME IInv, NEW i \in Entry, GoIdle(i)
  PROVE  IInv'
  <1>1. /\ sessions \in Table /\ sessions[i] # Empty
        /\ sessions' = [sessions EXCEPT ![i] = [sessions[i] EXCEPT !.idle = TRUE]]
    BY DEF IInv, TypeOK, Table, GoIdle
  <1>2. sessions[i] \in [fd : Fd, gen : 1 .. MaxGen, idle : BOOLEAN]
    BY <1>1 DEF Table, EntryOrEmpty
  <1> DEFINE e == [sessions[i] EXCEPT !.idle = TRUE]
  <1>3. /\ e \in [fd : Fd, gen : 1 .. MaxGen, idle : BOOLEAN]
        /\ e.fd = sessions[i].fd /\ e.gen = sessions[i].gen
    BY <1>2
  <1>4. e # Empty /\ e \in EntryOrEmpty
    BY <1>3, DispatchAssumption DEF EntryOrEmpty
  <1> HIDE DEF e
  <1>5. sessions' \in Table /\ sessions'[i] = e /\ \A j \in Entry \ {i} : sessions'[j] = sessions[j]
    BY <1>1, <1>4 DEF Table, e
  <1>6. UNCHANGED <<settings, marker, ks, conn, gen, marks, aborted>>
    BY DEF GoIdle
  <1>7. TypeOK'
    BY <1>5, <1>6 DEF IInv, TypeOK, Table, settings
  <1>8. Generations' /\ MarkKept' /\ Once(marks)' /\ Current(marks)'
    BY <1>6 DEF IInv, Generations, MarkKept, Find, Once, Current
  <1>9. Once(sessions)' /\ Current(sessions)'
    BY <1>1, <1>3, <1>4, <1>5, <1>6 DEF IInv, Once, Current
  <1>10. QED  BY <1>7, <1>8, <1>9 DEF IInv

LEMMA NextInv == IInv /\ [Next]_vars => IInv'
  <1> SUFFICES ASSUME IInv, [Next]_vars PROVE IInv'
    OBVIOUS
  <1>1. ASSUME NEW f \in Fd, NEW words \in Reads, Recv(f, words) PROVE IInv'
    <2>1. PICK r \in Conn : Turned(f, conn[f], r)
      BY <1>1, RecvTurned
    <2>2. conn[f] # NoConn /\ UNCHANGED <<settings, marker, ks, gen, aborted>>
      BY <1>1, NoConnType DEF Recv
    <2>3. QED  BY <2>1, <2>2, TurnedInv
  <1>2. ASSUME NEW f \in Fd, Discard(f) PROVE IInv'
    <2>1. aborted' \in BOOLEAN /\ UNCHANGED <<settings, marker, ks, conn, gen, sessions, marks>>
      <3>1. PICK skips : aborted' = (skips < 0)
        BY <1>2, Zenon DEF Discard
      <3>2. (skips < 0) \in BOOLEAN
        OBVIOUS
      <3>3. QED  BY <1>2, <3>1, <3>2 DEF Discard
    <2>2. QED  BY <2>1 DEF IInv, TypeOK, Generations, MarkKept, Find, Once, Current, settings
  <1>3. CASE Touched
    BY <1>3 DEF Touched, IInv, TypeOK, Generations, MarkKept, Find, Once, Current, settings
  <1>4. CASE Poll
    BY <1>4 DEF Poll, IInv, TypeOK, Generations, MarkKept, Find, Once, Current, settings
  <1>5. CASE UNCHANGED vars
    BY <1>5 DEF vars, IInv, TypeOK, Generations, MarkKept, Find, Once, Current, settings
  <1>6. QED
    BY <1>1, <1>2, <1>3, <1>4, <1>5, AcceptInv, EndsInv, AlarmInv, GoIdleInv DEF Next

LEMMA Invariance == Spec => []IInv
  BY InitInv, NextInv, PTL DEF Spec

(* A descriptor is used again while entries of its earlier connections are *)
(* still in the tables of bench-session.c: no connection inherits one, and *)
(* none has two.                                                           *)
THEOREM Inheritance == Spec => []NoInheritance
  <1>1. IInv => NoInheritance
    <2> SUFFICES ASSUME IInv, NEW f \in Fd, conn[f] # NoConn
                 PROVE  /\ Find(sessions, f, conn[f].gen) \union Find(marks, f, conn[f].gen) # {} => conn[f].bench
                        /\ Cardinality(Find(sessions, f, conn[f].gen)) <= 1
                        /\ Cardinality(Find(marks, f, conn[f].gen)) <= 1
      BY DEF IInv, NoInheritance
    <2>1. Find(sessions, f, conn[f].gen) \union Find(marks, f, conn[f].gen) # {} => conn[f].bench
      BY DEF IInv, Current, Find, Names
    <2>2. ASSUME NEW T, Once(T) PROVE Cardinality(Find(T, f, conn[f].gen)) <= 1
      <3> DEFINE S == Find(T, f, conn[f].gen)
      <3>1. \A i, j \in S : i = j
        BY <2>2 DEF Once, Find, Names
      <3>2. CASE S = {}
        BY <3>2, FS_EmptySet
      <3>3. CASE S # {}
        <4>1. PICK i \in S : S = {i}
          BY <3>1, <3>3
        <4>2. Cardinality({i}) = 1
          BY FS_Singleton
        <4>3. QED  BY <4>1, <4>2
      <3>4. QED  BY <3>2, <3>3
    <2>3. QED  BY <2>1, <2>2 DEF IInv
  <1>2. QED  BY <1>1, Invariance, PTL

(* The idle reaper may take a bench session away at any time: a connection *)
(* that was marked keeps its session or its mark while it is read, and is  *)
(* never dispatched again.                                                 *)
THEOREM Guarded == Spec => []BenchGuarded
  <1>1. IInv => BenchGuarded
    BY DEF IInv, MarkKept, BenchGuarded
  <1>2. QED  BY <1>1, Invariance, PTL

\* The part of KillSwitchWorks that is not about time: whatever happens while the
\* switch is not idle, no header is accepted and no bench session begins.
SwitchHolds == [][ks # "IDLE" => NoStart]_vars

LEMMA RecvHeld ==
  ASSUME IInv, NEW f \in Fd, NEW words \in Reads, Recv(f, words), ks # "IDLE"
  PROVE  \E r : /\ conn' = [conn EXCEPT ![f] = r]
                /\ r.accepted => conn[f].accepted
                /\ r.bench => conn[f].bench
  <1> DEFINE k == [conn[f] EXCEPT !.in = @ \o words, !.skip = 0]
             w == [k EXCEPT !.skip = conn[f].skip]
             d == [k EXCEPT !.in = <<>>]
             x(n) == [k EXCEPT !.in = <<>>, !.skip = n, !.dropped = "switch", !.timer = @ \/ TRUE]
  <1>1. conn[f] \in Conn
    BY DEF IInv, TypeOK
  <1>2. k.accepted = conn[f].accepted /\ k.bench = conn[f].bench
    BY <1>1 DEF Conn
  <1>3. /\ w.accepted = conn[f].accepted /\ w.bench = conn[f].bench
        /\ d.accepted = conn[f].accepted /\ d.bench = conn[f].bench
        /\ \A n : x(n).accepted = conn[f].accepted /\ x(n).bench = conn[f].bench
    BY <1>1 DEF Conn
  <1>4. \/ Keep(f, w) \/ Keep(f, d) \/ Close(f) \/ Drop(f, k, "switch", TRUE)
    BY DEF Recv, Drains, Dispatch
  <1>5. ASSUME Drop(f, k, "switch", TRUE) PROVE \E n : Keep(f, x(n))
    BY <1>5 DEF Drop
  <1> HIDE DEF k, w, d, x
  <1>6. ~NoConn.accepted /\ ~NoConn.bench
    BY DEF NoConn
  <1>7. CASE Close(f)
    BY <1>6, <1>7 DEF Close
  <1>8. QED  BY <1>3, <1>4, <1>5, <1>7, ZenonT(60) DEF Keep

LEMMA SwitchStep ==
  ASSUME IInv, [Next]_vars, ks # "IDLE"
  PROVE  NoStart
  <1>0. conn \in [Fd -> Conn] /\ ~NoConn.accepted /\ ~NoConn.bench
    BY DEF IInv, TypeOK, NoConn
  <1>1. ASSUME NEW f \in Fd, NEW r, conn' = [conn EXCEPT ![f] = r],
               r.accepted => conn[f].accepted, r.bench => conn[f].bench
        PROVE  NoStart
    <2>1. conn'[f] = r /\ \A h \in Fd \ {f} : conn'[h] = conn[h]
      BY <1>0, <1>1
    <2>2. QED  BY <1>1, <2>1 DEF NoStart
  <1>2. ASSUME NEW f \in Fd, NEW words \in Reads, Recv(f, words) PROVE NoStart
    BY <1>1, <1>2, RecvHeld
  <1>3. ASSUME NEW f \in Fd, Accept(f) PROVE NoStart
    <2> DEFINE r == [NoConn EXCEPT !.phase = "open", !.gen = gen', !.timer = TRUE]
    <2>1. ~r.accepted /\ ~r.bench
      BY <1>0 DEF NoConn
    <2>2. QED  BY <1>1, <1>3, <2>1 DEF Accept
  <1>4. ASSUME NEW f \in Fd, Ends(f) PROVE NoStart
    BY <1>0, <1>1, <1>4 DEF Ends, Close
  <1>5. ASSUME NEW f \in Fd, Alarm(f) PROVE NoStart
    <2> DEFINE k == [conn[f] EXCEPT !.timer = FALSE]
               l == [k EXCEPT !.phase = "relayed", !.in = <<>>]
    <2>1. /\ k.accepted = conn[f].accepted /\ k.bench = conn[f].bench
          /\ l.accepted = conn[f].accepted /\ l.bench = conn[f].bench
      BY <1>0 DEF Conn
    <2>2. Keep(f, k) \/ Keep(f, l)
      BY <1>5 DEF Alarm
    <2> HIDE DEF k, l
    <2>3. QED  BY <1>1, <2>1, <2>2 DEF Keep
  <1>6. ASSUME UNCHANGED conn PROVE NoStart
    BY <1>6 DEF NoStart
  <1>7. QED
    BY <1>2, <1>3, <1>4, <1>5, <1>6 DEF Next, vars, Discard, GoIdle, Touched, Poll

(* From the poll that saw the kill switch's file until the one that misses  *)
(* it, type3_dispatch_on_crypto_init starts no session and no bench.        *)
THEOREM SwitchSafety == Spec => SwitchHolds
  <1>1. IInv /\ [Next]_vars => [ks # "IDLE" => NoStart]_vars
    BY SwitchStep
  <1>2. QED  BY <1>1, Invariance, PTL DEF Spec, SwitchHolds

-----------------------------------------------------------------------------
(* ServerStream *)

\* What the wire carries.
Token == [t : {"part", "blank", "size", "eol", "data"}, n : Nat]

StreamTypes ==
  /\ StreamTypeOK
  /\ mode \in {"CHUNKED", "RAW"} /\ (crypto => transport # "NONE")
  /\ text \in Seq(Nat) /\ Len(text) <= MaxText /\ cut <= Pre + Len(text)
  /\ wire \in Seq(Token) /\ in_u \in Seq(Token) /\ got \in Seq(Nat)
  /\ transport = "NONE" => in \in Seq(Token)
  /\ transport # "NONE" => in \in Seq(Nat)
  /\ next \in {"gate", "parse"} /\ replies \in Nat

\* The reader decrypts after the keys are set and only unwraps before.
PlaceShape ==
  /\ pc = "decrypt" => crypto
  /\ pc = "unwrap" => ~crypto /\ transport = "CHUNKED"

\* Position p of the client's text begins a message, or the text ends before it.
Boundary(p) == p = Len(text) + 1 \/ (p \in 1..Len(text) /\ text[p] > 0)

\* The text is whole messages, back to back.
TextShape ==
  /\ Boundary(1)
  /\ \A p \in 1..Len(text) : text[p] > 0 => Boundary(p + text[p] + 1)

\* Units before the chunk that token j of the wire begins.
Before(j) == IF wire[j].n = 0 THEN cut ELSE wire[j + 2].n - 1

\* Token j of the wire begins the chunk behind unit p, or will when it comes.
ChunkAt(j, p) ==
  \/ j = Len(wire) + 1 /\ p = cut
  \/ j \in 1..Len(wire) /\ wire[j].t = "size" /\ p = Before(j)

\* The chunk that token j begins, of k units behind unit p, is whole, and another
\* one follows unless it is empty.
WholeChunk(j, k, p) ==
  /\ p \in Nat /\ p + k <= cut /\ j + k + 3 <= Len(wire)
  /\ \A i \in 1..k : wire[j + 1 + i] = Data(p + i)
  /\ k = 0 => j + 3 = Len(wire)
  /\ k # 0 => ChunkAt(j + k + 4, p + k)

\* The body is whole chunks over consecutive units, the empty one the last.
ChunksShape ==
  /\ ChunkAt(ReqLen + 1, 0)
  /\ \A j \in 1..Len(wire) : wire[j].t = "size" => WholeChunk(j, wire[j].n, Before(j))

WireShape ==
  /\ ReqLen <= Len(wire)
  /\ \A i \in 1..Len(wire) : wire[i] = Blank <=> i = ReqLen
  /\ mode = "RAW" => Len(wire) = ReqLen + cut
  /\ mode = "RAW" => \A i \in 1..cut : wire[ReqLen + i] = Data(i)
  /\ mode = "CHUNKED" => ChunksShape

\* Tokens of the wire that have been taken out of the framing.
Taken == nRecv - Len(in_u)

\* The reader stands in the wire where the units up to p are taken.
Unframed(p) ==
  /\ mode = "RAW" => Taken = ReqLen + p
  /\ mode = "CHUNKED" /\ remaining > 0 =>
       /\ header_state = 1
       /\ \A i \in 1..remaining : wire[Taken + i] = Data(p + i)
       /\ ChunkAt(Taken + remaining + 3, p + remaining)
  /\ mode = "CHUNKED" /\ remaining = 0 =>
       /\ header_state \in {0, 2}
       /\ ChunkAt(Taken + header_state + 1, p)

InputShape ==
  /\ Len(in_u) <= nRecv
  /\ \A i \in 1..Len(in_u) : in_u[i] = wire[Taken + i]

\* Before the request is taken, all that came is in in.
RequestShape == transport = "NONE" =>
  /\ Len(in) = nRecv /\ in_u = <<>> /\ remaining = 0 /\ header_state = 0
  /\ \A i \in 1..nRecv : in[i] = wire[i]

\* in holds the units of the header and the init, without the first h of them.
Opening(h) == Unframed(h + Len(in)) /\ \A i \in 1..Len(in) : in[i] = h + i

\* Between the request and the keys, the units of header and init are in in; the
\* header may have been taken alone.
HeadShape == transport # "NONE" /\ ~crypto =>
  /\ transport = "RAW" => in_u = <<>>
  /\ transport = "CHUNKED" => Len(in) <= Pre
  /\ Opening(0) \/ Opening(1)

\* With the keys, what was decrypted has been executed or is in in.
CipherShape ==
  /\ ~crypto => dec = 0 /\ got = <<>>
  /\ crypto => Unframed(Pre + dec)
  /\ crypto => Len(got) + Len(in) = dec
  /\ crypto => \A i \in 1..Len(got) : got[i] = Pre + i
  /\ crypto => \A i \in 1..Len(in) : in[i] = Pre + Len(got) + i
  /\ Boundary(Len(got) + 1)

\* The i-th thing the server sends.
Answer(i) == IF i = 1 THEN <<"clear", "response">> ELSE <<"cipher", i - 1>>

Item == Nat \cup {"response"}
Record == {"clear", "cipher"} \X Item

OutShape ==
  /\ out \in Seq(Item) /\ out_p \in Seq(Record) /\ sent \in Seq(Record)
  /\ ~crypto => replies = 0 /\ out_p = <<>>
  /\ transport = "NONE" => sent = <<>> /\ out = <<>>
  /\ transport # "NONE" /\ ~crypto =>
       \/ sent = <<>> /\ out = <<"response">>
       \/ sent = <<<<"clear", "response">>>> /\ out = <<>>
  /\ crypto =>
       /\ Len(sent) + Len(out_p) + Len(out) = replies + 1
       /\ \A i \in 1..Len(sent) : sent[i] = Answer(i)
       /\ \A i \in 1..Len(out_p) : out_p[i] = Answer(Len(sent) + i)
       /\ \A i \in 1..Len(out) : <<"cipher", out[i]>> = Answer(Len(sent) + Len(out_p) + i)

StreamInv ==
  /\ StreamTypes /\ PlaceShape /\ TextShape /\ WireShape /\ InputShape
  /\ RequestShape /\ HeadShape /\ CipherShape /\ OutShape

-----------------------------------------------------------------------------
(* Facts about the operators the model is built from *)

LEMMA StreamConsts ==
  /\ InitUnits \in Nat \ {0} /\ MinUnits \in Nat \ {0} /\ MinUnits <= InitUnits
  /\ ReqLen \in Nat \ {0} /\ Pre \in Nat /\ Pre = 1 + InitUnits
  /\ MaxHead \in Nat /\ MaxChunk \in Nat /\ MaxText \in Nat /\ MaxReplies \in Nat
  /\ ChunkSizes \subseteq Nat /\ ReadSizes \subseteq Nat
  /\ MsgLens \subseteq Nat \ {0} /\ \A L \in MsgLens : 1 + L >= MinUnits
BY ServerStreamAssumption DEF Pre

\* The two parts of a concatenation.
LEMMA ConcatFacts ==
  ASSUME NEW S, NEW s \in Seq(S), NEW t \in Seq(S)
  PROVE  /\ s \o t \in Seq(S) /\ Len(s) \in Nat /\ Len(t) \in Nat
         /\ Len(s \o t) = Len(s) + Len(t)
         /\ \A i \in 1..Len(s) : (s \o t)[i] = s[i]
         /\ \A i \in 1..Len(t) : (s \o t)[Len(s) + i] = t[i]
<1>1. Len(s) \in Nat /\ Len(t) \in Nat
  BY LenProperties
<1>2. s \o t \in Seq(S) /\ Len(s \o t) = Len(s) + Len(t)
  BY ConcatProperties
<1>3. \A i \in 1..(Len(s) + Len(t)) : (s \o t)[i] = IF i <= Len(s) THEN s[i] ELSE t[i - Len(s)]
  BY ConcatProperties
<1>4. \A i \in 1..Len(s) : (s \o t)[i] = s[i]
  BY <1>1, <1>3
<1>5. \A i \in 1..Len(t) : (s \o t)[Len(s) + i] = t[i]
  <2> TAKE i \in 1..Len(t)
  <2>1. /\ Len(s) + i \in 1..(Len(s) + Len(t)) /\ ~(Len(s) + i <= Len(s))
        /\ (Len(s) + i) - Len(s) = i
    BY <1>1
  <2>2. QED
    BY <1>3, <2>1
<1>6. QED
  BY <1>1, <1>2, <1>4, <1>5

\* A part of a sequence.
LEMMA PartFacts ==
  ASSUME NEW S, NEW s \in Seq(S), NEW m \in Nat, NEW n \in Nat, m + n <= Len(s)
  PROVE  /\ SubSeq(s, m + 1, m + n) \in Seq(S)
         /\ Len(SubSeq(s, m + 1, m + n)) = n
         /\ \A i \in 1..n : SubSeq(s, m + 1, m + n)[i] = s[m + i]
<1>1. \A i \in (m + 1)..(m + n) : s[i] \in S
  BY ElementOfSeq, LenProperties
<1>2. QED
  BY <1>1, SubSeqProperties, SMTT(60)

\* What is left of a sequence without its first n elements.
LEMMA RestFacts ==
  ASSUME NEW S, NEW s \in Seq(S), NEW n \in 0..Len(s)
  PROVE  /\ SubSeq(s, n + 1, Len(s)) \in Seq(S)
         /\ Len(SubSeq(s, n + 1, Len(s))) = Len(s) - n
         /\ \A i \in 1..(Len(s) - n) : SubSeq(s, n + 1, Len(s))[i] = s[n + i]
<1>1. Len(s) \in Nat
  BY LenProperties
<1>2. PICK k : k = Len(s) - n
  OBVIOUS
<1>3. n \in Nat /\ k \in Nat /\ n + k = Len(s) /\ n + k <= Len(s)
  BY <1>1, <1>2
<1>4. /\ SubSeq(s, n + 1, n + k) \in Seq(S)
      /\ Len(SubSeq(s, n + 1, n + k)) = k
      /\ \A i \in 1..k : SubSeq(s, n + 1, n + k)[i] = s[n + i]
  BY <1>3, PartFacts
<1>5. QED
  BY <1>2, <1>3, <1>4

\* The first n elements of a sequence.
LEMMA FirstFacts ==
  ASSUME NEW S, NEW s \in Seq(S), NEW n \in 0..Len(s)
  PROVE  /\ SubSeq(s, 1, n) \in Seq(S)
         /\ Len(SubSeq(s, 1, n)) = n
         /\ \A i \in 1..n : SubSeq(s, 1, n)[i] = s[i]
<1>1. Len(s) \in Nat
  BY LenProperties
<1>2. n \in Nat /\ 0 + n <= Len(s) /\ 0 + 1 = 1 /\ 0 + n = n /\ 0 \in Nat
  BY <1>1
<1>3. /\ SubSeq(s, 0 + 1, 0 + n) \in Seq(S)
      /\ Len(SubSeq(s, 0 + 1, 0 + n)) = n
      /\ \A i \in 1..n : SubSeq(s, 0 + 1, 0 + n)[i] = s[0 + i]
  BY <1>2, PartFacts
<1>4. QED
  BY <1>2, <1>3

\* The tokens are tokens, and each is of its own kind.
LEMMA TokenFacts ==
  /\ Part \in Token /\ Blank \in Token /\ Eol \in Token
  /\ \A k \in Nat : Size(k) \in Token /\ Data(k) \in Token
  /\ Part # Blank /\ Eol # Blank /\ \A k \in Nat : Size(k) # Blank /\ Data(k) # Blank
  /\ \A k \in Nat : Size(k).t = "size" /\ Size(k).n = k /\ Data(k).t = "data" /\ Data(k).n = k
  /\ Part.t # "size" /\ Blank.t # "size" /\ Eol.t # "size"
BY DEF Token, Part, Blank, Eol, Size, Data

\* A chunk, token by token.
LEMMA ChunkFacts ==
  ASSUME NEW k \in Nat, NEW p \in Nat
  PROVE  /\ Chunk(k, p) \in Seq(Token) /\ Len(Chunk(k, p)) = k + 4
         /\ Chunk(k, p)[1] = Size(k) /\ Chunk(k, p)[2] = Eol
         /\ \A i \in 1..k : Chunk(k, p)[2 + i] = Data(p + i)
         /\ Chunk(k, p)[k + 3] = Eol /\ Chunk(k, p)[k + 4] = Eol
<1> DEFINE a == <<Size(k), Eol>>
           b == [i \in 1..k |-> Data(p + i)]
           c == <<Eol, Eol>>
<1>1. a \in Seq(Token) /\ Len(a) = 2 /\ a[1] = Size(k) /\ a[2] = Eol
  BY TokenFacts
<1>2. b \in Seq(Token) /\ Len(b) = k /\ \A i \in 1..k : b[i] = Data(p + i)
  <2>1. \A i \in 1..k : Data(p + i) \in Token
    BY TokenFacts
  <2>2. QED
    BY <2>1
<1>3. c \in Seq(Token) /\ Len(c) = 2 /\ c[1] = Eol /\ c[2] = Eol
  BY TokenFacts
<1> HIDE DEF a, b, c
<1>4. /\ a \o b \in Seq(Token) /\ Len(a \o b) = 2 + k
      /\ \A i \in 1..2 : (a \o b)[i] = a[i]
      /\ \A i \in 1..k : (a \o b)[2 + i] = b[i]
  <2>1. /\ a \o b \in Seq(Token) /\ Len(a \o b) = Len(a) + Len(b)
        /\ \A i \in 1..Len(a) : (a \o b)[i] = a[i]
        /\ \A i \in 1..Len(b) : (a \o b)[Len(a) + i] = b[i]
    <3>1. a \in Seq(Token) /\ b \in Seq(Token)
      BY <1>1, <1>2
    <3>2. QED
      BY <3>1, ConcatFacts
  <2>2. QED
    BY <1>1, <1>2, <2>1
<1> DEFINE d == a \o b
<1>d. d \in Seq(Token) /\ Len(d) = 2 + k
  BY <1>4
<1>e. d = a \o b
  OBVIOUS
<1> HIDE DEF d
<1>5. /\ d \o c \in Seq(Token) /\ Len(d \o c) = (2 + k) + 2
      /\ \A i \in 1..(2 + k) : (d \o c)[i] = d[i]
      /\ \A i \in 1..2 : (d \o c)[(2 + k) + i] = c[i]
  <2>1. /\ d \o c \in Seq(Token) /\ Len(d \o c) = Len(d) + Len(c)
        /\ \A i \in 1..Len(d) : (d \o c)[i] = d[i]
        /\ \A i \in 1..Len(c) : (d \o c)[Len(d) + i] = c[i]
    <3>1. d \in Seq(Token) /\ c \in Seq(Token)
      BY <1>d, <1>3
    <3>2. QED
      BY <3>1, ConcatFacts
  <2>2. QED
    BY <1>d, <1>3, <2>1
<1>6. Chunk(k, p) = d \o c
  BY DEF Chunk, a, b, c, d
<1>7. (2 + k) + 1 = k + 3 /\ (2 + k) + 2 = k + 4 /\ 1 \in 1..2 /\ 2 \in 1..2
      /\ 1 \in 1..(2 + k) /\ 2 \in 1..(2 + k)
  OBVIOUS
<1>8. \A i \in 1..k : 2 + i \in 1..(2 + k)
  OBVIOUS
<1>9. (d \o c)[k + 3] = Eol /\ (d \o c)[k + 4] = Eol
  BY <1>3, <1>5, <1>7
<1>10. (d \o c)[1] = Size(k) /\ (d \o c)[2] = Eol
  BY <1>1, <1>4, <1>e, <1>5, <1>7
<1>11. \A i \in 1..k : (d \o c)[2 + i] = Data(p + i)
  BY <1>2, <1>4, <1>e, <1>5, <1>8
<1>12. QED
  BY <1>5, <1>6, <1>7, <1>9, <1>10, <1>11

\* The lengths and types the steps below rely on.
LEMMA StreamFacts ==
  ASSUME StreamInv
  PROVE  /\ Len(text) \in Nat /\ Len(wire) \in Nat /\ Len(in_u) \in Nat /\ Len(got) \in Nat
         /\ Len(in) \in Nat /\ nRecv \in Nat /\ nRecv <= Len(wire) /\ cut \in Nat
         /\ Taken \in Nat /\ Taken = nRecv - Len(in_u) /\ Len(in_u) <= nRecv
         /\ dec \in Nat /\ remaining \in Nat /\ crypto \in BOOLEAN
         /\ header_state \in 0..2
         /\ \A i \in 1..Len(wire) : wire[i] \in Token /\ wire[i].n \in Nat
         /\ mode = "CHUNKED" \/ mode = "RAW"
         /\ transport = "NONE" \/ transport = mode
<1>1. /\ text \in Seq(Nat) /\ wire \in Seq(Token) /\ in_u \in Seq(Token) /\ got \in Seq(Nat)
      /\ in \in Seq(Token) \/ in \in Seq(Nat)
  BY DEF StreamInv, StreamTypes
<1>2. /\ Len(text) \in Nat /\ Len(wire) \in Nat /\ Len(in_u) \in Nat /\ Len(got) \in Nat
      /\ Len(in) \in Nat
  BY <1>1, LenProperties
<1>3. /\ nRecv \in Nat /\ nRecv <= Len(wire) /\ cut \in Nat /\ dec \in Nat /\ remaining \in Nat
      /\ crypto \in BOOLEAN /\ header_state \in 0..2
      /\ mode = "CHUNKED" \/ mode = "RAW"
      /\ transport = "NONE" \/ transport = mode
  BY <1>2, StreamConsts DEF StreamInv, StreamTypes, StreamTypeOK
<1>4. Len(in_u) <= nRecv /\ Taken = nRecv - Len(in_u)
  BY DEF StreamInv, InputShape, Taken
<1>5. Taken \in Nat
  BY <1>2, <1>3, <1>4
<1>6. \A i \in 1..Len(wire) : wire[i] \in Token /\ wire[i].n \in Nat
  <2> TAKE i \in 1..Len(wire)
  <2>1. wire[i] \in Token
    BY <1>1, ElementOfSeq
  <2>2. QED
    BY <2>1 DEF Token
<1>7. QED
  BY <1>2, <1>3, <1>4, <1>5, <1>6

\* What the steps that only move the job leave as it is.
Untouched == UNCHANGED <<client, nRecv, in, in_u, transport, framing, crypto, dec, back, got>>

\* Such a step keeps the invariant when the place and the count are of their type.
LEMMA QuietInv ==
  ASSUME StreamInv, Untouched, skip' \in Nat, next' \in {"gate", "parse"},
         pc' \in {"idle", "unwrap", "decrypt", "gate", "parse", "write", "last", "lost", "failed"},
         pc' = "decrypt" => crypto,
         pc' = "unwrap" => ~crypto /\ transport = "CHUNKED"
  PROVE  StreamInv'
<1> USE DEF Untouched, client, framing, back
<1>1. StreamTypes' /\ PlaceShape'
  BY DEF StreamInv, StreamTypes, StreamTypeOK, PlaceShape
<1>2. TextShape' /\ WireShape'
  BY DEF StreamInv, TextShape, WireShape, Boundary, ChunksShape, ChunkAt, WholeChunk, Before
<1>3. InputShape' /\ RequestShape' /\ OutShape'
  BY DEF StreamInv, InputShape, RequestShape, OutShape, Taken
<1>4. HeadShape'
  BY DEF StreamInv, HeadShape, Opening, Unframed, ChunkAt, Before, Taken
<1>5. CipherShape'
  BY DEF StreamInv, CipherShape, Unframed, ChunkAt, Before, Taken, Boundary
<1>6. QED
  BY <1>1, <1>2, <1>3, <1>4, <1>5 DEF StreamInv

LEMMA InitStream == StreamInit => StreamInv
<1> SUFFICES ASSUME StreamInit PROVE StreamInv
  OBVIOUS
<1> USE DEF StreamInit
<1>1. \A S : <<>> \in Seq(S) /\ Len(<<>>) = 0
  BY EmptySeq
<1>2. /\ wire \in Seq(Token) /\ Len(wire) = ReqLen
      /\ \A i \in 1..ReqLen : wire[i] = IF i = ReqLen THEN Blank ELSE Part
  BY TokenFacts, StreamConsts
<1>3. StreamTypes /\ PlaceShape
  <2>1. StreamTypeOK
    <3>1. /\ transport \in {"NONE", mode} /\ header_state \in 0..2 /\ skip \in Nat
          /\ pc \in {"idle", "unwrap", "decrypt", "gate", "parse", "write", "last", "lost", "failed"}
      OBVIOUS
    <3>a. crypto \in BOOLEAN
      OBVIOUS
    <3>2. /\ remaining \in 0..MaxChunk /\ dec \in 0..MaxText /\ nRecv \in 0..Len(wire)
          /\ cut \in 0..(Pre + MaxText)
      BY <1>2, StreamConsts
    <3>3. QED
      BY <3>1, <3>a, <3>2 DEF StreamTypeOK
  <2>2. Len(text) <= MaxText /\ cut <= Pre + Len(text)
    BY <1>1, StreamConsts
  <2>3. QED
    BY <1>1, <1>2, <2>1, <2>2 DEF StreamTypes, PlaceShape
<1>4. TextShape
  BY <1>1 DEF TextShape, Boundary
<1>5. WireShape
  <2>1. \A i \in 1..Len(wire) : wire[i] = Blank <=> i = ReqLen
    BY <1>2, TokenFacts
  <2>2. \A i \in 1..Len(wire) : wire[i].t # "size"
    BY <1>2, TokenFacts
  <2>3. ChunksShape
    BY <1>2, <2>2 DEF ChunksShape, ChunkAt
  <2>4. QED
    BY <1>2, <2>1, <2>3, StreamConsts DEF WireShape
<1>6. InputShape /\ RequestShape /\ HeadShape /\ CipherShape
  BY <1>1 DEF InputShape, RequestShape, HeadShape, CipherShape, Boundary
<1>7. OutShape
  BY <1>1 DEF OutShape
<1>8. QED
  BY <1>3, <1>4, <1>5, <1>6, <1>7 DEF StreamInv

-----------------------------------------------------------------------------
(* What the parts of the invariant share *)

\* Steps of the job leave what the client has sent as it is.
LEMMA ClientSame ==
  ASSUME StreamInv, UNCHANGED client
  PROVE  /\ TextShape' /\ WireShape'
         /\ \A j, p : ChunkAt(j, p) => ChunkAt(j, p)'
         /\ \A p : Boundary(p) => Boundary(p)'
<1> USE DEF client
<1>1. TextShape'
  BY DEF StreamInv, TextShape, Boundary
<1>2. WireShape'
  BY DEF StreamInv, WireShape, ChunksShape, ChunkAt, WholeChunk, Before
<1>3. \A j, p : ChunkAt(j, p) => ChunkAt(j, p)'
  BY DEF ChunkAt, Before
<1>4. \A p : Boundary(p) => Boundary(p)'
  BY DEF Boundary
<1>5. QED
  BY <1>1, <1>2, <1>3, <1>4

LEMMA BackSame ==
  ASSUME StreamInv, UNCHANGED <<back, crypto, transport>>
  PROVE  OutShape'
BY DEF StreamInv, OutShape, back, Answer

\* Where the reader stands is within what was sent.
LEMMA ChunkBound ==
  ASSUME StreamInv, mode = "CHUNKED", NEW j, NEW p, ChunkAt(j, p)
  PROVE  j \in 1..(Len(wire) + 1) /\ p \in Nat /\ p <= cut
<1>1. CASE j = Len(wire) + 1 /\ p = cut
  BY <1>1, StreamFacts
<1>2. CASE j \in 1..Len(wire) /\ wire[j].t = "size" /\ p = Before(j)
  <2>1. WholeChunk(j, wire[j].n, Before(j)) /\ wire[j].n \in Nat
    BY <1>2, StreamFacts DEF StreamInv, WireShape, ChunksShape
  <2>2. p \in Nat /\ p + wire[j].n <= cut
    BY <1>2, <2>1 DEF WholeChunk
  <2>3. wire[j].n \in Nat /\ Len(wire) \in Nat /\ cut \in Nat
    BY <2>1, StreamFacts
  <2>4. p <= cut
    BY <2>2, <2>3
  <2>5. j \in 1..(Len(wire) + 1)
    BY <1>2, <2>3
  <2>6. QED
    BY <2>2, <2>4, <2>5
<1>3. QED
  BY <1>1, <1>2 DEF ChunkAt

\* No unit is taken that was not sent.
LEMMA UnitBound ==
  ASSUME StreamInv, NEW p \in Nat, Unframed(p)
  PROVE  /\ p <= cut
         /\ mode = "CHUNKED" /\ remaining > 0 => p + remaining <= cut
<1>1. CASE mode = "RAW"
  <2>1. Taken = ReqLen + p /\ Len(wire) = ReqLen + cut
    BY <1>1 DEF Unframed, StreamInv, WireShape
  <2>2. QED
    BY <1>1, <2>1, StreamFacts, StreamConsts
<1>2. CASE mode = "CHUNKED" /\ remaining > 0
  <2>1. ChunkAt(Taken + remaining + 3, p + remaining)
    BY <1>2 DEF Unframed
  <2>2. \A j, q : ChunkAt(j, q) => q <= cut
    BY <1>2, ChunkBound
  <2>3. p + remaining <= cut
    BY <2>1, <2>2
  <2>4. QED
    BY <2>3, StreamFacts
<1>3. CASE mode = "CHUNKED" /\ remaining = 0
  <2>1. ChunkAt(Taken + header_state + 1, p)
    BY <1>3 DEF Unframed
  <2>2. p <= cut
    BY <1>3, <2>1, ChunkBound
  <2>3. QED
    BY <1>3, <2>2
<1>4. QED
  BY <1>1, <1>2, <1>3, StreamFacts

\* Where the reader stands depends on no more than this.
LEMMA UnframedSame ==
  ASSUME StreamInv, UNCHANGED client, UNCHANGED framing, Taken' = Taken
  PROVE  \A p : Unframed(p) => Unframed(p)'
<1>1. \A j, p : ChunkAt(j, p) => ChunkAt(j, p)'
  BY ClientSame
<1>2. QED
  BY <1>1 DEF Unframed, client, framing

-----------------------------------------------------------------------------
(* The client *)

\* A message more: the text is still whole messages.
LEMMA MessageText ==
  ASSUME StreamInv, NEW L \in MsgLens, ClientMessage(L)
  PROVE  /\ text' \in Seq(Nat) /\ Len(text') = Len(text) + 1 + L
         /\ TextShape' /\ \A p : Boundary(p) => Boundary(p)'
<1> DEFINE n == Len(text)
           z == [i \in 1..L |-> 0]
           u == text \o <<L>>
<1>1. L \in Nat \ {0} /\ n \in Nat /\ text \in Seq(Nat)
  BY StreamConsts, StreamFacts DEF StreamInv, StreamTypes
<1>2. <<L>> \in Seq(Nat) /\ Len(<<L>>) = 1 /\ <<L>>[1] = L
  BY <1>1
<1>3. z \in Seq(Nat) /\ Len(z) = L /\ \A i \in 1..L : z[i] = 0
  BY <1>1
<1>4. u \in Seq(Nat) /\ Len(u) = n + 1 /\ u[n + 1] = L /\ \A i \in 1..n : u[i] = text[i]
  <2>1. text \in Seq(Nat) /\ <<L>> \in Seq(Nat)
    BY <1>1, <1>2
  <2>2. /\ u \in Seq(Nat) /\ Len(u) = n + Len(<<L>>)
        /\ \A i \in 1..n : u[i] = text[i]
        /\ \A i \in 1..Len(<<L>>) : u[n + i] = <<L>>[i]
    BY <2>1, ConcatFacts
  <2>3. 1 \in 1..Len(<<L>>)
    BY <1>2
  <2>4. u[n + 1] = L
    BY <2>2, <2>3, <1>2
  <2>5. QED
    BY <2>2, <2>4, <1>2
<1>5. text' = u \o z
  BY DEF ClientMessage
<1> HIDE DEF z, u
<1>6. /\ text' \in Seq(Nat) /\ Len(text') = Len(u) + Len(z)
      /\ \A i \in 1..Len(u) : text'[i] = u[i]
      /\ \A i \in 1..Len(z) : text'[Len(u) + i] = z[i]
  <2>1. u \in Seq(Nat) /\ z \in Seq(Nat)
    BY <1>3, <1>4
  <2>2. QED
    BY <1>5, <2>1, ConcatFacts
<1>7. /\ Len(text') = n + 1 + L
      /\ \A i \in 1..n : text'[i] = text[i]
      /\ text'[n + 1] = L
      /\ \A i \in 1..L : text'[n + 1 + i] = 0
  <2>1. Len(text') = n + 1 + L
    BY <1>1, <1>3, <1>4, <1>6
  <2>2. \A i \in 1..(n + 1) : text'[i] = u[i]
    BY <1>4, <1>6
  <2>3. \A i \in 1..L : text'[n + 1 + i] = 0
    BY <1>3, <1>4, <1>6
  <2>4. QED
    BY <1>1, <1>4, <2>1, <2>2, <2>3
<1> HIDE DEF n
<1>8. \A p \in 1..n + 1 : Boundary(p) => Boundary(p)'
  BY <1>1, <1>7 DEF Boundary, n
<1>9. \A p : Boundary(p) => p \in 1..n + 1
  BY <1>1 DEF Boundary, n
<1>10. \A p : Boundary(p) => Boundary(p)'
  BY <1>8, <1>9
<1>11. TextShape'
  <2>1. Boundary(1)'
    BY <1>10 DEF StreamInv, TextShape
  <2>2. ASSUME NEW p \in 1..Len(text'), text'[p] > 0
        PROVE  Boundary(p + text[p] + 1)'
    <3>1. CASE p \in 1..n
      <4>1. text'[p] = text[p] /\ text[p] > 0 /\ p \in 1..Len(text)
        BY <3>1, <1>7, <2>2 DEF n
      <4>2. Boundary(p + text[p] + 1)
        BY <4>1 DEF StreamInv, TextShape
      <4>3. PICK q : q = p + text[p] + 1
        OBVIOUS
      <4>4. Boundary(q)'
        BY <4>2, <4>3, <1>10
      <4>5. q = (p + text[p] + 1)'
        BY <4>1, <4>3
      <4>6. QED
        BY <4>4, <4>5 DEF Boundary
    <3>2. CASE p = n + 1
      <4>1. p + text'[p] + 1 = Len(text') + 1
        BY <3>2, <1>1, <1>7
      <4>2. QED
        BY <4>1 DEF Boundary
    <3>3. CASE p \in (n + 2)..(n + 1 + L)
      <4>1. p - n - 1 \in 1..L /\ n + 1 + (p - n - 1) = p
        BY <3>3, <1>1
      <4>2. text'[p] = 0
        BY <4>1, <1>7
      <4>3. QED
        BY <4>2, <2>2
    <3>4. QED
      BY <1>1, <1>7, <2>2, <3>1, <3>2, <3>3
  <2>3. QED
    BY <2>1, <2>2 DEF TextShape
<1>12. QED
  BY <1>6, <1>7, <1>10, <1>11 DEF n

LEMMA MessageStream ==
  ASSUME StreamInv, NEW L \in MsgLens, ClientMessage(L)
  PROVE  StreamInv'
<1> USE DEF ClientMessage, framing, back
<1>1. /\ text' \in Seq(Nat) /\ Len(text') = Len(text) + 1 + L
      /\ TextShape' /\ \A p : Boundary(p) => Boundary(p)'
  BY MessageText
<1>2. Len(text) \in Nat /\ L \in Nat /\ cut \in Nat
  BY StreamFacts, StreamConsts
<1>3. StreamTypes' /\ PlaceShape'
  <2>1. Len(text') <= MaxText /\ cut <= Pre + Len(text')
    BY <1>1, <1>2, StreamConsts DEF StreamInv, StreamTypes
  <2>2. QED
    BY <1>1, <2>1 DEF StreamInv, StreamTypes, StreamTypeOK, PlaceShape
<1>4. WireShape' /\ InputShape' /\ RequestShape' /\ OutShape'
  <2>1. WireShape'
    BY DEF StreamInv, WireShape, ChunksShape, ChunkAt, WholeChunk, Before
  <2>2. InputShape' /\ RequestShape'
    BY DEF StreamInv, InputShape, RequestShape, Taken
  <2>3. OutShape'
    BY BackSame DEF back
  <2>4. QED
    BY <2>1, <2>2, <2>3
<1>5. HeadShape'
  BY DEF StreamInv, HeadShape, Opening, Unframed, ChunkAt, Before, Taken
<1>6. CipherShape'
  BY <1>1 DEF StreamInv, CipherShape, Unframed, ChunkAt, Before, Taken
<1>7. QED
  BY <1>1, <1>3, <1>4, <1>5, <1>6 DEF StreamInv

\* A chunk more: tokens of it that begin no chunk, and the one that does.
LEMMA ChunkWire ==
  ASSUME StreamInv, NEW k \in ChunkSizes, ClientChunk(k), mode = "CHUNKED"
  PROVE  /\ wire' \in Seq(Token) /\ Len(wire') = Len(wire) + k + 4 /\ k \in Nat
         /\ \A i \in 1..Len(wire) : wire'[i] = wire[i]
         /\ wire'[Len(wire) + 1] = Size(k)
         /\ \A i \in 1..k : wire'[Len(wire) + 2 + i] = Data(cut + i)
         /\ \A i \in (Len(wire) + 2)..Len(wire') : wire'[i].t # "size" /\ wire'[i] # Blank
<1> DEFINE n == Len(wire)
           c == Chunk(k, cut)
<1>1. k \in Nat /\ cut \in Nat /\ n \in Nat /\ wire \in Seq(Token)
  BY StreamConsts, StreamFacts DEF StreamInv, StreamTypes
<1>2. /\ c \in Seq(Token) /\ Len(c) = k + 4 /\ c[1] = Size(k) /\ c[2] = Eol
      /\ \A i \in 1..k : c[2 + i] = Data(cut + i)
      /\ c[k + 3] = Eol /\ c[k + 4] = Eol
  BY <1>1, ChunkFacts
<1>3. wire' = wire \o c
  BY DEF ClientChunk
<1> HIDE DEF c
<1>4. /\ wire' \in Seq(Token) /\ Len(wire') = n + Len(c)
      /\ \A i \in 1..n : wire'[i] = wire[i]
      /\ \A i \in 1..Len(c) : wire'[n + i] = c[i]
  <2>1. c \in Seq(Token) /\ wire \in Seq(Token)
    BY <1>1, <1>2
  <2>2. QED
    BY <1>3, <2>1, ConcatFacts
<1> HIDE DEF n
<1>5. \A i \in 1..(k + 4) : wire'[n + i] = c[i]
  BY <1>2, <1>4
<1>6. 1 \in 1..(k + 4) /\ \A i \in 1..k : 2 + i \in 1..(k + 4) /\ n + (2 + i) = n + 2 + i
  BY <1>1
<1>7. wire'[n + 1] = Size(k) /\ \A i \in 1..k : wire'[n + 2 + i] = Data(cut + i)
  BY <1>2, <1>5, <1>6
<1>8. ASSUME NEW i \in 2..(k + 4)
      PROVE  c[i].t # "size" /\ c[i] # Blank
  <2>1. CASE i = 2 \/ i = k + 3 \/ i = k + 4
    BY <1>2, <2>1, TokenFacts
  <2>2. CASE i - 2 \in 1..k
    <3>1. c[i] = Data(cut + (i - 2)) /\ cut + (i - 2) \in Nat
      <4>1. c[2 + (i - 2)] = Data(cut + (i - 2))
        BY <1>2, <2>2
      <4>2. 2 + (i - 2) = i /\ cut + (i - 2) \in Nat
        BY <1>1, <2>2
      <4>3. QED
        BY <4>1, <4>2
    <3>2. QED
      BY <3>1, TokenFacts
  <2>3. QED
    BY <1>1, <2>1, <2>2
<1>9. ASSUME NEW i \in (n + 2)..(n + k + 4)
      PROVE  wire'[i].t # "size" /\ wire'[i] # Blank
  <2>1. i - n \in 2..(k + 4) /\ i - n \in 1..(k + 4) /\ n + (i - n) = i
    BY <1>1, <1>9
  <2>2. wire'[i] = c[i - n]
    BY <1>5, <2>1
  <2>3. QED
    BY <1>8, <2>1, <2>2
<1>10. Len(wire') = n + k + 4
  BY <1>1, <1>2, <1>4
<1>11. QED
  BY <1>1, <1>4, <1>7, <1>9, <1>10 DEF n

\* The chunks that were there are still chunks.
LEMMA ChunkGrows ==
  ASSUME StreamInv, NEW k \in ChunkSizes, ClientChunk(k), mode = "CHUNKED"
  PROVE  /\ \A j, p : ChunkAt(j, p) => ChunkAt(j, p)'
         /\ ChunksShape'
<1>0. PICK n : n = Len(wire)
  OBVIOUS
<1>a. PICK q : q = cut
  OBVIOUS
<1>1. /\ wire' \in Seq(Token) /\ Len(wire') = n + k + 4 /\ k \in Nat
      /\ \A i \in 1..n : wire'[i] = wire[i]
      /\ wire'[n + 1] = Size(k)
      /\ \A i \in 1..k : wire'[n + 2 + i] = Data(q + i)
      /\ \A i \in (n + 2)..Len(wire') : wire'[i].t # "size" /\ wire'[i] # Blank
  BY <1>0, <1>a, ChunkWire
<1>2. n \in Nat /\ q \in Nat /\ cut' = q + k
  BY <1>0, <1>a, StreamFacts DEF ClientChunk
<1>3. Size(k).n = k /\ Size(k).t = "size" /\ \A i \in Nat : Data(i).n = i
  BY <1>1, TokenFacts
<1>4. Before(n + 1)' = q
  <2>1. CASE k = 0
    <3>1. wire'[n + 1].n = 0 /\ cut' = q
      BY <2>1, <1>1, <1>2, <1>3
    <3>2. QED
      BY <3>1 DEF Before
  <2>2. CASE k # 0
    <3>1. 1 \in 1..k /\ n + 2 + 1 = n + 1 + 2 /\ q + 1 \in Nat
      BY <2>2, <1>1, <1>2, SMTT(30)
    <3>2. wire'[n + 1 + 2].n = q + 1
      BY <3>1, <1>1, <1>3
    <3>3. Before(n + 1)' = wire'[n + 1 + 2].n - 1
      <4>1. wire'[n + 1].n # 0
        BY <2>2, <1>1, <1>3
      <4>2. QED
        BY <4>1 DEF Before
    <3>4. QED
      BY <3>2, <3>3, <1>2
  <2>3. QED
    BY <2>1, <2>2
<1>5. ASSUME NEW j \in 1..n, wire[j].t = "size"
      PROVE  /\ wire[j].n \in Nat \ {0} /\ Before(j)' = Before(j)
             /\ WholeChunk(j, wire[j].n, Before(j))
  <2>1. wire[j] \in Token /\ wire[j].n \in Nat
    BY <1>0, StreamFacts
  <2>2. wire[j].n # 0
    <3>1. wire[j] # Size(0)
      BY <1>0, <1>5 DEF ClientChunk
    <3>2. QED
      BY <1>5, <2>1, <3>1 DEF Token, Size
  <2>3. WholeChunk(j, wire[j].n, Before(j))
    BY <1>0, <1>5 DEF StreamInv, WireShape, ChunksShape
  <2>4. j + 2 \in 1..n
    BY <1>0, <1>2, <2>1, <2>2, <2>3 DEF WholeChunk
  <2>5. QED
    BY <1>1, <2>1, <2>2, <2>3, <2>4 DEF Before
<1>6. ASSUME NEW j, NEW p, ChunkAt(j, p)
      PROVE  ChunkAt(j, p)'
  <2>1. CASE j = n + 1 /\ p = q
    <3>1. j \in 1..Len(wire') /\ wire'[j].t = "size" /\ p = Before(j)'
      BY <2>1, <1>1, <1>2, <1>3, <1>4
    <3>2. QED
      BY <3>1 DEF ChunkAt
  <2>2. CASE j \in 1..n /\ wire[j].t = "size" /\ p = Before(j)
    <3>1. j \in 1..Len(wire') /\ wire'[j].t = "size" /\ p = Before(j)'
      BY <2>2, <1>1, <1>2, <1>5
    <3>2. QED
      BY <3>1 DEF ChunkAt
  <2>3. QED
    BY <1>0, <1>a, <1>6, <2>1, <2>2 DEF ChunkAt
<1>7. ASSUME NEW j \in 1..n, wire[j].t = "size", NEW m, m = wire[j].n, NEW p, p = Before(j)
      PROVE  WholeChunk(j, m, p)'
  <2>1. WholeChunk(j, m, p) /\ m \in Nat \ {0}
    BY <1>5, <1>7
  <2>2. p \in Nat /\ p + m <= cut' /\ j + m + 3 <= Len(wire')
    <3>1. p \in Nat /\ p + m <= q /\ j + m + 3 <= n
      BY <2>1, <1>0, <1>a DEF WholeChunk
    <3>2. k \in Nat /\ n \in Nat /\ q \in Nat /\ cut' = q + k /\ Len(wire') = n + k + 4
      BY <1>1, <1>2
    <3>3. QED
      BY <2>1, <3>1, <3>2
  <2>3. \A i \in 1..m : wire'[j + 1 + i] = Data(p + i)
    <3> TAKE i \in 1..m
    <3>1. j + 1 + i \in 1..n
      BY <1>0, <2>1, <1>2 DEF WholeChunk
    <3>2. QED
      BY <2>1, <3>1, <1>1 DEF WholeChunk
  <2>4. ChunkAt(j + m + 4, p + m)'
    BY <2>1, <1>6 DEF WholeChunk
  <2>5. QED
    BY <2>1, <2>2, <2>3, <2>4 DEF WholeChunk
<1>8. WholeChunk(n + 1, k, q)'
  <2>2. q \in Nat /\ q + k <= cut' /\ (n + 1) + k + 3 <= Len(wire')
        /\ (k = 0 => (n + 1) + 3 = Len(wire'))
    BY <1>1, <1>2
  <2>3. \A i \in 1..k : wire'[(n + 1) + 1 + i] = Data(q + i)
    <3> TAKE i \in 1..k
    <3>1. (n + 1) + 1 + i = n + 2 + i
      BY <1>1, <1>2
    <3>2. QED
      BY <3>1, <1>1
  <2>4. (n + 1) + k + 4 = Len(wire') + 1 /\ q + k = cut'
    BY <1>1, <1>2
  <2>5. ChunkAt((n + 1) + k + 4, q + k)'
    BY <2>4 DEF ChunkAt
  <2>6. QED
    BY <2>2, <2>3, <2>5 DEF WholeChunk
<1>9. ChunkAt(ReqLen + 1, 0)'
  BY <1>6 DEF StreamInv, WireShape, ChunksShape
<1>10. ASSUME NEW j \in 1..Len(wire'), wire'[j].t = "size"
       PROVE  WholeChunk(j, wire[j].n, Before(j))'
  <2>1. PICK m, p : m = wire'[j].n /\ p = Before(j)'
    OBVIOUS
  <2>2. WholeChunk(j, m, p)'
    <3>1. CASE j \in 1..n
      <4>1. wire[j].t = "size" /\ m = wire[j].n
        BY <3>1, <2>1, <1>1, <1>10
      <4>2. p = Before(j)
        BY <3>1, <2>1, <4>1, <1>5
      <4>3. QED
        BY <3>1, <4>1, <4>2, <1>7
    <3>2. CASE j = n + 1
      <4>1. m = k /\ p = q
        BY <3>2, <2>1, <1>1, <1>3, <1>4
      <4>2. QED
        BY <3>2, <4>1, <1>8
    <3>3. CASE j \in (n + 2)..Len(wire')
      BY <3>3, <1>1, <1>10
    <3>4. QED
      BY <1>1, <1>2, <1>10, <3>1, <3>2, <3>3
  <2>3. QED
    BY <2>1, <2>2 DEF WholeChunk
<1>11. ChunksShape'
  BY <1>9, <1>10 DEF ChunksShape
<1>12. QED
  BY <1>6, <1>11

\* Behind nginx the units come one by one.
LEMMA RawWire ==
  ASSUME StreamInv, NEW k \in ChunkSizes, ClientChunk(k), mode = "RAW"
  PROVE  /\ wire' \in Seq(Token) /\ Len(wire') = Len(wire) + k /\ k \in Nat
         /\ \A i \in 1..Len(wire) : wire'[i] = wire[i]
         /\ \A i \in 1..k : wire'[Len(wire) + i] = Data(cut + i)
         /\ \A i \in (Len(wire) + 1)..Len(wire') : wire'[i] # Blank
<1> DEFINE c == [i \in 1..k |-> Data(cut + i)]
<1>1. k \in Nat /\ cut \in Nat /\ Len(wire) \in Nat /\ wire \in Seq(Token)
  BY StreamConsts, StreamFacts DEF StreamInv, StreamTypes
<1>2. c \in Seq(Token) /\ Len(c) = k /\ \A i \in 1..k : c[i] = Data(cut + i)
  <2>1. \A i \in 1..k : Data(cut + i) \in Token
    BY <1>1, TokenFacts
  <2>2. QED
    BY <1>1, <2>1
<1>3. wire' = wire \o c
  BY DEF ClientChunk
<1> HIDE DEF c
<1>4. /\ wire' \in Seq(Token) /\ Len(wire') = Len(wire) + Len(c)
      /\ \A i \in 1..Len(wire) : wire'[i] = wire[i]
      /\ \A i \in 1..Len(c) : wire'[Len(wire) + i] = c[i]
  <2>1. c \in Seq(Token) /\ wire \in Seq(Token)
    BY <1>1, <1>2
  <2>2. QED
    BY <1>3, <2>1, ConcatFacts
<1>5. ASSUME NEW i \in (Len(wire) + 1)..Len(wire')
      PROVE  wire'[i] # Blank
  <2>1. i - Len(wire) \in 1..k /\ Len(wire) + (i - Len(wire)) = i
    BY <1>1, <1>2, <1>4
  <2>2. wire'[i] = Data(cut + (i - Len(wire))) /\ cut + (i - Len(wire)) \in Nat
    <3>1. wire'[Len(wire) + (i - Len(wire))] = c[i - Len(wire)]
      BY <1>2, <1>4, <2>1
    <3>2. c[i - Len(wire)] = Data(cut + (i - Len(wire)))
      BY <1>2, <2>1
    <3>3. QED
      BY <1>1, <2>1, <3>1, <3>2
  <2>3. QED
    BY <2>2, TokenFacts
<1>6. QED
  BY <1>1, <1>2, <1>4, <1>5

\* A unit more is behind those that came.
LEMMA ChunkStream ==
  ASSUME StreamInv, NEW k \in ChunkSizes, ClientChunk(k)
  PROVE  StreamInv'
<1>0. /\ cut' = cut + k /\ cut + k <= Pre + Len(text)
      /\ UNCHANGED <<mode, text, nRecv, in, in_u, transport, remaining, header_state, crypto, dec,
                     skip, pc, next, out, out_p, sent, replies, got>>
  BY DEF ClientChunk, framing, back
<1>1. PICK n : n = Len(wire)
  OBVIOUS
<1>2. /\ wire' \in Seq(Token) /\ Len(wire') >= n /\ k \in Nat /\ n \in Nat
      /\ \A i \in 1..n : wire'[i] = wire[i]
      /\ \A i \in (n + 1)..Len(wire') : wire'[i] # Blank
  <2>1. CASE mode = "RAW"
    <3>1. /\ wire' \in Seq(Token) /\ Len(wire') = n + k /\ k \in Nat /\ n \in Nat
          /\ \A i \in 1..n : wire'[i] = wire[i]
          /\ \A i \in (n + 1)..Len(wire') : wire'[i] # Blank
      BY <1>1, <2>1, RawWire, StreamFacts
    <3>2. Len(wire') >= n
      BY <3>1
    <3>3. QED
      BY <3>1, <3>2
  <2>2. CASE mode = "CHUNKED"
    <3>1. /\ wire' \in Seq(Token) /\ Len(wire') = n + k + 4 /\ k \in Nat /\ n \in Nat
          /\ \A i \in 1..n : wire'[i] = wire[i]
          /\ wire'[n + 1] = Size(k)
          /\ \A i \in (n + 2)..Len(wire') : wire'[i] # Blank
      BY <1>1, <2>2, ChunkWire, StreamFacts
    <3>2. Size(k) # Blank
      BY <3>1, TokenFacts
    <3>3. \A i \in (n + 1)..Len(wire') : i = n + 1 \/ i \in (n + 2)..Len(wire')
      BY <3>1
    <3>4. \A i \in (n + 1)..Len(wire') : wire'[i] # Blank
      BY <3>1, <3>2, <3>3
    <3>5. Len(wire') >= n
      BY <3>1
    <3>6. QED
      BY <3>1, <3>4, <3>5
  <2>3. QED
    BY <2>1, <2>2, StreamFacts
<1>3. /\ nRecv \in Nat /\ nRecv <= n /\ cut \in Nat /\ Taken \in Nat /\ Len(in_u) \in Nat
      /\ Len(text) \in Nat /\ Taken = nRecv - Len(in_u) /\ Taken' = Taken /\ remaining \in Nat
      /\ header_state \in 0..2
  BY <1>0, <1>1, StreamFacts DEF Taken
<1>4. StreamTypes'
  <2>1. /\ cut' <= Pre + Len(text) /\ cut' \in 0..(Pre + MaxText) /\ nRecv \in 0..Len(wire')
    <3>1. Len(text) <= MaxText
      BY DEF StreamInv, StreamTypes
    <3>2. Pre + Len(text) \in Nat /\ Pre + Len(text) <= Pre + MaxText
      BY <1>3, <3>1, StreamConsts
    <3>3. Len(wire') \in Nat
      BY <1>2, LenProperties
    <3>4. cut + k \in Nat
      BY <1>2, <1>3
    <3>5. cut + k <= Pre + MaxText /\ nRecv <= Len(wire')
      <4>1. PICK a, b, d : a = cut + k /\ b = Pre + Len(text) /\ d = Pre + MaxText
        OBVIOUS
      <4>2. a \in Nat /\ b \in Nat /\ d \in Nat /\ a <= b /\ b <= d
        BY <1>0, <3>2, <3>4, <4>1, StreamConsts
      <4>3. a <= d
        BY <4>2
      <4>4. nRecv <= Len(wire')
        BY <1>2, <1>3, <3>3
      <4>5. QED
        BY <4>1, <4>3, <4>4
    <3>6. QED
      BY <1>0, <1>3, <3>3, <3>4, <3>5, StreamConsts
  <2>2. QED
    BY <1>0, <1>2, <2>1 DEF StreamInv, StreamTypes, StreamTypeOK
<1>5. PlaceShape' /\ TextShape' /\ OutShape'
  <2>1. PlaceShape' /\ TextShape'
    BY <1>0 DEF StreamInv, PlaceShape, TextShape, Boundary
  <2>2. OutShape'
    BY <1>0, BackSame DEF back
  <2>3. QED
    BY <2>1, <2>2
<1>6. WireShape'
  <2>1. ReqLen <= Len(wire')
    BY <1>1, <1>2, StreamConsts DEF StreamInv, WireShape
  <2>2. \A i \in 1..Len(wire') : wire'[i] = Blank <=> i = ReqLen
    <3> TAKE i \in 1..Len(wire')
    <3>1. CASE i \in 1..n
      BY <1>1, <1>2, <3>1 DEF StreamInv, WireShape
    <3>2. CASE i \in (n + 1)..Len(wire')
      BY <1>1, <1>2, <3>2, StreamConsts DEF StreamInv, WireShape
    <3>3. QED
      BY <1>2, <3>1, <3>2
  <2>3. ASSUME mode = "RAW" PROVE Len(wire') = ReqLen + cut'
    <3>1. n = ReqLen + cut /\ Len(wire') = n + k
      BY <1>1, <2>3, RawWire DEF StreamInv, WireShape
    <3>2. QED
      BY <1>0, <1>2, <1>3, <3>1, StreamConsts
  <2>4. ASSUME mode = "RAW", NEW i \in 1..cut'
        PROVE  wire'[ReqLen + i] = Data(i)
    <3>1. n = ReqLen + cut
      BY <1>1, <2>4 DEF StreamInv, WireShape
    <3>2. CASE i \in 1..cut
      <4>1. ReqLen + i \in 1..n
        BY <1>3, <3>1, <3>2, StreamConsts
      <4>2. QED
        BY <1>2, <2>4, <3>2, <4>1 DEF StreamInv, WireShape
    <3>3. CASE i - cut \in 1..k
      <4>1. n + (i - cut) = ReqLen + i /\ cut + (i - cut) = i
        BY <1>3, <2>4, <3>1, <3>3, StreamConsts
      <4>2. wire'[n + (i - cut)] = Data(cut + (i - cut))
        BY <1>1, <2>4, <3>3, RawWire
      <4>3. QED
        BY <4>1, <4>2
    <3>4. QED
      BY <1>0, <1>2, <1>3, <3>2, <3>3
  <2>5. mode = "CHUNKED" => ChunksShape'
    BY ChunkGrows
  <2>6. QED
    BY <1>0, <2>1, <2>2, <2>3, <2>4, <2>5 DEF WireShape
<1>7. \A p : Unframed(p) => Unframed(p)'
  <2> SUFFICES ASSUME NEW p, Unframed(p)
               PROVE  Unframed(p)'
    OBVIOUS
  <2>1. mode = "CHUNKED" => \A j, q : ChunkAt(j, q) => ChunkAt(j, q)'
    BY ChunkGrows
  <2>2. mode = "RAW" => Taken' = ReqLen + p
    BY <1>3 DEF Unframed
  <2>3. CASE mode = "CHUNKED" /\ remaining > 0
    <3>1. PICK t : t = Taken
      OBVIOUS
    <3>2. PICK r : r = remaining
      OBVIOUS
    <3>3. /\ header_state = 1 /\ ChunkAt(t + r + 3, p + r)
          /\ \A i \in 1..r : wire[t + i] = Data(p + i)
      BY <2>3, <3>1, <3>2 DEF Unframed
    <3>4. t + r + 3 \in 1..(Len(wire) + 1)
      <4>1. \A j, q : ChunkAt(j, q) => j \in 1..(Len(wire) + 1)
        BY <2>3, ChunkBound
      <4>2. QED
        BY <3>3, <4>1
    <3>5. \A i \in 1..r : wire'[t + i] = Data(p + i)
      <4> TAKE i \in 1..r
      <4>1. t + i \in 1..n
        BY <1>1, <1>2, <1>3, <3>1, <3>2, <3>4
      <4>2. QED
        BY <4>1, <1>2, <3>3
    <3>6. ChunkAt(t + r + 3, p + r)'
      BY <2>1, <2>3, <3>3
    <3>7. t = Taken' /\ r = remaining' /\ mode' = "CHUNKED" /\ remaining' > 0
      BY <1>0, <1>3, <2>3, <3>1, <3>2
    <3>8. header_state' = 1
      BY <1>0, <3>3
    <3>9. /\ \A i \in 1..remaining' : wire'[Taken' + i] = Data(p + i)
          /\ ChunkAt(Taken + remaining + 3, p + remaining)'
      BY <3>5, <3>6, <3>7 DEF ChunkAt
    <3>10. QED
      BY <3>7, <3>8, <3>9 DEF Unframed
  <2>4. CASE mode = "CHUNKED" /\ remaining = 0
    <3>1. PICK t : t = Taken
      OBVIOUS
    <3>2. PICK h : h = header_state
      OBVIOUS
    <3>3. h \in {0, 2} /\ ChunkAt(t + h + 1, p)
      BY <2>4, <3>1, <3>2 DEF Unframed
    <3>4. ChunkAt(t + h + 1, p)'
      BY <2>1, <2>4, <3>3
    <3>5. t = Taken' /\ h = header_state' /\ mode' = "CHUNKED" /\ remaining' = 0
      BY <1>0, <1>3, <2>4, <3>1, <3>2
    <3>6. ChunkAt(Taken + header_state + 1, p)'
      BY <3>4, <3>5 DEF ChunkAt
    <3>7. QED
      BY <3>3, <3>5, <3>6 DEF Unframed
  <2>5. CASE mode = "RAW"
    BY <1>0, <2>2, <2>5 DEF Unframed
  <2>6. QED
    BY <1>3, <2>3, <2>4, <2>5, StreamFacts
<1>8. InputShape' /\ RequestShape'
  <2>1. ASSUME NEW i \in 1..Len(in_u)
        PROVE  Taken + i \in 1..n
    <3>1. PICK t, m : t = Taken /\ m = Len(in_u)
      OBVIOUS
    <3>2. t \in Nat /\ t = nRecv - m /\ m \in Nat /\ nRecv \in Nat /\ nRecv <= n /\ i \in 1..m
      BY <1>3, <3>1
    <3>3. t + i \in 1..n
      BY <1>2, <3>2
    <3>4. QED
      BY <3>1, <3>3
  <2>2. \A i \in 1..Len(in_u) : in_u[i] = wire'[Taken + i]
    BY <1>2, <2>1 DEF StreamInv, InputShape
  <2>3. InputShape'
    BY <1>0, <1>3, <2>2 DEF StreamInv, InputShape
  <2>4. \A i \in 1..nRecv : i \in 1..n
    BY <1>2, <1>3
  <2>5. RequestShape'
    BY <1>0, <1>2, <2>4 DEF StreamInv, RequestShape
  <2>6. QED
    BY <2>3, <2>5
<1>9. HeadShape'
  <2>1. \A h : Opening(h) => Opening(h)'
    <3> SUFFICES ASSUME NEW h, Opening(h) PROVE Opening(h)'
      OBVIOUS
    <3>1. PICK p : p = h + Len(in)
      OBVIOUS
    <3>2. Unframed(p)' /\ p = h + Len(in')
      BY <1>0, <1>7, <3>1 DEF Opening
    <3>3. QED
      BY <1>0, <3>2 DEF Opening, Unframed
  <2>2. QED
    BY <1>0, <2>1 DEF StreamInv, HeadShape
<1>10. CipherShape'
  <2>1. PICK p : p = Pre + dec
    OBVIOUS
  <2>2. crypto => Unframed(p)'
    BY <1>7, <2>1 DEF StreamInv, CipherShape
  <2>3. crypto => Unframed(Pre + dec)'
    BY <1>0, <2>1, <2>2 DEF Unframed
  <2>4. QED
    BY <1>0, <2>3 DEF StreamInv, CipherShape, Boundary
<1>11. QED
  BY <1>4, <1>5, <1>6, <1>8, <1>9, <1>10 DEF StreamInv

-----------------------------------------------------------------------------
(* The reader *)

\* A reader that stands where it stood, with the same units behind it.
LEMMA Standing ==
  ASSUME StreamInv, UNCHANGED client, UNCHANGED <<in, transport, crypto, dec, got>>,
         \A p \in Nat : Unframed(p) => Unframed(p)', transport = "RAW" /\ ~crypto => in_u' = <<>>
  PROVE  HeadShape' /\ CipherShape'
<1>1. /\ Len(in) \in Nat /\ dec \in Nat /\ Pre + dec \in Nat /\ Pre \in Nat
      /\ 0 + Len(in) \in Nat /\ 1 + Len(in) \in Nat
  BY StreamFacts, StreamConsts
<1>2. \A h \in {0, 1} : Opening(h) => Opening(h)'
  <2> SUFFICES ASSUME NEW h \in {0, 1}, Opening(h) PROVE Opening(h)'
    OBVIOUS
  <2>1. PICK p : p = h + Len(in)
    OBVIOUS
  <2>2. p \in Nat
    BY <1>1, <2>1
  <2>3. Unframed(p)' /\ p = h + Len(in')
    BY <2>1, <2>2 DEF Opening
  <2>4. QED
    BY <2>3 DEF Opening, Unframed
<1>3. HeadShape'
  BY <1>2 DEF StreamInv, HeadShape
<1>4. CipherShape'
  <2>1. PICK p : p = Pre + dec
    OBVIOUS
  <2>2. crypto => Unframed(p)'
    BY <1>1, <2>1 DEF StreamInv, CipherShape
  <2>3. crypto => Unframed(Pre + dec)'
    BY <2>1, <2>2 DEF Unframed
  <2>4. QED
    BY <2>3 DEF StreamInv, CipherShape, Boundary, client
<1>5. QED
  BY <1>3, <1>4

\* What has come since the last read.
LEMMA NewTokens ==
  ASSUME StreamInv, NEW n \in Nat, nRecv + n <= Len(wire)
  PROVE  /\ SubSeq(wire, nRecv + 1, nRecv + n) \in Seq(Token)
         /\ Len(SubSeq(wire, nRecv + 1, nRecv + n)) = n
         /\ \A i \in 1..n : SubSeq(wire, nRecv + 1, nRecv + n)[i] = wire[nRecv + i]
<1>1. wire \in Seq(Token) /\ nRecv \in Nat
  BY StreamFacts DEF StreamInv, StreamTypes
<1>2. QED
  BY <1>1, PartFacts

\* What a read leaves as it is.
LEMMA ArriveFrame ==
  ASSUME StreamInv, NEW n \in ReadSizes, Arrive(n)
  PROVE  /\ pc = "idle" /\ n \in Nat /\ nRecv + n <= Len(wire) /\ nRecv' = nRecv + n
         /\ UNCHANGED <<mode, text, cut, wire, transport, remaining, header_state, crypto, dec,
                        skip, out, out_p, sent, replies, got>>
         /\ TextShape' /\ WireShape' /\ OutShape'
         /\ nRecv' \in 0..Len(wire') /\ pc' \in {"decrypt", "unwrap", "gate"} /\ next' = "gate"
         /\ pc' = "decrypt" => crypto
         /\ pc' = "unwrap" => ~crypto /\ transport = "CHUNKED"
<1>1. /\ pc = "idle" /\ n \in Nat /\ nRecv + n <= Len(wire) /\ nRecv' = nRecv + n
      /\ UNCHANGED <<mode, text, cut, wire, transport, remaining, header_state, crypto, dec,
                     skip, out, out_p, sent, replies, got>>
      /\ next' = "gate"
  BY StreamConsts DEF Arrive, client, framing, back
<1>2. TextShape' /\ WireShape' /\ OutShape'
  BY <1>1, ClientSame, BackSame DEF client, back
<1>3. nRecv' \in 0..Len(wire')
  BY <1>1, StreamFacts
<1>4. pc' = IF crypto THEN "decrypt" ELSE IF transport = "CHUNKED" THEN "unwrap" ELSE "gate"
  BY DEF Arrive
<1>5. QED
  BY <1>1, <1>2, <1>3, <1>4

LEMMA ArriveFramed ==
  ASSUME StreamInv, NEW n \in ReadSizes, Arrive(n), crypto \/ transport = "CHUNKED"
  PROVE  StreamInv'
<1> DEFINE new == SubSeq(wire, nRecv + 1, nRecv + n)
<1>1. /\ n \in Nat /\ nRecv + n <= Len(wire) /\ nRecv' = nRecv + n
      /\ UNCHANGED <<mode, text, cut, wire, transport, remaining, header_state, crypto, dec,
                     skip, out, out_p, sent, replies, got>>
      /\ TextShape' /\ WireShape' /\ OutShape'
      /\ nRecv' \in 0..Len(wire') /\ pc' \in {"decrypt", "unwrap", "gate"} /\ next' = "gate"
      /\ pc' = "decrypt" => crypto
      /\ pc' = "unwrap" => ~crypto /\ transport = "CHUNKED"
  BY ArriveFrame
<1>2. new \in Seq(Token) /\ Len(new) = n /\ \A i \in 1..n : new[i] = wire[nRecv + i]
  BY <1>1, NewTokens
<1>3. in_u' = in_u \o new /\ in' = in
  BY DEF Arrive
<1>4. in_u \in Seq(Token)
  BY DEF StreamInv, StreamTypes
<1> HIDE DEF new
<1>5. /\ in_u' \in Seq(Token) /\ Len(in_u') = Len(in_u) + Len(new)
      /\ \A i \in 1..Len(in_u) : in_u'[i] = in_u[i]
      /\ \A i \in 1..Len(new) : in_u'[Len(in_u) + i] = new[i]
  <2>1. in_u \in Seq(Token) /\ new \in Seq(Token)
    BY <1>2, <1>4
  <2>2. QED
    BY <1>3, <2>1, ConcatFacts
<1>6. PICK m : m = Len(in_u)
  OBVIOUS
<1>7. PICK t : t = Taken
  OBVIOUS
<1>8. /\ m \in Nat /\ t \in Nat /\ nRecv \in Nat /\ t = nRecv - m /\ m <= nRecv
  BY <1>6, <1>7, StreamFacts
<1>9. Len(in_u') = m + n /\ Taken' = t
  <2>1. Len(in_u') = m + n
    BY <1>2, <1>5, <1>6
  <2>2. QED
    BY <1>1, <1>8, <2>1 DEF Taken
<1>10. StreamTypes' /\ PlaceShape'
  BY <1>1, <1>3, <1>5 DEF StreamInv, StreamTypes, StreamTypeOK, PlaceShape
<1>11. InputShape'
  <2>1. Len(in_u') <= nRecv'
    BY <1>1, <1>8, <1>9
  <2>2. ASSUME NEW i \in 1..(m + n)
        PROVE  in_u'[i] = wire'[t + i]
    <3>1. CASE i \in 1..m
      BY <3>1, <1>1, <1>5, <1>6, <1>7 DEF StreamInv, InputShape
    <3>2. CASE i - m \in 1..n
      <4>1. m + (i - m) = i /\ nRecv + (i - m) = t + i
        BY <1>1, <1>8, <3>2
      <4>2. in_u'[m + (i - m)] = new[i - m] /\ new[i - m] = wire[nRecv + (i - m)]
        BY <1>2, <1>5, <1>6, <3>2
      <4>3. QED
        BY <1>1, <4>1, <4>2
    <3>3. QED
      BY <1>1, <1>8, <3>1, <3>2
  <2>3. QED
    BY <1>9, <2>1, <2>2 DEF InputShape
<1>12. RequestShape'
  BY <1>1 DEF RequestShape, StreamInv, StreamTypes
<1>13. \A p : Unframed(p) => Unframed(p)'
  BY <1>1, <1>7, <1>9, UnframedSame DEF client, framing
<1>14. HeadShape' /\ CipherShape'
  <2>1. ~(transport = "RAW" /\ ~crypto)
    OBVIOUS
  <2>2. QED
    BY <1>1, <1>3, <1>13, <2>1, Standing DEF client
<1>15. QED
  BY <1>1, <1>10, <1>11, <1>12, <1>14 DEF StreamInv

\* The request is coming in.
LEMMA ArriveRequest ==
  ASSUME StreamInv, NEW n \in ReadSizes, Arrive(n), ~crypto, transport = "NONE"
  PROVE  StreamInv'
<1> DEFINE new == SubSeq(wire, nRecv + 1, nRecv + n)
<1>1. /\ n \in Nat /\ nRecv + n <= Len(wire) /\ nRecv' = nRecv + n
      /\ UNCHANGED <<mode, text, cut, wire, transport, remaining, header_state, crypto, dec,
                     skip, out, out_p, sent, replies, got>>
      /\ TextShape' /\ WireShape' /\ OutShape'
      /\ nRecv' \in 0..Len(wire') /\ pc' \in {"decrypt", "unwrap", "gate"} /\ next' = "gate"
      /\ pc' = "decrypt" => crypto
      /\ pc' = "unwrap" => ~crypto /\ transport = "CHUNKED"
  BY ArriveFrame
<1>2. new \in Seq(Token) /\ Len(new) = n /\ \A i \in 1..n : new[i] = wire[nRecv + i]
  BY <1>1, NewTokens
<1>3. in' = in \o new /\ in_u' = in_u
  BY DEF Arrive
<1>4. /\ in \in Seq(Token) /\ in_u \in Seq(Token) /\ in_u = <<>> /\ Len(in) = nRecv
      /\ remaining = 0 /\ header_state = 0 /\ nRecv \in Nat
      /\ \A i \in 1..nRecv : in[i] = wire[i]
  BY StreamFacts DEF StreamInv, StreamTypes, RequestShape
<1> HIDE DEF new
<1>5. /\ in' \in Seq(Token) /\ Len(in') = Len(in) + Len(new)
      /\ \A i \in 1..Len(in) : in'[i] = in[i]
      /\ \A i \in 1..Len(new) : in'[Len(in) + i] = new[i]
  <2>1. in \in Seq(Token) /\ new \in Seq(Token)
    BY <1>2, <1>4
  <2>2. QED
    BY <1>3, <2>1, ConcatFacts
<1>6. StreamTypes' /\ PlaceShape'
  BY <1>1, <1>3, <1>5 DEF StreamInv, StreamTypes, StreamTypeOK, PlaceShape
<1>7. InputShape'
  <2>1. Len(in_u') = 0 /\ 0 <= nRecv'
    BY <1>1, <1>3, <1>4, EmptySeq
  <2>2. QED
    BY <2>1 DEF InputShape
<1>8. RequestShape'
  <2>1. Len(in') = nRecv'
    BY <1>1, <1>2, <1>4, <1>5
  <2>2. ASSUME NEW i \in 1..nRecv'
        PROVE  in'[i] = wire'[i]
    <3>1. CASE i \in 1..nRecv
      BY <3>1, <1>1, <1>4, <1>5
    <3>2. CASE i - nRecv \in 1..n
      <4>1. nRecv + (i - nRecv) = i
        BY <1>1, <1>4, <3>2
      <4>2. in'[nRecv + (i - nRecv)] = new[i - nRecv] /\ new[i - nRecv] = wire[nRecv + (i - nRecv)]
        BY <1>2, <1>4, <1>5, <3>2
      <4>3. QED
        BY <1>1, <4>1, <4>2
    <3>3. QED
      BY <1>1, <1>4, <3>1, <3>2
  <2>3. QED
    BY <1>1, <1>3, <1>4, <2>1, <2>2 DEF RequestShape
<1>9. HeadShape'
  BY <1>1 DEF HeadShape
<1>10. CipherShape'
  BY <1>1 DEF StreamInv, CipherShape, Boundary
<1>11. QED
  BY <1>1, <1>6, <1>7, <1>8, <1>9, <1>10 DEF StreamInv

\* A tail of the body behind nginx is units in order.
LEMMA RawTokens ==
  ASSUME StreamInv, mode = "RAW", NEW p \in Nat, NEW t \in Nat, t = ReqLen + p,
         NEW i \in Nat \ {0}, t + i <= Len(wire)
  PROVE  wire[t + i] = Data(p + i) /\ wire[t + i].n = p + i /\ p + i <= cut
<1>1. /\ Len(wire) = ReqLen + cut /\ cut \in Nat
      /\ \A j \in 1..cut : wire[ReqLen + j] = Data(j)
  BY StreamFacts DEF StreamInv, WireShape
<1>2. p + i \in 1..cut /\ t + i = ReqLen + (p + i)
  BY <1>1, StreamConsts
<1>3. wire[t + i] = Data(p + i)
  BY <1>1, <1>2
<1>4. p + i \in Nat /\ p + i <= cut
  BY <1>1, <1>2
<1>5. QED
  BY <1>3, <1>4, TokenFacts

\* Units are coming in behind nginx, in clear.
LEMMA ArriveRaw ==
  ASSUME StreamInv, NEW n \in ReadSizes, Arrive(n), ~crypto, transport = "RAW"
  PROVE  StreamInv'
<1> DEFINE new == SubSeq(wire, nRecv + 1, nRecv + n)
           units == [i \in 1..n |-> new[i].n]
<1>1. /\ n \in Nat /\ nRecv + n <= Len(wire) /\ nRecv' = nRecv + n
      /\ UNCHANGED <<mode, text, cut, wire, transport, remaining, header_state, crypto, dec,
                     skip, out, out_p, sent, replies, got>>
      /\ TextShape' /\ WireShape' /\ OutShape'
      /\ nRecv' \in 0..Len(wire') /\ pc' \in {"decrypt", "unwrap", "gate"} /\ next' = "gate"
      /\ pc' = "decrypt" => crypto
      /\ pc' = "unwrap" => ~crypto /\ transport = "CHUNKED"
  BY ArriveFrame
<1>2. new \in Seq(Token) /\ Len(new) = n /\ \A i \in 1..n : new[i] = wire[nRecv + i]
  BY <1>1, NewTokens
<1>3. in' = in \o units /\ in_u' = in_u
  BY DEF Arrive
<1>4. /\ in \in Seq(Nat) /\ in_u = <<>> /\ nRecv \in Nat /\ mode = "RAW" /\ Len(in) \in Nat
      /\ Opening(0) \/ Opening(1)
  BY StreamFacts DEF StreamInv, StreamTypes, HeadShape
<1> HIDE DEF new
<1>a. /\ \A i \in 1..n : units[i] = wire[nRecv + i].n
      /\ \A i \in 1..n : nRecv + i \in 1..Len(wire)
  <2>1. \A i \in 1..n : units[i] = wire[nRecv + i].n
    BY <1>2
  <2>2. Len(wire) \in Nat
    BY StreamFacts
  <2>3. QED
    BY <1>1, <1>4, <2>1, <2>2
<1>5. units \in Seq(Nat) /\ Len(units) = n
  <2>1. \A i \in 1..n : new[i].n \in Nat
    BY <1>2, <1>a, StreamFacts
  <2>2. QED
    BY <1>1, <2>1
<1> HIDE DEF units
<1>6. /\ in' \in Seq(Nat) /\ Len(in') = Len(in) + Len(units)
      /\ \A i \in 1..Len(in) : in'[i] = in[i]
      /\ \A i \in 1..Len(units) : in'[Len(in) + i] = units[i]
  <2>1. in \in Seq(Nat) /\ units \in Seq(Nat)
    BY <1>4, <1>5
  <2>2. QED
    BY <1>3, <2>1, ConcatFacts
<1>7. StreamTypes' /\ PlaceShape'
  BY <1>1, <1>3, <1>6 DEF StreamInv, StreamTypes, StreamTypeOK, PlaceShape
<1>8. InputShape'
  <2>1. Len(in_u') = 0 /\ 0 <= nRecv'
    BY <1>1, <1>3, <1>4, EmptySeq
  <2>2. QED
    BY <2>1 DEF InputShape
<1>9. RequestShape' /\ CipherShape'
  BY <1>1 DEF StreamInv, RequestShape, CipherShape, Boundary
<1>10. ASSUME NEW h \in {0, 1}, Opening(h)
       PROVE  Opening(h)'
  <2>1. PICK p : p = h + Len(in)
    OBVIOUS
  <2>2. p \in Nat /\ nRecv = ReqLen + p
    <3>1. Taken = nRecv /\ Taken = ReqLen + p
      BY <1>4, <1>10, <2>1, EmptySeq DEF Opening, Unframed, Taken
    <3>2. QED
      BY <1>4, <2>1, <3>1
  <2>3. PICK m : m = Len(in)
    OBVIOUS
  <2>4. m \in Nat /\ Len(in') = m + n /\ p = h + m
    BY <1>4, <1>5, <1>6, <2>1, <2>3
  <2>5. ASSUME NEW i \in 1..(m + n)
        PROVE  in'[i] = h + i
    <3>1. CASE i \in 1..m
      BY <3>1, <1>6, <1>10, <2>3 DEF Opening
    <3>2. CASE i - m \in 1..n
      <4>1. i - m \in Nat \ {0} /\ nRecv + (i - m) <= Len(wire) /\ p + (i - m) = h + i /\ m + (i - m) = i
        BY <1>1, <1>4, <2>4, <3>2, StreamFacts
      <4>2. wire[nRecv + (i - m)].n = p + (i - m)
        BY <1>4, <2>2, <4>1, RawTokens
      <4>3. in'[m + (i - m)] = units[i - m] /\ units[i - m] = wire[nRecv + (i - m)].n
        BY <1>a, <1>5, <1>6, <2>3, <3>2
      <4>4. QED
        BY <4>1, <4>2, <4>3
    <3>3. QED
      BY <1>1, <2>4, <3>1, <3>2
  <2>6. (Taken = ReqLen + (h + Len(in)))'
    <3>1. Taken' = nRecv'
      BY <1>1, <1>3, <1>4, EmptySeq DEF Taken
    <3>2. nRecv + n = ReqLen + (h + (m + n))
      BY <1>1, <1>4, <2>2, <2>4, StreamConsts
    <3>3. QED
      BY <1>1, <2>4, <3>1, <3>2
  <2>7. Unframed(h + Len(in))'
    BY <1>1, <1>4, <2>6 DEF Unframed
  <2>8. QED
    BY <2>4, <2>5, <2>7 DEF Opening
<1>11. HeadShape'
  BY <1>1, <1>3, <1>4, <1>10 DEF HeadShape
<1>12. QED
  BY <1>1, <1>7, <1>8, <1>9, <1>11 DEF StreamInv

LEMMA ArriveStream ==
  ASSUME StreamInv, NEW n \in ReadSizes, Arrive(n)
  PROVE  StreamInv'
BY ArriveFramed, ArriveRequest, ArriveRaw, StreamFacts

\* What the reader's own steps leave as it is, and where it stands.
LEMMA ReaderFrame ==
  ASSUME StreamInv, Reader
  PROVE  /\ UNCHANGED <<mode, text, cut, wire, nRecv, transport, skip, out, out_p, sent,
                        replies, got>>
         /\ TextShape' /\ WireShape' /\ (UNCHANGED crypto => OutShape')
<1>1. UNCHANGED <<mode, text, cut, wire, nRecv, transport, skip, out, out_p, sent, replies, got>>
  BY DEF Reader, client, back
<1>2. QED
  BY <1>1, ClientSame, BackSame DEF client, back

LEMMA MoreFacts ==
  ASSUME StreamInv, More
  PROVE  /\ mode = "CHUNKED" /\ transport = "CHUNKED" /\ transport # "NONE"
         /\ \/ pc = "decrypt" /\ crypto
            \/ pc = "unwrap" /\ ~crypto /\ Len(in) < Pre
<1>1. transport = "CHUNKED" /\ (pc = "decrypt" \/ (pc = "unwrap" /\ Len(in) < Pre))
  BY DEF More
<1>2. mode = "CHUNKED"
  BY <1>1, StreamFacts
<1>3. QED
  BY <1>1, <1>2 DEF StreamInv, PlaceShape

\* The reader has taken n tokens of what it had.
LEMMA TakenFacts ==
  ASSUME StreamInv, NEW n \in 0..Len(in_u), in_u' = SubSeq(in_u, n + 1, Len(in_u)),
         UNCHANGED <<nRecv, wire>>
  PROVE  /\ in_u' \in Seq(Token) /\ Taken' = Taken + n /\ InputShape'
<1>1. in_u \in Seq(Token)
  BY DEF StreamInv, StreamTypes
<1>2. /\ in_u' \in Seq(Token) /\ Len(in_u') = Len(in_u) - n
      /\ \A i \in 1..(Len(in_u) - n) : in_u'[i] = in_u[n + i]
  BY <1>1, RestFacts
<1>3. PICK m, t : m = Len(in_u) /\ t = Taken
  OBVIOUS
<1>4. m \in Nat /\ t \in Nat /\ nRecv \in Nat /\ t = nRecv - m /\ m <= nRecv /\ n \in 0..m
  BY <1>3, StreamFacts
<1>5. Len(in_u') = m - n /\ Taken' = t + n
  <2>1. Len(in_u') = m - n
    BY <1>2, <1>3
  <2>2. nRecv - (m - n) = t + n
    BY <1>4
  <2>3. QED
    BY <2>1, <2>2 DEF Taken
<1>6. ASSUME NEW i \in 1..(m - n)
      PROVE  in_u'[i] = wire'[t + n + i]
  <2>1. n + i \in 1..m /\ t + (n + i) = t + n + i
    BY <1>4
  <2>2. in_u[n + i] = wire[t + (n + i)]
    BY <1>3, <2>1 DEF StreamInv, InputShape
  <2>3. QED
    BY <1>2, <1>3, <2>1, <2>2
<1>7. Len(in_u') <= nRecv'
  BY <1>4, <1>5
<1>8. InputShape'
  BY <1>5, <1>6, <1>7 DEF InputShape
<1>9. QED
  BY <1>2, <1>3, <1>5, <1>8

LEMMA SkipStream == ASSUME StreamInv, SkipCrlf PROVE StreamInv'
<1>1. /\ remaining = 0 /\ header_state = 2 /\ Len(in_u) >= 2 /\ header_state' = 0
      /\ in_u' = SubSeq(in_u, 3, Len(in_u)) /\ More
      /\ UNCHANGED <<in, remaining, crypto, dec, pc, next>>
      /\ UNCHANGED <<mode, text, cut, wire, nRecv, transport, skip, out, out_p, sent, replies, got>>
      /\ TextShape' /\ WireShape' /\ OutShape'
  BY ReaderFrame DEF SkipCrlf
<1>2. mode = "CHUNKED" /\ transport = "CHUNKED" /\ transport # "NONE"
  BY <1>1, MoreFacts
<1>3. in_u' \in Seq(Token) /\ Taken' = Taken + 2 /\ InputShape'
  <2>1. PICK n : n = 2
    OBVIOUS
  <2>2. n \in 0..Len(in_u) /\ n + 1 = 3
    BY <1>1, <2>1, StreamFacts
  <2>3. in_u' = SubSeq(in_u, n + 1, Len(in_u)) /\ UNCHANGED <<nRecv, wire>>
    BY <1>1, <2>2
  <2>4. QED
    BY <2>1, <2>2, <2>3, TakenFacts
<1>4. StreamTypes' /\ PlaceShape'
  BY <1>1, <1>3 DEF StreamInv, StreamTypes, StreamTypeOK, PlaceShape
<1>5. RequestShape'
  BY <1>1, <1>2 DEF RequestShape
<1>6. ASSUME NEW p \in Nat, Unframed(p)
      PROVE  Unframed(p)'
  <2>1. PICK t : t = Taken
    OBVIOUS
  <2>2. t \in Nat /\ Taken' = t + 2
    BY <1>3, <2>1, StreamFacts
  <2>3. ChunkAt(t + 2 + 1, p)
    BY <1>1, <1>2, <1>6, <2>1 DEF Unframed
  <2>4. ChunkAt(t + 2 + 1, p)'
    BY <1>1, <2>3, ClientSame DEF client
  <2>5. t + 2 + 1 = (Taken + header_state + 1)'
    BY <1>1, <2>2
  <2>6. ChunkAt(Taken + header_state + 1, p)'
    BY <2>4, <2>5 DEF ChunkAt
  <2>7. QED
    BY <1>1, <1>2, <2>6 DEF Unframed
<1>7. HeadShape' /\ CipherShape'
  BY <1>1, <1>2, <1>6, Standing DEF client
<1>8. QED
  BY <1>1, <1>3, <1>4, <1>5, <1>7 DEF StreamInv

LEMMA SizeStream == ASSUME StreamInv, ParseSize PROVE StreamInv'
<1>1. CASE in_u[1].n \notin 1..MaxChunk
  <2>1. Untouched /\ pc' = "last" /\ next' = next /\ skip' = skip
    BY <1>1 DEF ParseSize, Untouched, Reader, framing
  <2>2. next \in {"gate", "parse"} /\ skip \in Nat
    BY DEF StreamInv, StreamTypes, StreamTypeOK
  <2>3. QED
    BY <2>1, <2>2, QuietInv
<1>2. CASE in_u[1].n \in 1..MaxChunk
  <2>1. /\ remaining = 0 /\ header_state = 0 /\ Len(in_u) >= 2 /\ header_state' = 1
        /\ remaining' = in_u[1].n
        /\ in_u' = SubSeq(in_u, 3, Len(in_u)) /\ More
        /\ UNCHANGED <<in, crypto, dec, pc, next>>
        /\ UNCHANGED <<mode, text, cut, wire, nRecv, transport, skip, out, out_p, sent, replies, got>>
        /\ TextShape' /\ WireShape' /\ OutShape'
    BY <1>2, ReaderFrame DEF ParseSize
  <2>2. mode = "CHUNKED" /\ transport = "CHUNKED" /\ transport # "NONE"
    BY <2>1, MoreFacts
  <2>3. in_u' \in Seq(Token) /\ Taken' = Taken + 2 /\ InputShape'
    <3>1. PICK n : n = 2
      OBVIOUS
    <3>2. n \in 0..Len(in_u) /\ n + 1 = 3
      BY <2>1, <3>1, StreamFacts
    <3>3. in_u' = SubSeq(in_u, n + 1, Len(in_u)) /\ UNCHANGED <<nRecv, wire>>
      BY <2>1, <3>2
    <3>4. QED
      BY <3>1, <3>2, <3>3, TakenFacts
  <2>4. PICK k, t : k = in_u[1].n /\ t = Taken
    OBVIOUS
  <2>5. k \in 1..MaxChunk /\ k \in Nat \ {0} /\ t \in Nat /\ Taken' = t + 2 /\ remaining' = k
    <3>1. k \in 1..MaxChunk /\ remaining' = k /\ Taken' = t + 2
      BY <1>2, <2>1, <2>3, <2>4
    <3>2. t \in Nat /\ MaxChunk \in Nat
      BY <2>4, StreamFacts, StreamConsts
    <3>3. QED
      BY <3>1, <3>2
  <2>6. k = wire[t + 1].n /\ t + 1 \in 1..Len(wire)
    <3>1. 1 \in 1..Len(in_u)
      BY <2>1, StreamFacts
    <3>2. in_u[1] = wire[Taken + 1]
      BY <3>1 DEF StreamInv, InputShape
    <3>3. t + 1 \in 1..Len(wire)
      <4>1. /\ t = nRecv - Len(in_u) /\ nRecv \in Nat /\ Len(in_u) \in Nat /\ Len(in_u) >= 2
            /\ Len(wire) \in Nat /\ nRecv <= Len(wire)
        BY <2>1, <2>4, StreamFacts
      <4>2. QED
        BY <2>5, <4>1
    <3>4. QED
      BY <2>4, <3>2, <3>3
  <2>7. StreamTypes' /\ PlaceShape'
    <3>1. remaining' \in 0..MaxChunk /\ header_state' \in 0..2
      BY <2>1, <2>5, StreamConsts
    <3>2. QED
      BY <2>1, <2>3, <3>1 DEF StreamInv, StreamTypes, StreamTypeOK, PlaceShape
  <2>8. RequestShape'
    BY <2>1, <2>2 DEF RequestShape
  <2>9. ASSUME NEW p \in Nat, Unframed(p)
        PROVE  Unframed(p)'
    <3>1. ChunkAt(t + 1, p)
      <4>1. ChunkAt(Taken + 0 + 1, p)
        BY <2>1, <2>2, <2>9 DEF Unframed
      <4>2. t + 0 + 1 = t + 1
        BY <2>5
      <4>3. QED
        BY <2>4, <4>1, <4>2
    <3>2. wire[t + 1].t = "size" /\ p = Before(t + 1)
      BY <2>6, <3>1, StreamFacts DEF ChunkAt
    <3>3. WholeChunk(t + 1, k, p)
      BY <2>2, <2>6, <3>2 DEF StreamInv, WireShape, ChunksShape
    <3>4. \A i \in 1..k : wire'[t + 2 + i] = Data(p + i)
      <4> TAKE i \in 1..k
      <4>1. t + 1 + 1 + i = t + 2 + i
        BY <2>5
      <4>2. wire[t + 1 + 1 + i] = Data(p + i)
        BY <3>3 DEF WholeChunk
      <4>3. QED
        BY <2>1, <4>1, <4>2
    <3>5. ChunkAt(t + 2 + k + 3, p + k)'
      <4>1. ChunkAt(t + 1 + k + 4, p + k)
        BY <2>5, <3>3 DEF WholeChunk
      <4>2. t + 1 + k + 4 = t + 2 + k + 3
        BY <2>5
      <4>3. ChunkAt(t + 2 + k + 3, p + k)
        BY <4>1, <4>2
      <4>4. QED
        BY <2>1, <4>3, ClientSame DEF client
    <3>6. ChunkAt(Taken + remaining + 3, p + remaining)'
      BY <2>5, <3>5 DEF ChunkAt
    <3>7. mode' = "CHUNKED" /\ remaining' > 0 /\ remaining' # 0 /\ header_state' = 1
      BY <2>1, <2>2, <2>5
    <3>8. QED
      BY <2>5, <3>4, <3>6, <3>7 DEF Unframed
  <2>10. HeadShape' /\ CipherShape'
    BY <2>1, <2>2, <2>9, Standing DEF client
  <2>11. QED
    BY <2>1, <2>3, <2>7, <2>8, <2>10 DEF StreamInv
<1>3. QED
  BY <1>1, <1>2

\* n units of the chunk are taken: the reader stands behind them.
LEMMA UnitsTaken ==
  ASSUME StreamInv, mode = "CHUNKED", remaining > 0, NEW n \in Nat \ {0}, n <= remaining,
         UNCHANGED client, Taken' = Taken + n, remaining' = remaining - n,
         header_state' = IF remaining = n THEN 2 ELSE header_state
  PROVE  \A p \in Nat : Unframed(p) => Unframed(p + n)'
<1> SUFFICES ASSUME NEW p \in Nat, Unframed(p) PROVE Unframed(p + n)'
  OBVIOUS
<1>1. PICK t, r : t = Taken /\ r = remaining
  OBVIOUS
<1>a. t \in Nat /\ r \in Nat /\ n <= r /\ Taken' = t + n /\ remaining' = r - n
  BY <1>1, StreamFacts
<1>b. r - n \in Nat
  BY <1>a
<1>2. t \in Nat /\ r \in Nat /\ r - n \in Nat /\ Taken' = t + n /\ remaining' = r - n
  BY <1>a, <1>b
<1>3. /\ header_state = 1 /\ ChunkAt(t + r + 3, p + r)
      /\ \A i \in 1..r : wire[t + i] = Data(p + i)
  BY <1>1 DEF Unframed
<1>4. ChunkAt(t + r + 3, p + r)'
  BY <1>3, ClientSame
<1>5. mode' = "CHUNKED" /\ wire' = wire
  BY DEF client
<1>6. CASE r = n
  <2>1. header_state' = 2 /\ remaining' = 0
    BY <1>1, <1>2, <1>6
  <2>2. t + r + 3 = (Taken + header_state + 1)' /\ p + r = p + n
    BY <1>2, <1>6, <2>1
  <2>3. ChunkAt(Taken + header_state + 1, p + n)'
    BY <1>4, <2>2 DEF ChunkAt
  <2>4. ~(remaining' > 0)
    BY <2>1
  <2>5. QED
    BY <1>5, <2>1, <2>3, <2>4 DEF Unframed
<1>7. CASE r # n
  <2>1. header_state' = 1 /\ remaining' > 0 /\ remaining' # 0
    BY <1>1, <1>2, <1>3, <1>7
  <2>2. \A i \in 1..(r - n) : wire'[t + n + i] = Data(p + n + i)
    <3> TAKE i \in 1..(r - n)
    <3>1. n + i \in 1..r /\ t + (n + i) = t + n + i /\ p + (n + i) = p + n + i
      BY <1>2
    <3>2. wire[t + (n + i)] = Data(p + (n + i))
      BY <1>3, <3>1
    <3>3. QED
      BY <1>5, <3>1, <3>2
  <2>3. t + r + 3 = (Taken + remaining + 3)' /\ p + r = (p + n + remaining)'
    BY <1>2
  <2>4. ChunkAt(Taken + remaining + 3, p + n + remaining)'
    BY <1>4, <2>3 DEF ChunkAt
  <2>5. QED
    BY <1>2, <1>5, <2>1, <2>2, <2>4 DEF Unframed
<1>8. QED
  BY <1>6, <1>7

\* A step that puts the next n units into in.
LEMMA Advanced ==
  ASSUME StreamInv, UNCHANGED <<text, transport, crypto, got>>, transport # "NONE",
         NEW n \in Nat, NEW p \in Nat, p = IF crypto THEN Pre + dec ELSE Len(in) + IF Opening(0) THEN 0 ELSE 1,
         Unframed(p + n)', Len(in') = Len(in) + n,
         \A i \in 1..Len(in) : in'[i] = in[i],
         \A i \in 1..n : in'[Len(in) + i] = p + i,
         dec' = IF crypto THEN dec + n ELSE dec,
         ~crypto /\ transport = "RAW" => in_u' = <<>>,
         ~crypto /\ transport = "CHUNKED" => Len(in') <= Pre
  PROVE  HeadShape' /\ CipherShape'
<1>1. PICK m, d, g : m = Len(in) /\ d = dec /\ g = Len(got)
  OBVIOUS
<1>2. m \in Nat /\ d \in Nat /\ g \in Nat /\ Pre \in Nat /\ Len(in') = m + n
  BY <1>1, StreamFacts, StreamConsts
<1>3. \A i \in 1..(m + n) : i \in 1..m \/ (i - m \in 1..n /\ m + (i - m) = i)
  BY <1>2
<1>4. HeadShape'
  <2> SUFFICES ASSUME ~crypto PROVE HeadShape'
    BY DEF HeadShape
  <2>1. PICK h \in {0, 1} : Opening(h) /\ p = h + m
    <3>1. CASE Opening(0)
      BY <3>1, <1>1, <1>2
    <3>2. CASE ~Opening(0)
      <4>1. Opening(1)
        BY <3>2 DEF StreamInv, HeadShape
      <4>2. QED
        BY <3>2, <4>1, <1>1, <1>2
    <3>3. QED
      BY <3>1, <3>2
  <2>2. ASSUME NEW i \in 1..(m + n)
        PROVE  in'[i] = h + i
    <3>1. CASE i \in 1..m
      BY <3>1, <1>1, <2>1 DEF Opening
    <3>2. CASE i - m \in 1..n /\ m + (i - m) = i
      <4>1. in'[m + (i - m)] = p + (i - m)
        BY <1>1, <3>2
      <4>2. p + (i - m) = h + i
        BY <1>2, <2>1, <3>2
      <4>3. QED
        BY <3>2, <4>1, <4>2
    <3>3. QED
      BY <1>3, <3>1, <3>2
  <2>3. p + n = (h + Len(in))'
    BY <1>2, <2>1
  <2>4. Opening(h)'
    BY <1>2, <2>2, <2>3 DEF Opening, Unframed
  <2>5. QED
    BY <2>1, <2>4 DEF HeadShape
<1>5. CipherShape'
  <2>1. CASE ~crypto
    BY <2>1 DEF StreamInv, CipherShape, Boundary
  <2>2. CASE crypto
    <3>1. p = Pre + d /\ g + m = d /\ dec' = d + n
      BY <1>1, <2>2 DEF StreamInv, CipherShape
    <3>2. ASSUME NEW i \in 1..(m + n)
          PROVE  in'[i] = Pre + g + i
      <4>1. CASE i \in 1..m
        BY <4>1, <1>1, <2>2 DEF StreamInv, CipherShape
      <4>2. CASE i - m \in 1..n /\ m + (i - m) = i
        <5>1. in'[m + (i - m)] = p + (i - m)
          BY <1>1, <4>2
        <5>2. p + (i - m) = Pre + g + i
          <6>1. p = Pre + (g + m)
            BY <3>1
          <6>2. i \in Nat
            BY <1>2
          <6>3. QED
            BY <1>2, <6>1, <6>2
        <5>3. QED
          BY <4>2, <5>1, <5>2
      <4>3. QED
        BY <1>3, <4>1, <4>2
    <3>3. p + n = (Pre + dec)' /\ Len(got') + Len(in') = dec'
      BY <1>1, <1>2, <3>1
    <3>4. Unframed(Pre + dec)'
      BY <3>3 DEF Unframed
    <3>5. \A i \in 1..Len(got') : got'[i] = Pre + i
      BY <2>2 DEF StreamInv, CipherShape
    <3>6. Boundary(Len(got) + 1)'
      BY DEF StreamInv, CipherShape, Boundary
    <3>7. \A i \in 1..Len(in') : in'[i] = Pre + Len(got') + i
      BY <1>1, <1>2, <3>2
    <3>8. QED
      BY <2>2, <3>3, <3>4, <3>5, <3>6, <3>7 DEF CipherShape
  <2>3. QED
    BY <2>1, <2>2
<1>6. QED
  BY <1>4, <1>5

\* The least of a few numbers.
LEMMA LeastFacts ==
  ASSUME NEW a \in Nat, NEW b \in Nat, NEW T, T = {} \/ \E c \in Nat : T = {c}
  PROVE  /\ Least({a, b} \cup T) \in {a, b} \cup T
         /\ \A m \in {a, b} \cup T : Least({a, b} \cup T) <= m
<1>1. \E n \in {a, b} \cup T : \A m \in {a, b} \cup T : n <= m
  <2>1. CASE T = {}
    BY <2>1
  <2>2. ASSUME NEW c \in Nat, T = {c} PROVE \E n \in {a, b} \cup T : \A m \in {a, b} \cup T : n <= m
    <3>1. \E n \in {a, b, c} : n <= a /\ n <= b /\ n <= c
      OBVIOUS
    <3>2. QED
      BY <2>2, <3>1
  <2>3. QED
    BY <2>1, <2>2
<1>2. QED
  BY <1>1 DEF Least

\* How many units a step takes from the chunk.
LEMMA TakeCount ==
  ASSUME StreamInv, More, remaining > 0
  PROVE  \E n \in Nat \ {0} :
           /\ n = Least({Len(in_u), remaining} \union (IF pc = "unwrap" THEN {Pre - Len(in)} ELSE {}))
           /\ n <= Len(in_u) /\ n <= remaining /\ (~crypto => Len(in) + n <= Pre)
<1> DEFINE T == IF pc = "unwrap" THEN {Pre - Len(in)} ELSE {}
<1>1. /\ Len(in_u) \in Nat \ {0} /\ remaining \in Nat \ {0} /\ Len(in) \in Nat /\ Pre \in Nat
      /\ \/ pc = "decrypt" /\ crypto
         \/ pc = "unwrap" /\ ~crypto /\ Len(in) < Pre
  <2>1. in_u # <<>> /\ in_u \in Seq(Token)
    BY DEF More, StreamInv, StreamTypes
  <2>2. Len(in_u) # 0
    BY <2>1, EmptySeq
  <2>3. QED
    BY <2>2, StreamFacts, StreamConsts, MoreFacts
<1>2. CASE crypto
  <2>1. T = {} /\ Len(in_u) \in Nat /\ remaining \in Nat
    BY <1>1, <1>2
  <2> HIDE DEF T
  <2>2. PICK n : n = Least({Len(in_u), remaining} \cup T)
    OBVIOUS
  <2>3. n \in {Len(in_u), remaining} \cup T /\ \A m \in {Len(in_u), remaining} \cup T : n <= m
    BY <2>1, <2>2, LeastFacts
  <2>4. n \in Nat \ {0} /\ n <= Len(in_u) /\ n <= remaining
    BY <1>1, <2>1, <2>3
  <2>5. QED
    BY <1>2, <2>2, <2>4 DEF T
<1>3. CASE ~crypto
  <2>1. PICK c : c = Pre - Len(in)
    OBVIOUS
  <2>2. T = {c} /\ c \in Nat \ {0} /\ Len(in_u) \in Nat /\ remaining \in Nat
    BY <1>1, <1>3, <2>1
  <2> HIDE DEF T
  <2>3. T = {} \/ \E e \in Nat : T = {e}
    BY <2>2
  <2>4. PICK n : n = Least({Len(in_u), remaining} \cup T)
    OBVIOUS
  <2>5. n \in {Len(in_u), remaining} \cup T /\ \A m \in {Len(in_u), remaining} \cup T : n <= m
    <3>1. PICK a, b : a = Len(in_u) /\ b = remaining
      OBVIOUS
    <3>2. a \in Nat /\ b \in Nat
      BY <2>2, <3>1
    <3>3. Least({a, b} \cup T) \in {a, b} \cup T /\ \A m \in {a, b} \cup T : Least({a, b} \cup T) <= m
      BY <2>3, <3>2, LeastFacts
    <3>4. QED
      BY <2>4, <3>1, <3>3
  <2>6. n \in {Len(in_u), remaining, c} /\ n <= Len(in_u) /\ n <= remaining /\ n <= c
    BY <2>2, <2>5
  <2>7. n \in Nat \ {0} /\ Len(in) + n <= Pre
    BY <1>1, <2>1, <2>2, <2>6
  <2>8. QED
    BY <2>4, <2>6, <2>7 DEF T
<1>4. QED
  BY <1>1, <1>2, <1>3

\* The first n tokens of in_u, when they are the units behind p: as they are, and
\* decrypted where the keystream is at p.
LEMMA UnitsFacts ==
  ASSUME StreamInv, NEW n \in 1..Len(in_u), NEW p \in Nat,
         \A i \in 1..n : wire[Taken + i] = Data(p + i)
  PROVE  LET S == SubSeq(in_u, 1, n)
         IN  /\ [i \in 1..n |-> S[i].n] \in Seq(Nat) /\ Len([i \in 1..n |-> S[i].n]) = n
             /\ \A i \in 1..n : [j \in 1..n |-> S[j].n][i] = p + i
             /\ p = Pre + dec =>
                  /\ Decrypted(S) \in Seq(Nat) /\ Len(Decrypted(S)) = n
                  /\ \A i \in 1..n : Decrypted(S)[i] = p + i
<1> DEFINE S == SubSeq(in_u, 1, n)
           U == [i \in 1..n |-> S[i].n]
<1>1. in_u \in Seq(Token) /\ n \in 0..Len(in_u) /\ n \in Nat
  BY StreamFacts DEF StreamInv, StreamTypes
<1>2. S \in Seq(Token) /\ Len(S) = n /\ \A i \in 1..n : S[i] = in_u[i]
  BY <1>1, FirstFacts
<1>3. DOMAIN S = 1..n
  BY <1>2, LenProperties
<1> HIDE DEF S
<1>4. \A i \in 1..n : S[i].n = p + i /\ p + i \in Nat
  <2> TAKE i \in 1..n
  <2>1. i \in 1..Len(in_u) /\ p + i \in Nat
    BY <1>1, StreamFacts
  <2>2. in_u[i] = Data(p + i)
    BY <2>1 DEF StreamInv, InputShape
  <2>3. QED
    BY <1>2, <2>1, <2>2, TokenFacts
<1>5. U \in Seq(Nat) /\ Len(U) = n /\ \A i \in 1..n : U[i] = p + i
  BY <1>1, <1>4
<1>6. ASSUME p = Pre + dec
      PROVE  /\ Decrypted(S) \in Seq(Nat) /\ Len(Decrypted(S)) = n
             /\ \A i \in 1..n : Decrypted(S)[i] = p + i
  <2>1. Decrypted(S) = [i \in 1..n |-> IF S[i].n = Pre + dec + i THEN S[i].n ELSE Noise]
    BY <1>3 DEF Decrypted
  <2>2. \A i \in 1..n : (IF S[i].n = Pre + dec + i THEN S[i].n ELSE Noise) = p + i
    BY <1>4, <1>6
  <2>3. Decrypted(S) = [i \in 1..n |-> p + i]
    BY <2>1, <2>2
  <2>4. QED
    BY <1>1, <1>4, <2>3
<1>7. QED
  BY <1>5, <1>6 DEF S

\* The units that in misses: behind those decrypted, or those of the opening.
Place == IF crypto THEN Pre + dec ELSE Len(in) + IF Opening(0) THEN 0 ELSE 1

LEMMA PlaceFacts ==
  ASSUME StreamInv, transport # "NONE"
  PROVE  Place \in Nat /\ Unframed(Place) /\ (crypto => Place = Pre + dec)
<1>1. Len(in) \in Nat /\ dec \in Nat /\ Pre \in Nat
  BY StreamFacts, StreamConsts
<1>2. CASE crypto
  BY <1>1, <1>2 DEF Place, StreamInv, CipherShape
<1>3. CASE ~crypto /\ Opening(0)
  <2>1. Place = 0 + Len(in)
    BY <1>1, <1>3 DEF Place
  <2>2. Unframed(0 + Len(in))
    BY <1>3 DEF Opening
  <2>3. QED
    BY <1>1, <1>3, <2>1, <2>2
<1>4. CASE ~crypto /\ ~Opening(0)
  <2>1. Place = 1 + Len(in)
    BY <1>1, <1>4 DEF Place
  <2>2. Unframed(1 + Len(in))
    BY <1>4 DEF Opening, StreamInv, HeadShape
  <2>3. QED
    BY <1>1, <1>4, <2>1, <2>2
<1>5. QED
  BY <1>2, <1>3, <1>4

LEMMA TakeStream == ASSUME StreamInv, TakeData PROVE StreamInv'
<1>1. /\ More /\ remaining > 0 /\ UNCHANGED <<crypto, pc, next>>
      /\ UNCHANGED <<mode, text, cut, wire, nRecv, transport, skip, out, out_p, sent, replies, got>>
      /\ TextShape' /\ WireShape' /\ OutShape'
  BY ReaderFrame DEF TakeData
<1>2. mode = "CHUNKED" /\ transport = "CHUNKED" /\ transport # "NONE" /\ (pc = "decrypt" <=> crypto)
  BY <1>1, MoreFacts
<1>3. PICK n \in Nat \ {0} :
        /\ n = Least({Len(in_u), remaining} \union (IF pc = "unwrap" THEN {Pre - Len(in)} ELSE {}))
        /\ n <= Len(in_u) /\ n <= remaining /\ (~crypto => Len(in) + n <= Pre)
  BY <1>1, TakeCount
<1> DEFINE S == SubSeq(in_u, 1, n)
           U == IF crypto THEN Decrypted(S) ELSE [i \in 1..n |-> S[i].n]
<1>4. /\ in' = in \o U /\ dec' = IF crypto THEN dec + n ELSE dec
      /\ in_u' = SubSeq(in_u, n + 1, Len(in_u)) /\ remaining' = remaining - n
      /\ header_state' = IF remaining = n THEN 2 ELSE header_state
  BY <1>2, <1>3 DEF TakeData
<1>5. PICK p : p = Place
  OBVIOUS
<1>6. p \in Nat /\ Unframed(p) /\ (crypto => p = Pre + dec)
  BY <1>2, <1>5, PlaceFacts
<1>7. \A i \in 1..n : wire[Taken + i] = Data(p + i)
  <2> TAKE i \in 1..n
  <2>1. i \in 1..remaining
    BY <1>3, StreamFacts
  <2>2. QED
    BY <1>1, <1>2, <1>6, <2>1 DEF Unframed
<1>8. U \in Seq(Nat) /\ Len(U) = n /\ \A i \in 1..n : U[i] = p + i
  <2>1. n \in 1..Len(in_u)
    BY <1>3, StreamFacts
  <2>2. /\ [i \in 1..n |-> S[i].n] \in Seq(Nat) /\ Len([i \in 1..n |-> S[i].n]) = n
        /\ \A i \in 1..n : [j \in 1..n |-> S[j].n][i] = p + i
        /\ p = Pre + dec =>
             /\ Decrypted(S) \in Seq(Nat) /\ Len(Decrypted(S)) = n
             /\ \A i \in 1..n : Decrypted(S)[i] = p + i
    BY <1>6, <1>7, <2>1, UnitsFacts
  <2>3. CASE crypto
    BY <1>6, <2>2, <2>3
  <2>4. CASE ~crypto
    BY <2>2, <2>4
  <2>5. QED
    BY <2>3, <2>4
<1> HIDE DEF U
<1>9. in \in Seq(Nat)
  BY <1>2 DEF StreamInv, StreamTypes
<1>10. /\ in' \in Seq(Nat) /\ Len(in') = Len(in) + Len(U)
       /\ \A i \in 1..Len(in) : in'[i] = in[i]
       /\ \A i \in 1..Len(U) : in'[Len(in) + i] = U[i]
  <2>1. in \in Seq(Nat) /\ U \in Seq(Nat)
    BY <1>8, <1>9
  <2>2. QED
    BY <1>4, <2>1, ConcatFacts
<1>11. Len(in') = Len(in) + n /\ \A i \in 1..n : in'[Len(in) + i] = p + i
  BY <1>8, <1>10
<1>12. in_u' \in Seq(Token) /\ Taken' = Taken + n /\ InputShape'
  <2>1. n \in 0..Len(in_u)
    BY <1>3, StreamFacts
  <2>2. QED
    BY <1>1, <1>4, <2>1, TakenFacts
<1>13. Unframed(p + n)'
  <2>1. \A q \in Nat : Unframed(q) => Unframed(q + n)'
    BY <1>1, <1>2, <1>3, <1>4, <1>12, UnitsTaken DEF client
  <2>2. QED
    BY <1>6, <2>1
<1>14. HeadShape' /\ CipherShape'
  <2>1. p = IF crypto THEN Pre + dec ELSE Len(in) + IF Opening(0) THEN 0 ELSE 1
    BY <1>5 DEF Place
  <2>2. ~crypto /\ transport = "CHUNKED" => Len(in') <= Pre
    BY <1>3, <1>11
  <2>3. ~(~crypto /\ transport = "RAW")
    BY <1>2
  <2>4. n \in Nat /\ UNCHANGED <<text, transport, crypto, got>>
    BY <1>1
  <2>5. \A i \in 1..Len(in) : in'[i] = in[i]
    BY <1>10
  <2>6. dec' = IF crypto THEN dec + n ELSE dec
    BY <1>4
  <2>7. QED
    BY <1>2, <1>6, <1>11, <1>13, <2>1, <2>2, <2>3, <2>4, <2>5, <2>6, Advanced
<1>15. StreamTypes' /\ PlaceShape'
  <2>1. dec' \in 0..MaxText
    <3>1. CASE crypto
      <4>1. /\ p + remaining <= cut /\ cut <= Pre + Len(text) /\ Len(text) <= MaxText
        BY <1>1, <1>2, <1>6, UnitBound DEF StreamInv, StreamTypes
      <4>2. dec' = dec + n /\ p = Pre + dec
        BY <1>4, <1>6, <3>1
      <4>3. /\ dec \in Nat /\ remaining \in Nat /\ cut \in Nat /\ Len(text) \in Nat
            /\ Pre \in Nat /\ MaxText \in Nat
        BY StreamFacts, StreamConsts
      <4>4. PICK r, c, l : r = remaining /\ c = cut /\ l = Len(text)
        OBVIOUS
      <4>5. /\ (Pre + dec) + r <= c /\ c <= Pre + l /\ l <= MaxText /\ n <= r
            /\ r \in Nat /\ c \in Nat /\ l \in Nat
        BY <1>3, <4>1, <4>2, <4>3, <4>4
      <4>6. dec + n <= MaxText
        BY <4>3, <4>5
      <4>7. QED
        BY <4>2, <4>3, <4>6
    <3>2. CASE ~crypto
      BY <1>4, <3>2 DEF StreamInv, StreamTypes, StreamTypeOK
    <3>3. QED
      BY <3>1, <3>2
  <2>2. remaining' \in 0..MaxChunk /\ header_state' \in 0..2
    <3>1. remaining \in 0..MaxChunk /\ header_state \in 0..2
      BY DEF StreamInv, StreamTypes, StreamTypeOK
    <3>2. QED
      BY <1>3, <1>4, <3>1, StreamConsts
  <2>3. QED
    BY <1>1, <1>2, <1>10, <1>12, <2>1, <2>2 DEF StreamInv, StreamTypes, StreamTypeOK, PlaceShape
<1>16. RequestShape'
  BY <1>1, <1>2 DEF RequestShape
<1>17. QED
  BY <1>1, <1>12, <1>14, <1>15, <1>16 DEF StreamInv

LEMMA DecryptStream == ASSUME StreamInv, DecryptRaw PROVE StreamInv'
<1>1. /\ UNCHANGED <<crypto, next, remaining, header_state>> /\ pc' = next
      /\ UNCHANGED <<mode, text, cut, wire, nRecv, transport, skip, out, out_p, sent, replies, got>>
      /\ TextShape' /\ WireShape' /\ OutShape'
      /\ in' = in \o Decrypted(in_u) /\ dec' = dec + Len(in_u) /\ in_u' = <<>>
      /\ transport = "RAW" /\ pc = "decrypt"
  BY ReaderFrame DEF DecryptRaw, framing
<1>2. crypto /\ mode = "RAW" /\ transport # "NONE" /\ in \in Seq(Nat)
  BY <1>1, StreamFacts DEF StreamInv, PlaceShape, StreamTypes
<1>3. PICK n, t, p : n = Len(in_u) /\ t = Taken /\ p = Pre + dec
  OBVIOUS
<1>4. /\ n \in Nat /\ t \in Nat /\ p \in Nat /\ t = nRecv - n /\ nRecv <= Len(wire) /\ nRecv \in Nat
      /\ Unframed(p) /\ t = ReqLen + p
  <2>1. /\ n \in Nat /\ t \in Nat /\ t = nRecv - n /\ nRecv <= Len(wire) /\ nRecv \in Nat
    BY <1>3, StreamFacts
  <2>2. p \in Nat
    <3>1. dec \in Nat /\ Pre \in Nat
      BY StreamFacts, StreamConsts
    <3>2. QED
      BY <1>3, <3>1
  <2>3. Unframed(p)
    BY <1>2, <1>3 DEF StreamInv, CipherShape
  <2>4. t = ReqLen + p
    BY <1>2, <1>3, <2>3 DEF Unframed
  <2>5. QED
    BY <2>1, <2>2, <2>3, <2>4
<1>5. \A i \in 1..n : in_u[i].n = p + i /\ p + i \in Nat
  <2> TAKE i \in 1..n
  <2>1. i \in Nat \ {0} /\ t + i <= Len(wire) /\ p + i \in Nat
    BY <1>4, StreamFacts
  <2>2. in_u[i] = wire[t + i]
    BY <1>3 DEF StreamInv, InputShape
  <2>3. wire[t + i].n = p + i
    BY <1>2, <1>4, <2>1, RawTokens
  <2>4. QED
    BY <2>1, <2>2, <2>3
<1>6. Decrypted(in_u) = [i \in 1..n |-> p + i]
  <2>1. DOMAIN in_u = 1..n
    BY <1>3, LenProperties DEF StreamInv, StreamTypes
  <2>2. Decrypted(in_u) = [i \in 1..n |-> IF in_u[i].n = Pre + dec + i THEN in_u[i].n ELSE Noise]
    BY <2>1 DEF Decrypted
  <2>3. \A i \in 1..n : (IF in_u[i].n = Pre + dec + i THEN in_u[i].n ELSE Noise) = p + i
    BY <1>3, <1>5
  <2>4. QED
    BY <2>2, <2>3
<1> DEFINE U == Decrypted(in_u)
<1>7. U \in Seq(Nat) /\ Len(U) = n /\ \A i \in 1..n : U[i] = p + i
  BY <1>4, <1>5, <1>6
<1>8. in' = in \o U
  BY <1>1
<1> HIDE DEF U
<1>9. /\ in' \in Seq(Nat) /\ Len(in') = Len(in) + Len(U)
      /\ \A i \in 1..Len(in) : in'[i] = in[i]
      /\ \A i \in 1..Len(U) : in'[Len(in) + i] = U[i]
  <2>1. in \in Seq(Nat) /\ U \in Seq(Nat)
    BY <1>2, <1>7
  <2>2. QED
    BY <1>8, <2>1, ConcatFacts
<1>10. Len(in') = Len(in) + n /\ \A i \in 1..n : in'[Len(in) + i] = p + i
  BY <1>7, <1>9
<1>11. Len(in_u') = 0 /\ in_u' \in Seq(Token) /\ Taken' = nRecv
  <2>1. Len(in_u') = 0 /\ in_u' \in Seq(Token)
    BY <1>1, EmptySeq
  <2>2. QED
    BY <1>1, <1>4, <2>1 DEF Taken
<1>12. InputShape'
  BY <1>1, <1>4, <1>11 DEF InputShape
<1>13. Unframed(p + n)'
  <2>1. (Taken = ReqLen + (p + n))'
    BY <1>1, <1>4, <1>11, StreamConsts
  <2>2. QED
    BY <1>1, <1>2, <2>1 DEF Unframed
<1>14. HeadShape' /\ CipherShape'
  <2>1. p = IF crypto THEN Pre + dec ELSE Len(in) + IF Opening(0) THEN 0 ELSE 1
    BY <1>2, <1>3
  <2>2. /\ ~(~crypto /\ transport = "CHUNKED") /\ ~(~crypto /\ transport = "RAW")
        /\ UNCHANGED <<text, transport, crypto, got>>
        /\ \A i \in 1..Len(in) : in'[i] = in[i]
        /\ dec' = IF crypto THEN dec + n ELSE dec
    BY <1>1, <1>2, <1>3, <1>9
  <2>3. QED
    BY <1>2, <1>4, <1>10, <1>13, <2>1, <2>2, Advanced
<1>15. StreamTypes' /\ PlaceShape'
  <2>1. dec' \in 0..MaxText
    <3>1. /\ cut <= Pre + Len(text) /\ Len(text) <= MaxText /\ Len(wire) = ReqLen + cut
      BY <1>2 DEF StreamInv, StreamTypes, WireShape
    <3>2. dec' = dec + n /\ p = Pre + dec
      BY <1>1, <1>3
    <3>3. /\ dec \in Nat /\ cut \in Nat /\ Len(text) \in Nat /\ Pre \in Nat /\ MaxText \in Nat
          /\ ReqLen \in Nat
      BY StreamFacts, StreamConsts
    <3>4. ReqLen + (Pre + dec) = nRecv - n /\ nRecv <= ReqLen + cut
      BY <1>4, <3>1, <3>2
    <3>5. PICK c, l : c = cut /\ l = Len(text)
      OBVIOUS
    <3>6. /\ ReqLen + (Pre + dec) = nRecv - n /\ nRecv <= ReqLen + c
          /\ c <= Pre + l /\ l <= MaxText /\ c \in Nat /\ l \in Nat
      BY <3>1, <3>3, <3>4, <3>5
    <3>7. dec + n <= MaxText
      BY <1>4, <3>3, <3>6
    <3>8. QED
      BY <1>4, <3>2, <3>3, <3>7
  <2>2. next \in {"gate", "parse"}
    BY DEF StreamInv, StreamTypes
  <2>3. QED
    BY <1>1, <1>2, <1>9, <1>11, <2>1, <2>2 DEF StreamInv, StreamTypes, StreamTypeOK, PlaceShape
<1>16. RequestShape'
  BY <1>1, <1>2 DEF RequestShape
<1>17. QED
  BY <1>1, <1>12, <1>14, <1>15, <1>16 DEF StreamInv

-----------------------------------------------------------------------------
(* The steps that only move the job *)

LEMMA QuietStream ==
  ASSUME StreamInv, LoopEnd \/ Gate \/ ParseEnd \/ ProbeWaits \/ HookAgain
  PROVE  StreamInv'
<1>1. next \in {"gate", "parse"} /\ skip \in Nat
  BY DEF StreamInv, StreamTypes, StreamTypeOK
<1>2. CASE LoopEnd
  <2>1. Untouched /\ skip' = skip /\ next' = next /\ pc' = next
    BY <1>2 DEF LoopEnd, Reader, Untouched
  <2>2. QED
    BY <1>1, <2>1, QuietInv
<1>3. CASE Gate
  <2>1. Untouched /\ skip' \in {0, skip} /\ next' = next /\ pc' \in {"parse", "write"}
    BY <1>3 DEF Gate, Untouched
  <2>2. QED
    BY <1>1, <2>1, QuietInv
<1>4. CASE ParseEnd
  <2>1. Untouched /\ skip' = skip /\ next' = next /\ pc' = "write"
    BY <1>4 DEF ParseEnd, Untouched
  <2>2. QED
    BY <1>1, <2>1, QuietInv
<1>5. CASE ProbeWaits
  <2>1. Untouched /\ skip' = skip /\ next' = next /\ pc' \in {"last", "write"}
    BY <1>5 DEF ProbeWaits, Untouched
  <2>2. QED
    BY <1>1, <2>1, QuietInv
<1>6. CASE HookAgain
  <2>1. Untouched /\ skip' = skip /\ next' = next /\ pc' = "lost"
    BY <1>6 DEF HookAgain, Untouched
  <2>2. QED
    BY <1>1, <2>1, QuietInv
<1>7. QED
  BY <1>2, <1>3, <1>4, <1>5, <1>6

\* The parser is at the first unit of a message.
LEMMA WantedFacts ==
  ASSUME StreamInv, Parse, crypto
  PROVE  /\ Len(in) \in Nat \ {0} /\ Len(got) \in Nat /\ Len(got) + 1 \in 1..Len(text)
         /\ text[Len(got) + 1] > 0 /\ text[Len(got) + 1] \in Nat
         /\ Wanted \in Nat
         /\ Len(in) >= Wanted => Wanted = 1 + text[Len(got) + 1]
<1>1. PICK g, m, d, l : g = Len(got) /\ m = Len(in) /\ d = dec /\ l = Len(text)
  OBVIOUS
<1>2. /\ g \in Nat /\ m \in Nat /\ d \in Nat /\ l \in Nat /\ Pre \in Nat /\ cut \in Nat
      /\ MinUnits \in Nat \ {0}
  BY <1>1, StreamFacts, StreamConsts
<1>3. m # 0
  <2>1. in # <<>> /\ (in \in Seq(Token) \/ in \in Seq(Nat))
    BY DEF Parse, StreamInv, StreamTypes
  <2>2. QED
    BY <1>1, <2>1, EmptySeq
<1>4. g + m = d /\ in[1] = Pre + g + 1
  <2>1. g + m = d /\ \A i \in 1..m : in[i] = Pre + g + i
    BY <1>1 DEF StreamInv, CipherShape
  <2>2. 1 \in 1..m
    BY <1>2, <1>3
  <2>3. QED
    BY <2>1, <2>2
<1>5. d <= l
  <2>1. Pre + dec \in Nat /\ Unframed(Pre + dec)
    BY <1>1, <1>2 DEF StreamInv, CipherShape
  <2>2. Pre + dec <= cut
    BY <2>1, UnitBound
  <2>3. cut <= Pre + l
    BY <1>1 DEF StreamInv, StreamTypes
  <2>4. QED
    BY <1>1, <1>2, <2>2, <2>3
<1>6. g + 1 \in 1..l
  BY <1>2, <1>3, <1>4, <1>5
<1>7. text[g + 1] > 0 /\ text[g + 1] \in Nat
  <2>1. Boundary(g + 1)
    BY <1>1 DEF StreamInv, CipherShape
  <2>2. text[g + 1] > 0
    BY <1>1, <1>2, <1>6, <2>1 DEF Boundary
  <2>3. text \in Seq(Nat)
    BY DEF StreamInv, StreamTypes
  <2>4. text[g + 1] \in Nat
    BY <1>1, <1>6, <2>3, ElementOfSeq
  <2>5. QED
    BY <2>2, <2>4
<1>8. Length(in[1]) = text[g + 1]
  <2>1. in[1] > Pre /\ in[1] - Pre = g + 1
    BY <1>2, <1>4
  <2>2. QED
    BY <2>1 DEF Length
<1>9. Wanted = IF m < MinUnits THEN MinUnits ELSE 1 + text[g + 1]
  BY <1>1, <1>8 DEF Wanted
<1>10. Wanted \in Nat /\ (m >= Wanted => Wanted = 1 + text[g + 1])
  BY <1>2, <1>7, <1>9
<1>11. QED
  BY <1>1, <1>2, <1>3, <1>6, <1>7, <1>10

LEMMA PacketWaitsStream == ASSUME StreamInv, PacketWaits PROVE StreamInv'
<1>1. /\ Parse /\ crypto /\ Untouched /\ next' = next /\ pc' = "write"
      /\ skip' = (Wanted - Len(in)) + Len(in)
  BY DEF PacketWaits, Untouched
<1>2. Wanted \in Nat /\ Len(in) \in Nat
  BY <1>1, WantedFacts
<1>3. skip' \in Nat /\ next \in {"gate", "parse"}
  BY <1>1, <1>2 DEF StreamInv, StreamTypes
<1>4. QED
  BY <1>1, <1>3, QuietInv

-----------------------------------------------------------------------------
(* The parser *)

LEMMA HeaderStream == ASSUME StreamInv, HeaderOnly PROVE StreamInv'
<1>1. /\ Parse /\ transport # "NONE" /\ ~crypto /\ in[1] = 1 /\ Len(in) < Pre /\ in' = Tail(in)
      /\ skip' = CASE in' = <<>> -> 0
                   [] Len(in') \in 1 .. MinUnits - 1 -> MinUnits - Len(in') + Len(in_u)
                   [] OTHER -> InitUnits - Len(in') + Len(in_u)
      /\ pc' = "write"
      /\ UNCHANGED <<mode, text, cut, wire, nRecv, in_u, transport, remaining, header_state,
                     crypto, dec, next, out, out_p, sent, replies, got>>
  BY DEF HeaderOnly, client, framing, back
<1>2. in \in Seq(Nat) /\ in # <<>>
  BY <1>1 DEF StreamInv, StreamTypes, Parse
<1>3. /\ in' \in Seq(Nat) /\ Len(in') = Len(in) - 1 /\ Len(in) \in Nat \ {0}
      /\ \A i \in 1..(Len(in) - 1) : in'[i] = in[i + 1]
  BY <1>1, <1>2, HeadTailProperties, EmptySeq, StreamFacts
<1>4. PICK m : m = Len(in)
  OBVIOUS
<1>5. m \in Nat \ {0} /\ Len(in') = m - 1 /\ m - 1 \in Nat
  BY <1>3, <1>4
<1>6. TextShape' /\ WireShape' /\ OutShape'
  BY <1>1, ClientSame, BackSame DEF client, back
<1>7. skip' \in Nat
  <2>1. /\ m < 1 + InitUnits /\ InitUnits \in Nat /\ MinUnits \in Nat /\ Len(in_u) \in Nat
        /\ MinUnits <= InitUnits
    BY <1>1, <1>4, StreamFacts, StreamConsts
  <2>2. /\ InitUnits - (m - 1) + Len(in_u) \in Nat
        /\ m - 1 \in 1..(MinUnits - 1) => MinUnits - (m - 1) + Len(in_u) \in Nat
    BY <1>5, <2>1
  <2>3. QED
    BY <1>1, <1>5, <2>2
<1>8. StreamTypes' /\ PlaceShape'
  BY <1>1, <1>3, <1>7 DEF StreamInv, StreamTypes, StreamTypeOK, PlaceShape
<1>9. InputShape' /\ RequestShape'
  BY <1>1 DEF StreamInv, InputShape, RequestShape, Taken
<1>10. CipherShape'
  BY <1>1 DEF StreamInv, CipherShape, Boundary
<1>11. Opening(0)
  <2>1. CASE Opening(1)
    <3>1. 1 \in 1..m
      BY <1>5
    <3>2. in[1] = 1 + 1
      BY <1>4, <2>1, <3>1 DEF Opening
    <3>3. QED
      BY <1>1, <3>2
  <2>2. QED
    BY <1>1, <2>1 DEF StreamInv, HeadShape
<1>12. Opening(1)'
  <2>1. Unframed(m)
    <3>1. Unframed(0 + m)
      BY <1>4, <1>11 DEF Opening
    <3>2. 0 + m = m
      BY <1>5
    <3>3. QED
      BY <3>1, <3>2
  <2>2. Taken' = Taken
    BY <1>1 DEF Taken
  <2>3. Unframed(m)'
    BY <1>1, <2>1, <2>2, UnframedSame DEF client, framing
  <2>4. m = (1 + Len(in))'
    BY <1>5
  <2>5. \A i \in 1..(m - 1) : in'[i] = 1 + i
    <3> TAKE i \in 1..(m - 1)
    <3>1. i + 1 \in 1..m /\ 0 + (i + 1) = 1 + i
      BY <1>5
    <3>2. in[i + 1] = 0 + (i + 1)
      BY <1>4, <1>11, <3>1 DEF Opening
    <3>3. QED
      BY <1>3, <1>4, <3>1, <3>2
  <2>6. QED
    BY <1>5, <2>3, <2>4, <2>5 DEF Opening, Unframed
<1>13. HeadShape'
  <2>1. transport = "RAW" => in_u = <<>>
    BY <1>1 DEF StreamInv, HeadShape
  <2>2. Len(in') <= Pre
    BY <1>1, <1>4, <1>5, StreamConsts
  <2>3. QED
    BY <1>1, <1>12, <2>1, <2>2 DEF HeadShape
<1>14. QED
  BY <1>6, <1>8, <1>9, <1>10, <1>13 DEF StreamInv

\* The whole request is there, and what is behind it is the body.
LEMMA ProbeFacts ==
  ASSUME StreamInv, Probe
  PROVE  /\ transport = "NONE" /\ ~crypto /\ in \in Seq(Token) /\ in_u = <<>> /\ Len(in) = nRecv
         /\ remaining = 0 /\ header_state = 0 /\ ReqLen \in 0..Len(in)
         /\ transport' = mode /\ next' = "parse"
         /\ UNCHANGED <<mode, text, cut, wire, nRecv, remaining, header_state, crypto, dec, skip,
                        out_p, sent, replies, got>>
         /\ TextShape' /\ WireShape' /\ OutShape' /\ RequestShape' /\ CipherShape'
<1>1. /\ transport = "NONE" /\ Blank \in {in[i] : i \in DOMAIN in}
      /\ transport' = mode /\ next' = "parse" /\ out' = Append(out, "response")
      /\ UNCHANGED <<mode, text, cut, wire, nRecv, remaining, header_state, crypto, dec, skip,
                     out_p, sent, replies, got>>
  BY DEF Probe, client, framing
<1>2. /\ ~crypto /\ in \in Seq(Token) /\ in_u = <<>> /\ Len(in) = nRecv
      /\ remaining = 0 /\ header_state = 0 /\ \A i \in 1..nRecv : in[i] = wire[i]
  BY <1>1 DEF StreamInv, StreamTypes, RequestShape
<1>3. ReqLen \in 0..Len(in)
  <2>1. PICK i \in DOMAIN in : in[i] = Blank
    BY <1>1
  <2>2. i \in 1..nRecv
    BY <1>2, LenProperties
  <2>3. wire[i] = Blank /\ i \in 1..Len(wire)
    BY <1>2, <2>1, <2>2, StreamFacts
  <2>4. i = ReqLen
    BY <2>3 DEF StreamInv, WireShape
  <2>5. QED
    BY <1>2, <2>2, <2>4, StreamFacts, StreamConsts
<1>4. TextShape' /\ WireShape'
  BY <1>1, ClientSame DEF client
<1>5. transport' # "NONE" /\ (mode = "RAW" \/ mode = "CHUNKED")
  BY <1>1, StreamFacts
<1>6. OutShape'
  <2>1. sent = <<>> /\ out = <<>> /\ replies = 0 /\ out_p = <<>>
    BY <1>1, <1>2 DEF StreamInv, OutShape
  <2>2. out' = <<"response">>
    BY <1>1, <2>1
  <2>3. out' \in Seq(Item)
    BY <2>2 DEF Item
  <2>4. out_p \in Seq(Record) /\ sent \in Seq(Record)
    BY DEF StreamInv, OutShape
  <2>5. QED
    BY <1>1, <1>2, <1>5, <2>1, <2>2, <2>3, <2>4 DEF OutShape
<1>7. RequestShape'
  BY <1>5 DEF RequestShape
<1>8. CipherShape'
  BY <1>1, <1>2 DEF StreamInv, CipherShape, Boundary
<1>9. QED
  BY <1>1, <1>2, <1>3, <1>4, <1>6, <1>7, <1>8

\* Once the request is taken, what was behind it is the start of the body.
LEMMA ProbeChunked ==
  ASSUME StreamInv, Probe, mode = "CHUNKED"
  PROVE  StreamInv'
<1>1. /\ transport = "NONE" /\ ~crypto /\ in \in Seq(Token) /\ in_u = <<>> /\ Len(in) = nRecv
      /\ remaining = 0 /\ header_state = 0 /\ ReqLen \in 0..Len(in)
      /\ transport' = mode /\ next' = "parse"
      /\ UNCHANGED <<mode, text, cut, wire, nRecv, remaining, header_state, crypto, dec, skip,
                     out_p, sent, replies, got>>
      /\ TextShape' /\ WireShape' /\ OutShape' /\ RequestShape' /\ CipherShape'
  BY ProbeFacts
<1>2. in_u' = SubSeq(in, ReqLen + 1, Len(in)) /\ in' = <<>> /\ pc' = "unwrap"
  BY DEF Probe
<1>3. /\ in_u' \in Seq(Token) /\ Len(in_u') = Len(in) - ReqLen
      /\ \A i \in 1..(Len(in) - ReqLen) : in_u'[i] = in[ReqLen + i]
  BY <1>1, <1>2, RestFacts
<1>4. Len(in') = 0 /\ in' \in Seq(Nat)
  BY <1>2, EmptySeq
<1>5. PICK r : r = nRecv
  OBVIOUS
<1>6. r \in Nat /\ ReqLen \in Nat /\ ReqLen <= r /\ Len(in_u') = r - ReqLen /\ nRecv' = r
  BY <1>1, <1>3, <1>5, StreamFacts, StreamConsts
<1>7. Taken' = ReqLen /\ Len(in_u') <= nRecv'
  <2>1. r - (r - ReqLen) = ReqLen /\ r - ReqLen <= r
    BY <1>6
  <2>2. QED
    BY <1>6, <2>1 DEF Taken
<1>8. InputShape'
  <2>1. ASSUME NEW i \in 1..(r - ReqLen)
        PROVE  in_u'[i] = wire'[ReqLen + i]
    <3>1. ReqLen + i \in 1..r
      BY <1>6
    <3>2. in[ReqLen + i] = wire[ReqLen + i]
      BY <1>1, <1>5, <3>1 DEF StreamInv, RequestShape
    <3>3. QED
      BY <1>1, <1>3, <1>5, <3>2
  <2>2. QED
    BY <1>6, <1>7, <2>1 DEF InputShape
<1>9. StreamTypes' /\ PlaceShape'
  <2>1. transport' # "NONE" /\ transport' = mode'
    BY <1>1
  <2>2. QED
    BY <1>1, <1>2, <1>3, <1>4, <2>1 DEF StreamInv, StreamTypes, StreamTypeOK, PlaceShape
<1>10. HeadShape'
  <2>1. ChunkAt(ReqLen + 1, 0)'
    BY <1>1 DEF WireShape, ChunksShape
  <2>2. ReqLen + 1 = (Taken + header_state + 1)' /\ 0 = (0 + Len(in))'
    BY <1>1, <1>4, <1>6, <1>7
  <2>3. ChunkAt(Taken + header_state + 1, 0 + Len(in))'
    BY <2>1, <2>2 DEF ChunkAt
  <2>4. Unframed(0 + Len(in))'
    BY <1>1, <2>3 DEF Unframed
  <2>5. \A i \in 1..Len(in') : in'[i] = 0 + i
    BY <1>4
  <2>6. Opening(0)'
    BY <2>4, <2>5 DEF Opening
  <2>7. Len(in') <= Pre /\ ~(transport' = "RAW")
    BY <1>1, <1>4, StreamConsts
  <2>8. QED
    BY <2>6, <2>7 DEF HeadShape
<1>11. QED
  BY <1>1, <1>8, <1>9, <1>10 DEF StreamInv

LEMMA ProbeRaw ==
  ASSUME StreamInv, Probe, mode = "RAW"
  PROVE  StreamInv'
<1> DEFINE rest == SubSeq(in, ReqLen + 1, Len(in))
<1>1. /\ transport = "NONE" /\ ~crypto /\ in \in Seq(Token) /\ in_u = <<>> /\ Len(in) = nRecv
      /\ remaining = 0 /\ header_state = 0 /\ ReqLen \in 0..Len(in)
      /\ transport' = mode /\ next' = "parse"
      /\ UNCHANGED <<mode, text, cut, wire, nRecv, remaining, header_state, crypto, dec, skip,
                     out_p, sent, replies, got>>
      /\ TextShape' /\ WireShape' /\ OutShape' /\ RequestShape' /\ CipherShape'
  BY ProbeFacts
<1>2. in' = [i \in DOMAIN rest |-> rest[i].n] /\ in_u' = in_u /\ pc' = "parse"
  BY DEF Probe
<1>3. /\ rest \in Seq(Token) /\ Len(rest) = Len(in) - ReqLen
      /\ \A i \in 1..(Len(in) - ReqLen) : rest[i] = in[ReqLen + i]
  BY <1>1, RestFacts
<1>4. DOMAIN rest = 1..Len(rest)
  BY <1>3, LenProperties
<1> HIDE DEF rest
<1>5. PICK r, m : r = nRecv /\ m = Len(in) - ReqLen
  OBVIOUS
<1>6. r \in Nat /\ ReqLen \in Nat /\ ReqLen <= r /\ m \in Nat /\ r = ReqLen + m /\ r <= Len(wire)
  BY <1>1, <1>5, StreamFacts, StreamConsts
<1>7. \A i \in 1..m : rest[i].n = i
  <2> TAKE i \in 1..m
  <2>1. i \in Nat \ {0} /\ ReqLen + i <= Len(wire) /\ ReqLen + i \in 1..r /\ 0 + i = i
    BY <1>6, StreamFacts
  <2>2. rest[i] = wire[ReqLen + i]
    BY <1>1, <1>3, <1>5, <2>1 DEF StreamInv, RequestShape
  <2>3. PICK p : p = 0
    OBVIOUS
  <2>4. p \in Nat /\ ReqLen = ReqLen + p /\ p + i = i
    BY <1>6, <2>1, <2>3
  <2>5. wire[ReqLen + i].n = p + i
    BY <1>6, <2>1, <2>4, RawTokens
  <2>6. QED
    BY <2>2, <2>4, <2>5
<1>8. in' = [i \in 1..m |-> i]
  BY <1>2, <1>3, <1>4, <1>5, <1>7
<1>9. in' \in Seq(Nat) /\ Len(in') = m /\ \A i \in 1..m : in'[i] = 0 + i
  BY <1>6, <1>8
<1>10. Len(in_u') = 0 /\ in_u' = <<>> /\ in_u' \in Seq(Token) /\ Taken' = r /\ nRecv' = r
  <2>1. Len(in_u') = 0 /\ in_u' = <<>> /\ in_u' \in Seq(Token)
    BY <1>1, <1>2, EmptySeq
  <2>2. QED
    BY <1>1, <1>5, <1>6, <2>1 DEF Taken
<1>11. InputShape'
  BY <1>6, <1>10 DEF InputShape
<1>12. StreamTypes' /\ PlaceShape'
  <2>1. transport' # "NONE" /\ transport' = mode'
    BY <1>1
  <2>2. QED
    BY <1>1, <1>2, <1>9, <1>10, <2>1 DEF StreamInv, StreamTypes, StreamTypeOK, PlaceShape
<1>13. HeadShape'
  <2>1. (Taken = ReqLen + (0 + Len(in)))'
    BY <1>6, <1>9, <1>10
  <2>2. Unframed(0 + Len(in))'
    BY <1>1, <2>1 DEF Unframed
  <2>3. Opening(0)'
    BY <1>9, <2>2 DEF Opening
  <2>4. QED
    BY <1>1, <1>10, <2>3 DEF HeadShape
<1>14. QED
  BY <1>1, <1>11, <1>12, <1>13 DEF StreamInv

\* The keys are set: what was written in clear goes out in front.
LEMMA StartOut ==
  ASSUME StreamInv, StartCrypto
  PROVE  OutShape'
<1>1. /\ transport # "NONE" /\ ~crypto /\ crypto' = TRUE /\ out' = <<>> /\ UNCHANGED <<sent, replies, transport>>
      /\ out_p' = out_p \o [i \in DOMAIN out |-> <<"clear", out[i]>>]
  BY DEF StartCrypto, back
<1>2. replies = 0 /\ out_p = <<>>
  BY <1>1 DEF StreamInv, OutShape
<1>3. \A S : <<>> \in Seq(S) /\ Len(<<>>) = 0
  BY EmptySeq
<1>4. CASE sent = <<>> /\ out = <<"response">>
  <2>1. [i \in DOMAIN out |-> <<"clear", out[i]>>] = <<<<"clear", "response">>>>
    BY <1>4
  <2>2. out_p' = <<<<"clear", "response">>>>
    BY <1>1, <1>2, <2>1
  <2>3. <<"clear", "response">> \in Record
    BY DEF Record, Item
  <2>4. out_p' \in Seq(Record) /\ Len(out_p') = 1 /\ out_p'[1] = <<"clear", "response">>
    BY <2>2, <2>3
  <2>5. \A i \in 1..Len(out_p') : out_p'[i] = Answer(Len(sent') + i)
    <3>1. Len(sent') = 0 /\ Answer(1) = <<"clear", "response">>
      BY <1>1, <1>3, <1>4 DEF Answer
    <3>2. QED
      BY <2>4, <3>1
  <2>6. sent' = <<>> /\ Len(sent') = 0 /\ Len(out') = 0 /\ replies' = 0
    BY <1>1, <1>2, <1>3, <1>4
  <2>7. Len(sent') + Len(out_p') + Len(out') = replies' + 1
    BY <2>4, <2>6
  <2>8. QED
    BY <1>1, <1>3, <2>4, <2>5, <2>6, <2>7 DEF OutShape
<1>5. CASE sent = <<<<"clear", "response">>>> /\ out = <<>>
  <2>1. out_p' = <<>>
    BY <1>1, <1>2, <1>5
  <2>2. sent' = <<<<"clear", "response">>>> /\ sent' \in Seq(Record)
    BY <1>1, <1>5 DEF StreamInv, OutShape
  <2>3. Len(sent') = 1 /\ \A i \in 1..Len(sent') : sent'[i] = Answer(i)
    BY <2>2 DEF Answer
  <2>4. Len(sent') + Len(out_p') + Len(out') = replies' + 1
    BY <1>1, <1>2, <1>3, <2>1, <2>3
  <2>5. /\ Len(out_p') = 0 /\ Len(out') = 0 /\ out_p' \in Seq(Record) /\ out' \in Seq(Item)
        /\ transport' # "NONE" /\ crypto'
    BY <1>1, <1>3, <2>1
  <2>6. /\ \A i \in 1..Len(out_p') : out_p'[i] = Answer(Len(sent') + i)
        /\ \A i \in 1..Len(out') : <<"cipher", out'[i]>> = Answer(Len(sent') + Len(out_p') + i)
    BY <2>5
  <2>7. QED
    BY <2>2, <2>3, <2>4, <2>5, <2>6 DEF OutShape
<1>6. QED
  BY <1>1, <1>4, <1>5 DEF StreamInv, OutShape

\* The units behind the init go back to where the decryption takes them.
LEMMA StartStream == ASSUME StreamInv, StartCrypto PROVE StreamInv'
<1> DEFINE B == [i \in 1..(Len(in) - Pre) |-> Data(in[Pre + i])]
<1>1. /\ Parse /\ transport # "NONE" /\ ~crypto /\ in[1] = 1 /\ Len(in) >= Pre
      /\ in_u' = in_u \o B /\ in' = <<>>
      /\ crypto' = TRUE /\ pc' = "decrypt" /\ next' = "parse"
      /\ UNCHANGED <<mode, text, cut, wire, nRecv, transport, remaining, header_state, dec, skip,
                     sent, replies, got>>
  BY DEF StartCrypto, client, framing
<1>2. in \in Seq(Nat) /\ in # <<>> /\ in_u \in Seq(Token) /\ got = <<>> /\ dec = 0
  BY <1>1 DEF StreamInv, StreamTypes, Parse, CipherShape
<1>3. PICK m, r, u : m = Len(in) /\ r = nRecv /\ u = Len(in_u)
  OBVIOUS
<1>4. /\ m \in Nat /\ r \in Nat /\ u \in Nat /\ u <= r /\ Pre \in Nat /\ Pre <= m /\ m - Pre \in Nat
      /\ Taken = r - u /\ r <= Len(wire) /\ ReqLen \in Nat /\ Pre = 1 + InitUnits /\ InitUnits \in Nat
  <2>1. /\ m \in Nat /\ r \in Nat /\ u \in Nat /\ u <= r /\ Pre \in Nat /\ Pre <= m
        /\ Taken = r - u /\ r <= Len(wire) /\ ReqLen \in Nat /\ Pre = 1 + InitUnits
        /\ InitUnits \in Nat
    BY <1>1, <1>3, StreamFacts, StreamConsts
  <2>2. m - Pre \in Nat
    BY <2>1
  <2>3. QED
    BY <2>1, <2>2
<1>5. Opening(0)
  <2>1. CASE Opening(1)
    <3>1. 1 \in 1..m
      BY <1>4
    <3>2. in[1] = 1 + 1
      BY <1>3, <2>1, <3>1 DEF Opening
    <3>3. QED
      BY <1>1, <3>2
  <2>2. QED
    BY <1>1, <2>1 DEF StreamInv, HeadShape
<1>6. Unframed(m) /\ \A i \in 1..m : in[i] = i
  <2>1. Unframed(0 + m) /\ \A i \in 1..m : in[i] = 0 + i
    BY <1>3, <1>5 DEF Opening
  <2>2. 0 + m = m /\ \A i \in 1..m : 0 + i = i
    BY <1>4
  <2>3. QED
    BY <2>1, <2>2
<1>7. \A i \in 1..(m - Pre) : in[Pre + i] = Pre + i /\ Pre + i \in Nat
  <2> TAKE i \in 1..(m - Pre)
  <2>1. Pre + i \in 1..m /\ Pre + i \in Nat
    BY <1>4
  <2>2. QED
    BY <1>6, <2>1
<1>8. B \in Seq(Token) /\ Len(B) = m - Pre /\ \A i \in 1..(m - Pre) : B[i] = Data(Pre + i)
  <2>1. B = [i \in 1..(m - Pre) |-> Data(in[Pre + i])]
    BY <1>3
  <2>2. \A i \in 1..(m - Pre) : Data(in[Pre + i]) = Data(Pre + i) /\ Data(Pre + i) \in Token
    BY <1>7, TokenFacts
  <2>3. B = [i \in 1..(m - Pre) |-> Data(Pre + i)]
    BY <2>1, <2>2
  <2> HIDE DEF B
  <2>4. PICK n \in Nat : n = m - Pre
    BY <1>4
  <2>5. B = [i \in 1..n |-> Data(Pre + i)] /\ \A i \in 1..n : Data(Pre + i) \in Token
    BY <2>2, <2>3, <2>4
  <2>6. B \in Seq(Token) /\ Len(B) = n /\ \A i \in 1..n : B[i] = Data(Pre + i)
    BY <2>5
  <2>7. QED
    BY <2>4, <2>6
<1> HIDE DEF B
<1>9. /\ in_u' \in Seq(Token) /\ Len(in_u') = Len(in_u) + Len(B)
      /\ \A i \in 1..Len(in_u) : in_u'[i] = in_u[i]
      /\ \A i \in 1..Len(B) : in_u'[Len(in_u) + i] = B[i]
  <2>1. in_u \in Seq(Token) /\ B \in Seq(Token)
    BY <1>2, <1>8
  <2>2. QED
    BY <1>1, <2>1, ConcatFacts
<1>10. Len(in_u') = u + (m - Pre)
  BY <1>3, <1>8, <1>9
<1>11. Len(in') = 0 /\ in' \in Seq(Nat) /\ Len(got') = 0
  BY <1>1, <1>2, EmptySeq
<1>12. TextShape' /\ WireShape' /\ OutShape'
  BY <1>1, ClientSame, StartOut DEF client
<1>13. StreamTypes' /\ PlaceShape'
  BY <1>1, <1>9, <1>11 DEF StreamInv, StreamTypes, StreamTypeOK, PlaceShape
<1>14. RequestShape' /\ HeadShape'
  BY <1>1 DEF RequestShape, HeadShape
<1>15. InputShape' /\ Unframed(Pre)'
  <2>1. CASE mode = "CHUNKED"
    <3>1. transport = "CHUNKED" /\ m = Pre
      <4>1. transport = "CHUNKED"
        BY <1>1, <2>1, StreamFacts
      <4>2. m <= Pre
        BY <1>1, <1>3, <4>1 DEF StreamInv, HeadShape
      <4>3. QED
        BY <1>4, <4>1, <4>2
    <3>2. Len(in_u') = u /\ \A i \in 1..u : in_u'[i] = in_u[i]
      BY <1>3, <1>4, <1>9, <1>10, <3>1
    <3>3. Taken' = Taken
      BY <1>1, <1>3, <3>2 DEF Taken
    <3>4. InputShape'
      BY <1>1, <1>3, <3>2, <3>3 DEF StreamInv, InputShape
    <3>5. Unframed(Pre)'
      BY <1>1, <1>6, <3>1, <3>3, UnframedSame DEF client, framing
    <3>6. QED
      BY <3>4, <3>5
  <2>2. CASE mode = "RAW"
    <3>1. u = 0
      <4>1. transport = "RAW"
        BY <1>1, <2>2, StreamFacts
      <4>2. in_u = <<>>
        BY <1>1, <4>1 DEF StreamInv, HeadShape
      <4>3. QED
        BY <1>3, <4>2, EmptySeq
    <3>2. r = ReqLen + m
      <4>1. Taken = ReqLen + m
        BY <1>6, <2>2 DEF Unframed
      <4>2. QED
        BY <1>4, <3>1, <4>1
    <3>3. Len(in_u') = m - Pre /\ nRecv' = r
      BY <1>1, <1>3, <1>4, <1>10, <3>1
    <3>4. Taken' = ReqLen + Pre /\ Len(in_u') <= nRecv'
      <4>1. (ReqLen + m) - (m - Pre) = ReqLen + Pre /\ m - Pre <= ReqLen + m
        BY <1>4
      <4>2. QED
        BY <3>2, <3>3, <4>1 DEF Taken
    <3>5. ASSUME NEW i \in 1..(m - Pre)
          PROVE  in_u'[i] = wire'[ReqLen + Pre + i]
      <4>1. in_u'[i] = Data(Pre + i)
        <5>1. in_u'[u + i] = B[i]
          BY <1>3, <1>8, <1>9
        <5>2. u + i = i
          BY <1>4, <3>1
        <5>3. QED
          BY <1>8, <5>1, <5>2
      <4>2. PICK t : t = ReqLen + Pre
        OBVIOUS
      <4>3. t \in Nat /\ i \in Nat \ {0} /\ t + i <= Len(wire)
        <5>1. t + i <= r
          BY <1>4, <3>2, <4>2
        <5>2. QED
          BY <1>4, <4>2, <5>1, StreamFacts
      <4>4. wire[t + i] = Data(Pre + i)
        BY <1>4, <2>2, <4>2, <4>3, RawTokens, ZenonT(60)
      <4>5. QED
        BY <1>1, <4>1, <4>2, <4>4
    <3>6. InputShape'
      BY <3>3, <3>4, <3>5 DEF InputShape
    <3>7. Unframed(Pre)'
      BY <1>1, <2>2, <3>4 DEF Unframed
    <3>8. QED
      BY <3>6, <3>7
  <2>3. QED
    BY <2>1, <2>2, StreamFacts
<1>16. CipherShape'
  <2>1. Pre = (Pre + dec)'
    BY <1>1, <1>2, <1>4
  <2>2. Unframed(Pre + dec)'
    BY <1>15, <2>1 DEF Unframed
  <2>3. Boundary(Len(got) + 1)'
    BY <1>1 DEF StreamInv, CipherShape, Boundary
  <2>4. Len(got') + Len(in') = dec'
    BY <1>1, <1>2, <1>11
  <2>5. QED
    BY <1>1, <1>11, <2>2, <2>3, <2>4 DEF CipherShape
<1>17. QED
  BY <1>12, <1>13, <1>14, <1>15, <1>16 DEF StreamInv

\* A packet is executed when it is whole; what is behind it begins the next one.
LEMMA PacketStream == ASSUME StreamInv, Packet PROVE StreamInv'
<1>1. /\ Parse /\ crypto /\ Len(in) >= Wanted
      /\ got' = got \o SubSeq(in, 1, Wanted) /\ in' = SubSeq(in, Wanted + 1, Len(in))
      /\ UNCHANGED <<mode, text, cut, wire, nRecv, in_u, transport, remaining, header_state,
                     crypto, dec, skip, pc, next, out, out_p, sent, replies>>
  BY DEF Packet, client, framing, back
<1>2. PICK g, m, w : g = Len(got) /\ m = Len(in) /\ w = Wanted
  OBVIOUS
<1>3. /\ m \in Nat \ {0} /\ g \in Nat /\ g + 1 \in 1..Len(text) /\ text[g + 1] > 0
      /\ text[g + 1] \in Nat /\ w \in Nat /\ w <= m /\ w = 1 + text[g + 1]
  BY <1>1, <1>2, WantedFacts
<1>4. m - w \in Nat /\ Pre \in Nat /\ w \in 0..m
  BY <1>3, StreamConsts
<1>5. /\ transport # "NONE" /\ in \in Seq(Nat) /\ got \in Seq(Nat)
  BY <1>1 DEF StreamInv, StreamTypes
<1> DEFINE F == SubSeq(in, 1, w)
<1>6. F \in Seq(Nat) /\ Len(F) = w /\ \A i \in 1..w : F[i] = in[i]
  BY <1>2, <1>4, <1>5, FirstFacts
<1>7. /\ in' \in Seq(Nat) /\ Len(in') = m - w /\ \A i \in 1..(m - w) : in'[i] = in[w + i]
  <2>1. w \in 0..Len(in) /\ in' = SubSeq(in, w + 1, Len(in))
    BY <1>1, <1>2, <1>4
  <2>2. /\ in' \in Seq(Nat) /\ Len(in') = Len(in) - w
        /\ \A i \in 1..(Len(in) - w) : in'[i] = in[w + i]
    BY <1>5, <2>1, RestFacts
  <2>3. QED
    BY <1>2, <2>2
<1>8. got' = got \o F
  BY <1>1, <1>2
<1> HIDE DEF F
<1>9. /\ got' \in Seq(Nat) /\ Len(got') = g + w
      /\ \A i \in 1..g : got'[i] = got[i]
      /\ \A i \in 1..w : got'[g + i] = in[i]
  <2>1. got \in Seq(Nat) /\ F \in Seq(Nat)
    BY <1>5, <1>6
  <2>2. /\ got' \in Seq(Nat) /\ Len(got') = Len(got) + Len(F)
        /\ \A i \in 1..Len(got) : got'[i] = got[i]
        /\ \A i \in 1..Len(F) : got'[Len(got) + i] = F[i]
    BY <1>8, <2>1, ConcatFacts
  <2>3. QED
    BY <1>2, <1>6, <2>2
<1>10. TextShape' /\ WireShape' /\ OutShape'
  BY <1>1, ClientSame, BackSame DEF client, back
<1>11. StreamTypes' /\ PlaceShape'
  BY <1>1, <1>5, <1>7, <1>9 DEF StreamInv, StreamTypes, StreamTypeOK, PlaceShape
<1>12. InputShape' /\ RequestShape' /\ HeadShape'
  BY <1>1, <1>5 DEF StreamInv, InputShape, RequestShape, HeadShape, Taken
<1>13. CipherShape'
  <2>1. /\ g + m = dec /\ \A i \in 1..g : got[i] = Pre + i /\ \A j \in 1..m : in[j] = Pre + g + j
    BY <1>1, <1>2 DEF StreamInv, CipherShape
  <2>2. /\ \A i \in 1..g : got[i] = Pre + i
        /\ \A i \in 1..m : in[i] = Pre + g + i
    BY <1>1, <1>2 DEF StreamInv, CipherShape
  <2>3. Len(got') + Len(in') = dec'
    <3>1. g + m = dec
      BY <1>1, <1>2 DEF StreamInv, CipherShape
    <3>2. (g + w) + (m - w) = g + m
      BY <1>3
    <3>3. QED
      BY <1>1, <1>7, <1>9, <3>1, <3>2
  <2>4. ASSUME NEW i \in 1..(g + w)
        PROVE  got'[i] = Pre + i
    <3>1. CASE i \in 1..g
      BY <3>1, <1>9, <2>2
    <3>2. CASE i - g \in 1..w
      <4>1. i - g \in 1..m /\ g + (i - g) = i /\ Pre + g + (i - g) = Pre + i
        BY <1>3, <1>4, <3>2
      <4>2. got'[g + (i - g)] = in[i - g] /\ in[i - g] = Pre + g + (i - g)
        BY <1>9, <2>2, <3>2, <4>1
      <4>3. QED
        BY <4>1, <4>2
    <3>3. QED
      BY <1>3, <3>1, <3>2
  <2>5. ASSUME NEW i \in 1..(m - w)
        PROVE  in'[i] = Pre + (g + w) + i
    <3>a. m \in Nat /\ w \in Nat /\ g \in Nat /\ Pre \in Nat /\ i \in 1..(m - w)
      BY <1>3, <1>4
    <3>1. w + i \in 1..m /\ Pre + g + (w + i) = Pre + (g + w) + i
      BY <3>a
    <3>2. QED
      BY <1>7, <2>2, <3>1
  <2>6. Unframed(Pre + dec)'
    <3>1. PICK p : p = Pre + dec
      OBVIOUS
    <3>2. Unframed(p)
      BY <1>1, <3>1 DEF StreamInv, CipherShape
    <3>3. Taken' = Taken
      BY <1>1 DEF Taken
    <3>4. Unframed(p)' /\ p = (Pre + dec)'
      BY <1>1, <3>1, <3>2, <3>3, UnframedSame DEF client, framing
    <3>5. QED
      BY <3>4 DEF Unframed
  <2>7. Boundary(Len(got) + 1)'
    <3>1. Boundary((g + 1) + text[g + 1] + 1)
      BY <1>3 DEF StreamInv, TextShape
    <3>2. (g + 1) + text[g + 1] + 1 = (g + w) + 1
      <4>1. PICK x : x = text[g + 1]
        OBVIOUS
      <4>2. x \in Nat /\ g \in Nat /\ w = 1 + x
        BY <1>3, <4>1
      <4>3. (g + 1) + x + 1 = (g + w) + 1
        BY <4>2
      <4>4. QED
        BY <4>1, <4>3
    <3>3. Boundary((g + w) + 1)
      BY <3>1, <3>2
    <3>4. QED
      BY <1>1, <1>9, <3>3 DEF Boundary
  <2>8. QED
    BY <1>1, <1>7, <1>9, <2>3, <2>4, <2>5, <2>6, <2>7 DEF CipherShape
<1>14. QED
  BY <1>10, <1>11, <1>12, <1>13 DEF StreamInv

-----------------------------------------------------------------------------
(* The way back *)

\* What the way back leaves as it is.
LEMMA BackFrame ==
  ASSUME StreamInv,
         UNCHANGED <<mode, text, cut, wire, nRecv, in, in_u, transport, remaining, header_state,
                     crypto, dec, skip, next, got>>,
         pc' \in {"write", "failed", "idle"}, replies' \in Nat, OutShape'
  PROVE  StreamInv'
<1>1. StreamTypes' /\ PlaceShape'
  BY DEF StreamInv, StreamTypes, StreamTypeOK, PlaceShape
<1>2. TextShape' /\ WireShape'
  BY ClientSame DEF client
<1>3. InputShape' /\ RequestShape'
  BY DEF StreamInv, InputShape, RequestShape, Taken
<1>4. HeadShape' /\ CipherShape'
  <2>1. Taken' = Taken
    BY DEF Taken
  <2>2. \A p : Unframed(p) => Unframed(p)'
    BY <2>1, UnframedSame DEF client, framing
  <2>3. transport = "RAW" /\ ~crypto => in_u' = <<>>
    BY DEF StreamInv, HeadShape
  <2>4. QED
    BY <2>2, <2>3, Standing DEF client
<1>5. QED
  BY <1>1, <1>2, <1>3, <1>4 DEF StreamInv

LEMMA ReplyStream == ASSUME StreamInv, Reply PROVE StreamInv'
<1>1. /\ crypto /\ replies' = replies + 1 /\ out' = Append(out, replies') /\ pc' = "write"
      /\ UNCHANGED <<mode, text, cut, wire, nRecv, in, in_u, transport, remaining, header_state,
                     crypto, dec, skip, next, got, out_p, sent>>
  BY DEF Reply, client, framing
<1>2. PICK s, q, o, r : s = Len(sent) /\ q = Len(out_p) /\ o = Len(out) /\ r = replies
  OBVIOUS
<1>3. /\ out \in Seq(Item) /\ out_p \in Seq(Record) /\ sent \in Seq(Record)
      /\ transport # "NONE" /\ r \in Nat /\ s + q + o = r + 1
  BY <1>1, <1>2 DEF StreamInv, OutShape, StreamTypes
<1>4. s \in Nat /\ q \in Nat /\ o \in Nat
  BY <1>2, <1>3, LenProperties
<1>5. replies' \in Item /\ replies' = r + 1
  BY <1>1, <1>2, <1>3 DEF Item
<1>6. /\ out' \in Seq(Item) /\ Len(out') = o + 1 /\ out'[o + 1] = r + 1
      /\ \A i \in 1..o : out'[i] = out[i]
  BY <1>1, <1>2, <1>3, <1>5, AppendProperties
<1>7. \A i \in 1..(o + 1) : <<"cipher", out'[i]>> = Answer(s + q + i)
  <2> TAKE i \in 1..(o + 1)
  <2>1. CASE i \in 1..o
    BY <1>1, <1>2, <1>6, <2>1 DEF StreamInv, OutShape
  <2>2. CASE i = o + 1
    <3>1. PICK k : k = s + q + i
      OBVIOUS
    <3>2. k # 1 /\ k - 1 = r + 1
      BY <1>3, <1>4, <2>2, <3>1
    <3>3. Answer(k) = <<"cipher", r + 1>>
      BY <3>2 DEF Answer
    <3>4. QED
      BY <1>6, <2>2, <3>1, <3>3
  <2>3. QED
    BY <1>4, <2>1, <2>2
<1>8. OutShape'
  <2>1. Len(sent') + Len(out_p') + Len(out') = replies' + 1
    BY <1>1, <1>2, <1>3, <1>4, <1>5, <1>6
  <2>2. /\ \A i \in 1..Len(sent') : sent'[i] = Answer(i)
        /\ \A i \in 1..Len(out_p') : out_p'[i] = Answer(Len(sent') + i)
    BY <1>1 DEF StreamInv, OutShape
  <2>3. \A i \in 1..Len(out') : <<"cipher", out'[i]>> = Answer(Len(sent') + Len(out_p') + i)
    BY <1>1, <1>2, <1>6, <1>7
  <2>4. QED
    BY <1>1, <1>3, <1>6, <2>1, <2>2, <2>3 DEF OutShape
<1>9. QED
  BY <1>1, <1>3, <1>5, <1>8, BackFrame

\* With the keys: what was put aside leaves in clear, then the rest encrypted.
LEMMA WriteCipher ==
  ASSUME StreamInv, Write, crypto
  PROVE  OutShape'
<1> DEFINE C == [i \in DOMAIN out |-> <<"cipher", out[i]>>]
           u == sent \o out_p
<1>1. /\ sent' = u \o C /\ out' = <<>> /\ out_p' = <<>>
      /\ UNCHANGED <<crypto, transport, replies>>
  BY DEF Write
<1>2. PICK s, q, o, r : s = Len(sent) /\ q = Len(out_p) /\ o = Len(out) /\ r = replies
  OBVIOUS
<1>3. /\ out \in Seq(Item) /\ out_p \in Seq(Record) /\ sent \in Seq(Record)
      /\ transport # "NONE" /\ r \in Nat /\ s + q + o = r + 1
      /\ \A i \in 1..s : sent[i] = Answer(i)
      /\ \A i \in 1..q : out_p[i] = Answer(s + i)
      /\ \A i \in 1..o : <<"cipher", out[i]>> = Answer(s + q + i)
  BY <1>2 DEF StreamInv, OutShape, StreamTypes
<1>4. s \in Nat /\ q \in Nat /\ o \in Nat /\ DOMAIN out = 1..o
  BY <1>2, <1>3, LenProperties
<1>5. C \in Seq(Record) /\ Len(C) = o /\ \A i \in 1..o : C[i] = <<"cipher", out[i]>>
  <2>1. \A i \in 1..o : <<"cipher", out[i]>> \in Record
    <3> TAKE i \in 1..o
    <3>1. out[i] \in Item
      BY <1>2, <1>3, ElementOfSeq
    <3>2. QED
      BY <3>1 DEF Record
  <2>2. C = [i \in 1..o |-> <<"cipher", out[i]>>]
    BY <1>4
  <2> HIDE DEF C
  <2>3. QED
    BY <1>4, <2>1, <2>2
<1>6. /\ u \in Seq(Record) /\ Len(u) = s + q
      /\ \A i \in 1..s : u[i] = sent[i]
      /\ \A i \in 1..q : u[s + i] = out_p[i]
  <2>1. sent \in Seq(Record) /\ out_p \in Seq(Record)
    BY <1>3
  <2>2. /\ u \in Seq(Record) /\ Len(u) = Len(sent) + Len(out_p)
        /\ \A i \in 1..Len(sent) : u[i] = sent[i]
        /\ \A i \in 1..Len(out_p) : u[Len(sent) + i] = out_p[i]
    BY <2>1, ConcatFacts
  <2>3. QED
    BY <1>2, <2>2
<1> HIDE DEF C, u
<1>7. /\ sent' \in Seq(Record) /\ Len(sent') = Len(u) + Len(C)
      /\ \A i \in 1..Len(u) : sent'[i] = u[i]
      /\ \A i \in 1..Len(C) : sent'[Len(u) + i] = C[i]
  <2>1. u \in Seq(Record) /\ C \in Seq(Record)
    BY <1>5, <1>6
  <2>2. QED
    BY <1>1, <2>1, ConcatFacts
<1>8. /\ Len(sent') = s + q + o
      /\ \A i \in 1..(s + q) : sent'[i] = u[i]
      /\ \A i \in 1..o : sent'[s + q + i] = C[i]
  BY <1>5, <1>6, <1>7
<1>9. ASSUME NEW i \in 1..(s + q + o)
      PROVE  sent'[i] = Answer(i)
  <2>1. CASE i \in 1..s
    <3>1. i \in 1..(s + q)
      BY <1>4, <2>1
    <3>2. QED
      BY <1>3, <1>6, <1>8, <2>1, <3>1
  <2>2. CASE i - s \in 1..q
    <3>1. s + (i - s) = i /\ i \in 1..(s + q)
      BY <1>4, <2>2
    <3>2. u[s + (i - s)] = out_p[i - s] /\ out_p[i - s] = Answer(s + (i - s))
      BY <1>3, <1>6, <2>2
    <3>3. QED
      BY <1>8, <3>1, <3>2
  <2>3. CASE i - (s + q) \in 1..o
    <3>1. s + q + (i - (s + q)) = i
      BY <1>4, <2>3
    <3>2. /\ sent'[s + q + (i - (s + q))] = C[i - (s + q)]
          /\ C[i - (s + q)] = Answer(s + q + (i - (s + q)))
      BY <1>3, <1>5, <1>8, <2>3
    <3>3. QED
      BY <3>1, <3>2
  <2>4. QED
    BY <1>4, <2>1, <2>2, <2>3
<1>10. /\ out' \in Seq(Item) /\ out_p' \in Seq(Record) /\ Len(out') = 0 /\ Len(out_p') = 0
  BY <1>1, EmptySeq
<1>11. Len(sent') + Len(out_p') + Len(out') = replies' + 1
  BY <1>1, <1>2, <1>3, <1>4, <1>8, <1>10
<1>12. /\ \A i \in 1..Len(sent') : sent'[i] = Answer(i)
       /\ \A i \in 1..Len(out_p') : out_p'[i] = Answer(Len(sent') + i)
       /\ \A i \in 1..Len(out') : <<"cipher", out'[i]>> = Answer(Len(sent') + Len(out_p') + i)
  BY <1>8, <1>9, <1>10
<1>13. transport' # "NONE" /\ crypto'
  BY <1>1, <1>3
<1>14. QED
  BY <1>7, <1>10, <1>11, <1>12, <1>13 DEF OutShape

\* Before the keys only the answer to the request leaves.
LEMMA WriteClear ==
  ASSUME StreamInv, Write, ~crypto
  PROVE  OutShape'
<1>1. /\ sent' = sent \o [i \in DOMAIN out |-> <<"clear", out[i]>>] /\ out' = <<>> /\ out_p' = out_p
      /\ UNCHANGED <<crypto, transport, replies>>
  BY DEF Write
<1>2. /\ replies = 0 /\ out_p = <<>> /\ out_p \in Seq(Record) /\ sent \in Seq(Record)
      /\ transport = "NONE" => sent = <<>> /\ out = <<>>
      /\ transport # "NONE" => \/ sent = <<>> /\ out = <<"response">>
                               \/ sent = <<<<"clear", "response">>>> /\ out = <<>>
  BY DEF StreamInv, OutShape
<1>3. out' \in Seq(Item)
  BY <1>1, EmptySeq
<1>4. CASE out = <<>>
  <2>1. sent' = sent
    <3>1. [i \in DOMAIN out |-> <<"clear", out[i]>>] = <<>>
      BY <1>4
    <3>2. QED
      BY <1>1, <1>2, <3>1, ConcatEmptySeq
  <2>2. QED
    BY <1>1, <1>2, <1>3, <1>4, <2>1 DEF OutShape
<1>5. CASE sent = <<>> /\ out = <<"response">> /\ transport # "NONE"
  <2>1. [i \in DOMAIN out |-> <<"clear", out[i]>>] = <<<<"clear", "response">>>>
    BY <1>5
  <2>2. sent' = <<<<"clear", "response">>>>
    BY <1>1, <1>5, <2>1
  <2>3. <<"clear", "response">> \in Record
    BY DEF Record, Item
  <2>4. sent' \in Seq(Record)
    BY <2>2, <2>3
  <2>5. QED
    BY <1>1, <1>2, <1>3, <1>5, <2>2, <2>4 DEF OutShape
<1>6. QED
  BY <1>2, <1>4, <1>5

LEMMA WriteStream == ASSUME StreamInv, Write PROVE StreamInv'
<1>1. /\ pc' \in {"failed", "idle"} /\ replies' = replies
      /\ UNCHANGED <<mode, text, cut, wire, nRecv, in, in_u, transport, remaining, header_state,
                     crypto, dec, skip, next, got>>
  BY DEF Write, client, framing
<1>2. OutShape'
  BY WriteCipher, WriteClear, StreamFacts
<1>3. replies' \in Nat
  BY <1>1 DEF StreamInv, StreamTypes
<1>4. QED
  BY <1>1, <1>2, <1>3, BackFrame

-----------------------------------------------------------------------------
(* The invariant of the stream *)

LEMMA StepStream == ASSUME StreamInv, StreamNext PROVE StreamInv'
<1>1. CASE Client
  BY <1>1, MessageStream, ChunkStream DEF Client
<1>2. CASE Job
  <2>1. CASE Probe
    BY <2>1, ProbeChunked, ProbeRaw, StreamFacts
  <2>2. QED
    BY <1>2, <2>1, SkipStream, SizeStream, TakeStream, DecryptStream, QuietStream, HeaderStream,
       StartStream, PacketWaitsStream, PacketStream, WriteStream DEF Job
<1>3. CASE Reply
  BY <1>3, ReplyStream
<1>4. CASE \E n \in ReadSizes : Arrive(n)
  BY <1>4, ArriveStream
<1>5. QED
  BY <1>1, <1>2, <1>3, <1>4 DEF StreamNext

LEMMA StreamInvariance == StreamSpec => []StreamInv
<1>1. StreamInit => StreamInv
  BY InitStream
<1>2. StreamInv /\ [StreamNext]_streamVars => StreamInv'
  <2> SUFFICES ASSUME StreamInv, [StreamNext]_streamVars PROVE StreamInv'
    OBVIOUS
  <2>1. CASE StreamNext
    BY <2>1, StepStream
  <2>2. CASE UNCHANGED streamVars
    <3>1. Untouched /\ skip' = skip /\ next' = next /\ pc' = pc
      BY <2>2 DEF streamVars, Untouched, client, framing, back
    <3>2. QED
      BY <3>1, QuietInv DEF StreamInv, StreamTypes, StreamTypeOK, PlaceShape
  <2>3. QED
    BY <2>1, <2>2
<1>3. QED
  BY <1>1, <1>2, PTL DEF StreamSpec

\* The text of ReceivedInOrder says the same as CipherShape.
LEMMA InOrder == StreamInv => ReceivedInOrder
<1> SUFFICES ASSUME StreamInv PROVE ReceivedInOrder
  OBVIOUS
<1>1. StreamTypeOK
  BY DEF StreamInv, StreamTypes
<1>2. ASSUME crypto
      PROVE  got \o in = [i \in 1..dec |-> Pre + i]
  <2>1. PICK g, m, d : g = Len(got) /\ m = Len(in) /\ d = dec
    OBVIOUS
  <2>2. /\ got \in Seq(Nat) /\ in \in Seq(Nat) /\ g \in Nat /\ m \in Nat /\ d \in Nat /\ Pre \in Nat
    BY <1>2, <2>1, StreamFacts, StreamConsts DEF StreamInv, StreamTypes
  <2>3. g + m = d /\ (\A i \in 1..g : got[i] = Pre + i) /\ (\A i \in 1..m : in[i] = Pre + g + i)
    BY <1>2, <2>1 DEF StreamInv, CipherShape
  <2>4. PICK u : u = got \o in
    OBVIOUS
  <2>5. /\ u \in Seq(Nat) /\ Len(u) = d
        /\ \A i \in 1..g : u[i] = got[i]
        /\ \A i \in 1..m : u[g + i] = in[i]
    <3>1. /\ u \in Seq(Nat) /\ Len(u) = Len(got) + Len(in)
          /\ \A i \in 1..Len(got) : u[i] = got[i]
          /\ \A i \in 1..Len(in) : u[Len(got) + i] = in[i]
      BY <2>2, <2>4, ConcatFacts
    <3>2. QED
      BY <2>1, <2>3, <3>1
  <2>6. ASSUME NEW i \in 1..d PROVE u[i] = Pre + i
    <3>1. CASE i \in 1..g
      BY <3>1, <2>3, <2>5
    <3>2. CASE i - g \in 1..m
      <4>1. g + (i - g) = i /\ Pre + g + (i - g) = Pre + i
        BY <2>2, <3>2
      <4>2. u[g + (i - g)] = in[i - g] /\ in[i - g] = Pre + g + (i - g)
        BY <2>3, <2>5, <3>2
      <4>3. QED
        BY <4>1, <4>2
    <3>3. QED
      BY <2>2, <2>3, <3>1, <3>2
  <2>7. u = [i \in 1..d |-> u[i]]
    BY <2>5, LenProperties
  <2>8. u = [i \in 1..d |-> Pre + i]
    BY <2>6, <2>7
  <2>9. QED
    BY <2>1, <2>4, <2>8
<1>3. got # <<>> => Len(got) = Len(text) \/ text[Len(got) + 1] > 0
  BY StreamFacts DEF StreamInv, CipherShape, Boundary
<1>4. QED
  BY <1>1, <1>2, <1>3 DEF ReceivedInOrder

\* What the server executes, and has ready to execute, is the client's stream from
\* its first unit on, in whole messages, wherever chunks, reads and messages are cut.
THEOREM StreamReceived == StreamSpec => []ReceivedInOrder
BY StreamInvariance, InOrder, PTL

LEMMA InClear == StreamInv => HeadInClear
<1> SUFFICES ASSUME StreamInv PROVE HeadInClear
  OBVIOUS
<1>1. /\ sent \in Seq(Record)
      /\ transport = "NONE" => sent = <<>>
      /\ transport # "NONE" /\ ~crypto => sent = <<>> \/ sent = <<<<"clear", "response">>>>
      /\ crypto => \A i \in 1..Len(sent) : sent[i] = Answer(i)
      /\ crypto => transport # "NONE"
  BY DEF StreamInv, OutShape, StreamTypes
<1>2. DOMAIN sent = 1..Len(sent)
  BY <1>1, LenProperties
<1>3. \A i \in DOMAIN sent : sent[i] = Answer(i)
  BY <1>1, <1>2 DEF Answer
<1>4. QED
  BY <1>3 DEF HeadInClear, Answer

\* The answer to the request leaves first and in clear, and all that follows leaves
\* encrypted and in order, whenever the keys are set.
THEOREM HeadLeavesInClear == StreamSpec => []HeadInClear
BY StreamInvariance, InClear, PTL
=============================================================================
