------------------------ MODULE ExtConnectionsProofs ------------------------
(* Proofs about the relay: the table of ext_connections stays sound, answers *)
(* go to the connection that asked, and middle-ends that can hear know of no *)
(* number without an entry, for every number of descriptors, connections     *)
(* and queries.                                                              *)
(*                                                                           *)
(* None of the three is inductive.  IInv adds what the queues hold: a close  *)
(* that waits for a connection that has failed, a ready event that waits at  *)
(* most once and before the close, queries that belong to the connection     *)
(* that now has the descriptor and come in the order of their numbers,       *)
(* answers whose query lies between the generation of the entry and that of  *)
(* the connection, and closes of numbers that no middle-end knows any more.  *)
EXTENDS ExtConnections, NaturalsInduction, WellFoundedInduction, TLAPS

\* The types, with those of the queues.
ConnRec == [kind : {"none", "client", "middle"}, gen : 0 .. MaxGen,
            flags : SUBSET {"READY", "ERROR", "FAILED", "SOCKERR"},
            tag : BOOLEAN, dropped : BOOLEAN]
ExtRec == [k : 1 .. MaxQueries, in_gen : 1 .. MaxGen, out_fd : MiddleFd,
           out_gen : 1 .. MaxGen, late : BOOLEAN]
Ids == Fd \X Nat
Tokens == [id : Ids, n : Nat]
Items == {Notify} \union [op : {"query"}, fd : Fd, n : Nat]
            \union [op : {"answer"}, fd : Fd, id : Ids, n : Nat]
            \union [op : {"closeExt"}, fd : Fd, id : Ids]
Notes == [ev : {"ready", "close"}, fd : Fd]

Typed ==
  /\ conn \in [Fd -> ConnRec] /\ gen \in 0 .. MaxGen /\ last \in [Fd -> 0 .. MaxQueries]
  /\ ext \in [Fd -> {NoExt} \union ExtRec] /\ heads \in SUBSET Fd
  /\ engine \in Seq(Items) /\ notes \in Seq(Notes) /\ draining \in BOOLEAN /\ down = FALSE
  /\ peer \in [Fd -> SUBSET Ids] /\ waiting \in [Fd -> SUBSET Tokens]
  /\ asked \in Seq(Fd \X (0 .. MaxGen)) /\ answered \in SUBSET (Nat \X Fd \X Nat)

\* The close of f has not reached the engine yet.
CloseComes(f) == \E i \in 1 .. Len(notes) : notes[i].fd = f /\ notes[i].ev = "close"

\* What a connection is like.
ConnOK(f) ==
  /\ conn[f].kind = "none" => conn[f] = NoConn
  /\ conn[f].kind # "none" => conn[f].gen \in 1 .. gen
  /\ conn[f].kind = "middle" => f \in MiddleFd
  /\ conn[f].kind = "client" => f \in ClientFd
  /\ "FAILED" \in conn[f].flags \/ "SOCKERR" \in conn[f].flags => "ERROR" \in conn[f].flags
  /\ conn[f].tag => /\ conn[f].kind = "middle" /\ "READY" \in conn[f].flags
                    /\ "FAILED" \in conn[f].flags => CloseComes(f)
  /\ f \in heads <=> conn[f].tag
  /\ conn[f].kind # "middle" => peer[f] = {} /\ waiting[f] = {}

\* What a notification that waits says of its connection.
NoteOK(x) ==
  /\ conn[x.fd].kind # "none"
  /\ x.ev = "ready" => /\ conn[x.fd].kind = "middle" /\ "READY" \in conn[x.fd].flags
                       /\ ~conn[x.fd].tag
                       /\ "FAILED" \in conn[x.fd].flags => CloseComes(x.fd)
  /\ x.ev = "close" => "FAILED" \in conn[x.fd].flags

\* A connection is announced once, and closed once after that.
NotesOrder == \A i, j \in 1 .. Len(notes) :
                i < j /\ notes[i].fd = notes[j].fd => notes[i].ev = "ready" /\ notes[j].ev = "close"

\* What an entry of the table is like.
EntryOK(f) ==
  Has(f) => /\ conn[ext[f].out_fd].tag /\ conn[ext[f].out_fd].gen = ext[f].out_gen
            /\ ext[f].k <= last[f] /\ ext[f].in_gen <= gen
            /\ conn[f].kind # "none" => ext[f].in_gen <= conn[f].gen
            /\ ext[f].late \/ /\ conn[f].gen = ext[f].in_gen /\ conn[f].kind = "client"
                              /\ "FAILED" \in conn[f].flags => CloseComes(f)

\* A query, an answer and a close in the engine's queue.  A query's number is
\* greater than any out_conn_id given so far, so a new one stays below it.
QueryOK(f, n) == /\ n \in 1 .. Len(asked) /\ conn[f].kind = "client"
                 /\ asked[n] = <<f, conn[f].gen>>
                 /\ \A g \in Fd : last[g] < n
TokenOK(id, n) == /\ n \in 1 .. Len(asked) /\ asked[n][1] = id[1] /\ id[2] <= last[id[1]]
                  /\ Found(id) => ext[id[1]].in_gen <= asked[n][2]
                  /\ conn[id[1]].kind # "none" => asked[n][2] <= conn[id[1]].gen
ClosedOK(id) == /\ id[2] <= last[id[1]]
                /\ \A d \in Fd : Hears(d) => id \notin peer[d]
ItemOK(x) == /\ x.op = "query" => QueryOK(x.fd, x.n)
             /\ x.op = "answer" => TokenOK(x.id, x.n)
             /\ x.op = "closeExt" => ClosedOK(x.id)

\* Queries wait in the order they were asked.
ItemsOrder == \A i, j \in 1 .. Len(engine) :
                i < j /\ engine[i].op = "query" /\ engine[j].op = "query" => engine[i].n < engine[j].n

\* The record of queries and answers.
AskedOK == /\ Len(asked) <= MaxQueries
           /\ \A n \in 1 .. Len(asked) : asked[n][2] <= gen
           /\ \A f \in Fd : last[f] <= Len(asked)
AnsweredOK == \A a \in answered : a[1] \in 1 .. Len(asked)

AllConns == \A f \in Fd : ConnOK(f)
AllNotes == \A i \in 1 .. Len(notes) : NoteOK(notes[i])
AllEntries == \A f \in Fd : EntryOK(f)
AllItems == \A i \in 1 .. Len(engine) : ItemOK(engine[i])
AllWaiting == \A d \in Fd : \A w \in waiting[d] : TokenOK(w.id, w.n)

IInv == /\ Typed /\ AllConns /\ AllNotes /\ NotesOrder /\ AllEntries /\ AllItems /\ ItemsOrder
        /\ AllWaiting /\ AskedOK /\ AnsweredOK /\ AnswersToAsker /\ PeersMatch

-----------------------------------------------------------------------------
(* The queues *)

\* x waits in the engine's queue.
InQueue(x) == \E i \in 1 .. Len(engine) : engine[i] = x

\* What Tail and Append do, element by element.
LEMMA Popping ==
  ASSUME NEW S, NEW s \in Seq(S), s # <<>>
  PROVE  /\ Tail(s) \in Seq(S) /\ Len(Tail(s)) = Len(s) - 1 /\ Len(s) \in Nat /\ Len(s) >= 1
         /\ Head(s) = s[1] /\ Head(s) \in S
         /\ \A i \in 1 .. Len(Tail(s)) : i + 1 \in 1 .. Len(s) /\ Tail(s)[i] = s[i + 1]
  OBVIOUS

LEMMA Pushing ==
  ASSUME NEW S, NEW s \in Seq(S), NEW x \in S
  PROVE  /\ Append(s, x) \in Seq(S) /\ Len(Append(s, x)) = Len(s) + 1 /\ Len(s) \in Nat
         /\ Append(s, x)[Len(s) + 1] = x
         /\ \A i \in 1 .. Len(s) : Append(s, x)[i] = s[i]
  OBVIOUS

\* Every item that waits is still right.
Kept == \A x \in Items : InQueue(x) /\ ItemOK(x) => ItemOK(x)'

LEMMA EngineStays ==
  ASSUME Typed, AllItems, ItemsOrder, Kept, engine' = engine
  PROVE  engine' \in Seq(Items) /\ AllItems' /\ ItemsOrder'
  <1>1. ASSUME NEW i \in 1 .. Len(engine)
        PROVE  engine[i] \in Items /\ InQueue(engine[i]) /\ ItemOK(engine[i])
    BY DEF Typed, InQueue, AllItems
  <1>2. ASSUME NEW i \in 1 .. Len(engine')
        PROVE  ItemOK(engine[i])'
    <2>1. PICK x \in Items : x = engine[i] /\ InQueue(x) /\ ItemOK(x)
      BY <1>1
    <2>2. ItemOK(x)'
      BY <2>1 DEF Kept
    <2>3. QED  BY <2>1, <2>2
  <1>3. QED  BY <1>2 DEF AllItems, ItemsOrder, Typed

\* Every item behind the head is still right.
TailKept == \A x \in Items : (\E i \in 2 .. Len(engine) : engine[i] = x) => ItemOK(x)'

LEMMA EnginePops ==
  ASSUME Typed, ItemsOrder, engine # <<>>, engine' = Tail(engine), TailKept
  PROVE  engine' \in Seq(Items) /\ AllItems' /\ ItemsOrder'
  <1>1. engine \in Seq(Items)
    BY DEF Typed
  <1>2. /\ engine' \in Seq(Items) /\ Len(engine') = Len(engine) - 1 /\ Len(engine) \in Nat
        /\ \A i \in 1 .. Len(engine') : i + 1 \in 2 .. Len(engine) /\ engine'[i] = engine[i + 1]
    BY <1>1, Popping
  <1>3. ASSUME NEW i \in 1 .. Len(engine')
        PROVE  ItemOK(engine[i])'
    <2>1. PICK x \in Items : x = engine[i + 1] /\ x = engine'[i]
      BY <1>1, <1>2
    <2>2. ItemOK(x)'
      BY <1>2, <2>1 DEF TailKept
    <2>3. QED  BY <2>1, <2>2
  <1>4. ItemsOrder'
    BY <1>2 DEF ItemsOrder
  <1>5. QED  BY <1>2, <1>3, <1>4 DEF AllItems

\* What is added is right, and a query has a greater number than the others.
LEMMA EnginePushes ==
  ASSUME Typed, AllItems, ItemsOrder, Kept, NEW y \in Items, engine' = Append(engine, y),
         ItemOK(y)', y.op = "query" => \A i \in 1 .. Len(engine) : engine[i].op = "query" => engine[i].n < y.n
  PROVE  engine' \in Seq(Items) /\ AllItems' /\ ItemsOrder'
  <1>1. engine \in Seq(Items)
    BY DEF Typed
  <1>2. /\ engine' \in Seq(Items) /\ Len(engine') = Len(engine) + 1 /\ Len(engine) \in Nat
        /\ engine'[Len(engine) + 1] = y /\ \A i \in 1 .. Len(engine) : engine'[i] = engine[i]
    BY <1>1, Pushing
  <1>3. ASSUME NEW i \in 1 .. Len(engine')
        PROVE  ItemOK(engine[i])'
    <2>1. CASE i = Len(engine) + 1
      BY <2>1, <1>2
    <2>2. CASE i \in 1 .. Len(engine)
      <3>1. PICK x \in Items : x = engine[i] /\ x = engine'[i] /\ InQueue(x) /\ ItemOK(x)
        BY <1>1, <1>2, <2>2 DEF InQueue, AllItems
      <3>2. ItemOK(x)'
        BY <3>1 DEF Kept
      <3>3. QED  BY <3>1, <3>2
    <2>3. QED  BY <2>1, <2>2, <1>2
  <1>4. ItemsOrder'
    <2> SUFFICES ASSUME NEW i \in 1 .. Len(engine'), NEW j \in 1 .. Len(engine'), i < j,
                        engine'[i].op = "query", engine'[j].op = "query"
                 PROVE  engine'[i].n < engine'[j].n
      BY DEF ItemsOrder
    <2>1. i \in 1 .. Len(engine) /\ engine'[i] = engine[i]
      BY <1>2
    <2>2. CASE j = Len(engine) + 1
      BY <2>1, <2>2, <1>2
    <2>3. CASE j \in 1 .. Len(engine)
      BY <2>1, <2>3, <1>2 DEF ItemsOrder
    <2>4. QED  BY <1>2, <2>2, <2>3
  <1>5. QED  BY <1>2, <1>3, <1>4 DEF AllItems

\* A notification that arrives queues its job unless that runs or waits.
LEMMA EngineNotified ==
  ASSUME Typed, AllItems, ItemsOrder, Kept, NEW ev, NEW f, Insert(ev, f)
  PROVE  engine' \in Seq(Items) /\ AllItems' /\ ItemsOrder'
  <1>1. CASE engine' = engine
    BY <1>1, EngineStays
  <1>2. CASE engine' = Append(engine, Notify)
    <2>1. Notify \in Items /\ Notify.op = "notify"
      BY DEF Items, Notify
    <2>2. ItemOK(Notify)'
      BY DEF ItemOK, Notify
    <2>3. QED  BY <1>2, <2>1, <2>2, EnginePushes
  <1>3. QED  BY <1>1, <1>2 DEF Insert

-----------------------------------------------------------------------------
(* Steps that open and free no connection and make no entry *)

Grows == /\ Len(asked) \in Nat /\ Len(asked') \in Nat /\ Len(asked) <= Len(asked')
         /\ \A n \in 1 .. Len(asked) : asked'[n] = asked[n]
SameConn(f) == /\ conn'[f].kind = conn[f].kind /\ conn'[f].gen = conn[f].gen
               /\ Hears(f)' => Hears(f)
ExtStep(f) == \/ ext'[f] = NoExt
              \/ ext'[f] = ext[f] /\ (Has(f) => conn'[ext[f].out_fd].tag)
PeerStep(d) ==
  Hears(d)' => \A id \in peer'[d] :
                 /\ ext'[id[1]] = ext[id[1]]
                 /\ id \in peer[d] \/ (Found(id) /\ ext[id[1]].out_fd = d /\ ~HasClosed(id))
WaitStep(d) == \A w \in waiting'[d] : w \in waiting[d] \/ TokenOK(w.id, w.n)

Calm == /\ last' = last /\ gen' = gen /\ Grows
        /\ \A f \in Fd : SameConn(f) /\ ExtStep(f) /\ PeerStep(f) /\ WaitStep(f)

\* Tokens, queries and closes that wait stay right in such a step.
LEMMA TokenKept ==
  ASSUME Typed, Calm, NEW id \in Ids, NEW n \in Nat, TokenOK(id, n)
  PROVE  TokenOK(id, n)'
  <1>1. id[1] \in Fd
    BY DEF Ids
  <1>2. n \in 1 .. Len(asked') /\ asked'[n] = asked[n]
    BY DEF TokenOK, Calm, Grows
  <1>3. Found(id)' => Found(id) /\ ext'[id[1]] = ext[id[1]]
    BY <1>1 DEF Found, Has, Id, Calm, ExtStep
  <1>4. conn'[id[1]].kind = conn[id[1]].kind /\ conn'[id[1]].gen = conn[id[1]].gen
    BY <1>1 DEF Calm, SameConn
  <1>5. QED  BY <1>2, <1>3, <1>4 DEF TokenOK, Calm

LEMMA QueryKept ==
  ASSUME Typed, Calm, NEW f \in Fd, NEW n \in Nat, QueryOK(f, n)
  PROVE  QueryOK(f, n)'
  BY DEF QueryOK, Calm, Grows, SameConn

LEMMA ClosedKept ==
  ASSUME Typed, Calm, NEW id \in Ids, ClosedOK(id), HasClosed(id)
  PROVE  ClosedOK(id)'
  <1> SUFFICES ASSUME NEW d \in Fd, Hears(d)'
               PROVE  id \notin peer'[d]
    BY DEF ClosedOK, Calm
  <1>1. Hears(d) /\ PeerStep(d)
    BY DEF Calm, SameConn
  <1>2. QED  BY <1>1 DEF ClosedOK, PeerStep

LEMMA CalmKept ==
  ASSUME Typed, Calm
  PROVE  Kept
  <1> SUFFICES ASSUME NEW x \in Items, InQueue(x), ItemOK(x)
               PROVE  ItemOK(x)'
    BY DEF Kept
  <1>1. CASE x.op = "query"
    <2>1. x.fd \in Fd /\ x.n \in Nat
      BY <1>1 DEF Items, Notify
    <2>2. QED  BY <1>1, <2>1, QueryKept DEF ItemOK
  <1>2. CASE x.op = "answer"
    <2>1. x.id \in Ids /\ x.n \in Nat
      BY <1>2 DEF Items, Notify
    <2>2. QED  BY <1>2, <2>1, TokenKept DEF ItemOK
  <1>3. CASE x.op = "closeExt"
    <2>1. x.id \in Ids /\ HasClosed(x.id)
      BY <1>3, SMTT(60) DEF Items, Notify, HasClosed, InQueue, Typed
    <2>2. QED  BY <1>3, <2>1, ClosedKept DEF ItemOK
  <1>4. QED  BY <1>1, <1>2, <1>3 DEF ItemOK

\* What such a step leaves of the invariant.
LEMMA CalmStep ==
  ASSUME IInv, Calm, waiting' \in [Fd -> SUBSET Tokens], peer' \in [Fd -> SUBSET Ids]
  PROVE  Kept /\ AllWaiting' /\ PeersMatch'
  <1>1. Typed /\ AllWaiting /\ PeersMatch
    BY DEF IInv
  <1>2. Kept
    BY <1>1, CalmKept
  <1>3. AllWaiting'
    <2> SUFFICES ASSUME NEW d \in Fd, NEW w \in waiting'[d]
                 PROVE  TokenOK(w.id, w.n)'
      BY DEF AllWaiting
    <2>1. w.id \in Ids /\ w.n \in Nat
      BY DEF Tokens
    <2>2. TokenOK(w.id, w.n)
      BY <1>1 DEF Calm, WaitStep, AllWaiting
    <2>3. QED  BY <1>1, <2>1, <2>2, TokenKept
  <1>4. PeersMatch'
    <2> SUFFICES ASSUME NEW d \in Fd, Hears(d)', NEW id \in peer'[d]
                 PROVE  (Found(id) /\ ext[id[1]].out_fd = d)'
      BY DEF PeersMatch
    <2>1. Hears(d) /\ PeerStep(d) /\ id \in Ids /\ id[1] \in Fd
      BY DEF Calm, SameConn, Ids
    <2>2. ext'[id[1]] = ext[id[1]] /\ Found(id) /\ ext[id[1]].out_fd = d
      BY <1>1, <2>1 DEF PeerStep, PeersMatch
    <2>3. QED  BY <2>2 DEF Found, Has, Id
  <1>5. QED  BY <1>2, <1>3, <1>4

-----------------------------------------------------------------------------
(* Steps after which connections differ at most by errors *)

Steady(f) ==
  /\ conn'[f].kind = conn[f].kind /\ conn'[f].gen = conn[f].gen
  /\ conn[f].flags \subseteq conn'[f].flags
  /\ conn'[f].flags \subseteq conn[f].flags \union {"ERROR", "SOCKERR"}
  /\ "SOCKERR" \in conn'[f].flags /\ "SOCKERR" \notin conn[f].flags => "ERROR" \in conn'[f].flags
  /\ conn'[f].tag => conn[f].tag
  /\ conn[f].kind = "none" => conn'[f] = conn[f]
  /\ f \in heads' <=> conn'[f].tag
  /\ conn[f].kind # "middle" => peer'[f] = {} /\ waiting'[f] = {}

LEMMA SteadyHears ==
  ASSUME NEW f \in Fd, Steady(f), Hears(f)'
  PROVE  Hears(f)
  BY DEF Steady, Hears

\* Either no notification is taken, or a close after which nothing refers to
\* the connection but entries that were late.
NotesStep ==
  \/ notes' = notes
  \/ /\ notes # <<>> /\ notes' = Tail(notes)
     /\ Head(notes).ev = "close" /\ ~conn'[Head(notes).fd].tag
     /\ ext'[Head(notes).fd] = NoExt \/ ext'[Head(notes).fd].late

\* A close that waits either still waits or nothing depends on it.
LEMMA CloseStays ==
  ASSUME Typed, NotesStep, NEW f \in Fd, CloseComes(f)
  PROVE  \/ CloseComes(f)'
         \/ ~conn'[f].tag /\ (ext'[f] = NoExt \/ ext'[f].late)
  <1>1. CASE notes' = notes
    BY <1>1 DEF CloseComes
  <1>2. CASE notes # <<>> /\ notes' = Tail(notes) /\ Head(notes).fd # f
    <2>1. notes \in Seq(Notes)
      BY DEF Typed
    <2>2. /\ notes' \in Seq(Notes) /\ Len(notes') = Len(notes) - 1 /\ Len(notes) \in Nat
          /\ Head(notes) = notes[1]
          /\ \A i \in 1 .. Len(notes') : i + 1 \in 1 .. Len(notes) /\ notes'[i] = notes[i + 1]
      BY <1>2, <2>1, Popping
    <2>3. PICK i \in 1 .. Len(notes) : notes[i].fd = f /\ notes[i].ev = "close"
      BY DEF CloseComes
    <2>4. i # 1 /\ i - 1 \in 1 .. Len(notes')
      BY <1>2, <2>2, <2>3
    <2>5. notes'[i - 1] = notes[i]
      BY <2>2, <2>4
    <2>6. QED  BY <2>3, <2>4, <2>5 DEF CloseComes
  <1>3. QED  BY <1>1, <1>2 DEF NotesStep

\* A notification that waits, as an element of Notes.
LEMMA NoteAt ==
  ASSUME Typed, AllNotes, NEW i \in 1 .. Len(notes)
  PROVE  \E x \in Notes : x = notes[i] /\ NoteOK(x)
  <1>1. notes \in Seq(Notes) /\ NoteOK(notes[i])
    BY DEF Typed, AllNotes
  <1>2. QED  BY <1>1

LEMMA SteadyConns ==
  ASSUME Typed, AllConns, NotesStep, gen' = gen, \A f \in Fd : Steady(f)
  PROVE  AllConns'
  <1> SUFFICES ASSUME NEW f \in Fd
               PROVE  ConnOK(f)'
    BY DEF AllConns
  <1>1. ConnOK(f) /\ Steady(f) /\ (CloseComes(f) => CloseComes(f)' \/ ~conn'[f].tag)
    BY CloseStays DEF AllConns
  <1>2. QED  BY <1>1 DEF ConnOK, Steady

LEMMA SteadyEntries ==
  ASSUME Typed, AllEntries, NotesStep, gen' = gen, last' = last,
         \A f \in Fd : Steady(f) /\ ExtStep(f)
  PROVE  AllEntries'
  <1> SUFFICES ASSUME NEW f \in Fd, Has(f)'
               PROVE  EntryOK(f)'
    BY DEF AllEntries, EntryOK
  <1>1. EntryOK(f) /\ Steady(f) /\ ext'[f] = ext[f] /\ Has(f) /\ conn'[ext[f].out_fd].tag
    BY DEF AllEntries, ExtStep, Has
  <1>2. ext[f].out_fd \in Fd
    BY <1>1 DEF Typed, Has, ExtRec, Fd
  <1>3. Steady(ext[f].out_fd)
    BY <1>2
  <1>4. CloseComes(f) => CloseComes(f)' \/ ext'[f].late
    BY <1>1, CloseStays DEF Has
  <1>5. QED  BY <1>1, <1>3, <1>4 DEF EntryOK, Steady

LEMMA SteadyNotes ==
  ASSUME Typed, AllNotes, NotesOrder, NotesStep, \A f \in Fd : Steady(f)
  PROVE  notes' \in Seq(Notes) /\ AllNotes' /\ NotesOrder'
  <1>1. notes \in Seq(Notes)
    BY DEF Typed
  <1>2. CASE notes' = notes
    <2>1. ASSUME NEW i \in 1 .. Len(notes)
          PROVE  NoteOK(notes[i])'
      <3>1. PICK x \in Notes : x = notes[i] /\ x = notes'[i] /\ NoteOK(x)
        BY <1>1, <1>2, NoteAt
      <3>2. x.fd \in Fd /\ Steady(x.fd) /\ (CloseComes(x.fd) => CloseComes(x.fd)')
        BY <3>1, <1>2 DEF Notes, CloseComes
      <3>3. NoteOK(x)'
        BY <3>1, <3>2 DEF NoteOK, Steady
      <3>4. QED  BY <3>1, <3>3
    <2>2. QED  BY <1>1, <1>2, <2>1 DEF AllNotes, NotesOrder
  <1>3. CASE /\ notes # <<>> /\ notes' = Tail(notes) /\ Head(notes).ev = "close"
    <2>1. /\ notes' \in Seq(Notes) /\ Len(notes') = Len(notes) - 1 /\ Len(notes) \in Nat
          /\ Head(notes) = notes[1] /\ 1 \in 1 .. Len(notes)
          /\ \A i \in 1 .. Len(notes') : i + 1 \in 1 .. Len(notes) /\ notes'[i] = notes[i + 1]
      BY <1>3, <1>1, Popping
    <2>2. \A i \in 1 .. Len(notes') : notes[i + 1].fd # notes[1].fd
      BY <2>1, <1>3 DEF NotesOrder
    <2>3. ASSUME NEW i \in 1 .. Len(notes')
          PROVE  NoteOK(notes[i])'
      <3>1. PICK x \in Notes : x = notes[i + 1] /\ x = notes'[i] /\ NoteOK(x)
        BY <1>1, <2>1, NoteAt
      <3>2. x.fd \in Fd /\ Steady(x.fd)
        BY <3>1 DEF Notes
      <3>3. CloseComes(x.fd) => CloseComes(x.fd)'
        <4>1. SUFFICES ASSUME NEW j \in 1 .. Len(notes), notes[j].fd = x.fd, notes[j].ev = "close"
                       PROVE  CloseComes(x.fd)'
          BY DEF CloseComes
        <4>2. j # 1 /\ j - 1 \in 1 .. Len(notes')
          BY <4>1, <3>1, <2>1, <2>2
        <4>3. notes'[j - 1] = notes[j]
          BY <4>2, <2>1
        <4>4. QED  BY <4>1, <4>2, <4>3 DEF CloseComes
      <3>4. NoteOK(x)'
        BY <3>1, <3>2, <3>3 DEF NoteOK, Steady
      <3>5. QED  BY <3>1, <3>4
    <2>4. NotesOrder'
      <3> SUFFICES ASSUME NEW i \in 1 .. Len(notes'), NEW j \in 1 .. Len(notes'), i < j,
                          notes'[i].fd = notes'[j].fd
                   PROVE  notes'[i].ev = "ready" /\ notes'[j].ev = "close"
        BY DEF NotesOrder
      <3>1. /\ i + 1 \in 1 .. Len(notes) /\ j + 1 \in 1 .. Len(notes) /\ i + 1 < j + 1
            /\ notes'[i] = notes[i + 1] /\ notes'[j] = notes[j + 1]
        BY <2>1
      <3>2. QED  BY <3>1 DEF NotesOrder
    <2>5. QED  BY <2>1, <2>3, <2>4 DEF AllNotes
  <1>4. QED  BY <1>2, <1>3 DEF NotesStep

\* The types of what a steady step may change.
TypedNow == /\ conn' \in [Fd -> ConnRec] /\ ext' \in [Fd -> {NoExt} \union ExtRec]
            /\ heads' \in SUBSET Fd /\ draining' \in BOOLEAN /\ down' = down
            /\ peer' \in [Fd -> SUBSET Ids] /\ waiting' \in [Fd -> SUBSET Tokens]

SteadyStep == /\ gen' = gen /\ last' = last /\ NotesStep /\ TypedNow
              /\ \A f \in Fd : Steady(f) /\ ExtStep(f) /\ PeerStep(f) /\ WaitStep(f)

LEMMA SteadyCalm ==
  ASSUME SteadyStep, Grows
  PROVE  Calm
  BY SteadyHears DEF SteadyStep, Calm, SameConn, Steady

\* A steady step keeps what is said of everything but the engine's queue.
LEMMA SteadyRest ==
  ASSUME IInv, SteadyStep, Grows
  PROVE  /\ Kept /\ AllConns' /\ notes' \in Seq(Notes) /\ AllNotes' /\ NotesOrder' /\ AllEntries'
         /\ AllWaiting' /\ PeersMatch'
  <1>1. Calm /\ Typed
    BY SteadyCalm DEF IInv
  <1>2. Kept /\ AllWaiting' /\ PeersMatch'
    BY <1>1, CalmStep DEF SteadyStep, TypedNow
  <1>3. AllConns'
    BY <1>1, SteadyConns DEF IInv, SteadyStep
  <1>4. AllEntries'
    BY <1>1, SteadyEntries DEF IInv, SteadyStep
  <1>5. notes' \in Seq(Notes) /\ AllNotes' /\ NotesOrder'
    BY <1>1, SteadyNotes DEF IInv, SteadyStep
  <1>6. QED  BY <1>2, <1>3, <1>4, <1>5

\* Nothing is asked or answered.
LogSame == asked' = asked /\ answered' = answered

LEMMA LogStays ==
  ASSUME IInv, LogSame, gen' = gen, last' = last
  PROVE  /\ Grows /\ AskedOK' /\ AnsweredOK' /\ AnswersToAsker'
         /\ asked' \in Seq(Fd \X (0 .. MaxGen)) /\ answered' \in SUBSET (Nat \X Fd \X Nat)
  BY SMTT(60) DEF LogSame, IInv, Grows, AskedOK, AnsweredOK, AnswersToAsker, Typed

\* A steady step that takes nothing from the engine's queue, or its head.
LEMMA SteadyPop ==
  ASSUME IInv, SteadyStep, LogSame,
         engine' = engine \/ (engine # <<>> /\ engine' = Tail(engine))
  PROVE  IInv'
  <1>1. /\ Grows /\ AskedOK' /\ AnsweredOK' /\ AnswersToAsker'
        /\ asked' \in Seq(Fd \X (0 .. MaxGen)) /\ answered' \in SUBSET (Nat \X Fd \X Nat)
    BY LogStays DEF SteadyStep
  <1>2. /\ Kept /\ AllConns' /\ notes' \in Seq(Notes) /\ AllNotes' /\ NotesOrder' /\ AllEntries'
        /\ AllWaiting' /\ PeersMatch'
    BY <1>1, SteadyRest
  <1>3. engine' \in Seq(Items) /\ AllItems' /\ ItemsOrder'
    <2>1. Typed /\ AllItems /\ ItemsOrder
      BY DEF IInv
    <2>2. CASE engine' = engine
      BY <1>2, <2>1, <2>2, EngineStays
    <2>3. CASE engine # <<>> /\ engine' = Tail(engine)
      <3>1. TailKept
        BY <1>2, <2>1 DEF TailKept, Kept, InQueue, AllItems, Typed
      <3>2. QED  BY <2>1, <2>3, <3>1, EnginePops
    <2>4. QED  BY <2>2, <2>3
  <1>4. Typed'
    BY <1>1, <1>2, <1>3 DEF SteadyStep, TypedNow, Typed, IInv
  <1>5. QED  BY <1>1, <1>2, <1>3, <1>4 DEF IInv

\* One that adds an item other than a query.
LEMMA SteadyPush ==
  ASSUME IInv, SteadyStep, LogSame, NEW y \in Items, engine' = Append(engine, y),
         ItemOK(y)', y.op # "query"
  PROVE  IInv'
  <1>1. /\ Grows /\ AskedOK' /\ AnsweredOK' /\ AnswersToAsker'
        /\ asked' \in Seq(Fd \X (0 .. MaxGen)) /\ answered' \in SUBSET (Nat \X Fd \X Nat)
    BY LogStays DEF SteadyStep
  <1>2. /\ Kept /\ AllConns' /\ notes' \in Seq(Notes) /\ AllNotes' /\ NotesOrder' /\ AllEntries'
        /\ AllWaiting' /\ PeersMatch'
    BY <1>1, SteadyRest
  <1>3. engine' \in Seq(Items) /\ AllItems' /\ ItemsOrder'
    BY <1>2, EnginePushes DEF IInv
  <1>4. Typed'
    BY <1>1, <1>2, <1>3 DEF SteadyStep, TypedNow, Typed, IInv
  <1>5. QED  BY <1>1, <1>2, <1>3, <1>4 DEF IInv

-----------------------------------------------------------------------------
(* The parts of a steady step *)

\* What Steady says of the connection alone.
Milder(f) ==
  /\ conn'[f].kind = conn[f].kind /\ conn'[f].gen = conn[f].gen
  /\ conn[f].flags \subseteq conn'[f].flags
  /\ conn'[f].flags \subseteq conn[f].flags \union {"ERROR", "SOCKERR"}
  /\ "SOCKERR" \in conn'[f].flags /\ "SOCKERR" \notin conn[f].flags => "ERROR" \in conn'[f].flags
  /\ conn[f].kind = "none" => conn'[f] = conn[f]

LEMMA ConnStays ==
  ASSUME Typed, conn' = conn
  PROVE  conn' \in [Fd -> ConnRec] /\ \A f \in Fd : Milder(f) /\ conn'[f].tag = conn[f].tag
  BY DEF Typed, Milder

LEMMA ConnMarked ==
  ASSUME Typed, NEW f \in Fd, NEW F \in SUBSET {"ERROR", "SOCKERR"}, "ERROR" \in F,
         conn[f].kind # "none", conn' = Marked(f, F)
  PROVE  conn' \in [Fd -> ConnRec] /\ \A g \in Fd : Milder(g) /\ conn'[g].tag = conn[g].tag
  <1>1. conn \in [Fd -> ConnRec]
    BY DEF Typed
  <1>2. conn' = [conn EXCEPT ![f] = [conn[f] EXCEPT !.flags = conn[f].flags \union F]]
    BY <1>1 DEF Marked
  <1>3. [conn[f] EXCEPT !.flags = conn[f].flags \union F] \in ConnRec
    BY <1>1 DEF ConnRec
  <1>4. conn' \in [Fd -> ConnRec]
    BY <1>1, <1>2, <1>3
  <1>5. QED  BY <1>1, <1>2, <1>4 DEF Milder, ConnRec

\* c is what connections become when some of them fail.
FailedTo(c) ==
  /\ c \in [Fd -> ConnRec]
  /\ \A g \in Fd : /\ c[g].kind = conn[g].kind /\ c[g].gen = conn[g].gen
                   /\ c[g].tag = conn[g].tag
                   /\ c[g].flags = conn[g].flags \/ c[g].flags = conn[g].flags \union {"ERROR"}
                   /\ conn[g].kind = "none" => c[g] = conn[g]

LEMMA ConnFailed ==
  ASSUME Typed, NEW S, NEW c, c = Failed(S)
  PROVE  FailedTo(c)
  <1>1. conn \in [Fd -> ConnRec]
    BY DEF Typed
  <1>2. ASSUME NEW g \in Fd
        PROVE  /\ c[g] \in ConnRec
               /\ c[g].kind = conn[g].kind /\ c[g].gen = conn[g].gen
               /\ c[g].tag = conn[g].tag
               /\ c[g].flags = conn[g].flags \/ c[g].flags = conn[g].flags \union {"ERROR"}
               /\ conn[g].kind = "none" => c[g] = conn[g]
    <2>1. CASE g \in Victims(S)
      <3>1. c[g] = [conn[g] EXCEPT !.flags = conn[g].flags \union {"ERROR"}] /\ conn[g].kind # "none"
        BY <2>1 DEF Failed, Victims, Lookup
      <3>2. QED  BY <1>1, <3>1 DEF ConnRec
    <2>2. CASE g \notin Victims(S)
      BY <1>1, <2>2 DEF Failed
    <2>3. QED  BY <2>1, <2>2
  <1>3. c = [g \in Fd |-> c[g]]
    BY DEF Failed
  <1>4. QED  BY <1>2, <1>3 DEF FailedTo

\* What is told and forwarded, in general
LEMMA SetsShrink ==
  ASSUME NEW S, NEW p \in [Fd -> SUBSET S], NEW d \in Fd, NEW V, V \subseteq p[d], NEW q,
         q = [p EXCEPT ![d] = V]
  PROVE  q \in [Fd -> SUBSET S] /\ \A g \in Fd : q[g] \subseteq p[g]
  OBVIOUS

LEMMA Telling ==
  ASSUME Typed, NEW d \in Fd, NEW S, NEW p, NEW w, p = Told(peer, d, S), w = ToldWaiting(waiting, d, S)
  PROVE  /\ p \in [Fd -> SUBSET Ids] /\ w \in [Fd -> SUBSET Tokens]
         /\ \A g \in Fd : p[g] \subseteq peer[g] /\ w[g] \subseteq waiting[g]
         /\ Hears(d) => \A id \in p[d] : id \notin S
  <1>1. peer \in [Fd -> SUBSET Ids] /\ waiting \in [Fd -> SUBSET Tokens]
    BY DEF Typed
  <1>2. p = [peer EXCEPT ![d] = IF Hears(d) THEN {x \in peer[d] : x \notin S} ELSE peer[d]]
    BY DEF Told
  <1>3. w = [waiting EXCEPT ![d] = IF Hears(d) THEN {x \in waiting[d] : x.id \notin S} ELSE waiting[d]]
    BY DEF ToldWaiting
  <1>4. p \in [Fd -> SUBSET Ids] /\ \A g \in Fd : p[g] \subseteq peer[g]
    BY <1>1, <1>2, SetsShrink
  <1>5. w \in [Fd -> SUBSET Tokens] /\ \A g \in Fd : w[g] \subseteq waiting[g]
    BY <1>1, <1>3, SetsShrink
  <1>6. QED  BY <1>1, <1>2, <1>4, <1>5

\* A middle-end that hears has not lost its socket, so it is told.
LEMMA Removing ==
  ASSUME IInv, NEW f \in Fd, NEW p, NEW w, p = PeerAfter(f), w = WaitingAfter(f)
  PROVE  /\ p \in [Fd -> SUBSET Ids] /\ w \in [Fd -> SUBSET Tokens]
         /\ \A d \in Fd : p[d] \subseteq peer[d] /\ w[d] \subseteq waiting[d]
         /\ \A d \in Fd : Hears(d) => \A id \in p[d] : id[1] # f
  <1>1. Typed /\ AllConns /\ AllEntries /\ PeersMatch
    BY DEF IInv
  <1>2. CASE Has(f) /\ Lookup(ext[f].out_fd, ext[f].out_gen)
    <2>1. ext[f].out_fd \in Fd
      BY <1>1, <1>2 DEF Typed, Has, ExtRec, Fd
    <2>2. p = Told(peer, ext[f].out_fd, {Id(f)}) /\ w = ToldWaiting(waiting, ext[f].out_fd, {Id(f)})
      BY <1>2 DEF PeerAfter, WaitingAfter
    <2>3. /\ p \in [Fd -> SUBSET Ids] /\ w \in [Fd -> SUBSET Tokens]
          /\ \A g \in Fd : p[g] \subseteq peer[g] /\ w[g] \subseteq waiting[g]
          /\ Hears(ext[f].out_fd) => \A id \in p[ext[f].out_fd] : id \notin {Id(f)}
      BY <1>1, <2>1, <2>2, Telling
    <2>4. ASSUME NEW d \in Fd, Hears(d), NEW id \in p[d], id[1] = f
          PROVE  FALSE
      <3>1. Found(id) /\ ext[f].out_fd = d
        BY <1>1, <2>3, <2>4 DEF PeersMatch
      <3>2. QED  BY <2>3, <2>4, <3>1 DEF Found
    <2>5. QED  BY <2>3, <2>4
  <1>3. CASE ~(Has(f) /\ Lookup(ext[f].out_fd, ext[f].out_gen))
    <2>1. p = peer /\ w = waiting
      BY <1>3 DEF PeerAfter, WaitingAfter
    <2>2. ASSUME NEW d \in Fd, Hears(d), NEW id \in peer[d], id[1] = f
          PROVE  FALSE
      <3>1. Found(id) /\ ext[f].out_fd = d /\ Has(f)
        BY <1>1, <2>2 DEF PeersMatch, Found
      <3>2. ConnOK(d) /\ EntryOK(f)
        BY <1>1 DEF AllConns, AllEntries
      <3>3. Lookup(d, ext[f].out_gen)
        BY <2>2, <3>1, <3>2 DEF Lookup, Hears, ConnOK, EntryOK
      <3>4. QED  BY <1>3, <3>1, <3>3
    <2>3. QED  BY <1>1, <2>1, <2>2 DEF Typed
  <1>4. QED  BY <1>2, <1>3

\* What the middle-ends know only shrinks, and what they keep has its entry.
Quieter ==
  /\ peer' \in [Fd -> SUBSET Ids] /\ waiting' \in [Fd -> SUBSET Tokens]
  /\ \A d \in Fd : peer'[d] \subseteq peer[d] /\ waiting'[d] \subseteq waiting[d]
  /\ \A d \in Fd : Hears(d) => \A id \in peer'[d] : ext'[id[1]] = ext[id[1]]

LEMMA QuietParts ==
  ASSUME IInv, Quieter, NEW d \in Fd, Hears(d)' => Hears(d)
  PROVE  PeerStep(d) /\ WaitStep(d) /\ (conn[d].kind # "middle" => peer'[d] = {} /\ waiting'[d] = {})
  BY DEF Quieter, PeerStep, WaitStep, IInv, AllConns, ConnOK

LEMMA QuietSteady ==
  ASSUME IInv, Quieter, gen' = gen, last' = last, draining' \in BOOLEAN, down' = down,
         conn' \in [Fd -> ConnRec], \A f \in Fd : Milder(f) /\ (conn'[f].tag => conn[f].tag),
         heads' \in SUBSET Fd, \A f \in Fd : f \in heads' <=> conn'[f].tag,
         ext' \in [Fd -> {NoExt} \union ExtRec], \A f \in Fd : ExtStep(f), NotesStep
  PROVE  SteadyStep
  <1>1. ASSUME NEW f \in Fd
        PROVE  Steady(f) /\ PeerStep(f) /\ WaitStep(f)
    <2>1. Hears(f)' => Hears(f)
      BY DEF Milder, Hears
    <2>2. PeerStep(f) /\ WaitStep(f) /\ (conn[f].kind # "middle" => peer'[f] = {} /\ waiting'[f] = {})
      BY <2>1, QuietParts
    <2>3. QED  BY <2>2 DEF Steady, Milder
  <1>2. QED  BY <1>1 DEF SteadyStep, TypedNow, Quieter

\* The entries stay, or those of some clients go.
LEMMA EntriesStay ==
  ASSUME IInv, ext' = ext, \A f \in Fd : conn'[f].tag = conn[f].tag
  PROVE  ext' \in [Fd -> {NoExt} \union ExtRec] /\ \A f \in Fd : ExtStep(f)
  <1>1. Typed /\ AllEntries
    BY DEF IInv
  <1>2. ASSUME NEW f \in Fd, Has(f)
        PROVE  conn'[ext[f].out_fd].tag
    <2>1. ext[f].out_fd \in Fd
      BY <1>1, <1>2 DEF Typed, Has, ExtRec, Fd
    <2>2. QED  BY <1>1, <1>2, <2>1 DEF AllEntries, EntryOK
  <1>3. QED  BY <1>1, <1>2 DEF ExtStep, Typed

LEMMA EntriesGo ==
  ASSUME IInv, NEW S, ext' = [f \in Fd |-> IF f \in S THEN NoExt ELSE ext[f]],
         \A f \in Fd : conn'[f].tag = conn[f].tag
  PROVE  ext' \in [Fd -> {NoExt} \union ExtRec] /\ \A f \in Fd : ExtStep(f)
  <1>1. Typed /\ AllEntries
    BY DEF IInv
  <1>2. ASSUME NEW f \in Fd, Has(f)
        PROVE  conn'[ext[f].out_fd].tag
    <2>1. ext[f].out_fd \in Fd
      BY <1>1, <1>2 DEF Typed, Has, ExtRec, Fd
    <2>2. QED  BY <1>1, <1>2, <2>1 DEF AllEntries, EntryOK
  <1>3. QED  BY <1>1, <1>2 DEF ExtStep, Typed

\* Lists and tags stay with each other when neither changes.
LEMMA HeadsStay ==
  ASSUME IInv, heads' = heads, \A f \in Fd : conn'[f].tag = conn[f].tag
  PROVE  heads' \in SUBSET Fd /\ \A f \in Fd : f \in heads' <=> conn'[f].tag
  BY DEF IInv, Typed, AllConns, ConnOK

\* Steps that leave the entries and the middle-ends alone.
LEMMA ConnsOnly ==
  ASSUME IInv, conn' \in [Fd -> ConnRec], \A f \in Fd : Milder(f) /\ conn'[f].tag = conn[f].tag,
         UNCHANGED <<gen, ext, last, heads, notes, peer, waiting, down>>, draining' \in BOOLEAN
  PROVE  SteadyStep
  <1>1. ext' \in [Fd -> {NoExt} \union ExtRec] /\ \A f \in Fd : ExtStep(f)
    BY EntriesStay
  <1>2. heads' \in SUBSET Fd /\ \A f \in Fd : f \in heads' <=> conn'[f].tag
    BY HeadsStay
  <1>3. Quieter
    BY DEF Quieter, IInv, Typed
  <1>4. NotesStep
    BY DEF NotesStep
  <1>5. QED  BY <1>1, <1>2, <1>3, <1>4, QuietSteady

-----------------------------------------------------------------------------
(* One action at a time: steady steps *)

\* fail_connection, or the socket fails.
LEMMA FailsStep ==
  ASSUME IInv, NEW f \in Fd, NEW F \in SUBSET {"ERROR", "SOCKERR"}, "ERROR" \in F, Fails(f, F)
  PROVE  IInv'
  <1>1. conn[f].kind # "none" /\ conn' = Marked(f, F) /\ engine' = engine /\ LogSame
        /\ UNCHANGED <<gen, ext, last, heads, notes, peer, waiting, down>> /\ draining' = draining
    BY DEF Fails, table, middle, log, LogSame
  <1>2. Typed
    BY DEF IInv
  <1>3. conn' \in [Fd -> ConnRec] /\ \A g \in Fd : Milder(g) /\ conn'[g].tag = conn[g].tag
    BY <1>1, <1>2, ConnMarked
  <1>4. SteadyStep
    BY <1>1, <1>2, <1>3, ConnsOnly DEF Typed
  <1>5. QED  BY <1>1, <1>4, SteadyPop

\* The notification job starts.
LEMMA RunNotifyStep ==
  ASSUME IInv, RunNotify
  PROVE  IInv'
  <1>1. /\ engine # <<>> /\ engine' = Tail(engine) /\ LogSame /\ conn' = conn
        /\ UNCHANGED <<gen, ext, last, heads, notes, peer, waiting, down>> /\ draining' = TRUE
    BY DEF RunNotify, Running, table, middle, log, LogSame
  <1>2. conn' \in [Fd -> ConnRec] /\ \A g \in Fd : Milder(g) /\ conn'[g].tag = conn[g].tag
    BY <1>1, ConnStays DEF IInv
  <1>3. SteadyStep
    BY <1>1, <1>2, ConnsOnly
  <1>4. QED  BY <1>1, <1>3, SteadyPop

\* It ends.
LEMMA DrainEndStep ==
  ASSUME IInv, DrainEnd
  PROVE  IInv'
  <1>1. /\ engine' = engine /\ LogSame /\ conn' = conn
        /\ UNCHANGED <<gen, ext, last, heads, notes, peer, waiting, down>> /\ draining' = FALSE
    BY DEF DrainEnd, table, middle, log, LogSame
  <1>2. conn' \in [Fd -> ConnRec] /\ \A g \in Fd : Milder(g) /\ conn'[g].tag = conn[g].tag
    BY <1>1, ConnStays DEF IInv
  <1>3. SteadyStep
    BY <1>1, <1>2, ConnsOnly
  <1>4. QED  BY <1>1, <1>3, SteadyPop

\* check_all_conn_buffers fails the connection of the oldest entry, if it is there.
LEMMA EvictStep ==
  ASSUME IInv, Evict
  PROVE  IInv'
  <1>1. /\ engine' = engine /\ LogSame /\ conn' = Failed({Head(lru)})
        /\ UNCHANGED <<gen, ext, last, heads, notes, peer, waiting, down>> /\ draining' = draining
    BY DEF Evict, table, middle, log, LogSame
  <1>2. Typed
    BY DEF IInv
  <1>3. FailedTo(conn')
    BY <1>1, <1>2, ConnFailed
  <1>4. \A g \in Fd : Milder(g) /\ conn'[g].tag = conn[g].tag
    BY <1>3 DEF FailedTo, Milder
  <1>5. SteadyStep
    BY <1>1, <1>2, <1>3, <1>4, ConnsOnly DEF Typed, FailedTo
  <1>6. QED  BY <1>1, <1>5, SteadyPop

\* A packet that is not forwarded.
LEMMA RejectQueryStep ==
  ASSUME IInv, RejectQuery
  PROVE  IInv'
  <1>1. /\ engine # <<>> /\ engine' = Tail(engine) /\ LogSame /\ conn' = conn
        /\ UNCHANGED <<gen, ext, last, heads, notes, peer, waiting, down>> /\ draining' = draining
    BY DEF RejectQuery, Item, Running, Done, middle, LogSame
  <1>2. Typed
    BY DEF IInv
  <1>3. conn' \in [Fd -> ConnRec] /\ \A g \in Fd : Milder(g) /\ conn'[g].tag = conn[g].tag
    BY <1>1, <1>2, ConnStays
  <1>4. SteadyStep
    BY <1>1, <1>2, <1>3, ConnsOnly DEF Typed
  <1>5. QED  BY <1>1, <1>4, SteadyPop

\* The entry of the head's client goes and its middle-end is told of it.
LEMMA Removal ==
  ASSUME IInv, NEW f \in Fd, ext' = [g \in Fd |-> IF g \in {f} THEN NoExt ELSE ext[g]],
         peer' = PeerAfter(f), waiting' = WaitingAfter(f),
         \A g \in Fd : conn'[g].tag = conn[g].tag
  PROVE  Quieter /\ ext' \in [Fd -> {NoExt} \union ExtRec] /\ \A g \in Fd : ExtStep(g)
  <1>1. ext' \in [Fd -> {NoExt} \union ExtRec] /\ \A g \in Fd : ExtStep(g)
    BY EntriesGo
  <1>2. /\ peer' \in [Fd -> SUBSET Ids] /\ waiting' \in [Fd -> SUBSET Tokens]
        /\ \A d \in Fd : peer'[d] \subseteq peer[d] /\ waiting'[d] \subseteq waiting[d]
        /\ \A d \in Fd : Hears(d) => \A id \in peer'[d] : id[1] # f
    BY Removing
  <1>3. \A d \in Fd : \A id \in peer'[d] : id[1] \in Fd
    BY <1>2 DEF Ids
  <1>4. QED  BY <1>1, <1>2, <1>3 DEF Quieter

\* The head of the queue when it is a query.
LEMMA QueryHead ==
  ASSUME IInv, Item("query")
  PROVE  /\ engine # <<>> /\ Head(engine) \in Items /\ Head(engine).fd \in Fd /\ Head(engine).n \in Nat
         /\ QueryOK(Head(engine).fd, Head(engine).n) /\ Len(engine) \in Nat /\ engine[1] = Head(engine)
         /\ \A i \in 2 .. Len(engine) : engine[i].op = "query" => Head(engine).n < engine[i].n
  <1>1. engine \in Seq(Items) /\ engine # <<>> /\ Head(engine).op = "query" /\ AllItems /\ ItemsOrder
    BY DEF IInv, Typed, Item, Running
  <1>2. /\ Head(engine) = engine[1] /\ Head(engine) \in Items /\ Len(engine) \in Nat
        /\ 1 \in 1 .. Len(engine)
    BY <1>1, Popping
  <1>3. PICK x \in Items : x = engine[1] /\ x.op = "query" /\ ItemOK(x)
    BY <1>1, <1>2 DEF AllItems
  <1>4. x.fd \in Fd /\ x.n \in Nat /\ QueryOK(x.fd, x.n)
    BY <1>3 DEF Items, Notify, ItemOK
  <1>5. \A i \in 2 .. Len(engine) : engine[i].op = "query" => Head(engine).n < engine[i].n
    BY <1>1, <1>2 DEF ItemsOrder
  <1>6. QED  BY <1>1, <1>2, <1>3, <1>4, <1>5

\* A connection that has lost a query is closed at its next one.
LEMMA FailDroppedStep ==
  ASSUME IInv, FailDropped
  PROVE  IInv'
  <1> DEFINE f == Head(engine).fd
  <1>1. f \in Fd /\ engine # <<>> /\ conn[f].kind # "none"
    BY QueryHead DEF FailDropped, QueryOK
  <1>2. /\ engine' = Tail(engine) /\ LogSame /\ conn' = Marked(f, {"ERROR"})
        /\ UNCHANGED <<gen, last, heads, notes, down>> /\ draining' = draining
        /\ ext' = [g \in Fd |-> IF g \in {f} THEN NoExt ELSE ext[g]]
        /\ peer' = PeerAfter(f) /\ waiting' = WaitingAfter(f)
    BY DEF FailDropped, Item, Running, Done, Without, LogSame
  <1> HIDE DEF f
  <1>3. Typed
    BY DEF IInv
  <1>4. conn' \in [Fd -> ConnRec] /\ \A g \in Fd : Milder(g) /\ conn'[g].tag = conn[g].tag
    BY <1>1, <1>2, <1>3, ConnMarked
  <1>5. Quieter /\ ext' \in [Fd -> {NoExt} \union ExtRec] /\ \A g \in Fd : ExtStep(g)
    BY <1>1, <1>2, <1>4, Removal
  <1>6. heads' \in SUBSET Fd /\ \A g \in Fd : g \in heads' <=> conn'[g].tag
    BY <1>2, <1>4, HeadsStay
  <1>7. SteadyStep
    BY <1>2, <1>3, <1>4, <1>5, <1>6, QuietSteady DEF NotesStep, Typed
  <1>8. QED  BY <1>1, <1>2, <1>7, SteadyPop

\* A query that no middle-end gets is marked on its connection.
LEMMA DropQueryStep ==
  ASSUME IInv, DropQuery
  PROVE  IInv'
  <1> DEFINE f == Head(engine).fd
  <1>1. f \in Fd /\ engine # <<>> /\ conn[f].kind # "none"
    BY QueryHead DEF DropQuery, QueryOK
  <1>2. /\ engine' = Tail(engine) /\ LogSame /\ conn' = [conn EXCEPT ![f].dropped = TRUE]
        /\ UNCHANGED <<gen, last, heads, notes, down>> /\ draining' = draining
        /\ ext' = [g \in Fd |-> IF g \in {f} THEN NoExt ELSE ext[g]]
        /\ peer' = PeerAfter(f) /\ waiting' = WaitingAfter(f)
    BY DEF DropQuery, Item, Running, Done, Without, LogSame
  <1> HIDE DEF f
  <1>3. Typed
    BY DEF IInv
  <1>4. conn' \in [Fd -> ConnRec] /\ \A g \in Fd : Milder(g) /\ conn'[g].tag = conn[g].tag
    <2>1. conn \in [Fd -> ConnRec]
      BY <1>3 DEF Typed
    <2>2. [conn[f] EXCEPT !.dropped = TRUE] \in ConnRec
      BY <1>1, <2>1 DEF ConnRec
    <2>3. conn' \in [Fd -> ConnRec]
      BY <1>1, <1>2, <2>1, <2>2
    <2>4. QED  BY <1>1, <1>2, <2>1, <2>3 DEF Milder, ConnRec
  <1>5. Quieter /\ ext' \in [Fd -> {NoExt} \union ExtRec] /\ \A g \in Fd : ExtStep(g)
    BY <1>1, <1>2, <1>4, Removal
  <1>6. heads' \in SUBSET Fd /\ \A g \in Fd : g \in heads' <=> conn'[g].tag
    BY <1>2, <1>4, HeadsStay
  <1>7. SteadyStep
    BY <1>2, <1>3, <1>4, <1>5, <1>6, QuietSteady DEF NotesStep, Typed
  <1>8. QED  BY <1>1, <1>2, <1>7, SteadyPop

\* The notification at the head of its queue.
LEMMA NoteHead ==
  ASSUME IInv, notes # <<>>
  PROVE  Head(notes) \in Notes /\ Head(notes).fd \in Fd /\ NoteOK(Head(notes))
  <1>1. notes \in Seq(Notes) /\ AllNotes
    BY DEF IInv, Typed
  <1>2. Head(notes) = notes[1] /\ Head(notes) \in Notes /\ 1 \in 1 .. Len(notes)
    BY <1>1, Popping
  <1>3. PICK x \in Notes : x = Head(notes) /\ NoteOK(x)
    BY <1>1, <1>2 DEF AllNotes
  <1>4. x.fd \in Fd
    BY DEF Notes
  <1>5. QED  BY <1>3, <1>4

\* mtproto_ext_rpc_close: the entry goes, whatever it says.
LEMMA ClientCloseStep ==
  ASSUME IInv, ClientClose
  PROVE  IInv'
  <1> DEFINE f == Head(notes).fd
  <1>1. /\ notes # <<>> /\ Head(notes).ev = "close" /\ conn[f].kind = "client"
        /\ engine' = engine /\ LogSame /\ conn' = conn /\ notes' = Tail(notes)
        /\ UNCHANGED <<gen, last, heads, down>> /\ draining' = draining
        /\ ext' = [g \in Fd |-> IF g \in {f} THEN NoExt ELSE ext[g]]
        /\ peer' = PeerAfter(f) /\ waiting' = WaitingAfter(f)
    BY DEF ClientClose, Event, Without, LogSame, log
  <1>2. f \in Fd /\ Typed /\ ConnOK(f)
    BY <1>1, NoteHead DEF IInv, AllConns
  <1>3. NotesStep
    <2>1. ~conn'[f].tag /\ ext'[f] = NoExt
      BY <1>1, <1>2 DEF ConnOK
    <2>2. QED  BY <1>1, <2>1 DEF NotesStep
  <1> HIDE DEF f
  <1>4. conn' \in [Fd -> ConnRec] /\ \A g \in Fd : Milder(g) /\ conn'[g].tag = conn[g].tag
    BY <1>1, <1>2, ConnStays
  <1>5. Quieter /\ ext' \in [Fd -> {NoExt} \union ExtRec] /\ \A g \in Fd : ExtStep(g)
    BY <1>1, <1>2, <1>4, Removal
  <1>6. heads' \in SUBSET Fd /\ \A g \in Fd : g \in heads' <=> conn'[g].tag
    BY <1>1, <1>4, HeadsStay
  <1>7. SteadyStep
    BY <1>1, <1>2, <1>3, <1>4, <1>5, <1>6, QuietSteady DEF Typed
  <1>8. QED  BY <1>1, <1>7, SteadyPop

\* mtfront_client_close of a connection that never was ready.
LEMMA UntaggedClose ==
  ASSUME IInv, MiddleClose, ~conn[Head(notes).fd].tag
  PROVE  IInv'
  <1> DEFINE f == Head(notes).fd
  <1>1. /\ notes # <<>> /\ Head(notes).ev = "close" /\ conn[f].kind = "middle"
        /\ engine' = engine /\ LogSame /\ conn' = conn /\ notes' = Tail(notes)
        /\ UNCHANGED <<gen, ext, last, heads, peer, waiting, down>> /\ draining' = draining
    BY DEF MiddleClose, Event, LogSame, log, middle
  <1>2. f \in Fd /\ Typed /\ EntryOK(f)
    BY <1>1, NoteHead DEF IInv, AllEntries
  <1>3. NotesStep
    BY <1>1, <1>2 DEF NotesStep, EntryOK, Has
  <1> HIDE DEF f
  <1>4. conn' \in [Fd -> ConnRec] /\ \A g \in Fd : Milder(g) /\ conn'[g].tag = conn[g].tag
    BY <1>1, <1>2, ConnStays
  <1>5. ext' \in [Fd -> {NoExt} \union ExtRec] /\ \A g \in Fd : ExtStep(g)
    BY <1>1, <1>4, EntriesStay
  <1>6. heads' \in SUBSET Fd /\ \A g \in Fd : g \in heads' <=> conn'[g].tag
    BY <1>1, <1>4, HeadsStay
  <1>7. Quieter
    BY <1>1, <1>2 DEF Quieter, Typed
  <1>8. SteadyStep
    BY <1>1, <1>2, <1>3, <1>4, <1>5, <1>6, <1>7, QuietSteady DEF Typed
  <1>9. QED  BY <1>1, <1>8, SteadyPop

\* A connection that fails or not loses its tag.
LEMMA Untagging ==
  ASSUME NEW f \in Fd, NEW c, FailedTo(c), conn[f].kind # "none",
         conn' = [c EXCEPT ![f].tag = FALSE]
  PROVE  /\ conn' \in [Fd -> ConnRec] /\ ~conn'[f].tag
         /\ \A g \in Fd : Milder(g) /\ (g # f => conn'[g].tag = conn[g].tag)
  <1>1. c \in [Fd -> ConnRec] /\ c[f] \in ConnRec
    BY DEF FailedTo
  <1>2. conn' = [c EXCEPT ![f] = [c[f] EXCEPT !.tag = FALSE]]
    OBVIOUS
  <1>3. PICK r : r = [c[f] EXCEPT !.tag = FALSE]
    OBVIOUS
  <1>4. /\ r \in ConnRec /\ r.tag = FALSE /\ r.kind = c[f].kind /\ r.gen = c[f].gen
        /\ r.flags = c[f].flags
    BY <1>1, <1>3 DEF ConnRec
  <1>5. /\ conn' \in [Fd -> ConnRec] /\ conn'[f] = r
        /\ \A g \in Fd : g # f => conn'[g] = c[g]
    BY <1>1, <1>2, <1>3, <1>4
  <1>6. ASSUME NEW g \in Fd, g # f
        PROVE  Milder(g) /\ conn'[g].tag = conn[g].tag
    BY <1>5, <1>6 DEF FailedTo, Milder
  <1>7. Milder(f) /\ ~conn'[f].tag
    BY <1>4, <1>5 DEF FailedTo, Milder
  <1>8. QED  BY <1>5, <1>6, <1>7

\* ... and of one that was: no entry is left with it.
LEMMA TaggedClose ==
  ASSUME IInv, MiddleClose, conn[Head(notes).fd].tag
  PROVE  IInv'
  <1> DEFINE f == Head(notes).fd  S == {c \in Fd : Has(c) /\ ext[c].out_fd = f}
  <1>1. /\ notes # <<>> /\ Head(notes).ev = "close" /\ conn[f].kind = "middle" /\ conn[f].tag
        /\ engine' = engine /\ LogSame /\ notes' = Tail(notes)
        /\ UNCHANGED <<gen, last, peer, waiting, down>> /\ draining' = draining
        /\ conn' = [Failed(S) EXCEPT ![f].tag = FALSE] /\ heads' = heads \ {f}
        /\ ext' = [g \in Fd |-> IF g \in S THEN NoExt ELSE ext[g]]
    BY DEF MiddleClose, Event, LogSame, log, middle, Without
  <1>2. /\ f \in Fd /\ Typed /\ EntryOK(f) /\ ~Hears(f) /\ AllConns /\ AllEntries /\ PeersMatch
    <2>1. f \in Fd /\ NoteOK(Head(notes)) /\ ConnOK(f) /\ EntryOK(f)
      BY <1>1, NoteHead DEF IInv, AllConns, AllEntries
    <2>2. QED  BY <1>1, <2>1 DEF NoteOK, ConnOK, Hears, IInv
  <1>3. \A g \in Fd : g \in S <=> Has(g) /\ ext[g].out_fd = f
    OBVIOUS
  <1>4. FailedTo(Failed(S))
    BY <1>2, ConnFailed
  <1> HIDE DEF S
  <1>5. /\ conn' \in [Fd -> ConnRec] /\ ~conn'[f].tag
        /\ \A g \in Fd : Milder(g) /\ (g # f => conn'[g].tag = conn[g].tag)
    BY <1>1, <1>2, <1>4, Untagging
  <1>6. NotesStep
    <2>1. ext'[f] = NoExt \/ ext'[f].late
      BY <1>1, <1>2 DEF EntryOK, Has
    <2>2. QED  BY <1>1, <1>5, <2>1 DEF NotesStep
  <1> HIDE DEF f
  <1>7. ext' \in [Fd -> {NoExt} \union ExtRec] /\ \A g \in Fd : ExtStep(g)
    <2>1. ASSUME NEW g \in Fd, g \notin S, Has(g)
          PROVE  conn'[ext[g].out_fd].tag
      <3>1. ext[g].out_fd \in Fd /\ ext[g].out_fd # f
        BY <1>2, <1>3, <2>1 DEF Typed, Has, ExtRec, Fd
      <3>2. QED  BY <1>2, <1>5, <2>1, <3>1 DEF AllEntries, EntryOK
    <2>2. QED  BY <1>1, <1>2, <2>1 DEF ExtStep, Typed
  <1>8. heads' \in SUBSET Fd /\ \A g \in Fd : g \in heads' <=> conn'[g].tag
    BY <1>1, <1>2, <1>5 DEF Typed, AllConns, ConnOK
  <1>9. Quieter
    <2>1. ASSUME NEW d \in Fd, Hears(d), NEW id \in peer[d]
          PROVE  ext'[id[1]] = ext[id[1]]
      <3>1. id[1] \in Fd /\ ext[id[1]].out_fd = d /\ d # f
        BY <1>2, <2>1 DEF Typed, Ids, PeersMatch
      <3>2. QED  BY <1>1, <1>3, <3>1
    <2>2. QED  BY <1>1, <1>2, <2>1 DEF Quieter, Typed
  <1>10. SteadyStep
    <2>1. \A g \in Fd : Milder(g) /\ (conn'[g].tag => conn[g].tag)
      BY <1>5
    <2>2. QED  BY <1>1, <1>2, <1>5, <1>6, <1>7, <1>8, <1>9, <2>1, QuietSteady DEF Typed
  <1>11. QED  BY <1>1, <1>10, SteadyPop

LEMMA MiddleCloseStep ==
  ASSUME IInv, MiddleClose
  PROVE  IInv'
  BY UntaggedClose, TaggedClose

\* The head of the queue when it is an answer or a close.
LEMMA AnswerHead ==
  ASSUME IInv, Item("answer")
  PROVE  /\ engine # <<>> /\ Head(engine).fd \in Fd /\ Head(engine).id \in Ids
         /\ Head(engine).n \in Nat /\ TokenOK(Head(engine).id, Head(engine).n)
  <1>1. engine \in Seq(Items) /\ engine # <<>> /\ Head(engine).op = "answer" /\ AllItems
    BY DEF IInv, Typed, Item, Running
  <1>2. Head(engine) = engine[1] /\ Head(engine) \in Items /\ 1 \in 1 .. Len(engine)
    BY <1>1, Popping
  <1>3. PICK x \in Items : x = engine[1] /\ x.op = "answer" /\ ItemOK(x)
    BY <1>1, <1>2 DEF AllItems
  <1>4. x.fd \in Fd /\ x.id \in Ids /\ x.n \in Nat /\ TokenOK(x.id, x.n)
    BY <1>3 DEF Items, Notify, ItemOK
  <1>5. QED  BY <1>1, <1>2, <1>3, <1>4

LEMMA CloseHead ==
  ASSUME IInv, Item("closeExt")
  PROVE  engine # <<>> /\ Head(engine).id \in Ids /\ ClosedOK(Head(engine).id)
  <1>1. engine \in Seq(Items) /\ engine # <<>> /\ Head(engine).op = "closeExt" /\ AllItems
    BY DEF IInv, Typed, Item, Running
  <1>2. Head(engine) = engine[1] /\ Head(engine) \in Items /\ 1 \in 1 .. Len(engine)
    BY <1>1, Popping
  <1>3. PICK x \in Items : x = engine[1] /\ x.op = "closeExt" /\ ItemOK(x)
    BY <1>1, <1>2 DEF AllItems
  <1>4. x.id \in Ids /\ ClosedOK(x.id)
    BY <1>3 DEF Items, Notify, ItemOK
  <1>5. QED  BY <1>1, <1>2, <1>3, <1>4

\* RPC_CLOSE_EXT: the middle-end no longer knows the number.
LEMMA CloseExtStep ==
  ASSUME IInv, CloseExt
  PROVE  IInv'
  <1> DEFINE x == Head(engine).id  S == IF Found(x) THEN {x[1]} ELSE {}
  <1>1. /\ engine # <<>> /\ engine' = Tail(engine) /\ LogSame /\ conn' = Failed(S)
        /\ UNCHANGED <<gen, last, heads, notes, peer, waiting, down>> /\ draining' = draining
        /\ ext' = [g \in Fd |-> IF g \in S THEN NoExt ELSE ext[g]]
    BY DEF CloseExt, Item, Running, Done, Without, LogSame, middle
  <1>2. x \in Ids /\ ClosedOK(x) /\ Typed /\ PeersMatch
    BY CloseHead DEF CloseExt, IInv
  <1>3. \A g \in Fd : g \in S <=> Found(x) /\ g = x[1]
    OBVIOUS
  <1> HIDE DEF x, S
  <1>4. FailedTo(conn')
    BY <1>1, <1>2, ConnFailed
  <1>5. conn' \in [Fd -> ConnRec] /\ \A g \in Fd : Milder(g) /\ conn'[g].tag = conn[g].tag
    BY <1>4 DEF FailedTo, Milder
  <1>6. ext' \in [Fd -> {NoExt} \union ExtRec] /\ \A g \in Fd : ExtStep(g)
    BY <1>1, <1>5, EntriesGo
  <1>7. heads' \in SUBSET Fd /\ \A g \in Fd : g \in heads' <=> conn'[g].tag
    BY <1>1, <1>5, HeadsStay
  <1>8. Quieter
    <2>1. ASSUME NEW d \in Fd, Hears(d), NEW id \in peer[d]
          PROVE  ext'[id[1]] = ext[id[1]]
      <3>1. id[1] \in Fd /\ Found(id) /\ id # x
        BY <1>2, <2>1 DEF Typed, Ids, PeersMatch, ClosedOK
      <3>2. id[1] \notin S
        BY <1>3, <3>1 DEF Found
      <3>3. QED  BY <1>1, <3>1, <3>2
    <2>2. QED  BY <1>1, <1>2, <2>1 DEF Quieter, Typed
  <1>9. SteadyStep
    BY <1>1, <1>2, <1>5, <1>6, <1>7, <1>8, QuietSteady DEF NotesStep, Typed
  <1>10. QED  BY <1>1, <1>9, SteadyPop

\* An answer nobody waits for: its middle-end is told.
LEMMA DropAnswerStep ==
  ASSUME IInv, DropAnswer
  PROVE  IInv'
  <1> DEFINE d == Head(engine).fd  x == Head(engine).id
  <1>1. /\ engine # <<>> /\ engine' = Tail(engine) /\ LogSame /\ conn' = conn
        /\ UNCHANGED <<gen, ext, last, heads, notes, down>> /\ draining' = draining
        /\ peer' = Told(peer, d, {x}) /\ waiting' = ToldWaiting(waiting, d, {x})
    BY DEF DropAnswer, Item, Running, Done, LogSame, table
  <1>2. d \in Fd /\ Typed
    BY AnswerHead DEF DropAnswer, IInv
  <1> HIDE DEF d, x
  <1>3. conn' \in [Fd -> ConnRec] /\ \A g \in Fd : Milder(g) /\ conn'[g].tag = conn[g].tag
    BY <1>1, <1>2, ConnStays
  <1>4. ext' \in [Fd -> {NoExt} \union ExtRec] /\ \A g \in Fd : ExtStep(g)
    BY <1>1, <1>3, EntriesStay
  <1>5. heads' \in SUBSET Fd /\ \A g \in Fd : g \in heads' <=> conn'[g].tag
    BY <1>1, <1>3, HeadsStay
  <1>6. Quieter
    <2>1. /\ peer' \in [Fd -> SUBSET Ids] /\ waiting' \in [Fd -> SUBSET Tokens]
          /\ \A g \in Fd : peer'[g] \subseteq peer[g] /\ waiting'[g] \subseteq waiting[g]
      BY <1>1, <1>2, Telling
    <2>2. QED  BY <1>1, <2>1 DEF Quieter
  <1>7. SteadyStep
    BY <1>1, <1>2, <1>3, <1>4, <1>5, <1>6, QuietSteady DEF NotesStep, Typed
  <1>8. QED  BY <1>1, <1>7, SteadyPop

\* An answer: between the query and the entry there was no other connection.
LEMMA AnswerStep ==
  ASSUME IInv, Answer
  PROVE  IInv'
  <1> DEFINE x == Head(engine).id  n == Head(engine).n  f == x[1]
  <1>1. /\ engine # <<>> /\ engine' = Tail(engine) /\ asked' = asked
        /\ UNCHANGED <<gen, ext, last, heads, notes, peer, waiting, down>> /\ draining' = draining
        /\ \/ conn' = conn /\ answered' = answered \union {<<n, f, conn[f].gen>>}
           \/ conn' = Marked(f, {"ERROR"}) /\ answered' = answered
    BY DEF Answer, Item, Running, Done, table, middle
  <1>2. /\ f \in Fd /\ Typed /\ x \in Ids /\ n \in Nat /\ TokenOK(x, n)
    BY AnswerHead DEF Answer, IInv, Ids
  <1>3. Found(x) /\ Lookup(f, ext[f].in_gen)
    BY DEF Answer, Addressee
  <1> HIDE DEF x, n
  <1>4. CASE conn' = Marked(f, {"ERROR"}) /\ answered' = answered
    <2>1. conn' \in [Fd -> ConnRec] /\ \A g \in Fd : Milder(g) /\ conn'[g].tag = conn[g].tag
      BY <1>2, <1>3, <1>4, ConnMarked DEF Lookup
    <2>2. SteadyStep
      BY <1>1, <1>2, <2>1, ConnsOnly DEF Typed
    <2>3. QED  BY <1>1, <1>4, <2>2, SteadyPop DEF LogSame
  <1>5. CASE conn' = conn /\ answered' = answered \union {<<n, f, conn[f].gen>>}
    <2>1. conn' \in [Fd -> ConnRec] /\ \A g \in Fd : Milder(g) /\ conn'[g].tag = conn[g].tag
      BY <1>2, <1>5, ConnStays
    <2>2. SteadyStep
      BY <1>1, <1>2, <2>1, ConnsOnly DEF Typed
    <2>3. asked[n] = <<f, conn[f].gen>> /\ n \in 1 .. Len(asked) /\ conn[f].gen \in Nat
      <3>1. n \in 1 .. Len(asked) /\ asked[n][1] = f /\ ext[f].in_gen <= asked[n][2]
            /\ asked[n][2] <= conn[f].gen /\ conn[f].gen = ext[f].in_gen
        BY <1>2, <1>3 DEF TokenOK, Lookup
      <3>2. asked[n] \in Fd \X (0 .. MaxGen) /\ conn[f].gen \in 0 .. MaxGen
        BY <1>2, <3>1, SMTT(60) DEF Typed, ConnRec
      <3>3. asked[n][2] = conn[f].gen
        BY <3>1, <3>2, RelayAssumption
      <3>4. QED  BY <3>1, <3>2, <3>3
    <2>4. Grows /\ AskedOK' /\ AnsweredOK' /\ asked' \in Seq(Fd \X (0 .. MaxGen))
      BY <1>1, <1>2, <1>5, <2>3, SMTT(60) DEF Grows, AskedOK, AnsweredOK, IInv, Typed
    <2>5. AnswersToAsker' /\ answered' \in SUBSET (Nat \X Fd \X Nat)
      <3>1. AnswersToAsker /\ answered \in SUBSET (Nat \X Fd \X Nat)
        BY DEF IInv, Typed
      <3>2. PICK a : a = <<n, f, conn[f].gen>> /\ answered' = answered \union {a}
        BY <1>5
      <3>3. a[1] = n /\ a[2] = f /\ a[3] = conn[f].gen /\ a \in Nat \X Fd \X Nat
        BY <1>2, <2>3, <3>2
      <3>4. QED  BY <1>1, <2>3, <3>1, <3>2, <3>3 DEF AnswersToAsker
    <2>6. /\ Kept /\ AllConns' /\ notes' \in Seq(Notes) /\ AllNotes' /\ NotesOrder' /\ AllEntries'
          /\ AllWaiting' /\ PeersMatch'
      BY <2>2, <2>4, SteadyRest
    <2>7. TailKept
      BY <1>2, <2>6 DEF TailKept, Kept, InQueue, AllItems, IInv
    <2>8. engine' \in Seq(Items) /\ AllItems' /\ ItemsOrder'
      BY <1>1, <2>7, EnginePops DEF IInv
    <2>9. Typed'
      BY <2>2, <2>4, <2>5, <2>6, <2>8 DEF SteadyStep, TypedNow, Typed, IInv
    <2>10. QED  BY <2>4, <2>5, <2>6, <2>8, <2>9 DEF IInv
  <1>6. QED  BY <1>1, <1>4, <1>5

\* What is forwarded to d is known there, unless d has closed the number.
Forwarded(p, w, d, id, n) ==
  /\ peer' \in [Fd -> SUBSET Ids] /\ waiting' \in [Fd -> SUBSET Tokens]
  /\ \A g \in Fd : g # d => peer'[g] = p[g] /\ waiting'[g] = w[g]
  /\ \/ peer'[d] = p[d] /\ waiting'[d] = w[d]
     \/ /\ Hears(d) /\ ~HasClosed(id) /\ peer'[d] = p[d] \union {id}
        /\ waiting'[d] = w[d] \union {[id |-> id, n |-> n]}

LEMMA Forwarding ==
  ASSUME NEW p \in [Fd -> SUBSET Ids], NEW w \in [Fd -> SUBSET Tokens], NEW d \in Fd,
         NEW id \in Ids, NEW n \in Nat, Forward(p, w, d, id, n)
  PROVE  Forwarded(p, w, d, id, n)
  <1>1. [id |-> id, n |-> n] \in Tokens
    BY DEF Tokens
  <1>2. CASE Hears(d) /\ ~HasClosed(id)
    <2>1. /\ peer' = [p EXCEPT ![d] = p[d] \union {id}]
          /\ waiting' = [w EXCEPT ![d] = w[d] \union {[id |-> id, n |-> n]}]
      BY <1>2 DEF Forward
    <2>2. p[d] \union {id} \in SUBSET Ids /\ w[d] \union {[id |-> id, n |-> n]} \in SUBSET Tokens
      BY <1>1
    <2>3. QED  BY <1>2, <2>1, <2>2 DEF Forwarded
  <1>3. CASE ~(Hears(d) /\ ~HasClosed(id))
    <2>1. peer' = [p EXCEPT ![d] = p[d]] /\ waiting' = [w EXCEPT ![d] = w[d]]
      BY <1>3 DEF Forward
    <2>2. QED  BY <2>1 DEF Forwarded
  <1>4. QED  BY <1>2, <1>3

\* A query that goes along an entry of its own connection or an earlier one.
LEMMA TokenMade ==
  ASSUME NEW f \in Fd, NEW n \in Nat, QueryOK(f, n), Has(f), EntryOK(f), NEW id, id[1] = f,
         id[2] = ext[f].k, conn[f].gen \in Nat
  PROVE  TokenOK(id, n)
  <1>1. asked[n] = <<f, conn[f].gen>> /\ n \in 1 .. Len(asked) /\ conn[f].kind = "client"
    BY DEF QueryOK
  <1>2. asked[n][1] = f /\ asked[n][2] = conn[f].gen
    BY <1>1
  <1>3. ext[f].in_gen <= conn[f].gen /\ ext[f].k <= last[f]
    BY <1>1 DEF EntryOK
  <1>4. QED  BY <1>1, <1>2, <1>3 DEF TokenOK

\* forward_tcp_query along an entry.
LEMMA ForwardQueryStep ==
  ASSUME IInv, ForwardQuery
  PROVE  IInv'
  <1> DEFINE f == Head(engine).fd  n == Head(engine).n  d == ext[f].out_fd  id == Id(f)
  <1>1. /\ engine # <<>> /\ engine' = Tail(engine) /\ LogSame /\ conn' = conn
        /\ UNCHANGED <<gen, ext, last, heads, notes, down>> /\ draining' = draining
        /\ Forward(peer, waiting, d, id, n) /\ Has(f)
    BY DEF ForwardQuery, Item, Running, Done, LogSame, Usable
  <1>2. /\ f \in Fd /\ n \in Nat /\ QueryOK(f, n) /\ Typed /\ EntryOK(f) /\ AllConns
    BY QueryHead DEF ForwardQuery, IInv, AllEntries
  <1> HIDE DEF f, n
  <1>3. d \in Fd /\ ext[f] \in ExtRec /\ id \in Ids /\ id[1] = f /\ id[2] = ext[f].k /\ Found(id)
    BY <1>1, <1>2 DEF Typed, Has, ExtRec, Fd, Id, Ids, Found
  <1>4. TokenOK(id, n)
    <2>1. conn[f].gen \in Nat
      BY <1>2 DEF Typed, ConnRec
    <2>2. QED  BY <1>1, <1>2, <1>3, <2>1, TokenMade
  <1>5. d = ext[id[1]].out_fd
    BY <1>3
  <1> HIDE DEF d, id
  <1>6. Forwarded(peer, waiting, d, id, n)
    BY <1>1, <1>2, <1>3, Forwarding DEF Typed
  <1>7. conn' \in [Fd -> ConnRec] /\ \A g \in Fd : Milder(g) /\ conn'[g].tag = conn[g].tag
    BY <1>1, <1>2, ConnStays
  <1>8. ext' \in [Fd -> {NoExt} \union ExtRec] /\ \A g \in Fd : ExtStep(g)
    BY <1>1, <1>7, EntriesStay
  <1>9. heads' \in SUBSET Fd /\ \A g \in Fd : g \in heads' <=> conn'[g].tag
    BY <1>1, <1>7, HeadsStay
  <1>10. ASSUME NEW g \in Fd
         PROVE  PeerStep(g) /\ WaitStep(g)
    <2>1. PeerStep(g)
      BY <1>1, <1>3, <1>5, <1>6 DEF PeerStep, Forwarded
    <2>2. WaitStep(g)
      BY <1>4, <1>6 DEF WaitStep, Forwarded
    <2>3. QED  BY <2>1, <2>2
  <1>11. ASSUME NEW g \in Fd
         PROVE  Steady(g)
    <2>1. conn[g].kind # "middle" => peer'[g] = {} /\ waiting'[g] = {}
      BY <1>2, <1>6 DEF AllConns, ConnOK, Hears, Forwarded
    <2>2. QED  BY <1>7, <1>9, <2>1 DEF Steady, Milder
  <1>12. SteadyStep
    BY <1>1, <1>2, <1>6, <1>7, <1>8, <1>9, <1>10, <1>11 DEF SteadyStep, TypedNow, NotesStep, Typed, Forwarded
  <1>13. QED  BY <1>1, <1>12, SteadyPop

\* A middle-end answers: its answer is queued.
LEMMA MiddleAnswersStep ==
  ASSUME IInv, NEW d \in Fd, MiddleAnswers(d)
  PROVE  IInv'
  <1>1. PICK w \in waiting[d] :
          /\ waiting' = [waiting EXCEPT ![d] = @ \ {w}]
          /\ engine' = Append(engine, [op |-> "answer", fd |-> d, id |-> w.id, n |-> w.n])
    BY DEF MiddleAnswers
  <1>2. /\ LogSame /\ conn' = conn /\ draining' = draining
        /\ UNCHANGED <<gen, ext, last, heads, notes, peer, down>>
    BY DEF MiddleAnswers, LogSame, table, log
  <1>3. Typed /\ w \in Tokens /\ TokenOK(w.id, w.n)
    BY DEF IInv, Typed, AllWaiting
  <1>4. w.id \in Ids /\ w.n \in Nat
    BY <1>3 DEF Tokens
  <1>5. conn' \in [Fd -> ConnRec] /\ \A g \in Fd : Milder(g) /\ conn'[g].tag = conn[g].tag
    BY <1>2, <1>3, ConnStays
  <1>6. ext' \in [Fd -> {NoExt} \union ExtRec] /\ \A g \in Fd : ExtStep(g)
    BY <1>2, <1>5, EntriesStay
  <1>7. heads' \in SUBSET Fd /\ \A g \in Fd : g \in heads' <=> conn'[g].tag
    BY <1>2, <1>5, HeadsStay
  <1>8. Quieter
    <2>1. waiting' \in [Fd -> SUBSET Tokens] /\ \A g \in Fd : waiting'[g] \subseteq waiting[g]
      <3>1. waiting \in [Fd -> SUBSET Tokens] /\ waiting[d] \ {w} \subseteq waiting[d]
        BY <1>3 DEF Typed
      <3>2. QED  BY <1>1, <3>1, SetsShrink
    <2>2. QED  BY <1>2, <1>3, <2>1 DEF Quieter, Typed
  <1>9. SteadyStep
    BY <1>2, <1>3, <1>5, <1>6, <1>7, <1>8, QuietSteady DEF NotesStep, Typed
  <1>10. PICK y : y = [op |-> "answer", fd |-> d, id |-> w.id, n |-> w.n]
    OBVIOUS
  <1>11. y \in Items /\ y.op = "answer" /\ y.id = w.id /\ y.n = w.n
    BY <1>4, <1>10 DEF Items
  <1>12. ItemOK(y)'
    <2>1. Calm
      BY <1>2, <1>9, LogStays, SteadyCalm
    <2>2. TokenOK(w.id, w.n)'
      BY <1>3, <1>4, <2>1, TokenKept
    <2>3. TokenOK(y.id, y.n)'
      BY <1>11, <2>2
    <2>4. QED  BY <1>11, <2>3 DEF ItemOK
  <1>13. QED  BY <1>1, <1>2, <1>9, <1>10, <1>11, <1>12, SteadyPush

\* A middle-end closes a number; it is the only one that knows it.
LEMMA MiddleClosesStep ==
  ASSUME IInv, NEW d \in Fd, MiddleCloses(d)
  PROVE  IInv'
  <1>1. PICK id \in peer[d] :
          /\ peer' = [peer EXCEPT ![d] = @ \ {id}]
          /\ waiting' = [waiting EXCEPT ![d] = {w \in @ : w.id # id}]
          /\ engine' = Append(engine, [op |-> "closeExt", fd |-> d, id |-> id])
    BY DEF MiddleCloses
  <1>2. /\ LogSame /\ conn' = conn /\ draining' = draining /\ Hears(d)
        /\ UNCHANGED <<gen, ext, last, heads, notes, down>>
    BY DEF MiddleCloses, Talks, Hears, LogSame, table, log
  <1>3. Typed /\ id \in Ids /\ PeersMatch /\ id[1] \in Fd /\ AllEntries
    BY SMTT(60) DEF IInv, Typed, Ids
  <1>4. Found(id) /\ ext[id[1]].out_fd = d
    BY <1>2, <1>3 DEF PeersMatch
  <1>5. conn' \in [Fd -> ConnRec] /\ \A g \in Fd : Milder(g) /\ conn'[g].tag = conn[g].tag
    BY <1>2, <1>3, ConnStays
  <1>6. ext' \in [Fd -> {NoExt} \union ExtRec] /\ \A g \in Fd : ExtStep(g)
    BY <1>2, <1>5, EntriesStay
  <1>7. heads' \in SUBSET Fd /\ \A g \in Fd : g \in heads' <=> conn'[g].tag
    BY <1>2, <1>5, HeadsStay
  <1>8. peer' \in [Fd -> SUBSET Ids] /\ (\A g \in Fd : peer'[g] \subseteq peer[g]) /\ id \notin peer'[d]
    <2>1. peer \in [Fd -> SUBSET Ids] /\ peer[d] \ {id} \subseteq peer[d]
      BY <1>3 DEF Typed
    <2>2. QED  BY <1>1, <2>1, SetsShrink
  <1>9. Quieter
    <2>1. waiting' \in [Fd -> SUBSET Tokens] /\ \A g \in Fd : waiting'[g] \subseteq waiting[g]
      <3>1. /\ waiting \in [Fd -> SUBSET Tokens]
            /\ waiting' = [waiting EXCEPT ![d] = {w \in waiting[d] : w.id # id}]
            /\ {w \in waiting[d] : w.id # id} \subseteq waiting[d]
        BY <1>1, <1>3 DEF Typed
      <3>2. QED  BY <3>1, SetsShrink
    <2>2. QED  BY <1>2, <1>8, <2>1 DEF Quieter
  <1>10. SteadyStep
    BY <1>2, <1>3, <1>5, <1>6, <1>7, <1>9, QuietSteady DEF NotesStep, Typed
  <1>11. PICK y : y = [op |-> "closeExt", fd |-> d, id |-> id]
    OBVIOUS
  <1>12. y \in Items /\ y.op = "closeExt" /\ y.id = id
    BY <1>3, <1>11 DEF Items
  <1>13. ItemOK(y)'
    <2>1. id[2] <= last'[id[1]]
      BY <1>2, <1>3, <1>4 DEF Found, Id, AllEntries, EntryOK
    <2>2. ASSUME NEW g \in Fd, Hears(g)', id \in peer'[g]
          PROVE  FALSE
      <3>1. Hears(g) /\ id \in peer[g] /\ g # d
        BY <1>2, <1>8, <2>2 DEF Hears
      <3>2. QED  BY <1>3, <1>4, <3>1 DEF PeersMatch
    <2>3. ClosedOK(id)'
      BY <2>1, <2>2 DEF ClosedOK
    <2>4. ClosedOK(y.id)'
      BY <1>12, <2>3
    <2>5. QED  BY <1>12, <2>4 DEF ItemOK
  <1>14. QED  BY <1>1, <1>2, <1>10, <1>11, <1>12, <1>13, SteadyPush

\* A query is numbered after all that were asked before.
LEMMA QueryStep ==
  ASSUME IInv, NEW f \in Fd, Query(f)
  PROVE  IInv'
  <1>1. /\ conn[f].kind = "client" /\ Len(asked) < MaxQueries
        /\ asked' = Append(asked, <<f, conn[f].gen>>)
        /\ engine' = Append(engine, [op |-> "query", fd |-> f, n |-> Len(asked) + 1])
        /\ conn' = conn /\ draining' = draining /\ answered' = answered
        /\ UNCHANGED <<gen, ext, last, heads, notes, peer, waiting, down>>
    BY DEF Query, table, middle
  <1>2. Typed /\ ConnOK(f) /\ AskedOK /\ AnsweredOK /\ AnswersToAsker /\ AllItems
    BY DEF IInv, AllConns
  <1>3. conn' \in [Fd -> ConnRec] /\ \A g \in Fd : Milder(g) /\ conn'[g].tag = conn[g].tag
    BY <1>1, <1>2, ConnStays
  <1>4. SteadyStep
    BY <1>1, <1>2, <1>3, ConnsOnly DEF Typed
  <1>5. /\ asked' \in Seq(Fd \X (0 .. MaxGen)) /\ Len(asked') = Len(asked) + 1 /\ Len(asked) \in Nat
        /\ asked'[Len(asked) + 1] = <<f, conn[f].gen>>
        /\ \A i \in 1 .. Len(asked) : asked'[i] = asked[i]
    <2>1. asked \in Seq(Fd \X (0 .. MaxGen)) /\ <<f, conn[f].gen>> \in Fd \X (0 .. MaxGen)
      BY <1>2 DEF Typed, ConnRec
    <2>2. QED  BY <1>1, <2>1, Pushing
  <1>6. Grows
    BY <1>5 DEF Grows
  <1>7. AskedOK'
    <2>1. conn[f].gen <= gen
      BY <1>1, <1>2 DEF ConnOK
    <2>2. \A k \in 1 .. Len(asked') : asked'[k][2] <= gen
      <3> SUFFICES ASSUME NEW k \in 1 .. Len(asked')
                   PROVE  asked'[k][2] <= gen
        OBVIOUS
      <3>1. k = Len(asked) + 1 \/ k \in 1 .. Len(asked)
        BY <1>5
      <3>2. CASE k = Len(asked) + 1
        BY <1>5, <2>1, <3>2
      <3>3. CASE k \in 1 .. Len(asked)
        <4>1. asked'[k] = asked[k]
          BY <1>5, <3>3
        <4>2. asked[k][2] <= gen
          BY <1>2, <3>3 DEF AskedOK
        <4>3. QED  BY <4>1, <4>2
      <3>4. QED  BY <3>1, <3>2, <3>3
    <2>3. \A g \in Fd : last'[g] <= Len(asked')
      BY <1>1, <1>2, <1>5 DEF AskedOK, Typed
    <2>4. QED  BY <1>1, <1>5, <2>2, <2>3, RelayAssumption DEF AskedOK
  <1>8. AnsweredOK' /\ AnswersToAsker'
    BY <1>1, <1>2, <1>5 DEF AnsweredOK, AnswersToAsker
  <1>9. /\ Kept /\ AllConns' /\ notes' \in Seq(Notes) /\ AllNotes' /\ NotesOrder' /\ AllEntries'
        /\ AllWaiting' /\ PeersMatch'
    BY <1>4, <1>6, SteadyRest
  <1>10. PICK y : y = [op |-> "query", fd |-> f, n |-> Len(asked) + 1]
    OBVIOUS
  <1>11. y \in Items /\ y.op = "query" /\ y.fd = f /\ y.n = Len(asked) + 1
    BY <1>5, <1>10 DEF Items
  <1>12. ItemOK(y)'
    <2>1. y.n \in 1 .. Len(asked') /\ asked'[y.n] = <<f, conn'[f].gen>>
      BY <1>1, <1>5, <1>11
    <2>2. \A g \in Fd : last'[g] < y.n
      BY <1>1, <1>2, <1>5, <1>11 DEF AskedOK, Typed
    <2>3. QueryOK(y.fd, y.n)'
      BY <1>1, <1>11, <2>1, <2>2 DEF QueryOK
    <2>4. QED  BY <1>11, <2>3 DEF ItemOK
  <1>13. \A i \in 1 .. Len(engine) : engine[i].op = "query" => engine[i].n < y.n
    <2> SUFFICES ASSUME NEW i \in 1 .. Len(engine), engine[i].op = "query"
                 PROVE  engine[i].n < y.n
      OBVIOUS
    <2>1. PICK x : x = engine[i] /\ ItemOK(x) /\ x.op = "query"
      BY <1>2 DEF AllItems
    <2>2. x.n \in 1 .. Len(asked)
      BY <2>1 DEF ItemOK, QueryOK
    <2>3. QED  BY <1>5, <1>11, <2>1, <2>2
  <1>14. engine' \in Seq(Items) /\ AllItems' /\ ItemsOrder'
    BY <1>1, <1>9, <1>10, <1>11, <1>12, <1>13, EnginePushes DEF IInv
  <1>15. Typed'
    BY <1>1, <1>4, <1>5, <1>9, <1>14 DEF SteadyStep, TypedNow, Typed, IInv
  <1>16. QED  BY <1>7, <1>8, <1>9, <1>14, <1>15 DEF IInv

-----------------------------------------------------------------------------
(* One action at a time: connections *)

LEMMA Inserting ==
  ASSUME Typed, NEW f \in Fd, NEW ev \in {"ready", "close"}, Insert(ev, f)
  PROVE  /\ notes' \in Seq(Notes) /\ Len(notes) \in Nat /\ Len(notes') = Len(notes) + 1
         /\ \A i \in 1 .. Len(notes) : notes'[i] = notes[i]
         /\ notes'[Len(notes) + 1].fd = f /\ notes'[Len(notes) + 1].ev = ev
         /\ \A g \in Fd : CloseComes(g) => CloseComes(g)'
         /\ ev = "close" => CloseComes(f)'
  <1>1. notes \in Seq(Notes) /\ [ev |-> ev, fd |-> f] \in Notes
    BY DEF Typed, Notes
  <1>2. /\ notes' \in Seq(Notes) /\ Len(notes) \in Nat /\ Len(notes') = Len(notes) + 1
        /\ \A i \in 1 .. Len(notes) : notes'[i] = notes[i]
        /\ notes'[Len(notes) + 1] = [ev |-> ev, fd |-> f]
    BY <1>1, Pushing DEF Insert
  <1>3. notes'[Len(notes) + 1].fd = f /\ notes'[Len(notes) + 1].ev = ev
    BY <1>2
  <1>4. ASSUME NEW g \in Fd, CloseComes(g)
        PROVE  CloseComes(g)'
    BY <1>2, <1>4 DEF CloseComes
  <1>5. ev = "close" => CloseComes(f)'
    BY <1>2, <1>3 DEF CloseComes
  <1>6. QED  BY <1>2, <1>3, <1>4, <1>5

\* One connection gets other flags, and hears what it has heard.
FlagsNow(f, F) ==
  /\ conn' \in [Fd -> ConnRec]
  /\ \A g \in Fd : /\ conn'[g].kind = conn[g].kind /\ conn'[g].gen = conn[g].gen
                   /\ conn'[g].tag = conn[g].tag
                   /\ g # f => conn'[g] = conn[g]
  /\ conn'[f].flags = F

LEMMA FlagsChange ==
  ASSUME IInv, NEW f \in Fd, NEW F \in SUBSET {"READY", "ERROR", "FAILED", "SOCKERR"},
         "ERROR" \in F <=> "ERROR" \in conn[f].flags,
         conn' = [conn EXCEPT ![f].flags = F], LogSame,
         UNCHANGED <<gen, ext, last, heads, peer, waiting>>
  PROVE  FlagsNow(f, F) /\ Calm /\ Kept /\ AllWaiting' /\ PeersMatch'
  <1>1. Typed
    BY DEF IInv
  <1>2. FlagsNow(f, F)
    <2>1. conn \in [Fd -> ConnRec]
      BY <1>1 DEF Typed
    <2>2. PICK r : r = [conn[f] EXCEPT !.flags = F]
      OBVIOUS
    <2>3. /\ r \in ConnRec /\ r.flags = F /\ r.kind = conn[f].kind /\ r.gen = conn[f].gen
          /\ r.tag = conn[f].tag
      BY <2>1, <2>2 DEF ConnRec
    <2>4. conn' = [conn EXCEPT ![f] = r]
      BY <2>2
    <2>5. conn' \in [Fd -> ConnRec] /\ conn'[f] = r /\ \A g \in Fd : g # f => conn'[g] = conn[g]
      BY <2>1, <2>3, <2>4
    <2>6. QED  BY <2>3, <2>5 DEF FlagsNow
  <1>3. \A g \in Fd : ExtStep(g)
    BY <1>2, EntriesStay DEF FlagsNow
  <1>4. \A g \in Fd : Hears(g)' <=> Hears(g)
    BY <1>2 DEF Hears, FlagsNow
  <1>5. \A g \in Fd : PeerStep(g) /\ WaitStep(g) /\ SameConn(g)
    BY <1>2, <1>4 DEF PeerStep, WaitStep, SameConn, FlagsNow
  <1>6. Calm
    BY <1>3, <1>5, LogStays DEF Calm
  <1>7. Kept /\ AllWaiting' /\ PeersMatch'
    BY <1>1, <1>6, CalmStep DEF Typed
  <1>8. QED  BY <1>2, <1>6, <1>7

\* The handshake with a middle-end ends; it was not announced before.
LEMMA HandshakeStep ==
  ASSUME IInv, NEW f \in Fd, Handshake(f)
  PROVE  IInv'
  <1>1. /\ conn[f].kind = "middle" /\ conn[f].flags = {} /\ Insert("ready", f)
        /\ conn' = [conn EXCEPT ![f].flags = {"READY"}] /\ LogSame
        /\ UNCHANGED <<gen, ext, last, heads, peer, waiting>> /\ draining' = draining /\ down' = down
    BY DEF Handshake, table, middle, log, LogSame
  <1>2. /\ Typed /\ AllConns /\ AllNotes /\ NotesOrder /\ AllEntries /\ AllItems /\ ItemsOrder
        /\ ConnOK(f)
    BY DEF IInv, AllConns
  <1>3. FlagsNow(f, {"READY"}) /\ Kept /\ AllWaiting' /\ PeersMatch'
    BY <1>1, FlagsChange
  <1>4. engine' \in Seq(Items) /\ AllItems' /\ ItemsOrder'
    BY <1>1, <1>2, <1>3, EngineNotified
  <1>5. /\ notes' \in Seq(Notes) /\ Len(notes) \in Nat /\ Len(notes') = Len(notes) + 1
        /\ \A i \in 1 .. Len(notes) : notes'[i] = notes[i]
        /\ notes'[Len(notes) + 1].fd = f /\ notes'[Len(notes) + 1].ev = "ready"
        /\ \A g \in Fd : CloseComes(g) => CloseComes(g)'
    BY <1>1, <1>2, Inserting
  <1>6. \A i \in 1 .. Len(notes) : notes[i].fd # f
    <2>1. SUFFICES ASSUME NEW i \in 1 .. Len(notes), notes[i].fd = f
                   PROVE  FALSE
      OBVIOUS
    <2>2. PICK x \in Notes : x = notes[i] /\ NoteOK(x)
      BY <1>2, NoteAt
    <2>3. QED  BY <1>1, <2>1, <2>2 DEF NoteOK, Notes
  <1>7. AllConns'
    <2>1. ASSUME NEW g \in Fd
          PROVE  ConnOK(g)'
      <3>1. ConnOK(g) /\ (CloseComes(g) => CloseComes(g)')
        BY <1>2, <1>5 DEF AllConns
      <3>2. QED  BY <1>1, <1>2, <1>3, <3>1 DEF ConnOK, FlagsNow
    <2>2. QED  BY <2>1 DEF AllConns
  <1>8. AllNotes'
    <2>1. ASSUME NEW i \in 1 .. Len(notes')
          PROVE  NoteOK(notes[i])'
      <3>1. CASE i = Len(notes) + 1
        BY <1>1, <1>2, <1>3, <1>5, <3>1 DEF NoteOK, FlagsNow, ConnOK
      <3>2. CASE i \in 1 .. Len(notes)
        <4>1. PICK x \in Notes : x = notes[i] /\ x = notes'[i] /\ NoteOK(x)
          BY <1>2, <1>5, <3>2, NoteAt
        <4>2. x.fd \in Fd /\ x.fd # f /\ (CloseComes(x.fd) => CloseComes(x.fd)')
          BY <1>5, <1>6, <3>2, <4>1 DEF Notes
        <4>3. NoteOK(x)'
          BY <1>3, <4>1, <4>2 DEF NoteOK, FlagsNow
        <4>4. QED  BY <4>1, <4>3
      <3>3. QED  BY <1>5, <3>1, <3>2
    <2>2. QED  BY <2>1 DEF AllNotes
  <1>9. NotesOrder'
    <2> SUFFICES ASSUME NEW i \in 1 .. Len(notes'), NEW j \in 1 .. Len(notes'), i < j,
                        notes'[i].fd = notes'[j].fd
                 PROVE  notes'[i].ev = "ready" /\ notes'[j].ev = "close"
      BY DEF NotesOrder
    <2>1. i \in 1 .. Len(notes)
      BY <1>5
    <2>2. j # Len(notes) + 1
      <3>1. notes'[i] = notes[i] /\ notes[i].fd # f
        BY <1>5, <1>6, <2>1
      <3>2. notes'[j].fd # f
        BY <3>1
      <3>3. QED  BY <1>5, <3>2
    <2>3. j \in 1 .. Len(notes)
      BY <1>5, <2>2
    <2>4. QED  BY <1>2, <1>5, <2>1, <2>3 DEF NotesOrder
  <1>10. AllEntries'
    <2>1. ASSUME NEW g \in Fd, Has(g)'
          PROVE  EntryOK(g)'
      <3>1. EntryOK(g) /\ Has(g) /\ (CloseComes(g) => CloseComes(g)')
        BY <1>1, <1>2, <1>5, <2>1 DEF AllEntries, Has
      <3>2. ext[g].out_fd \in Fd
        BY <1>2, <3>1 DEF Typed, Has, ExtRec, Fd
      <3>3. QED  BY <1>1, <1>3, <3>1, <3>2 DEF EntryOK, FlagsNow
    <2>2. QED  BY <2>1 DEF AllEntries, EntryOK
  <1>11. /\ AskedOK' /\ AnsweredOK' /\ AnswersToAsker'
         /\ asked' \in Seq(Fd \X (0 .. MaxGen)) /\ answered' \in SUBSET (Nat \X Fd \X Nat)
    BY <1>1, LogStays
  <1>12. Typed'
    BY <1>1, <1>2, <1>3, <1>4, <1>5, <1>11 DEF Typed, FlagsNow
  <1>13. QED  BY <1>3, <1>4, <1>7, <1>8, <1>9, <1>10, <1>11, <1>12 DEF IInv

\* The close callback runs once, and what waits for the connection is its ready event.
LEMMA CloseStep ==
  ASSUME IInv, NEW f \in Fd, Close(f)
  PROVE  IInv'
  <1> DEFINE F == conn[f].flags \union {"FAILED"}
  <1>1. /\ "ERROR" \in conn[f].flags /\ "FAILED" \notin conn[f].flags /\ Insert("close", f)
        /\ conn' = [conn EXCEPT ![f].flags = F] /\ LogSame
        /\ UNCHANGED <<gen, ext, last, heads, peer, waiting>> /\ draining' = draining /\ down' = down
    BY DEF Close, Marked, table, middle, log, LogSame
  <1>2. /\ Typed /\ AllConns /\ AllNotes /\ NotesOrder /\ AllEntries /\ AllItems /\ ItemsOrder
        /\ ConnOK(f) /\ conn[f].kind # "none"
    BY <1>1 DEF IInv, AllConns, ConnOK, NoConn
  <1>3. FlagsNow(f, F) /\ Kept /\ AllWaiting' /\ PeersMatch'
    <2>1. F \in SUBSET {"READY", "ERROR", "FAILED", "SOCKERR"} /\ ("ERROR" \in F <=> "ERROR" \in conn[f].flags)
      BY <1>1, <1>2 DEF Typed, ConnRec
    <2> HIDE DEF F
    <2>2. QED  BY <1>1, <2>1, FlagsChange
  <1>4. engine' \in Seq(Items) /\ AllItems' /\ ItemsOrder'
    BY <1>1, <1>2, <1>3, EngineNotified
  <1>5. /\ notes' \in Seq(Notes) /\ Len(notes) \in Nat /\ Len(notes') = Len(notes) + 1
        /\ \A i \in 1 .. Len(notes) : notes'[i] = notes[i]
        /\ notes'[Len(notes) + 1].fd = f /\ notes'[Len(notes) + 1].ev = "close"
        /\ \A g \in Fd : CloseComes(g) => CloseComes(g)'
        /\ CloseComes(f)'
    BY <1>1, <1>2, Inserting
  <1>6. \A i \in 1 .. Len(notes) : notes[i].fd = f => notes[i].ev = "ready"
    <2>1. SUFFICES ASSUME NEW i \in 1 .. Len(notes), notes[i].fd = f
                   PROVE  notes[i].ev = "ready"
      OBVIOUS
    <2>2. PICK x \in Notes : x = notes[i] /\ NoteOK(x)
      BY <1>2, NoteAt
    <2>3. QED  BY <1>1, <2>1, <2>2 DEF NoteOK, Notes
  <1>7. AllConns'
    <2>1. ASSUME NEW g \in Fd
          PROVE  ConnOK(g)'
      <3>1. ConnOK(g) /\ (CloseComes(g) => CloseComes(g)')
        BY <1>2, <1>5 DEF AllConns
      <3>2. QED  BY <1>1, <1>2, <1>3, <1>5, <3>1 DEF ConnOK, FlagsNow
    <2>2. QED  BY <2>1 DEF AllConns
  <1>8. AllNotes'
    <2>1. ASSUME NEW i \in 1 .. Len(notes')
          PROVE  NoteOK(notes[i])'
      <3>1. CASE i = Len(notes) + 1
        BY <1>1, <1>2, <1>3, <1>5, <3>1 DEF NoteOK, FlagsNow
      <3>2. CASE i \in 1 .. Len(notes)
        <4>1. PICK x \in Notes : x = notes[i] /\ x = notes'[i] /\ NoteOK(x)
          BY <1>2, <1>5, <3>2, NoteAt
        <4>2. x.fd \in Fd /\ (CloseComes(x.fd) => CloseComes(x.fd)')
          BY <1>5 DEF Notes
        <4>3. NoteOK(x)'
          BY <1>3, <1>5, <4>1, <4>2 DEF NoteOK, FlagsNow
        <4>4. QED  BY <4>1, <4>3
      <3>3. QED  BY <1>5, <3>1, <3>2
    <2>2. QED  BY <2>1 DEF AllNotes
  <1>9. NotesOrder'
    <2> SUFFICES ASSUME NEW i \in 1 .. Len(notes'), NEW j \in 1 .. Len(notes'), i < j,
                        notes'[i].fd = notes'[j].fd
                 PROVE  notes'[i].ev = "ready" /\ notes'[j].ev = "close"
      BY DEF NotesOrder
    <2>1. i \in 1 .. Len(notes)
      BY <1>5
    <2>2. CASE j \in 1 .. Len(notes)
      BY <1>2, <1>5, <2>1, <2>2 DEF NotesOrder
    <2>3. CASE j = Len(notes) + 1
      BY <1>5, <1>6, <2>1, <2>3
    <2>4. QED  BY <1>5, <2>2, <2>3
  <1>10. AllEntries'
    <2>1. ASSUME NEW g \in Fd, Has(g)'
          PROVE  EntryOK(g)'
      <3>1. EntryOK(g) /\ Has(g) /\ (CloseComes(g) => CloseComes(g)')
        BY <1>1, <1>2, <1>5, <2>1 DEF AllEntries, Has
      <3>2. ext[g].out_fd \in Fd
        BY <1>2, <3>1 DEF Typed, Has, ExtRec, Fd
      <3>3. QED  BY <1>1, <1>3, <1>5, <3>1, <3>2 DEF EntryOK, FlagsNow
    <2>2. QED  BY <2>1 DEF AllEntries, EntryOK
  <1>11. /\ AskedOK' /\ AnsweredOK' /\ AnswersToAsker'
         /\ asked' \in Seq(Fd \X (0 .. MaxGen)) /\ answered' \in SUBSET (Nat \X Fd \X Nat)
    BY <1>1, LogStays
  <1>12. Typed'
    BY <1>1, <1>2, <1>3, <1>4, <1>5, <1>11 DEF Typed, FlagsNow
  <1>13. QED  BY <1>3, <1>4, <1>7, <1>8, <1>9, <1>10, <1>11, <1>12 DEF IInv

\* mtfront_client_ready: its assertions hold, as a connection is announced once.
LEMMA MiddleReadyStep ==
  ASSUME IInv, MiddleReady
  PROVE  IInv'
  <1>1. PICK f : f = Head(notes).fd
    OBVIOUS
  <1>2. notes # <<>> /\ Head(notes).ev = "ready" /\ conn[f].kind = "middle"
    BY <1>1 DEF MiddleReady, Event
  <1>3. /\ f \in Fd /\ Typed /\ AllConns /\ AllNotes /\ NotesOrder /\ AllEntries /\ AllItems
        /\ ItemsOrder /\ ConnOK(f) /\ NoteOK(Head(notes))
    BY <1>1, <1>2, NoteHead DEF IInv, AllConns
  <1>4. ~conn[f].tag /\ f \notin heads
    BY <1>1, <1>2, <1>3 DEF NoteOK, ConnOK
  <1>5. /\ conn' = [conn EXCEPT ![f].tag = TRUE] /\ heads' = heads \union {f} /\ down' = down
        /\ notes' = Tail(notes) /\ LogSame /\ engine' = engine
        /\ UNCHANGED <<gen, ext, last, peer, waiting>> /\ draining' = draining
    BY <1>1, <1>4 DEF MiddleReady, LogSame, log, middle
  <1>6. /\ conn' \in [Fd -> ConnRec] /\ conn'[f].tag
        /\ \A g \in Fd : /\ conn'[g].kind = conn[g].kind /\ conn'[g].gen = conn[g].gen
                         /\ conn'[g].flags = conn[g].flags /\ (conn[g].tag => conn'[g].tag)
                         /\ g # f => conn'[g] = conn[g]
    <2>1. conn \in [Fd -> ConnRec]
      BY <1>3 DEF Typed
    <2>2. PICK r : r = [conn[f] EXCEPT !.tag = TRUE]
      OBVIOUS
    <2>3. /\ r \in ConnRec /\ r.tag = TRUE /\ r.kind = conn[f].kind /\ r.gen = conn[f].gen
          /\ r.flags = conn[f].flags
      BY <1>3, <2>1, <2>2 DEF ConnRec
    <2>4. conn' = [conn EXCEPT ![f] = r]
      BY <1>5, <2>2
    <2>5. conn' \in [Fd -> ConnRec] /\ conn'[f] = r /\ \A g \in Fd : g # f => conn'[g] = conn[g]
      BY <1>3, <2>1, <2>3, <2>4
    <2>6. QED  BY <2>3, <2>5
  <1>7. Calm
    <2>1. \A g \in Fd : Hears(g)' <=> Hears(g)
      BY <1>6 DEF Hears
    <2>2. ASSUME NEW g \in Fd
          PROVE  ExtStep(g)
      <3>1. SUFFICES ASSUME Has(g)
                     PROVE  conn'[ext[g].out_fd].tag
        BY <1>5 DEF ExtStep
      <3>2. ext[g].out_fd \in Fd
        BY <1>3, <3>1 DEF Typed, Has, ExtRec, Fd
      <3>3. QED  BY <1>3, <1>6, <3>1, <3>2 DEF AllEntries, EntryOK
    <2>3. \A g \in Fd : PeerStep(g) /\ WaitStep(g) /\ SameConn(g)
      BY <1>5, <1>6, <2>1 DEF PeerStep, WaitStep, SameConn
    <2>4. QED  BY <1>5, <2>2, <2>3, LogStays DEF Calm
  <1>8. Kept /\ AllWaiting' /\ PeersMatch'
    BY <1>3, <1>5, <1>7, CalmStep DEF Typed
  <1>9. engine' \in Seq(Items) /\ AllItems' /\ ItemsOrder'
    BY <1>3, <1>5, <1>8, EngineStays
  <1>10. /\ notes' \in Seq(Notes) /\ Len(notes') = Len(notes) - 1 /\ Len(notes) \in Nat
        /\ Head(notes) = notes[1] /\ 1 \in 1 .. Len(notes)
        /\ \A i \in 1 .. Len(notes') : i + 1 \in 1 .. Len(notes) /\ notes'[i] = notes[i + 1]
    <2>1. notes \in Seq(Notes)
      BY <1>3 DEF Typed
    <2>2. QED  BY <1>2, <1>5, <2>1, Popping
  <1>11. ASSUME NEW g \in Fd, CloseComes(g)
         PROVE  CloseComes(g)'
    <2>1. PICK j \in 1 .. Len(notes) : notes[j].fd = g /\ notes[j].ev = "close"
      BY <1>11 DEF CloseComes
    <2>2. j # 1 /\ j - 1 \in 1 .. Len(notes')
      BY <1>2, <1>10, <2>1
    <2>3. notes'[j - 1] = notes[j]
      BY <1>10, <2>2
    <2>4. QED  BY <2>1, <2>2, <2>3 DEF CloseComes
  <1>12. AllConns'
    <2>1. ASSUME NEW g \in Fd
          PROVE  ConnOK(g)'
      <3>1. ConnOK(g) /\ (CloseComes(g) => CloseComes(g)')
        BY <1>3, <1>11 DEF AllConns
      <3>2. CASE g # f
        BY <1>5, <1>6, <3>1, <3>2 DEF ConnOK
      <3>3. CASE g = f
        <4>1. "READY" \in conn[f].flags /\ ("FAILED" \in conn[f].flags => CloseComes(f))
          BY <1>1, <1>2, <1>3 DEF NoteOK
        <4>2. QED  BY <1>2, <1>5, <1>6, <3>1, <3>3, <4>1 DEF ConnOK
      <3>4. QED  BY <3>2, <3>3
    <2>2. QED  BY <2>1 DEF AllConns
  <1>13. AllNotes'
    <2>1. ASSUME NEW i \in 1 .. Len(notes')
          PROVE  NoteOK(notes[i])'
      <3>1. PICK x \in Notes : x = notes[i + 1] /\ x = notes'[i] /\ NoteOK(x)
        BY <1>3, <1>10, NoteAt
      <3>2. x.fd \in Fd /\ (CloseComes(x.fd) => CloseComes(x.fd)')
        BY <1>11 DEF Notes
      <3>3. x.fd = f => x.ev = "close"
        BY <1>1, <1>3, <1>10, <3>1 DEF NotesOrder
      <3>4. NoteOK(x)'
        BY <1>6, <3>1, <3>2, <3>3 DEF NoteOK
      <3>5. QED  BY <3>1, <3>4
    <2>2. QED  BY <2>1 DEF AllNotes
  <1>14. NotesOrder'
    <2> SUFFICES ASSUME NEW i \in 1 .. Len(notes'), NEW j \in 1 .. Len(notes'), i < j,
                        notes'[i].fd = notes'[j].fd
                 PROVE  notes'[i].ev = "ready" /\ notes'[j].ev = "close"
      BY DEF NotesOrder
    <2>1. /\ i + 1 \in 1 .. Len(notes) /\ j + 1 \in 1 .. Len(notes) /\ i + 1 < j + 1
          /\ notes'[i] = notes[i + 1] /\ notes'[j] = notes[j + 1]
      BY <1>10
    <2>2. QED  BY <1>3, <2>1 DEF NotesOrder
  <1>15. AllEntries'
    <2>1. ASSUME NEW g \in Fd, Has(g)'
          PROVE  EntryOK(g)'
      <3>1. EntryOK(g) /\ Has(g) /\ (CloseComes(g) => CloseComes(g)')
        BY <1>3, <1>5, <1>11, <2>1 DEF AllEntries, Has
      <3>2. ext[g].out_fd \in Fd
        BY <1>3, <3>1 DEF Typed, Has, ExtRec, Fd
      <3>3. QED  BY <1>5, <1>6, <3>1, <3>2 DEF EntryOK
    <2>2. QED  BY <2>1 DEF AllEntries, EntryOK
  <1>16. /\ AskedOK' /\ AnsweredOK' /\ AnswersToAsker'
         /\ asked' \in Seq(Fd \X (0 .. MaxGen)) /\ answered' \in SUBSET (Nat \X Fd \X Nat)
    BY <1>5, LogStays
  <1>17. Typed'
    BY <1>3, <1>5, <1>6, <1>9, <1>10, <1>16 DEF Typed
  <1>18. QED  BY <1>8, <1>9, <1>12, <1>13, <1>14, <1>15, <1>16, <1>17 DEF IInv

\* A new connection gets a greater generation than all that are remembered.
LEMMA OpenStep ==
  ASSUME IInv, NEW f \in Fd, NEW kind \in {"client", "middle"}, Open(f, kind)
  PROVE  IInv'
  <1>1. /\ conn[f].kind = "none" /\ gen < MaxGen /\ (kind = "middle" => f \in MiddleFd)
        /\ (kind = "client" => f \in ClientFd)
        /\ conn' = [conn EXCEPT ![f] = Opened(kind)] /\ gen' = gen + 1 /\ LogSame
        /\ UNCHANGED <<ext, last, heads, engine, notes, draining, peer, waiting, down>>
    BY DEF Open, LogSame, table, middle, log
  <1>2. /\ Typed /\ AllConns /\ AllNotes /\ NotesOrder /\ AllEntries /\ AllItems /\ ItemsOrder
        /\ AllWaiting /\ AskedOK /\ AnsweredOK /\ AnswersToAsker /\ PeersMatch /\ ConnOK(f)
        /\ gen \in Nat
    BY DEF IInv, AllConns, Typed
  <1>3. conn[f] = NoConn /\ ~conn[f].tag /\ conn[f].gen = 0 /\ conn[f].flags = {}
    BY <1>1, <1>2 DEF ConnOK, NoConn
  <1>4. /\ conn' \in [Fd -> ConnRec] /\ conn'[f].kind = kind /\ conn'[f].gen = gen + 1
        /\ conn'[f].flags = {} /\ ~conn'[f].tag /\ \A g \in Fd : g # f => conn'[g] = conn[g]
    <2>1. PICK r : r = Opened(kind)
      OBVIOUS
    <2>2. r \in ConnRec /\ r.kind = kind /\ r.gen = gen + 1 /\ r.flags = {} /\ r.tag = FALSE
      <3>1. r = [kind |-> kind, gen |-> gen + 1, flags |-> {}, tag |-> FALSE, dropped |-> FALSE]
        BY <2>1 DEF Opened, NoConn
      <3>2. gen + 1 \in 0 .. MaxGen
        BY <1>1, <1>2, RelayAssumption
      <3>3. QED  BY <3>1, <3>2 DEF ConnRec
    <2>3. conn \in [Fd -> ConnRec] /\ conn' = [conn EXCEPT ![f] = r]
      BY <1>1, <1>2, <2>1 DEF Typed
    <2>4. QED  BY <2>2, <2>3
  <1>5. AllConns'
    <2>1. ASSUME NEW g \in Fd
          PROVE  ConnOK(g)'
      <3>1. ConnOK(g) /\ (CloseComes(g) <=> CloseComes(g)')
        BY <1>1, <1>2 DEF AllConns, CloseComes
      <3>2. CASE g # f
        BY <1>1, <1>2, <1>4, <3>1, <3>2 DEF ConnOK
      <3>3. CASE g = f
        BY <1>1, <1>2, <1>3, <1>4, <3>1, <3>3 DEF ConnOK
      <3>4. QED  BY <3>2, <3>3
    <2>2. QED  BY <2>1 DEF AllConns
  <1>6. AllNotes' /\ NotesOrder'
    <2>1. ASSUME NEW i \in 1 .. Len(notes)
          PROVE  NoteOK(notes[i])'
      <3>1. PICK x \in Notes : x = notes[i] /\ x = notes'[i] /\ NoteOK(x)
        BY <1>1, <1>2, NoteAt
      <3>2. x.fd \in Fd /\ x.fd # f /\ (CloseComes(x.fd) => CloseComes(x.fd)')
        BY <1>1, <3>1 DEF Notes, NoteOK, CloseComes
      <3>3. NoteOK(x)'
        BY <1>4, <3>1, <3>2 DEF NoteOK
      <3>4. QED  BY <3>1, <3>3
    <2>2. QED  BY <1>1, <1>2, <2>1 DEF AllNotes, NotesOrder
  <1>7. AllEntries'
    <2>1. ASSUME NEW g \in Fd, Has(g)'
          PROVE  EntryOK(g)'
      <3>1. EntryOK(g) /\ Has(g) /\ (CloseComes(g) => CloseComes(g)')
        BY <1>1, <1>2, <2>1 DEF AllEntries, Has, CloseComes
      <3>2. /\ ext[g].out_fd \in Fd /\ ext[g].in_gen \in Nat /\ conn[ext[g].out_fd].tag
            /\ ext[g].in_gen <= gen
        BY <1>2, <3>1 DEF Typed, Has, ExtRec, Fd, EntryOK
      <3>3. ext[g].out_fd # f
        BY <1>3, <3>2
      <3>4. CASE g # f
        BY <1>1, <1>2, <1>4, <3>1, <3>2, <3>3, <3>4 DEF EntryOK
      <3>5. CASE g = f
        <4>1. ext[f].late /\ ext[f].in_gen <= gen + 1
          BY <1>1, <1>2, <3>1, <3>2, <3>5 DEF EntryOK
        <4>2. QED  BY <1>1, <1>2, <1>4, <3>1, <3>2, <3>3, <3>5, <4>1 DEF EntryOK
      <3>6. QED  BY <3>4, <3>5
    <2>2. QED  BY <2>1 DEF AllEntries, EntryOK
  <1>8. ASSUME NEW id \in Ids, NEW n \in Nat, TokenOK(id, n)
        PROVE  TokenOK(id, n)'
    <2>1. id[1] \in Fd /\ n \in 1 .. Len(asked) /\ asked' = asked
      BY <1>1, <1>8 DEF Ids, TokenOK, LogSame
    <2>2. asked[n][2] <= gen /\ asked[n] \in Fd \X (0 .. MaxGen)
      BY <1>2, <2>1 DEF AskedOK, Typed
    <2>3. conn'[id[1]].kind # "none" => asked[n][2] <= conn'[id[1]].gen
      BY <1>2, <1>4, <1>8, <2>1, <2>2 DEF TokenOK
    <2>4. QED  BY <1>1, <1>8, <2>1, <2>3 DEF TokenOK, Found, Has, Id
  <1>9. AllWaiting'
    <2> SUFFICES ASSUME NEW d \in Fd, NEW w \in waiting[d]
                 PROVE  TokenOK(w.id, w.n)'
      BY <1>1 DEF AllWaiting
    <2>1. w.id \in Ids /\ w.n \in Nat
      BY <1>2 DEF Typed, Tokens
    <2>2. QED  BY <1>2, <1>8, <2>1 DEF AllWaiting
  <1>10. \A d \in Fd : Hears(d)' => Hears(d) \/ peer[d] = {}
    BY <1>1, <1>2, <1>4 DEF Hears, ConnOK
  <1>11. PeersMatch'
    BY <1>1, <1>2, <1>10 DEF PeersMatch, Found, Has, Id
  <1>12. Kept
    <2> SUFFICES ASSUME NEW x \in Items, InQueue(x), ItemOK(x)
                 PROVE  ItemOK(x)'
      BY DEF Kept
    <2>1. CASE x.op = "query"
      <3>1. x.fd \in Fd /\ x.n \in Nat /\ QueryOK(x.fd, x.n)
        BY <2>1 DEF Items, Notify, ItemOK
      <3>2. QueryOK(x.fd, x.n)'
        BY <1>1, <1>4, <3>1 DEF QueryOK, LogSame
      <3>3. QED  BY <2>1, <3>2 DEF ItemOK
    <2>2. CASE x.op = "answer"
      <3>1. x.id \in Ids /\ x.n \in Nat /\ TokenOK(x.id, x.n)
        BY <2>2 DEF Items, Notify, ItemOK
      <3>2. QED  BY <1>8, <2>2, <3>1 DEF ItemOK
    <2>3. CASE x.op = "closeExt"
      <3>1. x.id \in Ids /\ ClosedOK(x.id)
        BY <2>3 DEF Items, Notify, ItemOK
      <3>2. ClosedOK(x.id)'
        BY <1>1, <1>10, <3>1 DEF ClosedOK
      <3>3. QED  BY <2>3, <3>2 DEF ItemOK
    <2>4. QED  BY <2>1, <2>2, <2>3 DEF ItemOK
  <1>13. engine' \in Seq(Items) /\ AllItems' /\ ItemsOrder'
    BY <1>1, <1>2, <1>12, EngineStays
  <1>14. AskedOK' /\ AnsweredOK' /\ AnswersToAsker'
    <2>1. \A n \in 1 .. Len(asked) : asked[n][2] <= gen + 1
      <3>1. ASSUME NEW n \in 1 .. Len(asked)
            PROVE  asked[n][2] <= gen + 1
        <4>1. asked[n] \in Fd \X (0 .. MaxGen) /\ asked[n][2] <= gen
          BY <1>2 DEF AskedOK, Typed
        <4>2. QED  BY <1>2, <4>1, RelayAssumption
      <3>2. QED  BY <3>1
    <2>2. QED  BY <1>1, <1>2, <2>1 DEF LogSame, AskedOK, AnsweredOK, AnswersToAsker
  <1>15. Typed'
    BY <1>1, <1>2, <1>4, <1>13, RelayAssumption, SMTT(60) DEF Typed, LogSame
  <1>16. QED  BY <1>5, <1>6, <1>7, <1>9, <1>11, <1>13, <1>14, <1>15 DEF IInv

\* The descriptor is given up: nothing that waits is about the connection.
LEMMA FreeStep ==
  ASSUME IInv, NEW f \in Fd, Free(f)
  PROVE  IInv'
  <1>1. /\ "FAILED" \in conn[f].flags /\ ~Referenced(f) /\ conn' = [conn EXCEPT ![f] = NoConn]
        /\ peer' = [peer EXCEPT ![f] = {}] /\ waiting' = [waiting EXCEPT ![f] = {}] /\ LogSame
        /\ UNCHANGED <<gen, ext, last, heads, engine, notes, draining, down>>
    BY DEF Free, LogSame, table, log
  <1>2. /\ Typed /\ AllConns /\ AllNotes /\ NotesOrder /\ AllEntries /\ AllItems /\ ItemsOrder
        /\ AllWaiting /\ PeersMatch /\ ConnOK(f) /\ EntryOK(f)
    BY DEF IInv, AllConns, AllEntries
  <1>3. (\A i \in 1 .. Len(notes) : notes[i].fd # f) /\ ~CloseComes(f) /\ ~conn[f].tag
        /\ (Has(f) => ext[f].late)
    BY <1>1, <1>2 DEF Referenced, CloseComes, ConnOK, EntryOK, Typed
  <1>4. /\ conn' \in [Fd -> ConnRec] /\ conn'[f] = NoConn /\ conn'[f].kind = "none"
        /\ conn'[f].flags = {} /\ ~conn'[f].tag /\ \A g \in Fd : g # f => conn'[g] = conn[g]
    <2>1. NoConn \in ConnRec /\ NoConn.kind = "none" /\ NoConn.flags = {} /\ NoConn.tag = FALSE
      BY RelayAssumption DEF NoConn, ConnRec
    <2>2. QED  BY <1>1, <1>2, <2>1 DEF Typed
  <1>5. /\ peer' \in [Fd -> SUBSET Ids] /\ waiting' \in [Fd -> SUBSET Tokens]
        /\ peer'[f] = {} /\ waiting'[f] = {}
        /\ \A g \in Fd : g # f => peer'[g] = peer[g] /\ waiting'[g] = waiting[g]
    BY <1>1, <1>2 DEF Typed
  <1>6. AllConns'
    <2>1. ASSUME NEW g \in Fd
          PROVE  ConnOK(g)'
      <3>1. ConnOK(g) /\ (CloseComes(g) <=> CloseComes(g)')
        BY <1>1, <1>2 DEF AllConns, CloseComes
      <3>2. CASE g # f
        BY <1>1, <1>4, <1>5, <3>1, <3>2 DEF ConnOK
      <3>3. CASE g = f
        BY <1>1, <1>3, <1>4, <1>5, <3>1, <3>3 DEF ConnOK
      <3>4. QED  BY <3>2, <3>3
    <2>2. QED  BY <2>1 DEF AllConns
  <1>7. AllNotes' /\ NotesOrder'
    <2>1. ASSUME NEW i \in 1 .. Len(notes)
          PROVE  NoteOK(notes[i])'
      <3>1. PICK x \in Notes : x = notes[i] /\ x = notes'[i] /\ NoteOK(x)
        BY <1>1, <1>2, NoteAt
      <3>2. x.fd \in Fd /\ x.fd # f /\ (CloseComes(x.fd) => CloseComes(x.fd)')
        BY <1>1, <1>3, <3>1 DEF Notes, CloseComes
      <3>3. NoteOK(x)'
        BY <1>4, <3>1, <3>2 DEF NoteOK
      <3>4. QED  BY <3>1, <3>3
    <2>2. QED  BY <1>1, <1>2, <2>1 DEF AllNotes, NotesOrder
  <1>8. AllEntries'
    <2>1. ASSUME NEW g \in Fd, Has(g)'
          PROVE  EntryOK(g)'
      <3>1. EntryOK(g) /\ Has(g) /\ (CloseComes(g) => CloseComes(g)')
        BY <1>1, <1>2, <2>1 DEF AllEntries, Has, CloseComes
      <3>2. ext[g].out_fd \in Fd /\ conn[ext[g].out_fd].tag
        BY <1>2, <3>1 DEF Typed, Has, ExtRec, Fd, EntryOK
      <3>3. ext[g].out_fd # f
        BY <1>3, <3>2
      <3>4. CASE g # f
        BY <1>1, <1>4, <3>1, <3>2, <3>3, <3>4 DEF EntryOK
      <3>5. CASE g = f
        BY <1>1, <1>3, <1>4, <3>1, <3>2, <3>3, <3>5 DEF EntryOK
      <3>6. QED  BY <3>4, <3>5
    <2>2. QED  BY <2>1 DEF AllEntries, EntryOK
  <1>9. ASSUME NEW id \in Ids, NEW n \in Nat, TokenOK(id, n)
        PROVE  TokenOK(id, n)'
    <2>1. id[1] \in Fd
      BY DEF Ids
    <2>2. conn'[id[1]].kind # "none" => conn'[id[1]] = conn[id[1]]
      BY <1>4, <2>1
    <2>3. QED  BY <1>1, <1>9, <2>2 DEF TokenOK, Found, Has, Id, LogSame
  <1>10. AllWaiting'
    <2> SUFFICES ASSUME NEW d \in Fd, NEW w \in waiting'[d]
                 PROVE  TokenOK(w.id, w.n)'
      BY DEF AllWaiting
    <2>1. w \in waiting[d] /\ w.id \in Ids /\ w.n \in Nat
      BY <1>5 DEF Tokens
    <2>2. QED  BY <1>2, <1>9, <2>1 DEF AllWaiting
  <1>11. \A d \in Fd : Hears(d)' => d # f /\ Hears(d) /\ peer'[d] = peer[d]
    BY <1>4, <1>5 DEF Hears
  <1>12. PeersMatch'
    BY <1>1, <1>2, <1>11 DEF PeersMatch, Found, Has, Id
  <1>13. Kept
    <2> SUFFICES ASSUME NEW x \in Items, InQueue(x), ItemOK(x)
                 PROVE  ItemOK(x)'
      BY DEF Kept
    <2>1. CASE x.op = "query"
      <3>1. x.fd \in Fd /\ x.n \in Nat /\ QueryOK(x.fd, x.n)
        BY <2>1 DEF Items, Notify, ItemOK
      <3>2. x.fd # f
        <4>1. PICK i \in 1 .. Len(engine) : engine[i] = x
          BY DEF InQueue
        <4>2. x # Notify /\ i \in DOMAIN engine
          BY <1>2, <2>1 DEF Notify, Typed
        <4>3. QED  BY <1>1, <4>1, <4>2 DEF Referenced
      <3>3. QueryOK(x.fd, x.n)'
        BY <1>1, <1>4, <3>1, <3>2 DEF QueryOK, LogSame
      <3>4. QED  BY <2>1, <3>3 DEF ItemOK
    <2>2. CASE x.op = "answer"
      <3>1. x.id \in Ids /\ x.n \in Nat /\ TokenOK(x.id, x.n)
        BY <2>2 DEF Items, Notify, ItemOK
      <3>2. QED  BY <1>9, <2>2, <3>1 DEF ItemOK
    <2>3. CASE x.op = "closeExt"
      <3>1. x.id \in Ids /\ ClosedOK(x.id)
        BY <2>3 DEF Items, Notify, ItemOK
      <3>2. ClosedOK(x.id)'
        BY <1>1, <1>11, <3>1 DEF ClosedOK
      <3>3. QED  BY <2>3, <3>2 DEF ItemOK
    <2>4. QED  BY <2>1, <2>2, <2>3 DEF ItemOK
  <1>14. engine' \in Seq(Items) /\ AllItems' /\ ItemsOrder'
    BY <1>1, <1>2, <1>13, EngineStays
  <1>15. /\ AskedOK' /\ AnsweredOK' /\ AnswersToAsker'
         /\ asked' \in Seq(Fd \X (0 .. MaxGen)) /\ answered' \in SUBSET (Nat \X Fd \X Nat)
    BY <1>1, LogStays
  <1>16. Typed'
    BY <1>1, <1>2, <1>4, <1>5, <1>14, <1>15 DEF Typed
  <1>17. QED  BY <1>6, <1>7, <1>8, <1>10, <1>12, <1>14, <1>15, <1>16 DEF IInv

\* create_ext_connection: the number is new, so nothing that waits has it.
LEMMA CreateEntryStep ==
  ASSUME IInv, CreateEntry
  PROVE  IInv'
  <1>1. PICK f, n : f = Head(engine).fd /\ n = Head(engine).n
    OBVIOUS
  <1>2. PICK d \in Tagged :
          /\ last' = [last EXCEPT ![f] = @ + 1]
          /\ ext' = [ext EXCEPT ![f] = [k |-> last[f] + 1, in_gen |-> conn[f].gen, out_fd |-> d,
                                        out_gen |-> conn[d].gen, late |-> Ended(f)]]
          /\ Forward(PeerAfter(f), WaitingAfter(f), d, <<f, last[f] + 1>>, n)
    BY <1>1 DEF CreateEntry
  <1>3. /\ engine' = Tail(engine) /\ LogSame
        /\ UNCHANGED <<conn, gen, heads, notes, draining, down>>
    BY DEF CreateEntry, Done, LogSame
  <1>4. /\ engine # <<>> /\ f \in Fd /\ n \in Nat /\ QueryOK(f, n) /\ Len(engine) \in Nat
        /\ \A i \in 2 .. Len(engine) : engine[i].op = "query" => n < engine[i].n
    BY <1>1, QueryHead DEF CreateEntry
  <1>5. /\ Typed /\ AllConns /\ AllNotes /\ NotesOrder /\ AllEntries /\ AllItems /\ ItemsOrder
        /\ AllWaiting /\ AskedOK /\ PeersMatch /\ ConnOK(f) /\ ConnOK(d) /\ d \in Fd
    BY <1>4 DEF IInv, AllConns, Tagged, Ready
  <1>6. /\ n \in 1 .. Len(asked) /\ conn[f].kind = "client" /\ asked[n] = <<f, conn[f].gen>>
        /\ last[f] < n /\ last[f] \in Nat /\ Len(asked) \in Nat /\ Len(asked) <= MaxQueries
        /\ conn[f].gen \in 1 .. gen /\ gen \in 0 .. MaxGen
        /\ conn[d].tag /\ conn[d].gen \in 1 .. gen /\ d \in MiddleFd
    BY <1>4, <1>5 DEF QueryOK, AskedOK, Typed, ConnOK, Tagged, Ready
  <1>7. PICK k : k = last[f] + 1
    OBVIOUS
  <1>8. k \in 1 .. MaxQueries /\ k <= n /\ k \in Nat
    BY <1>6, <1>7, RelayAssumption
  <1>9. PICK id : id = <<f, k>>
    OBVIOUS
  <1>10. id \in Ids /\ id[1] = f /\ id[2] = k
    BY <1>4, <1>8, <1>9 DEF Ids
  <1>11. PICK e : e = [k |-> k, in_gen |-> conn[f].gen, out_fd |-> d,
                       out_gen |-> conn[d].gen, late |-> Ended(f)]
    OBVIOUS
  <1>12. /\ e \in ExtRec /\ e # NoExt /\ e.k = k /\ e.in_gen = conn[f].gen /\ e.out_fd = d
         /\ e.out_gen = conn[d].gen /\ e.late = Ended(f)
    <2>1. Ended(f) \in BOOLEAN /\ conn[f].gen \in 1 .. MaxGen /\ conn[d].gen \in 1 .. MaxGen
      BY <1>6, RelayAssumption DEF Ended
    <2>2. e.k = k /\ k # 0 /\ NoExt.k = 0
      BY <1>8, <1>11 DEF NoExt
    <2>3. QED  BY <1>6, <1>8, <1>11, <2>1, <2>2 DEF ExtRec
  <1>13. /\ ext' \in [Fd -> {NoExt} \union ExtRec] /\ ext'[f] = e
         /\ \A g \in Fd : g # f => ext'[g] = ext[g]
    <2>1. ext \in [Fd -> {NoExt} \union ExtRec] /\ ext' = [ext EXCEPT ![f] = e]
      BY <1>2, <1>5, <1>7, <1>11 DEF Typed
    <2>2. QED  BY <1>4, <1>12, <2>1
  <1>14. /\ last' \in [Fd -> 0 .. MaxQueries] /\ last'[f] = k
         /\ \A g \in Fd : g # f => last'[g] = last[g]
    <2>1. last \in [Fd -> 0 .. MaxQueries] /\ last' = [last EXCEPT ![f] = k]
      BY <1>2, <1>5, <1>7 DEF Typed
    <2>2. k \in 0 .. MaxQueries
      BY <1>8
    <2>3. QED  BY <1>4, <2>1, <2>2
  <1>15. /\ PeerAfter(f) \in [Fd -> SUBSET Ids] /\ WaitingAfter(f) \in [Fd -> SUBSET Tokens]
         /\ \A g \in Fd : PeerAfter(f)[g] \subseteq peer[g] /\ WaitingAfter(f)[g] \subseteq waiting[g]
         /\ \A g \in Fd : Hears(g) => \A x \in PeerAfter(f)[g] : x[1] # f
    BY <1>4, Removing
  <1>16. Forwarded(PeerAfter(f), WaitingAfter(f), d, id, n)
    BY <1>2, <1>4, <1>5, <1>7, <1>9, <1>10, <1>15, Forwarding
  <1>17. /\ peer' \in [Fd -> SUBSET Ids] /\ waiting' \in [Fd -> SUBSET Tokens]
         /\ \A g \in Fd : \A x \in peer'[g] : (x \in peer[g] /\ (Hears(g) => x[1] # f)) \/ (x = id /\ g = d)
         /\ \A g \in Fd : \A w \in waiting'[g] : w \in waiting[g] \/ w = [id |-> id, n |-> n]
         /\ \A g \in Fd : conn[g].kind # "middle" => peer'[g] \subseteq peer[g] /\ waiting'[g] \subseteq waiting[g]
    <2>1. peer' \in [Fd -> SUBSET Ids] /\ waiting' \in [Fd -> SUBSET Tokens]
      BY <1>16 DEF Forwarded
    <2>2. ASSUME NEW g \in Fd, NEW x \in peer'[g]
          PROVE  (x \in peer[g] /\ (Hears(g) => x[1] # f)) \/ (x = id /\ g = d)
      BY <1>15, <1>16, <2>2 DEF Forwarded
    <2>3. ASSUME NEW g \in Fd, NEW w \in waiting'[g]
          PROVE  w \in waiting[g] \/ w = [id |-> id, n |-> n]
      BY <1>15, <1>16, <2>3 DEF Forwarded
    <2>4. ASSUME NEW g \in Fd, conn[g].kind # "middle"
          PROVE  peer'[g] \subseteq peer[g] /\ waiting'[g] \subseteq waiting[g]
      BY <1>15, <1>16, <2>4 DEF Forwarded, Hears
    <2>5. QED  BY <2>1, <2>2, <2>3, <2>4
  <1> HIDE DEF Forwarded
  <1>18. \A g \in Fd : Hears(g)' <=> Hears(g)
    BY <1>3 DEF Hears
  <1>19. AllConns'
    <2>1. ASSUME NEW g \in Fd
          PROVE  ConnOK(g)'
      <3>1. ConnOK(g) /\ (CloseComes(g) <=> CloseComes(g)')
        BY <1>3, <1>5 DEF AllConns, CloseComes
      <3>2. conn[g].kind # "middle" => peer'[g] = {} /\ waiting'[g] = {}
        BY <1>17, <3>1 DEF ConnOK
      <3>3. QED  BY <1>3, <3>1, <3>2 DEF ConnOK
    <2>2. QED  BY <2>1 DEF AllConns
  <1>20. AllNotes' /\ NotesOrder'
    BY <1>3, <1>5 DEF AllNotes, NoteOK, CloseComes, NotesOrder
  <1>21. AllEntries'
    <2>1. ASSUME NEW g \in Fd, Has(g)', g # f
          PROVE  EntryOK(g)'
      <3>1. EntryOK(g) /\ Has(g) /\ ext'[g] = ext[g] /\ last'[g] = last[g]
        BY <1>5, <1>13, <1>14, <2>1 DEF AllEntries, Has
      <3>2. QED  BY <1>3, <3>1 DEF EntryOK, CloseComes
    <2>2. EntryOK(f)'
      <3>1. ~Ended(f) /\ "FAILED" \in conn[f].flags => CloseComes(f)
        <4>1. SUFFICES ASSUME NEW i \in DOMAIN notes, notes[i] = [ev |-> "close", fd |-> f]
                       PROVE  CloseComes(f)
          BY DEF Ended
        <4>2. i \in 1 .. Len(notes) /\ notes[i].ev = "close" /\ notes[i].fd = f
          BY <1>5, <4>1 DEF Typed
        <4>3. QED  BY <4>2 DEF CloseComes
      <3>2. CloseComes(f)' <=> CloseComes(f)
        BY <1>3 DEF CloseComes
      <3>3. conn'[d].tag /\ conn'[d].gen = e.out_gen /\ e.k <= last'[f] /\ e.in_gen <= gen'
        BY <1>3, <1>6, <1>8, <1>12, <1>14
      <3>4. e.in_gen <= conn'[f].gen
        BY <1>3, <1>6, <1>12
      <3>5. QED  BY <1>3, <1>6, <1>12, <1>13, <3>1, <3>2, <3>3, <3>4 DEF EntryOK
    <2>3. QED  BY <2>1, <2>2 DEF AllEntries, EntryOK
  <1>22. ASSUME NEW x \in Ids, NEW m \in Nat, TokenOK(x, m)
         PROVE  TokenOK(x, m)'
    <2>1. x[1] \in Fd /\ x[2] \in Nat /\ x[2] <= last[x[1]] /\ x = <<x[1], x[2]>>
      BY <1>22 DEF Ids, TokenOK
    <2>2. x[2] <= last'[x[1]]
      BY <1>6, <1>7, <1>14, <2>1
    <2>3. Found(x)' => Found(x) /\ x[1] # f
      <3>1. CASE x[1] # f
        BY <1>13, <2>1, <3>1 DEF Found, Has, Id
      <3>2. CASE x[1] = f
        <4>1. SUFFICES ASSUME Found(x)'
                       PROVE  FALSE
          OBVIOUS
        <4>2. x[2] = k
          BY <1>12, <1>13, <2>1, <3>2, <4>1 DEF Found, Id
        <4>3. QED  BY <1>6, <1>7, <2>1, <3>2, <4>2
      <3>3. QED  BY <3>1, <3>2
    <2>4. Found(x)' => ext'[x[1]] = ext[x[1]]
      BY <1>13, <2>1, <2>3
    <2>5. QED  BY <1>3, <1>22, <2>2, <2>3, <2>4 DEF TokenOK, LogSame
  <1>23. AllWaiting'
    <2> SUFFICES ASSUME NEW g \in Fd, NEW w \in waiting'[g]
                 PROVE  TokenOK(w.id, w.n)'
      BY DEF AllWaiting
    <2>1. CASE w \in waiting[g]
      <3>1. w.id \in Ids /\ w.n \in Nat
        BY <1>17 DEF Tokens
      <3>2. QED  BY <1>5, <1>22, <2>1, <3>1 DEF AllWaiting
    <2>2. CASE w = [id |-> id, n |-> n]
      <3>1. w.id = id /\ w.n = n
        BY <2>2
      <3>2. asked[n][1] = f /\ asked[n][2] = conn[f].gen
        BY <1>6
      <3>3. TokenOK(id, n)'
        BY <1>3, <1>6, <1>8, <1>10, <1>12, <1>13, <1>14, <3>2 DEF TokenOK, LogSame
      <3>4. QED  BY <3>1, <3>3
    <2>3. QED  BY <1>17, <2>1, <2>2
  <1>24. PeersMatch'
    <2> SUFFICES ASSUME NEW g \in Fd, Hears(g), NEW x \in peer'[g]
                 PROVE  (Found(x) /\ ext[x[1]].out_fd = g)'
      BY <1>18 DEF PeersMatch
    <2>1. CASE x \in peer[g] /\ x[1] # f
      <3>1. x[1] \in Fd /\ Found(x) /\ ext[x[1]].out_fd = g
        BY <1>5, <1>17, <2>1 DEF PeersMatch, Ids
      <3>2. QED  BY <1>13, <2>1, <3>1 DEF Found, Has, Id
    <2>2. CASE x = id /\ g = d
      BY <1>9, <1>10, <1>12, <1>13, <2>2 DEF Found, Has, Id
    <2>3. QED  BY <1>17, <2>1, <2>2
  <1>25. TailKept
    <2> SUFFICES ASSUME NEW x \in Items, NEW i \in 2 .. Len(engine), engine[i] = x
                 PROVE  ItemOK(x)'
      BY DEF TailKept
    <2>1. ItemOK(x)
      BY <1>4, <1>5 DEF AllItems
    <2>2. CASE x.op = "query"
      <3>1. x.fd \in Fd /\ x.n \in Nat /\ QueryOK(x.fd, x.n) /\ n < x.n
        BY <1>4, <2>1, <2>2 DEF Items, Notify, ItemOK
      <3>2. \A g \in Fd : last'[g] < x.n
        BY <1>4, <1>8, <1>14, <3>1 DEF QueryOK
      <3>3. QueryOK(x.fd, x.n)'
        BY <1>3, <3>1, <3>2 DEF QueryOK, LogSame
      <3>4. QED  BY <2>2, <3>3 DEF ItemOK
    <2>3. CASE x.op = "answer"
      <3>1. x.id \in Ids /\ x.n \in Nat /\ TokenOK(x.id, x.n)
        BY <2>1, <2>3 DEF Items, Notify, ItemOK
      <3>2. QED  BY <1>22, <2>3, <3>1 DEF ItemOK
    <2>4. CASE x.op = "closeExt"
      <3>1. x.id \in Ids /\ ClosedOK(x.id)
        BY <2>1, <2>4 DEF Items, Notify, ItemOK
      <3>2. PICK y \in Ids : y = x.id
        BY <3>1
      <3>3. y[1] \in Fd /\ y[2] \in Nat /\ y[2] <= last[y[1]]
        BY <3>1, <3>2 DEF Ids, ClosedOK
      <3>4. y[2] <= last'[y[1]] /\ y # id
        BY <1>6, <1>7, <1>10, <1>14, <3>3, SMTT(60)
      <3>5. ASSUME NEW g \in Fd, Hears(g)', y \in peer'[g]
            PROVE  FALSE
        <4>1. Hears(g) /\ y \in peer[g]
          BY <1>17, <1>18, <3>4, <3>5
        <4>2. QED  BY <3>1, <3>2, <4>1 DEF ClosedOK
      <3>6. ClosedOK(y)'
        BY <3>4, <3>5 DEF ClosedOK
      <3>7. QED  BY <2>4, <3>2, <3>6 DEF ItemOK
    <2>5. QED  BY <2>1, <2>2, <2>3, <2>4 DEF ItemOK
  <1>26. engine' \in Seq(Items) /\ AllItems' /\ ItemsOrder'
    BY <1>3, <1>4, <1>5, <1>25, EnginePops
  <1>27. AskedOK' /\ AnsweredOK' /\ AnswersToAsker'
    <2>1. \A g \in Fd : last'[g] <= Len(asked)
      BY <1>5, <1>6, <1>8, <1>14 DEF AskedOK
    <2>2. QED  BY <1>3, <1>5, <2>1 DEF LogSame, AskedOK, AnsweredOK, AnswersToAsker, IInv
  <1>28. Typed'
    BY <1>3, <1>5, <1>13, <1>14, <1>17, <1>26 DEF Typed, LogSame
  <1>29. QED  BY <1>19, <1>20, <1>21, <1>23, <1>24, <1>26, <1>27, <1>28 DEF IInv

-----------------------------------------------------------------------------
(* The theorems *)

LEMMA InitHolds ==
  ASSUME Init
  PROVE  IInv
  <1>1. /\ conn \in [Fd -> ConnRec] /\ \A f \in Fd : conn[f] = NoConn /\ conn[f].kind = "none"
                                        /\ conn[f].flags = {} /\ ~conn[f].tag
    <2>1. NoConn \in ConnRec /\ NoConn.kind = "none" /\ NoConn.flags = {} /\ NoConn.tag = FALSE
      BY RelayAssumption DEF NoConn, ConnRec
    <2>2. QED  BY <2>1 DEF Init
  <1>2. Typed
    <2>1. gen \in 0 .. MaxGen /\ last \in [Fd -> 0 .. MaxQueries] /\ heads \in SUBSET Fd
      BY RelayAssumption DEF Init
    <2>2. ext \in [Fd -> {NoExt} \union ExtRec] /\ draining \in BOOLEAN /\ down = FALSE
      BY DEF Init
    <2>3. peer \in [Fd -> SUBSET Ids] /\ waiting \in [Fd -> SUBSET Tokens]
      BY DEF Init
    <2>4. engine \in Seq(Items) /\ notes \in Seq(Notes) /\ asked \in Seq(Fd \X (0 .. MaxGen))
      BY DEF Init
    <2>5. answered \in SUBSET (Nat \X Fd \X Nat)
      BY DEF Init
    <2>6. QED  BY <1>1, <2>1, <2>2, <2>3, <2>4, <2>5 DEF Typed
  <1>3. \A f \in Fd : ~Has(f) /\ peer[f] = {} /\ waiting[f] = {} /\ ~Hears(f)
    BY <1>1 DEF Init, Has, Hears
  <1>4. AllConns /\ AllEntries /\ AllWaiting /\ PeersMatch
    BY <1>1, <1>3 DEF AllConns, AllEntries, AllWaiting, PeersMatch, ConnOK, EntryOK, Init
  <1>5. AllNotes /\ NotesOrder /\ AllItems /\ ItemsOrder
    BY DEF Init, AllNotes, NotesOrder, AllItems, ItemsOrder
  <1>6. AskedOK /\ AnsweredOK /\ AnswersToAsker
    BY RelayAssumption DEF Init, AskedOK, AnsweredOK, AnswersToAsker
  <1>7. QED  BY <1>2, <1>4, <1>5, <1>6 DEF IInv

LEMMA Stuttering ==
  ASSUME IInv, UNCHANGED vars
  PROVE  IInv'
  <1>1. /\ conn' = conn /\ LogSame /\ engine' = engine /\ draining' = draining
        /\ UNCHANGED <<gen, ext, last, heads, notes, peer, waiting, down>>
    BY DEF vars, LogSame
  <1>2. Typed
    BY DEF IInv
  <1>3. conn' \in [Fd -> ConnRec] /\ \A g \in Fd : Milder(g) /\ conn'[g].tag = conn[g].tag
    BY <1>1, <1>2, ConnStays
  <1>4. SteadyStep
    BY <1>1, <1>2, <1>3, ConnsOnly DEF Typed
  <1>5. QED  BY <1>1, <1>4, SteadyPop

LEMMA ConnectionStep ==
  ASSUME IInv, NEW f \in Fd,
         \/ \E kind \in {"client", "middle"} : Open(f, kind)
         \/ Handshake(f) \/ Close(f) \/ Free(f) \/ Query(f)
         \/ Fails(f, {"ERROR"}) \/ Fails(f, {"ERROR", "SOCKERR"})
         \/ MiddleAnswers(f) \/ MiddleCloses(f)
  PROVE  IInv'
  <1>1. CASE \E kind \in {"client", "middle"} : Open(f, kind)
    BY <1>1, OpenStep
  <1>2. CASE Handshake(f) \/ Close(f) \/ Free(f) \/ Query(f)
    BY <1>2, HandshakeStep, CloseStep, FreeStep, QueryStep
  <1>3. CASE Fails(f, {"ERROR"})
    <2>1. {"ERROR"} \in SUBSET {"ERROR", "SOCKERR"} /\ "ERROR" \in {"ERROR"}
      OBVIOUS
    <2>2. QED  BY <1>3, <2>1, FailsStep
  <1>4. CASE Fails(f, {"ERROR", "SOCKERR"})
    <2>1. {"ERROR", "SOCKERR"} \in SUBSET {"ERROR", "SOCKERR"} /\ "ERROR" \in {"ERROR", "SOCKERR"}
      OBVIOUS
    <2>2. QED  BY <1>4, <2>1, FailsStep
  <1>5. CASE MiddleAnswers(f) \/ MiddleCloses(f)
    BY <1>5, MiddleAnswersStep, MiddleClosesStep
  <1>6. QED  BY <1>1, <1>2, <1>3, <1>4, <1>5

LEMMA EngineStep ==
  ASSUME IInv, Engine
  PROVE  IInv'
  BY RunNotifyStep, DrainEndStep, MiddleReadyStep, MiddleCloseStep, ClientCloseStep,
     ForwardQueryStep, RejectQueryStep, CreateEntryStep, FailDroppedStep, DropQueryStep,
     AnswerStep, DropAnswerStep, CloseExtStep DEF Engine

\* The relay never leaves the inductive invariant, whatever the order of packets
\* and closes.
THEOREM Invariance == Spec => []IInv
  <1>1. Init => IInv
    BY InitHolds
  <1>2. IInv /\ [Next]_vars => IInv'
    BY Stuttering, ConnectionStep, EngineStep, EvictStep DEF Next
  <1>3. QED  BY <1>1, <1>2, PTL DEF Spec


-----------------------------------------------------------------------------
(* The list of the least recently used *)

\* A set of natural numbers has a least one.
LEMMA Least ==
  ASSUME NEW C \in SUBSET Nat, C # {}
  PROVE  \E m \in C : \A n \in C : m <= n
  <1>1. PICK m \in C : \A n \in Nat : <<n, m>> \in OpToRel(<, Nat) => n \notin C
    BY NatLessThanWellFounded, WFMin
  <1>2. \A n \in Nat : n < m => n \notin C
    BY <1>1 DEF OpToRel
  <1>3. QED  BY <1>2

\* The recursive function of Unlinked, and what its values are.
Fill(s, S, F, i) == IF i = 0 THEN <<>> ELSE IF s[i] \in S THEN F[i - 1] ELSE Append(F[i - 1], s[i])

Fills(T, s, S, n) == \E G \in [0 .. n -> Seq(T)] : \A i \in 0 .. n : G[i] = Fill(s, S, G, i)

LEMMA FillExists ==
  ASSUME NEW T, NEW s \in Seq(T), NEW S
  PROVE  Fills(T, s, S, Len(s))
  <1> DEFINE C == {n \in 0 .. Len(s) : ~Fills(T, s, S, n)}
  <1>1. SUFFICES ASSUME C # {}
                 PROVE  FALSE
    OBVIOUS
  <1>2. PICK m \in C : \A n \in C : m <= n
    <2>1. C \in SUBSET Nat
      OBVIOUS
    <2> HIDE DEF C
    <2>2. QED  BY <1>1, <2>1, Least
  <1>3. CASE m = 0
    <2>1. PICK G : G = [i \in 0 .. 0 |-> <<>>]
      OBVIOUS
    <2>2. G \in [0 .. 0 -> Seq(T)] /\ \A i \in 0 .. 0 : G[i] = Fill(s, S, G, i)
      BY <2>1 DEF Fill
    <2>3. QED  BY <1>2, <1>3, <2>2 DEF Fills
  <1>4. CASE m # 0
    <2>1. m \in 1 .. Len(s) /\ m - 1 \in 0 .. Len(s) /\ m - 1 \notin C
      BY <1>2, <1>4
    <2>2. PICK G \in [0 .. m - 1 -> Seq(T)] : \A i \in 0 .. m - 1 : G[i] = Fill(s, S, G, i)
      BY <2>1 DEF Fills
    <2>3. PICK H : H = [i \in 0 .. m |-> IF i = m THEN Fill(s, S, G, m) ELSE G[i]]
      OBVIOUS
    <2>4. G[m - 1] \in Seq(T) /\ s[m] \in T
      BY <2>1, <2>2
    <2>5. Fill(s, S, G, m) \in Seq(T)
      BY <2>1, <2>4 DEF Fill
    <2>6. H \in [0 .. m -> Seq(T)]
      <3>1. \A i \in 0 .. m : i # m => i \in 0 .. m - 1
        BY <2>1
      <3>2. QED  BY <2>2, <2>3, <2>5, <3>1
    <2>7. ASSUME NEW i \in 0 .. m
          PROVE  H[i] = Fill(s, S, H, i)
      <3>1. i # 0 => i - 1 \in 0 .. m /\ i - 1 # m /\ H[i - 1] = G[i - 1]
        BY <2>1, <2>3
      <3>2. Fill(s, S, H, i) = Fill(s, S, G, i)
        BY <3>1 DEF Fill
      <3>3. CASE i = m
        BY <2>3, <3>2, <3>3
      <3>4. CASE i # m
        <4>1. i \in 0 .. m - 1
          BY <2>1, <3>4
        <4>2. QED  BY <2>2, <2>3, <3>2, <3>4, <4>1
      <3>5. QED  BY <3>3, <3>4
    <2>8. QED  BY <1>2, <2>6, <2>7 DEF Fills
  <1>5. QED  BY <1>3, <1>4

\* What has been kept after the first i elements.
Keeps(T, s, S, r, i) ==
  /\ r \in Seq(T) /\ \A j \in 1 .. Len(r) : \E k \in 1 .. i : r[j] = s[k] /\ s[k] \notin S
  /\ (\A a, b \in 1 .. Len(s) : s[a] = s[b] => a = b) =>
       \A a, b \in 1 .. Len(r) : r[a] = r[b] => a = b

LEMMA UnlinkStep ==
  ASSUME NEW T, NEW s \in Seq(T), NEW S, NEW i \in 1 .. Len(s), NEW r, Keeps(T, s, S, r, i - 1),
         NEW q, q = IF s[i] \in S THEN r ELSE Append(r, s[i])
  PROVE  Keeps(T, s, S, q, i)
  <1>1. r \in Seq(T) /\ s[i] \in T /\ \A k \in 1 .. i - 1 : k \in 1 .. i /\ k \in 1 .. Len(s) /\ k # i
    BY DEF Keeps
  <1>2. CASE s[i] \in S
    BY <1>1, <1>2 DEF Keeps
  <1>3. CASE s[i] \notin S
    <2>1. /\ q \in Seq(T) /\ Len(q) = Len(r) + 1 /\ Len(r) \in Nat /\ q[Len(r) + 1] = s[i]
          /\ \A j \in 1 .. Len(r) : q[j] = r[j]
      BY <1>1, <1>3
    <2>2. ASSUME NEW j \in 1 .. Len(q)
          PROVE  \E k \in 1 .. i : q[j] = s[k] /\ s[k] \notin S
      <3>1. CASE j = Len(r) + 1
        BY <1>3, <2>1, <3>1
      <3>2. CASE j \in 1 .. Len(r)
        BY <1>1, <2>1, <3>2 DEF Keeps
      <3>3. QED  BY <2>1, <3>1, <3>2
    <2>3. ASSUME \A a, b \in 1 .. Len(s) : s[a] = s[b] => a = b
          PROVE  \A a, b \in 1 .. Len(q) : q[a] = q[b] => a = b
      <3>1. \A a \in 1 .. Len(r) : q[a] # s[i]
        <4>1. SUFFICES ASSUME NEW a \in 1 .. Len(r)
                       PROVE  r[a] # s[i]
          BY <2>1
        <4>2. PICK k \in 1 .. i - 1 : r[a] = s[k]
          BY DEF Keeps
        <4>3. QED  BY <1>1, <2>3, <4>2
      <3>2. \A a, b \in 1 .. Len(r) : q[a] = q[b] => a = b
        BY <2>1, <2>3 DEF Keeps
      <3>3. \A a \in 1 .. Len(q) : a \in 1 .. Len(r) \/ a = Len(r) + 1
        BY <2>1
      <3>4. QED  BY <2>1, <3>1, <3>2, <3>3
    <2>4. QED  BY <2>1, <2>2, <2>3 DEF Keeps
  <1>4. QED  BY <1>2, <1>3

\* Unlinked keeps elements of s that are not in S, each once if s has each once.
LEMMA Unlinking ==
  ASSUME NEW T, NEW s \in Seq(T), NEW S
  PROVE  Keeps(T, s, S, Unlinked(s, S), Len(s))
  <1>1. PICK G \in [0 .. Len(s) -> Seq(T)] : \A i \in 0 .. Len(s) : G[i] = Fill(s, S, G, i)
    BY FillExists DEF Fills
  <1>2. G = [i \in 0 .. Len(s) |-> Fill(s, S, G, i)]
    BY <1>1
  <1>3. PICK F : F = [i \in 0 .. Len(s) |-> Fill(s, S, F, i)] /\ Unlinked(s, S) = F[Len(s)]
    BY <1>2 DEF Unlinked, Fill
  <1>4. \A i \in 0 .. Len(s) : F[i] = Fill(s, S, F, i)
    BY <1>3
  <1> DEFINE C == {i \in 0 .. Len(s) : ~Keeps(T, s, S, F[i], i)}
  <1>5. SUFFICES ASSUME C # {}
                 PROVE  FALSE
    <2>1. Len(s) \in 0 .. Len(s)
      OBVIOUS
    <2>2. C = {} => Keeps(T, s, S, F[Len(s)], Len(s))
      BY <2>1
    <2> HIDE DEF C
    <2>3. QED  BY <1>3, <2>2
  <1>6. PICK m \in C : \A n \in C : m <= n
    <2>1. C \in SUBSET Nat
      OBVIOUS
    <2> HIDE DEF C
    <2>2. QED  BY <1>5, <2>1, Least
  <1>7. CASE m = 0
    <2>1. F[0] = <<>>
      BY <1>4 DEF Fill
    <2>2. Keeps(T, s, S, <<>>, 0)
      BY DEF Keeps
    <2>3. QED  BY <1>6, <1>7, <2>1, <2>2
  <1>8. CASE m # 0
    <2>1. m \in 1 .. Len(s) /\ m - 1 \in 0 .. Len(s) /\ m - 1 \notin C /\ m # 0
      BY <1>6, <1>8
    <2>2. Keeps(T, s, S, F[m - 1], m - 1) /\ F[m] = Fill(s, S, F, m)
      BY <1>4, <2>1
    <2>3. F[m] = IF s[m] \in S THEN F[m - 1] ELSE Append(F[m - 1], s[m])
      BY <2>1, <2>2 DEF Fill
    <2>4. Keeps(T, s, S, F[m], m)
      BY <2>1, <2>2, <2>3, UnlinkStep
    <2>5. QED  BY <1>6, <2>4
  <1>9. QED  BY <1>7, <1>8

\* ConnLRU holds clients that have an entry, each once.
LruOK == /\ lru \in Seq(ClientFd)
         /\ \A i \in 1 .. Len(lru) : Has(lru[i])
         /\ \A i, j \in 1 .. Len(lru) : lru[i] = lru[j] => i = j

LEMMA LruStays ==
  ASSUME LruOK, lru' = lru, ext' = ext
  PROVE  LruOK'
  BY DEF LruOK, Has

\* What is left of the list, apart from a change to entries that are not in it.
LEMMA LruUnlinked ==
  ASSUME LruOK, NEW S, lru' = Unlinked(lru, S), \A f \in ClientFd : f \notin S => ext'[f] = ext[f]
  PROVE  LruOK' /\ \A i \in 1 .. Len(lru') : lru'[i] \notin S
  <1>1. lru \in Seq(ClientFd) /\ \A a, b \in 1 .. Len(lru) : lru[a] = lru[b] => a = b
    BY DEF LruOK
  <1>2. Keeps(ClientFd, lru, S, lru', Len(lru))
    BY <1>1, Unlinking
  <1>3. ASSUME NEW i \in 1 .. Len(lru')
        PROVE  Has(lru[i])' /\ lru'[i] \notin S
    <2>1. PICK k \in 1 .. Len(lru) : lru'[i] = lru[k] /\ lru[k] \notin S
      BY <1>2 DEF Keeps
    <2>2. lru[k] \in ClientFd /\ Has(lru[k])
      BY <1>1 DEF LruOK
    <2>3. QED  BY <2>1, <2>2 DEF Has
  <1>4. lru' \in Seq(ClientFd) /\ \A i, j \in 1 .. Len(lru') : lru'[i] = lru'[j] => i = j
    BY <1>1, <1>2 DEF Keeps
  <1>5. QED  BY <1>3, <1>4 DEF LruOK

\* An entry that is used goes to the end.
LEMMA LruRefreshed ==
  ASSUME LruOK, NEW f \in ClientFd, lru' = Refreshed(f), ext' = ext
  PROVE  LruOK'
  <1>1. CASE Has(f) /\ ext[f].in_gen = conn[f].gen
    <2>1. PICK r : r = Unlinked(lru, {f}) /\ lru' = Append(r, f)
      BY <1>1 DEF Refreshed
    <2>2. lru \in Seq(ClientFd) /\ \A a, b \in 1 .. Len(lru) : lru[a] = lru[b] => a = b
      BY DEF LruOK
    <2>3. Keeps(ClientFd, lru, {f}, r, Len(lru))
      BY <2>1, <2>2, Unlinking
    <2>4. /\ r \in Seq(ClientFd) /\ \A a, b \in 1 .. Len(r) : r[a] = r[b] => a = b
      BY <2>2, <2>3 DEF Keeps
    <2>5. \A a \in 1 .. Len(r) : r[a] # f /\ Has(r[a])
      BY <2>3 DEF Keeps, LruOK
    <2>6. /\ lru' \in Seq(ClientFd) /\ Len(lru') = Len(r) + 1 /\ Len(r) \in Nat
          /\ lru'[Len(r) + 1] = f /\ \A i \in 1 .. Len(r) : lru'[i] = r[i]
      BY <2>1, <2>4, Pushing
    <2>7. \A i \in 1 .. Len(lru') : i \in 1 .. Len(r) \/ i = Len(r) + 1
      BY <2>6
    <2>8. \A i \in 1 .. Len(lru') : Has(lru'[i])
      BY <1>1, <2>5, <2>6, <2>7
    <2>9. \A i, j \in 1 .. Len(lru') : lru'[i] = lru'[j] => i = j
      BY <2>4, <2>5, <2>6, <2>7
    <2>10. QED  BY <2>6, <2>8, <2>9 DEF LruOK, Has
  <1>2. CASE ~(Has(f) /\ ext[f].in_gen = conn[f].gen)
    BY <1>2, LruStays DEF Refreshed
  <1>3. QED  BY <1>1, <1>2

LEMMA LruPopped ==
  ASSUME LruOK, lru # <<>>, lru' = Tail(lru), ext' = ext
  PROVE  LruOK'
  <1>1. lru \in Seq(ClientFd)
    BY DEF LruOK
  <1>2. /\ lru' \in Seq(ClientFd) /\ Len(lru') = Len(lru) - 1 /\ Len(lru) \in Nat
        /\ \A i \in 1 .. Len(lru') : i + 1 \in 1 .. Len(lru) /\ lru'[i] = lru[i + 1]
    BY <1>1, Popping
  <1>3. \A i \in 1 .. Len(lru') : Has(lru'[i])
    BY <1>2 DEF LruOK
  <1>4. \A i, j \in 1 .. Len(lru') : lru'[i] = lru'[j] => i = j
    BY <1>2 DEF LruOK
  <1>5. QED  BY <1>2, <1>3, <1>4 DEF LruOK, Has

LEMMA LruWithout ==
  ASSUME LruOK, NEW S, Without(S)
  PROVE  LruOK'
  <1>1. \A f \in ClientFd : f \notin S => ext'[f] = ext[f]
    BY DEF Without, Fd
  <1>2. QED  BY <1>1, LruUnlinked DEF Without

\* The client of the query at the head of the queue.
LEMMA QueryClient ==
  ASSUME IInv, Item("query")
  PROVE  Head(engine).fd \in ClientFd
  <1>1. PICK f \in Fd : f = Head(engine).fd /\ conn[f].kind = "client" /\ ConnOK(f)
    BY QueryHead DEF QueryOK, IInv, AllConns
  <1>2. QED  BY <1>1 DEF ConnOK

LEMMA LruNext ==
  ASSUME IInv, LruOK, [Next]_vars
  PROVE  LruOK'
  <1>1. CASE UNCHANGED vars
    BY <1>1, LruStays DEF vars
  <1>2. CASE \E f \in Fd : \/ \E kind \in {"client", "middle"} : Open(f, kind)
                           \/ Handshake(f) \/ Close(f) \/ Free(f) \/ Query(f)
                           \/ Fails(f, {"ERROR"}) \/ Fails(f, {"ERROR", "SOCKERR"})
                           \/ MiddleAnswers(f) \/ MiddleCloses(f)
    <2>1. lru' = lru /\ ext' = ext
      BY <1>2 DEF Open, Handshake, Close, Free, Query, Fails, MiddleAnswers, MiddleCloses, table
    <2>2. QED  BY <2>1, LruStays
  <1>3. CASE RunNotify \/ DrainEnd \/ MiddleReady \/ Answer \/ DropAnswer
    <2>1. lru' = lru /\ ext' = ext
      BY <1>3 DEF RunNotify, DrainEnd, MiddleReady, Answer, DropAnswer, table
    <2>2. QED  BY <2>1, LruStays
  <1>4. CASE MiddleClose
    <2>1. (lru' = lru /\ ext' = ext) \/ \E S : Without(S)
      BY <1>4 DEF MiddleClose
    <2>2. QED  BY <2>1, LruStays, LruWithout
  <1>5. CASE ClientClose \/ FailDropped \/ DropQuery \/ CloseExt
    <2>1. \E S : Without(S)
      BY <1>5 DEF ClientClose, FailDropped, DropQuery, CloseExt
    <2>2. QED  BY <2>1, LruWithout
  <1>6. CASE ForwardQuery \/ RejectQuery
    <2>1. Item("query") /\ lru' = Refreshed(Head(engine).fd) /\ ext' = ext
      BY <1>6 DEF ForwardQuery, RejectQuery
    <2>2. QED  BY <2>1, QueryClient, LruRefreshed
  <1>7. CASE CreateEntry
    <2>1. PICK f : f = Head(engine).fd
      OBVIOUS
    <2>2. /\ Item("query") /\ lru' = Unlinked(lru, {f})
          /\ \E e : ext' = [ext EXCEPT ![f] = e]
      BY <1>7, <2>1 DEF CreateEntry
    <2>3. \A g \in ClientFd : g \notin {f} => ext'[g] = ext[g]
      BY <2>2 DEF IInv, Typed, Fd
    <2>4. QED  BY <2>2, <2>3, LruUnlinked
  <1>8. CASE Evict
    <2>1. lru # <<>> /\ lru' = Tail(lru) /\ ext' = ext
      BY <1>8 DEF Evict
    <2>2. QED  BY <2>1, LruPopped
  <1>9. QED  BY <1>1, <1>2, <1>3, <1>4, <1>5, <1>6, <1>7, <1>8 DEF Next, Engine

LEMMA LruFollows == Spec => []LruOK
  <1>1. Init => LruOK
    BY DEF Init, LruOK
  <1>2. IInv /\ LruOK /\ [Next]_vars => LruOK'
    BY LruNext
  <1>3. QED  BY <1>1, <1>2, Invariance, PTL DEF Spec

-----------------------------------------------------------------------------
(* The properties *)

LEMMA TableFollows ==
  ASSUME IInv, LruOK
  PROVE  TableSound
  <1>1. Typed /\ AllConns /\ AllEntries
    BY DEF IInv
  <1>2. heads \subseteq MiddleFd
    BY <1>1 DEF Typed, AllConns, ConnOK
  <1>3. TypeOK /\ ~down
    <2>1. ToSet(lru) \subseteq ClientFd
      BY DEF LruOK, ToSet
    <2>2. QED  BY <1>1, <1>2, <2>1 DEF Typed, TypeOK, ConnRec, ExtRec
  <1>4. ASSUME NEW f \in Fd, Has(f)
        PROVE  /\ ext[f].out_fd \in heads
               /\ conn[ext[f].out_fd].tag /\ conn[ext[f].out_fd].gen = ext[f].out_gen
               /\ ext[f].late \/ (conn[f].gen = ext[f].in_gen /\ ~Ended(f))
    <2>1. EntryOK(f) /\ ext[f].out_fd \in Fd
      BY <1>1, <1>4 DEF AllEntries, Typed, Has, ExtRec, Fd
    <2>2. ext[f].out_fd \in heads
      BY <1>1, <1>4, <2>1 DEF EntryOK, AllConns, ConnOK
    <2>3. ASSUME CloseComes(f)
          PROVE  ~Ended(f)
      <3>1. PICK i \in 1 .. Len(notes) : notes[i].fd = f /\ notes[i].ev = "close"
        BY <2>3 DEF CloseComes
      <3>2. notes[i] \in Notes /\ i \in DOMAIN notes
        BY <1>1 DEF Typed
      <3>3. notes[i] = [ev |-> "close", fd |-> f]
        BY <3>1, <3>2 DEF Notes
      <3>4. QED  BY <3>2, <3>3 DEF Ended
    <2>4. "FAILED" \notin conn[f].flags => ~Ended(f)
      BY DEF Ended
    <2>5. QED  BY <1>4, <2>1, <2>2, <2>3, <2>4 DEF EntryOK
  <1>5. \A i \in DOMAIN lru : Has(lru[i]) /\ \A j \in DOMAIN lru : lru[i] = lru[j] => i = j
    BY DEF LruOK
  <1>6. QED  BY <1>3, <1>4, <1>5 DEF TableSound

\* No assertion of the callbacks fails, and every entry of the table ties a
\* connection that has not been closed for the engine to a middle-end that has not
\* either, unless its query ran late; ConnLRU holds only clients with an entry.
THEOREM Table == Spec => []TableSound
  <1>1. IInv /\ LruOK => TableSound
    BY TableFollows
  <1>2. QED  BY <1>1, Invariance, LruFollows, PTL

\* An answer goes to the connection that asked, though entries and descriptors
\* may outlive it.
THEOREM Answers == Spec => []AnswersToAsker
  <1>1. IInv => AnswersToAsker
    BY DEF IInv
  <1>2. QED  BY <1>1, Invariance, PTL

\* A middle-end that can hear knows of no number without an entry.
THEOREM Peers == Spec => []PeersMatch
  <1>1. IInv => PeersMatch
    BY DEF IInv
  <1>2. QED  BY <1>1, Invariance, PTL
=============================================================================
