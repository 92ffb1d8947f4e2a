-------------------------- MODULE ConnectionProofs --------------------------
(* The connections keep their promises for every number of descriptors and  *)
(* listeners and every limit.  The inductive invariant IInv describes, for  *)
(* each descriptor, the five things that change together: the two jobs, the *)
(* entry of the event table and where the main and the looking thread are   *)
(* with it (Shape); each step is then shown to change one descriptor and to *)
(* leave that one in shape.                                                 *)
EXTENDS Connection, FiniteSetTheorems, TLAPS

\* The records of one descriptor.
ConnRec == [kind : {"none", "in", "out"},
          flags : SUBSET {"ERROR", "FAILED", "CONNECTED", "READY_PENDING", "SPECIAL"},
          status : {"none", "connecting", "working", "write_close", "error"}, io : BOOLEAN,
          refs : SUBSET {"creator", "socket", "user"}, pend : SUBSET {"RUN", "ABORT"},
          at : {"idle", "new", "rw", "wclose", "special", "notify"}]
SockRec == [alive : BOOLEAN, flags : SUBSET {"ERROR", "CONNECTED"},
          refs : SUBSET {"table", "io", "lookup"}, pend : SUBSET {"RUN", "ABORT"},
          at : {"idle", "abort"}]
EvRec == [refcnt : 0 .. 2, data : BOOLEAN]

\* Where the main thread and the looking thread are with the connection c.
M(c) == IF main.c = c THEN main.at ELSE "idle"
U(c) == IF user.c = c THEN user.at ELSE "idle"

\* A record is there as long as it is used, and blank before and after.
Life(k, s, m) ==
  /\ k.kind = "none" => k = NoConn
  /\ ~s.alive => s = NoSock
  /\ k.at = "new" <=> m \in {"limit", "remove", "socket"}
  /\ s.at = "abort" <=> m \in {"fail", "report"}
  /\ k.at = "new" => /\ k.kind # "none" /\ ~s.alive /\ k.pend = {}
                     /\ "ERROR" \notin k.flags /\ "user" \notin k.refs

\* Who holds a reference to the two jobs.
References(k, s, e, u) ==
  /\ "creator" \in k.refs <=> k.at = "new"
  /\ "socket" \in k.refs <=> s.alive
  /\ "user" \in k.refs <=> u = "holds"
  /\ "lookup" \in s.refs <=> u = "socket"
  /\ "io" \in s.refs <=> k.io
  /\ "table" \in s.refs <=> e.data
  /\ k.io <=> k.kind # "none" /\ k.at # "new" /\ "FAILED" \notin k.flags

\* What the event table counts.
Events(s, e, u) ==
  /\ e.refcnt = (IF s.alive /\ "ERROR" \notin s.flags THEN 1 ELSE 0) + (IF u = "pinned" THEN 1 ELSE 0)
  /\ e.data <=> e.refcnt > 0

\* How far a failure has come.
Failing(k, s, m) ==
  /\ "FAILED" \in k.flags => "ERROR" \in k.flags /\ "SPECIAL" \notin k.flags
  /\ k.at \in {"rw", "wclose"} => "FAILED" \notin k.flags
  /\ k.at \in {"special", "notify"} => "FAILED" \in k.flags
  /\ "ABORT" \in k.pend => "ERROR" \in k.flags /\ k.status \in {"error", "write_close"}
  /\ m = "report" => "ERROR" \in k.flags
  /\ "ERROR" \in k.flags /\ "FAILED" \notin k.flags => "ABORT" \in k.pend \/ m = "report"
  /\ "FAILED" \in k.flags /\ s.alive /\ "ERROR" \notin s.flags => "ABORT" \in s.pend

\* How far a connect has come.
Connecting(k, s) ==
  /\ "READY_PENDING" \in k.flags => "CONNECTED" \in k.flags
  /\ s.alive => ("CONNECTED" \in s.flags <=> "CONNECTED" \in k.flags)

Shape(k, s, e, m, u) ==
  /\ Life(k, s, m) /\ References(k, s, e, u) /\ Events(s, e, u)
  /\ Failing(k, s, m) /\ Connecting(k, s)

Shapes == \A c \in Fd : Shape(conn[c], sock[c], ev[c], M(c), U(c))

Actors == /\ main.at = "idle" <=> main.c = NoFd
          /\ user.at = "idle" <=> user.c = NoFd
          /\ main.at \in {"limit", "remove"} => main.l \in Listener

\* A listener that is, or is about to be, out of epoll is told of the next place.
Listeners == (special < MaxSpecial /\ \A c \in Fd : conn[c].at # "notify") =>
  \A l \in Listener : aux[l] \/ (listening[l] /\ ~(main.at = "remove" /\ main.l = l))

DownShape == down => \E c \in Fd : conn[c].status = "write_close"

IInv == CountersExact /\ Shapes /\ Actors /\ Listeners /\ DownShape

-----------------------------------------------------------------------------
(* What a step does with one connection *)

\* The fields of the two jobs and of the event table's entry after a step that touches c only.
ConnIs(c, kind, flags, status, io, refs, pend, at) ==
  /\ conn' \in [Fd -> ConnRec]
  /\ conn'[c].kind = kind /\ conn'[c].flags = flags /\ conn'[c].status = status /\ conn'[c].io = io
  /\ conn'[c].refs = refs /\ conn'[c].pend = pend /\ conn'[c].at = at
  /\ kind = "none" => conn'[c] = NoConn
  /\ \A d \in Fd : d # c => conn'[d] = conn[d]

SockIs(c, alive, flags, refs, pend, at) ==
  /\ sock' \in [Fd -> SockRec]
  /\ sock'[c].alive = alive /\ sock'[c].flags = flags /\ sock'[c].refs = refs
  /\ sock'[c].pend = pend /\ sock'[c].at = at
  /\ ~alive => sock'[c] = NoSock
  /\ \A d \in Fd : d # c => sock'[d] = sock[d]

EvIs(c, refcnt, data) ==
  /\ ev' \in [Fd -> EvRec]
  /\ ev'[c].refcnt = refcnt /\ ev'[c].data = data
  /\ \A d \in Fd : d # c => ev'[d] = ev[d]

MIs(c, m) == M(c)' = m /\ \A d \in Fd : d # c => M(d)' = M(d)
UIs(c, u) == U(c)' = u /\ \A d \in Fd : d # c => U(d)' = U(d)

\* The type invariant in the form the steps use it.
LEMMA Types ==
  ASSUME TypeOK
  PROVE  /\ conn \in [Fd -> ConnRec] /\ sock \in [Fd -> SockRec] /\ ev \in [Fd -> EvRec]
         /\ special \in Nat
         /\ stat \in [allocated : Nat, inbound : Nat, outbound : Nat, active : Nat]
         /\ NoConn \in ConnRec /\ NoSock \in SockRec
  <1>1. Cardinality(Fd) \in Nat
    BY ConnectionAssumption, FS_CardinalityType
  <1>2. QED  BY <1>1 DEF TypeOK, ConnRec, SockRec, EvRec, NoConn, NoSock

\* A step that leaves one of the three alone.
LEMMA ConnStays ==
  ASSUME TypeOK, Shapes, NEW c \in Fd, conn' = conn
  PROVE  ConnIs(c, conn[c].kind, conn[c].flags, conn[c].status, conn[c].io,
                   conn[c].refs, conn[c].pend, conn[c].at)
  BY Types DEF ConnIs, Shapes, Shape, Life

LEMMA SockStays ==
  ASSUME TypeOK, Shapes, NEW c \in Fd, sock' = sock
  PROVE  SockIs(c, sock[c].alive, sock[c].flags, sock[c].refs, sock[c].pend, sock[c].at)
  BY Types DEF SockIs, Shapes, Shape, Life

LEMMA EvStays ==
  ASSUME TypeOK, NEW c \in Fd, ev' = ev
  PROVE  EvIs(c, ev[c].refcnt, ev[c].data)
  BY Types DEF EvIs

\* ... or changes it.
LEMMA ConnSet ==
  ASSUME TypeOK, NEW c \in Fd, NEW r \in ConnRec, conn' = [conn EXCEPT ![c] = r],
         r.kind = "none" => r = NoConn
  PROVE  ConnIs(c, r.kind, r.flags, r.status, r.io, r.refs, r.pend, r.at)
  BY Types DEF ConnIs

LEMMA SockSet ==
  ASSUME TypeOK, NEW c \in Fd, NEW r \in SockRec, sock' = [sock EXCEPT ![c] = r],
         ~r.alive => r = NoSock
  PROVE  SockIs(c, r.alive, r.flags, r.refs, r.pend, r.at)
  BY Types DEF SockIs

LEMMA EvSet ==
  ASSUME TypeOK, NEW c \in Fd, NEW r \in EvRec, ev' = [ev EXCEPT ![c] = r]
  PROVE  EvIs(c, r.refcnt, r.data)
  BY Types DEF EvIs

\* The others keep their shape.
LEMMA OthersStay ==
  ASSUME Shapes, NEW c \in Fd,
         \A d \in Fd : d # c => /\ conn'[d] = conn[d] /\ sock'[d] = sock[d] /\ ev'[d] = ev[d]
                                /\ M(d)' = M(d) /\ U(d)' = U(d),
         Shape(conn'[c], sock'[c], ev'[c], M(c)', U(c)')
  PROVE  Shapes'
  <1>1. ASSUME NEW d \in Fd PROVE Shape(conn'[d], sock'[d], ev'[d], M(d)', U(d)')
    BY DEF Shapes
  <1>2. QED  BY <1>1 DEF Shapes, Shape, Life, References, Events, Failing, Connecting, NoConn,
                NoSock

-----------------------------------------------------------------------------
(* The counters *)

\* What makes a connection count in each statistic.
Acting(k) == IsActive(k.flags) /\ "FAILED" \notin k.flags
In(k) == k.kind = "in" /\ "FAILED" \notin k.flags
Out(k) == k.kind = "out" /\ "FAILED" \notin k.flags
Allocated(k) == k.kind # "none" /\ k.at # "new"
Special(k) == "SPECIAL" \in k.flags \/ k.at = "special"

Actives == {c \in Fd : Acting(conn[c])}
Ins == {c \in Fd : In(conn[c])}
Outs == {c \in Fd : Out(conn[c])}
Allocateds == {c \in Fd : Allocated(conn[c])}
Specials == {c \in Fd : Special(conn[c])}

Counted == /\ stat.active = Cardinality(Actives) /\ stat.inbound = Cardinality(Ins)
           /\ stat.outbound = Cardinality(Outs) /\ stat.allocated = Cardinality(Allocateds)
           /\ special = Cardinality(Specials)

\* The exact counters, with the counted sets named.
LEMMA CountersAre ==
  CountersExact <=> TypeOK /\ Counted
  BY DEF CountersExact, Counted, Actives, Ins, Outs, Allocateds, Specials, Acting, In, Out,
         Allocated, Special, Closed

\* A step on c changes each count by what it does to c.
LEMMA ActivesStep ==
  ASSUME NEW c \in Fd, \A d \in Fd : d # c => conn'[d] = conn[d]
  PROVE  /\ (Acting(conn'[c]) <=> Acting(conn[c])) => Cardinality(Actives') = Cardinality(Actives)
         /\ Acting(conn'[c]) /\ ~Acting(conn[c]) => Cardinality(Actives') = Cardinality(Actives) + 1
         /\ ~Acting(conn'[c]) /\ Acting(conn[c]) => Cardinality(Actives') = Cardinality(Actives) - 1
  <1>1. IsFiniteSet(Actives)
    BY ConnectionAssumption, FS_Subset DEF Actives
  <1>2. Actives' = {d \in Fd : Acting(conn'[d])}
    BY DEF Actives, Acting, IsActive
  <1>3. (Acting(conn'[c]) <=> Acting(conn[c])) => Actives' = Actives
    BY <1>2 DEF Actives
  <1>4. Acting(conn'[c]) /\ ~Acting(conn[c]) => Actives' = Actives \union {c} /\ c \notin Actives
    BY <1>2 DEF Actives
  <1>5. ~Acting(conn'[c]) /\ Acting(conn[c]) => Actives' = Actives \ {c} /\ c \in Actives
    BY <1>2 DEF Actives
  <1>6. QED  BY <1>1, <1>3, <1>4, <1>5, FS_AddElement, FS_RemoveElement

LEMMA InsStep ==
  ASSUME NEW c \in Fd, \A d \in Fd : d # c => conn'[d] = conn[d]
  PROVE  /\ (In(conn'[c]) <=> In(conn[c])) => Cardinality(Ins') = Cardinality(Ins)
         /\ In(conn'[c]) /\ ~In(conn[c]) => Cardinality(Ins') = Cardinality(Ins) + 1
         /\ ~In(conn'[c]) /\ In(conn[c]) => Cardinality(Ins') = Cardinality(Ins) - 1
  <1>1. IsFiniteSet(Ins)
    BY ConnectionAssumption, FS_Subset DEF Ins
  <1>2. Ins' = {d \in Fd : In(conn'[d])}
    BY DEF Ins, In, IsActive
  <1>3. (In(conn'[c]) <=> In(conn[c])) => Ins' = Ins
    BY <1>2 DEF Ins
  <1>4. In(conn'[c]) /\ ~In(conn[c]) => Ins' = Ins \union {c} /\ c \notin Ins
    BY <1>2 DEF Ins
  <1>5. ~In(conn'[c]) /\ In(conn[c]) => Ins' = Ins \ {c} /\ c \in Ins
    BY <1>2 DEF Ins
  <1>6. QED  BY <1>1, <1>3, <1>4, <1>5, FS_AddElement, FS_RemoveElement

LEMMA OutsStep ==
  ASSUME NEW c \in Fd, \A d \in Fd : d # c => conn'[d] = conn[d]
  PROVE  /\ (Out(conn'[c]) <=> Out(conn[c])) => Cardinality(Outs') = Cardinality(Outs)
         /\ Out(conn'[c]) /\ ~Out(conn[c]) => Cardinality(Outs') = Cardinality(Outs) + 1
         /\ ~Out(conn'[c]) /\ Out(conn[c]) => Cardinality(Outs') = Cardinality(Outs) - 1
  <1>1. IsFiniteSet(Outs)
    BY ConnectionAssumption, FS_Subset DEF Outs
  <1>2. Outs' = {d \in Fd : Out(conn'[d])}
    BY DEF Outs, Out, IsActive
  <1>3. (Out(conn'[c]) <=> Out(conn[c])) => Outs' = Outs
    BY <1>2 DEF Outs
  <1>4. Out(conn'[c]) /\ ~Out(conn[c]) => Outs' = Outs \union {c} /\ c \notin Outs
    BY <1>2 DEF Outs
  <1>5. ~Out(conn'[c]) /\ Out(conn[c]) => Outs' = Outs \ {c} /\ c \in Outs
    BY <1>2 DEF Outs
  <1>6. QED  BY <1>1, <1>3, <1>4, <1>5, FS_AddElement, FS_RemoveElement

LEMMA AllocatedsStep ==
  ASSUME NEW c \in Fd, \A d \in Fd : d # c => conn'[d] = conn[d]
  PROVE  /\ (Allocated(conn'[c]) <=> Allocated(conn[c])) => Cardinality(Allocateds') = Cardinality(Allocateds)
         /\ Allocated(conn'[c]) /\ ~Allocated(conn[c]) => Cardinality(Allocateds') = Cardinality(Allocateds) + 1
         /\ ~Allocated(conn'[c]) /\ Allocated(conn[c]) => Cardinality(Allocateds') = Cardinality(Allocateds) - 1
  <1>1. IsFiniteSet(Allocateds)
    BY ConnectionAssumption, FS_Subset DEF Allocateds
  <1>2. Allocateds' = {d \in Fd : Allocated(conn'[d])}
    BY DEF Allocateds, Allocated, IsActive
  <1>3. (Allocated(conn'[c]) <=> Allocated(conn[c])) => Allocateds' = Allocateds
    BY <1>2 DEF Allocateds
  <1>4. Allocated(conn'[c]) /\ ~Allocated(conn[c]) => Allocateds' = Allocateds \union {c} /\ c \notin Allocateds
    BY <1>2 DEF Allocateds
  <1>5. ~Allocated(conn'[c]) /\ Allocated(conn[c]) => Allocateds' = Allocateds \ {c} /\ c \in Allocateds
    BY <1>2 DEF Allocateds
  <1>6. QED  BY <1>1, <1>3, <1>4, <1>5, FS_AddElement, FS_RemoveElement

LEMMA SpecialsStep ==
  ASSUME NEW c \in Fd, \A d \in Fd : d # c => conn'[d] = conn[d]
  PROVE  /\ (Special(conn'[c]) <=> Special(conn[c])) => Cardinality(Specials') = Cardinality(Specials)
         /\ Special(conn'[c]) /\ ~Special(conn[c]) => Cardinality(Specials') = Cardinality(Specials) + 1
         /\ ~Special(conn'[c]) /\ Special(conn[c]) => Cardinality(Specials') = Cardinality(Specials) - 1
  <1>1. IsFiniteSet(Specials)
    BY ConnectionAssumption, FS_Subset DEF Specials
  <1>2. Specials' = {d \in Fd : Special(conn'[d])}
    BY DEF Specials, Special, IsActive
  <1>3. (Special(conn'[c]) <=> Special(conn[c])) => Specials' = Specials
    BY <1>2 DEF Specials
  <1>4. Special(conn'[c]) /\ ~Special(conn[c]) => Specials' = Specials \union {c} /\ c \notin Specials
    BY <1>2 DEF Specials
  <1>5. ~Special(conn'[c]) /\ Special(conn[c]) => Specials' = Specials \ {c} /\ c \in Specials
    BY <1>2 DEF Specials
  <1>6. QED  BY <1>1, <1>3, <1>4, <1>5, FS_AddElement, FS_RemoveElement

\* What the counters count is never more than the descriptors there are.
LEMMA TypesNow ==
  ASSUME Counted', conn' \in [Fd -> ConnRec], sock' \in [Fd -> SockRec], ev' \in [Fd -> EvRec],
         main' \in [at : {"idle", "limit", "remove", "socket", "fail", "report"},
                    c : Fd \union {NoFd}, l : Listener \union {NoFd}],
         user' \in [at : {"idle", "pinned", "socket", "holds"}, c : Fd \union {NoFd}],
         listening' \in [Listener -> BOOLEAN], aux' \in [Listener -> BOOLEAN], down' \in BOOLEAN,
         stat' \in [allocated : Int, inbound : Int, outbound : Int, active : Int]
  PROVE  TypeOK'
  <1>1. IsFiniteSet(Fd) /\ Cardinality(Fd) \in Nat
    BY ConnectionAssumption, FS_CardinalityType
  <1>2. \A S \in SUBSET Fd : Cardinality(S) \in 0 .. Cardinality(Fd)
    <2>1. ASSUME NEW S \in SUBSET Fd PROVE Cardinality(S) \in 0 .. Cardinality(Fd)
      <3>1. IsFiniteSet(S) /\ Cardinality(S) <= Cardinality(Fd)
        BY <1>1, FS_Subset
      <3>2. QED  BY <1>1, <3>1, FS_CardinalityType
    <2>2. QED  BY <2>1
  <1>3. /\ Actives' \in SUBSET Fd /\ Ins' \in SUBSET Fd /\ Outs' \in SUBSET Fd
        /\ Allocateds' \in SUBSET Fd /\ Specials' \in SUBSET Fd
    BY DEF Actives, Ins, Outs, Allocateds, Specials
  <1>4. /\ stat'.active \in 0 .. Cardinality(Fd) /\ stat'.inbound \in 0 .. Cardinality(Fd)
        /\ stat'.outbound \in 0 .. Cardinality(Fd) /\ stat'.allocated \in 0 .. Cardinality(Fd)
        /\ special' \in 0 .. Cardinality(Fd)
    BY <1>2, <1>3 DEF Counted
  <1>5. stat' \in [allocated : 0 .. Cardinality(Fd), inbound : 0 .. Cardinality(Fd),
                   outbound : 0 .. Cardinality(Fd), active : 0 .. Cardinality(Fd)]
    BY <1>4
  <1>6. QED  BY <1>4, <1>5 DEF TypeOK, ConnRec, SockRec, EvRec

-----------------------------------------------------------------------------
(* One step *)

\* The change of a count when one member's membership changes.
Delta(before, after) == IF after /\ ~before THEN 1 ELSE IF before /\ ~after THEN -1 ELSE 0

MainRec == [at : {"idle", "limit", "remove", "socket", "fail", "report"},
            c : Fd \union {NoFd}, l : Listener \union {NoFd}]
UserRec == [at : {"idle", "pinned", "socket", "holds"}, c : Fd \union {NoFd}]
StatRec == [allocated : Int, inbound : Int, outbound : Int, active : Int]

Tallied(c) ==
  /\ stat' \in StatRec
  /\ stat'.active = stat.active + Delta(Acting(conn[c]), Acting(conn'[c]))
  /\ stat'.inbound = stat.inbound + Delta(In(conn[c]), In(conn'[c]))
  /\ stat'.outbound = stat.outbound + Delta(Out(conn[c]), Out(conn'[c]))
  /\ stat'.allocated = stat.allocated + Delta(Allocated(conn[c]), Allocated(conn'[c]))
  /\ special' = special + Delta(Special(conn[c]), Special(conn'[c]))

ShapeNow(c) == /\ Life(conn'[c], sock'[c], M(c)')
               /\ References(conn'[c], sock'[c], ev'[c], U(c)')
               /\ Events(sock'[c], ev'[c], U(c)')
               /\ Failing(conn'[c], sock'[c], M(c)')
               /\ Connecting(conn'[c], sock'[c])

\* What is known of the state before a step, about the connection c.
Before(c) ==
  /\ TypeOK /\ Counted /\ Shapes /\ Actors /\ Listeners /\ DownShape
  /\ Life(conn[c], sock[c], M(c)) /\ References(conn[c], sock[c], ev[c], U(c))
  /\ Events(sock[c], ev[c], U(c))
  /\ Failing(conn[c], sock[c], M(c)) /\ Connecting(conn[c], sock[c])
  /\ conn[c] \in ConnRec /\ sock[c] \in SockRec /\ ev[c] \in EvRec
  /\ conn \in [Fd -> ConnRec] /\ sock \in [Fd -> SockRec] /\ ev \in [Fd -> EvRec]
  /\ main \in MainRec /\ user \in UserRec /\ stat \in StatRec /\ special \in Int
  /\ listening \in [Listener -> BOOLEAN] /\ aux \in [Listener -> BOOLEAN] /\ down \in BOOLEAN

\* A step that changes neither the counts nor what c is counted for.
LEMMA SameTally ==
  ASSUME NEW c \in Fd, stat' = stat, special' = special, stat \in StatRec, special \in Int,
         conn'[c].kind = conn[c].kind, conn'[c].at = conn[c].at,
         conn'[c].flags = conn[c].flags \/ conn'[c].flags = conn[c].flags \union {"ERROR"}
  PROVE  Tallied(c)
  <1>1. /\ Acting(conn'[c]) = Acting(conn[c]) /\ In(conn'[c]) = In(conn[c])
        /\ Out(conn'[c]) = Out(conn[c]) /\ Allocated(conn'[c]) = Allocated(conn[c])
        /\ Special(conn'[c]) = Special(conn[c])
    BY DEF Acting, In, Out, Allocated, Special, IsActive
  <1>2. /\ stat.active \in Int /\ stat.inbound \in Int /\ stat.outbound \in Int
        /\ stat.allocated \in Int
    BY DEF StatRec
  <1>3. QED  BY <1>1, <1>2 DEF Tallied, Delta

\* All of it holds before a step.
LEMMA BeforeStep ==
  ASSUME IInv, NEW c \in Fd
  PROVE  Before(c)
  <1>1. TypeOK /\ Counted /\ Shapes /\ Actors /\ Listeners /\ DownShape
    BY CountersAre DEF IInv
  <1>2. /\ Life(conn[c], sock[c], M(c)) /\ References(conn[c], sock[c], ev[c], U(c))
        /\ Events(sock[c], ev[c], U(c))
        /\ Failing(conn[c], sock[c], M(c)) /\ Connecting(conn[c], sock[c])
    BY <1>1 DEF Shapes, Shape
  <1>3. /\ conn \in [Fd -> ConnRec] /\ sock \in [Fd -> SockRec] /\ ev \in [Fd -> EvRec]
        /\ special \in Int /\ stat \in StatRec
    BY <1>1, Types DEF StatRec
  <1>4. /\ conn[c] \in ConnRec /\ sock[c] \in SockRec /\ ev[c] \in EvRec
    BY <1>3
  <1>5. /\ main \in MainRec /\ user \in UserRec
        /\ listening \in [Listener -> BOOLEAN] /\ aux \in [Listener -> BOOLEAN] /\ down \in BOOLEAN
    BY <1>1 DEF TypeOK, MainRec, UserRec
  <1>6. QED  BY <1>1, <1>2, <1>3, <1>4, <1>5 DEF Before

\* What has to be shown of a step that changes nothing but the connection c.
OthersSame(c) ==
  /\ conn' \in [Fd -> ConnRec] /\ sock' \in [Fd -> SockRec] /\ ev' \in [Fd -> EvRec]
  /\ \A d \in Fd : d # c => /\ conn'[d] = conn[d] /\ sock'[d] = sock[d] /\ ev'[d] = ev[d]
                            /\ M(d)' = M(d) /\ U(d)' = U(d)

TypedRest == /\ main' \in MainRec /\ user' \in UserRec
             /\ listening' \in [Listener -> BOOLEAN] /\ aux' \in [Listener -> BOOLEAN]
             /\ down' \in BOOLEAN

\* A step that touches c only keeps the invariant if it keeps c in shape and counts it.
LEMMA OneStep ==
  ASSUME IInv, NEW c \in Fd, OthersSame(c), ShapeNow(c), Tallied(c), TypedRest,
         Actors', Listeners', DownShape'
  PROVE  IInv'
  <1>1. TypeOK /\ Counted /\ Shapes
    BY CountersAre DEF IInv
  <1>2. Shapes'
    <2>1. Shape(conn'[c], sock'[c], ev'[c], M(c)', U(c)')
      BY DEF ShapeNow, Shape
    <2>2. QED  BY <1>1, <2>1, OthersStay DEF OthersSame
  <1>3. \A d \in Fd : d # c => conn'[d] = conn[d]
    BY DEF OthersSame
  <1>4. /\ Cardinality(Actives) \in Int /\ Cardinality(Ins) \in Int /\ Cardinality(Outs) \in Int
        /\ Cardinality(Allocateds) \in Int /\ Cardinality(Specials) \in Int
    BY <1>1, Types DEF Counted
  <1>5. Counted'
    <2>1. stat'.active = Cardinality(Actives')
      BY <1>1, <1>3, <1>4, ActivesStep DEF Counted, Tallied, Delta
    <2>2. stat'.inbound = Cardinality(Ins')
      BY <1>1, <1>3, <1>4, InsStep DEF Counted, Tallied, Delta
    <2>3. stat'.outbound = Cardinality(Outs')
      BY <1>1, <1>3, <1>4, OutsStep DEF Counted, Tallied, Delta
    <2>4. stat'.allocated = Cardinality(Allocateds')
      BY <1>1, <1>3, <1>4, AllocatedsStep DEF Counted, Tallied, Delta
    <2>5. special' = Cardinality(Specials')
      BY <1>1, <1>3, <1>4, SpecialsStep DEF Counted, Tallied, Delta
    <2>6. QED  BY <2>1, <2>2, <2>3, <2>4, <2>5 DEF Counted
  <1>6. TypeOK'
    BY <1>5, TypesNow DEF OthersSame, TypedRest, Tallied, MainRec, UserRec, StatRec
  <1>7. CountersExact'
    <2>1. (CountersExact <=> TypeOK /\ Counted)'
      BY CountersAre, PTL
    <2>2. QED  BY <2>1, <1>5, <1>6
  <1>8. QED  BY <1>2, <1>7 DEF IInv

\* The statistics stay integers.
LEMMA StatSet ==
  ASSUME NEW s \in StatRec, NEW i \in Int, NEW o \in Int, NEW a \in Int
  PROVE  /\ [s EXCEPT !.inbound = i, !.active = a] \in StatRec
         /\ [s EXCEPT !.inbound = i, !.outbound = o, !.active = a] \in StatRec
  BY DEF StatRec

\* What the two helpers of the handlers return.
LEMMA ReadiedIs ==
  ASSUME NEW k \in ConnRec
  PROVE  /\ Readied(k) \in ConnRec /\ Readied(k).flags = k.flags \ {"READY_PENDING"}
         /\ Readied(k).status = (IF "READY_PENDING" \in k.flags /\ k.status = "connecting"
                                 THEN "working" ELSE k.status)
         /\ Readied(k).kind = k.kind /\ Readied(k).io = k.io /\ Readied(k).refs = k.refs
         /\ Readied(k).pend = k.pend /\ Readied(k).at = k.at
  <1>1. CASE "READY_PENDING" \notin k.flags
    BY <1>1 DEF Readied, ConnRec
  <1>2. CASE "READY_PENDING" \in k.flags
    BY <1>2 DEF Readied, ConnRec
  <1>3. QED  BY <1>1, <1>2

LEMMA FailedIs ==
  ASSUME NEW k \in ConnRec
  PROVE  /\ Failed(k) \in ConnRec /\ Failed(k).flags = k.flags \union {"ERROR"}
         /\ Failed(k).kind = k.kind /\ Failed(k).io = k.io /\ Failed(k).refs = k.refs
         /\ Failed(k).at = k.at
         /\ "ERROR" \in k.flags => Failed(k) = k
         /\ "ERROR" \notin k.flags => /\ Failed(k).status = "error"
                                      /\ Failed(k).pend = k.pend \union {"ABORT"}
  <1>1. CASE "ERROR" \in k.flags
    BY <1>1 DEF Failed, ConnRec
  <1>2. CASE "ERROR" \notin k.flags
    BY <1>2 DEF Failed, ConnRec
  <1>3. QED  BY <1>1, <1>2

\* The outcomes of the handlers that have several.
Waking(c) == /\ ~down /\ conn[c].at = "rw"
             /\ stat' = [stat EXCEPT !.active = IF "READY_PENDING" \in conn[c].flags THEN @ + 1 ELSE @]
             /\ sock' = [sock EXCEPT ![c].pend = @ \union {"RUN"}]
             /\ conn' = [conn EXCEPT ![c] = [Readied(conn[c]) EXCEPT !.at = "idle"]]
             /\ UNCHANGED <<ev, main, user, listening, aux, special, down>>

RwFailing(c) == /\ ~down /\ conn[c].at = "rw"
                /\ stat' = [stat EXCEPT !.active = IF "READY_PENDING" \in conn[c].flags THEN @ + 1 ELSE @]
                /\ conn' = [conn EXCEPT ![c] = Failed([Readied(conn[c]) EXCEPT !.at = "idle"])]
                /\ UNCHANGED <<sock, ev, main, user, listening, aux, special, down>>

AskingClose(c) == /\ ~down /\ conn[c].at = "rw"
                  /\ stat' = [stat EXCEPT !.active = IF "READY_PENDING" \in conn[c].flags THEN @ + 1 ELSE @]
                  /\ conn' = [conn EXCEPT ![c] = [Readied(conn[c]) EXCEPT !.at = "wclose"]]
                  /\ UNCHANGED <<sock, ev, main, user, listening, aux, special, down>>

UserFailing(c) == /\ ~down /\ user.at = "holds"
                  /\ conn' = [conn EXCEPT ![c] = [Failed(conn[c]) EXCEPT !.refs = @ \ {"user"}]]
                  /\ user' = [at |-> "idle", c |-> NoFd]
                  /\ UNCHANGED <<sock, ev, main, listening, aux, special, stat, down>>

UserRunning(c) == /\ ~down /\ user.at = "holds"
                  /\ conn' = [conn EXCEPT ![c] = [[conn[c] EXCEPT !.pend = @ \union {"RUN"}] EXCEPT !.refs = @ \ {"user"}]]
                  /\ user' = [at |-> "idle", c |-> NoFd]
                  /\ UNCHANGED <<sock, ev, main, listening, aux, special, stat, down>>

-----------------------------------------------------------------------------
(* One action at a time *)

\* net_accept_new_connections: a connection that is not unlocked yet.
LEMMA AcceptStep ==
  ASSUME IInv, NEW c \in Fd, NEW l \in Listener, Accept(l, c)
  PROVE  IInv'
  <1>1. Before(c)
    BY BeforeStep
  <1>2. ~down /\ main.at = "idle" /\ M(c) = "idle" /\ conn[c] = NoConn /\ sock[c] = NoSock
    BY <1>1 DEF Accept, MainIdle, Before, M, U, Actors, Life, References, Events, Failing
  <1>3. /\ conn' = [conn EXCEPT ![c] = [NoConn EXCEPT !.kind = "in", !.status = "working",
                    !.flags = {"CONNECTED", "SPECIAL"}, !.refs = {"creator"}, !.at = "new"]]
        /\ stat' = [stat EXCEPT !.inbound = @ + 1, !.active = @ + 1]
        /\ special' = special + 1 /\ sock' = sock /\ ev' = ev
    BY <1>2 DEF Accept, MainIdle
  <1>4. ConnIs(c, "in", {"CONNECTED", "SPECIAL"}, "working", FALSE, {"creator"}, {}, "new")
    BY <1>1, <1>2, <1>3, ZenonT(60) DEF Before, ConnIs, ConnRec, Life, NoConn
  <1>5. SockIs(c, sock[c].alive, sock[c].flags, sock[c].refs, sock[c].pend, sock[c].at)
    BY <1>1, <1>2, <1>3, SockStays DEF Before
  <1>6. EvIs(c, ev[c].refcnt, ev[c].data)
    BY <1>1, <1>2, <1>3, EvStays DEF Before
  <1>7. MIs(c, "limit") /\ UIs(c, U(c))
    BY <1>1, <1>2, ConnectionAssumption DEF Accept, MainIdle, Before, Actors, MIs, UIs, M, U,
       MainTo, MainDone, UserTo, MainRec, UserRec
  <1>8. TypedRest
    BY <1>1, <1>2, ConnectionAssumption DEF Accept, MainIdle, Before, TypedRest, MainTo,
       MainDone, UserTo, MainRec, UserRec
  <1>9. OthersSame(c)
    BY <1>4, <1>5, <1>6, <1>7 DEF OthersSame, ConnIs, SockIs, EvIs, MIs, UIs
  <1>10. ShapeNow(c)
    <2>1. Life(conn'[c], sock'[c], M(c)')
      BY <1>1, <1>2, <1>4, <1>5, <1>7 DEF Before, ConnIs, SockIs, EvIs, MIs, UIs, Life, NoConn,
         NoSock, ConnRec, SockRec, EvRec
    <2>2. References(conn'[c], sock'[c], ev'[c], U(c)')
      BY <1>1, <1>2, <1>4, <1>5, <1>6, <1>7 DEF Before, ConnIs, SockIs, EvIs, MIs, UIs,
         References, Life, Failing, NoConn, NoSock, ConnRec, SockRec, EvRec
    <2>3. Events(sock'[c], ev'[c], U(c)')
      BY <1>1, <1>2, <1>5, <1>6, <1>7 DEF Before, ConnIs, SockIs, EvIs, MIs, UIs, Events,
         References, Life, NoConn, NoSock, ConnRec, SockRec, EvRec
    <2>4. Failing(conn'[c], sock'[c], M(c)')
      BY <1>1, <1>2, <1>4, <1>5, <1>7 DEF Before, ConnIs, SockIs, EvIs, MIs, UIs, Failing, Life,
         References, NoConn, NoSock, ConnRec, SockRec, EvRec
    <2>5. Connecting(conn'[c], sock'[c])
      BY <1>1, <1>2, <1>4, <1>5 DEF Before, ConnIs, SockIs, EvIs, MIs, UIs, Connecting, Life,
         References, Failing, NoConn, NoSock, ConnRec, SockRec, EvRec
    <2>6. QED  BY <2>1, <2>2, <2>3, <2>4, <2>5 DEF ShapeNow
  <1>11. Tallied(c)
    <2>1. /\ Acting(conn'[c]) /\ ~Acting(conn[c]) /\ In(conn'[c]) /\ ~In(conn[c])
          /\ ~Out(conn'[c]) /\ ~Out(conn[c]) /\ ~Allocated(conn'[c]) /\ ~Allocated(conn[c])
          /\ Special(conn'[c]) /\ ~Special(conn[c])
      BY <1>1, <1>2, <1>4 DEF Before, Acting, In, Out, Allocated, Special, IsActive, ConnIs,
         Life, Failing, References, Connecting, NoConn, ConnRec
    <2>2. stat \in StatRec /\ special \in Int
      BY <1>1 DEF Before
    <2>3. /\ special' = special + 1
          /\ stat'.active = stat.active + 1 /\ stat'.inbound = stat.inbound + 1
          /\ stat'.outbound = stat.outbound /\ stat'.allocated = stat.allocated
      BY <2>2, <1>3 DEF StatRec
    <2>4. stat' \in StatRec
      <3>1. stat.inbound + 1 \in Int /\ stat.outbound \in Int /\ stat.active + 1 \in Int
        BY <2>2 DEF StatRec
      <3>2. QED  BY <2>2, <1>3, <3>1, StatSet
    <2>5. QED  BY <2>1, <2>2, <2>3, <2>4 DEF Tallied, StatRec, Delta
  <1>12. Actors'
    BY <1>1, <1>2, ConnectionAssumption DEF Accept, MainIdle, Before, Actors, MainTo, MainDone,
       UserTo, MainRec, UserRec
  <1>13. Listeners'
    <2> SUFFICES ASSUME special' < MaxSpecial, \A d \in Fd : conn'[d].at # "notify"
               PROVE  \A k \in Listener : aux'[k] \/ (listening'[k] /\ ~(main'.at = "remove" /\ main'.l = k))
      BY DEF Listeners
    <2>1. special < MaxSpecial
      BY <1>1, <1>2, <1>4, ConnectionAssumption DEF Accept, MainIdle, Before, ConnIs
    <2>2. \A d \in Fd : conn[d].at # "notify"
      BY <1>1, <1>2, <1>4 DEF Before, ConnIs, NoConn
    <2>3. main'.at # "remove" \/ main' = main
      BY <1>1, <1>2, <2>1, ConnectionAssumption DEF Accept, MainIdle, Before, MainRec, MainTo
    <2>4. listening' = listening /\ aux' = aux
      BY DEF Accept, MainIdle
    <2>5. QED  BY <1>1, <2>1, <2>2, <2>3, <2>4 DEF Before, Listeners
  <1>14. DownShape'
    BY <1>1, <1>2 DEF Accept, MainIdle, Before, DownShape
  <1>15. QED  BY <1>8, <1>9, <1>10, <1>11, <1>12, <1>13, <1>14, OneStep

\* The limit is read after the addition.
LEMMA AcceptLimitStep ==
  ASSUME IInv, NEW c \in Fd, AcceptLimit, c = main.c
  PROVE  IInv'
  <1>1. Before(c)
    BY BeforeStep
  <1>2. ~down /\ main.at = "limit" /\ M(c) = "limit"
    BY <1>1 DEF AcceptLimit, Before, M, U, Actors, Life, References, Events, Failing
  <1>3. ConnIs(c, conn[c].kind, conn[c].flags, conn[c].status, conn[c].io, conn[c].refs,
               conn[c].pend, conn[c].at)
    BY <1>1, <1>2, ConnStays DEF AcceptLimit, Before
  <1>4. SockIs(c, sock[c].alive, sock[c].flags, sock[c].refs, sock[c].pend, sock[c].at)
    BY <1>1, <1>2, SockStays DEF AcceptLimit, Before
  <1>5. EvIs(c, ev[c].refcnt, ev[c].data)
    BY <1>1, <1>2, EvStays DEF AcceptLimit, Before
  <1>6. MIs(c, IF special >= MaxSpecial THEN "remove" ELSE "socket") /\ UIs(c, U(c))
    BY <1>1, <1>2, ConnectionAssumption DEF AcceptLimit, Before, Actors, MIs, UIs, M, U, MainTo,
       MainDone, UserTo, MainRec, UserRec
  <1>7. TypedRest
    BY <1>1, <1>2, ConnectionAssumption DEF AcceptLimit, Before, TypedRest, MainTo, MainDone,
       UserTo, MainRec, UserRec
  <1>8. OthersSame(c)
    BY <1>3, <1>4, <1>5, <1>6 DEF OthersSame, ConnIs, SockIs, EvIs, MIs, UIs
  <1>9. ShapeNow(c)
    <2>1. Life(conn'[c], sock'[c], M(c)')
      BY <1>1, <1>2, <1>3, <1>4, <1>6 DEF Before, ConnIs, SockIs, EvIs, MIs, UIs, Life, NoConn,
         NoSock, ConnRec, SockRec, EvRec
    <2>2. References(conn'[c], sock'[c], ev'[c], U(c)')
      BY <1>1, <1>2, <1>3, <1>4, <1>5, <1>6 DEF Before, ConnIs, SockIs, EvIs, MIs, UIs,
         References, Life, Failing, NoConn, NoSock, ConnRec, SockRec, EvRec
    <2>3. Events(sock'[c], ev'[c], U(c)')
      BY <1>1, <1>2, <1>4, <1>5, <1>6 DEF Before, ConnIs, SockIs, EvIs, MIs, UIs, Events,
         References, Life, NoConn, NoSock, ConnRec, SockRec, EvRec
    <2>4. Failing(conn'[c], sock'[c], M(c)')
      BY <1>1, <1>2, <1>3, <1>4, <1>6 DEF Before, ConnIs, SockIs, EvIs, MIs, UIs, Failing, Life,
         References, NoConn, NoSock, ConnRec, SockRec, EvRec
    <2>5. Connecting(conn'[c], sock'[c])
      BY <1>1, <1>2, <1>3, <1>4 DEF Before, ConnIs, SockIs, EvIs, MIs, UIs, Connecting, Life,
         References, Failing, NoConn, NoSock, ConnRec, SockRec, EvRec
    <2>6. QED  BY <2>1, <2>2, <2>3, <2>4, <2>5 DEF ShapeNow
  <1>10. Tallied(c)
    BY <1>1, <1>2, <1>3 DEF AcceptLimit, Before, Tallied, StatRec, Delta, Acting, In, Out,
       Allocated, Special, IsActive, ConnIs, Life, Failing, References, Connecting, NoConn,
       ConnRec
  <1>11. Actors'
    BY <1>1, <1>2, ConnectionAssumption DEF AcceptLimit, Before, Actors, MainTo, MainDone,
       UserTo, MainRec, UserRec
  <1>12. Listeners'
    <2> SUFFICES ASSUME special' < MaxSpecial, \A d \in Fd : conn'[d].at # "notify"
               PROVE  \A l \in Listener : aux'[l] \/ (listening'[l] /\ ~(main'.at = "remove" /\ main'.l = l))
      BY DEF Listeners
    <2>1. special < MaxSpecial
      BY <1>1, <1>2, <1>3, ConnectionAssumption DEF AcceptLimit, Before, ConnIs
    <2>2. \A d \in Fd : conn[d].at # "notify"
      BY <1>1, <1>2, <1>3 DEF Before, ConnIs, NoConn
    <2>3. main'.at # "remove" \/ main' = main
      BY <1>1, <1>2, <2>1, ConnectionAssumption DEF AcceptLimit, Before, MainRec, MainTo
    <2>4. listening' = listening /\ aux' = aux
      BY DEF AcceptLimit
    <2>5. QED  BY <1>1, <2>1, <2>2, <2>3, <2>4 DEF Before, Listeners
  <1>13. DownShape'
    BY <1>1, <1>2 DEF AcceptLimit, Before, DownShape
  <1>14. QED  BY <1>7, <1>8, <1>9, <1>10, <1>11, <1>12, <1>13, OneStep

\* The listener leaves epoll.
LEMMA AcceptRemoveStep ==
  ASSUME IInv, NEW c \in Fd, AcceptRemove, c = main.c
  PROVE  IInv'
  <1>1. Before(c)
    BY BeforeStep
  <1>2. ~down /\ main.at = "remove" /\ M(c) = "remove"
    BY <1>1 DEF AcceptRemove, Before, M, U, Actors, Life, References, Events, Failing
  <1>3. ConnIs(c, conn[c].kind, conn[c].flags, conn[c].status, conn[c].io, conn[c].refs,
               conn[c].pend, conn[c].at)
    BY <1>1, <1>2, ConnStays DEF AcceptRemove, Before
  <1>4. SockIs(c, sock[c].alive, sock[c].flags, sock[c].refs, sock[c].pend, sock[c].at)
    BY <1>1, <1>2, SockStays DEF AcceptRemove, Before
  <1>5. EvIs(c, ev[c].refcnt, ev[c].data)
    BY <1>1, <1>2, EvStays DEF AcceptRemove, Before
  <1>6. MIs(c, "socket") /\ UIs(c, U(c))
    BY <1>1, <1>2, ConnectionAssumption DEF AcceptRemove, Before, Actors, MIs, UIs, M, U,
       MainTo, MainDone, UserTo, MainRec, UserRec
  <1>7. TypedRest
    BY <1>1, <1>2, ConnectionAssumption DEF AcceptRemove, Before, TypedRest, MainTo, MainDone,
       UserTo, MainRec, UserRec
  <1>8. OthersSame(c)
    BY <1>3, <1>4, <1>5, <1>6 DEF OthersSame, ConnIs, SockIs, EvIs, MIs, UIs
  <1>9. ShapeNow(c)
    <2>1. Life(conn'[c], sock'[c], M(c)')
      BY <1>1, <1>2, <1>3, <1>4, <1>6 DEF Before, ConnIs, SockIs, EvIs, MIs, UIs, Life, NoConn,
         NoSock, ConnRec, SockRec, EvRec
    <2>2. References(conn'[c], sock'[c], ev'[c], U(c)')
      BY <1>1, <1>2, <1>3, <1>4, <1>5, <1>6 DEF Before, ConnIs, SockIs, EvIs, MIs, UIs,
         References, Life, Failing, NoConn, NoSock, ConnRec, SockRec, EvRec
    <2>3. Events(sock'[c], ev'[c], U(c)')
      BY <1>1, <1>2, <1>4, <1>5, <1>6 DEF Before, ConnIs, SockIs, EvIs, MIs, UIs, Events,
         References, Life, NoConn, NoSock, ConnRec, SockRec, EvRec
    <2>4. Failing(conn'[c], sock'[c], M(c)')
      BY <1>1, <1>2, <1>3, <1>4, <1>6 DEF Before, ConnIs, SockIs, EvIs, MIs, UIs, Failing, Life,
         References, NoConn, NoSock, ConnRec, SockRec, EvRec
    <2>5. Connecting(conn'[c], sock'[c])
      BY <1>1, <1>2, <1>3, <1>4 DEF Before, ConnIs, SockIs, EvIs, MIs, UIs, Connecting, Life,
         References, Failing, NoConn, NoSock, ConnRec, SockRec, EvRec
    <2>6. QED  BY <2>1, <2>2, <2>3, <2>4, <2>5 DEF ShapeNow
  <1>10. Tallied(c)
    BY <1>1, <1>2, <1>3 DEF AcceptRemove, Before, Tallied, StatRec, Delta, Acting, In, Out,
       Allocated, Special, IsActive, ConnIs, Life, Failing, References, Connecting, NoConn,
       ConnRec
  <1>11. Actors'
    BY <1>1, <1>2, ConnectionAssumption DEF AcceptRemove, Before, Actors, MainTo, MainDone,
       UserTo, MainRec, UserRec
  <1>12. Listeners'
    BY <1>1, <1>2, <1>3 DEF AcceptRemove, Before, Listeners, ConnIs, MainTo, MainDone, MainRec
  <1>13. DownShape'
    BY <1>1, <1>2 DEF AcceptRemove, Before, DownShape
  <1>14. QED  BY <1>7, <1>8, <1>9, <1>10, <1>11, <1>12, <1>13, OneStep

\* An outbound connection.
LEMMA ConnectStep ==
  ASSUME IInv, NEW c \in Fd, Connect(c)
  PROVE  IInv'
  <1>1. Before(c)
    BY BeforeStep
  <1>2. ~down /\ main.at = "idle" /\ M(c) = "idle" /\ conn[c] = NoConn /\ sock[c] = NoSock
    BY <1>1 DEF Connect, MainIdle, Before, M, U, Actors, Life, References, Events, Failing
  <1>3. ConnIs(c, "out", {}, "connecting", FALSE, {"creator"}, {}, "new")
    BY <1>1, <1>2, ZenonT(60) DEF Connect, MainIdle, Before, ConnIs, ConnRec, Life, NoConn
  <1>4. SockIs(c, sock[c].alive, sock[c].flags, sock[c].refs, sock[c].pend, sock[c].at)
    BY <1>1, <1>2, SockStays DEF Connect, MainIdle, Before
  <1>5. EvIs(c, ev[c].refcnt, ev[c].data)
    BY <1>1, <1>2, EvStays DEF Connect, MainIdle, Before
  <1>6. MIs(c, "socket") /\ UIs(c, U(c))
    BY <1>1, <1>2, ConnectionAssumption DEF Connect, MainIdle, Before, Actors, MIs, UIs, M, U,
       MainTo, MainDone, UserTo, MainRec, UserRec
  <1>7. TypedRest
    BY <1>1, <1>2, ConnectionAssumption DEF Connect, MainIdle, Before, TypedRest, MainTo,
       MainDone, UserTo, MainRec, UserRec
  <1>8. OthersSame(c)
    BY <1>3, <1>4, <1>5, <1>6 DEF OthersSame, ConnIs, SockIs, EvIs, MIs, UIs
  <1>9. ShapeNow(c)
    <2>1. Life(conn'[c], sock'[c], M(c)')
      BY <1>1, <1>2, <1>3, <1>4, <1>6 DEF Before, ConnIs, SockIs, EvIs, MIs, UIs, Life, NoConn,
         NoSock, ConnRec, SockRec, EvRec
    <2>2. References(conn'[c], sock'[c], ev'[c], U(c)')
      BY <1>1, <1>2, <1>3, <1>4, <1>5, <1>6 DEF Before, ConnIs, SockIs, EvIs, MIs, UIs,
         References, Life, Failing, NoConn, NoSock, ConnRec, SockRec, EvRec
    <2>3. Events(sock'[c], ev'[c], U(c)')
      BY <1>1, <1>2, <1>4, <1>5, <1>6 DEF Before, ConnIs, SockIs, EvIs, MIs, UIs, Events,
         References, Life, NoConn, NoSock, ConnRec, SockRec, EvRec
    <2>4. Failing(conn'[c], sock'[c], M(c)')
      BY <1>1, <1>2, <1>3, <1>4, <1>6 DEF Before, ConnIs, SockIs, EvIs, MIs, UIs, Failing, Life,
         References, NoConn, NoSock, ConnRec, SockRec, EvRec
    <2>5. Connecting(conn'[c], sock'[c])
      BY <1>1, <1>2, <1>3, <1>4 DEF Before, ConnIs, SockIs, EvIs, MIs, UIs, Connecting, Life,
         References, Failing, NoConn, NoSock, ConnRec, SockRec, EvRec
    <2>6. QED  BY <2>1, <2>2, <2>3, <2>4, <2>5 DEF ShapeNow
  <1>10. Tallied(c)
    BY <1>1, <1>2, <1>3 DEF Connect, MainIdle, Before, Tallied, StatRec, Delta, Acting, In, Out,
       Allocated, Special, IsActive, ConnIs, Life, Failing, References, Connecting, NoConn,
       ConnRec
  <1>11. Actors'
    BY <1>1, <1>2, ConnectionAssumption DEF Connect, MainIdle, Before, Actors, MainTo, MainDone,
       UserTo, MainRec, UserRec
  <1>12. Listeners'
    <2> SUFFICES ASSUME special' < MaxSpecial, \A d \in Fd : conn'[d].at # "notify"
               PROVE  \A l \in Listener : aux'[l] \/ (listening'[l] /\ ~(main'.at = "remove" /\ main'.l = l))
      BY DEF Listeners
    <2>1. special < MaxSpecial
      BY <1>1, <1>2, <1>3, ConnectionAssumption DEF Connect, MainIdle, Before, ConnIs
    <2>2. \A d \in Fd : conn[d].at # "notify"
      BY <1>1, <1>2, <1>3 DEF Before, ConnIs, NoConn
    <2>3. main'.at # "remove" \/ main' = main
      BY <1>1, <1>2, <2>1, ConnectionAssumption DEF Connect, MainIdle, Before, MainRec, MainTo
    <2>4. listening' = listening /\ aux' = aux
      BY DEF Connect, MainIdle
    <2>5. QED  BY <1>1, <2>1, <2>2, <2>3, <2>4 DEF Before, Listeners
  <1>13. DownShape'
    BY <1>1, <1>2 DEF Connect, MainIdle, Before, DownShape
  <1>14. QED  BY <1>7, <1>8, <1>9, <1>10, <1>11, <1>12, <1>13, OneStep

\* alloc_new_socket_connection: its assertions hold.
LEMMA AllocSocketStep ==
  ASSUME IInv, NEW c \in Fd, AllocSocket, c = main.c
  PROVE  IInv'
  <1>1. Before(c)
    BY BeforeStep
  <1>2. /\ ~down /\ M(c) = "socket" /\ conn[c].at = "new" /\ conn[c].kind # "none"
        /\ sock[c] = NoSock /\ ~ev[c].data /\ ev[c].refcnt = 0
    BY <1>1 DEF AllocSocket, Before, M, U, Actors, Life, References, Events, Failing, NoSock
  <1>3. /\ conn' = [conn EXCEPT ![c].io = TRUE, ![c].refs = {"socket"}, ![c].at = "idle"]
        /\ sock' = [sock EXCEPT ![c] = [NoSock EXCEPT !.alive = TRUE, !.refs = {"table", "io"},
                           !.flags = conn[c].flags \intersect {"CONNECTED"}]]
        /\ ev' = [ev EXCEPT ![c] = [refcnt |-> 1, data |-> TRUE]]
        /\ stat' = [stat EXCEPT !.allocated = @ + 1] /\ special' = special
    BY <1>2 DEF AllocSocket
  <1>4. ConnIs(c, conn[c].kind, conn[c].flags, conn[c].status, TRUE, {"socket"},
               conn[c].pend, "idle")
    <2> DEFINE r == [conn[c] EXCEPT !.io = TRUE, !.refs = {"socket"}, !.at = "idle"]
    <2>1. conn' = [conn EXCEPT ![c] = r]
      BY <1>2, <1>3 DEF Before
    <2>2. /\ r.kind = conn[c].kind /\ r.flags = conn[c].flags
          /\ r.status = conn[c].status
          /\ r.io = TRUE /\ r.refs = {"socket"}
          /\ r.pend = conn[c].pend
          /\ r.at = "idle"
          /\ r \in ConnRec
      BY <1>1, <1>2 DEF Before, ConnRec
    <2> HIDE DEF r
    <2>3. QED  BY <1>1, <1>2, <2>1, <2>2 DEF Before, ConnIs
  <1>5. SockIs(c, TRUE, conn[c].flags \intersect {"CONNECTED"}, {"table", "io"}, {}, "idle")
    <2> DEFINE r == [NoSock EXCEPT !.alive = TRUE, !.refs = {"table", "io"}, !.flags = conn[c].flags \intersect {"CONNECTED"}]
    <2>1. /\ r.alive /\ r.flags = conn[c].flags \intersect {"CONNECTED"} /\ r.refs = {"table", "io"}
          /\ r.pend = {} /\ r.at = "idle" /\ r \in SockRec
      BY <1>1 DEF Before, NoSock, SockRec
    <2>2. sock' = [sock EXCEPT ![c] = r]
      BY <1>3
    <2> HIDE DEF r
    <2>3. QED  BY <1>1, <2>1, <2>2 DEF Before, SockIs
  <1>6. EvIs(c, 1, TRUE)
    BY <1>1, <1>2, <1>3 DEF Before, EvIs, EvRec
  <1>7. MIs(c, "idle") /\ UIs(c, U(c))
    BY <1>1, <1>2, ConnectionAssumption DEF AllocSocket, Before, Actors, MIs, UIs, M, U, MainTo,
       MainDone, UserTo, MainRec, UserRec
  <1>8. TypedRest
    BY <1>1, <1>2, ConnectionAssumption DEF AllocSocket, Before, TypedRest, MainTo, MainDone,
       UserTo, MainRec, UserRec
  <1>9. OthersSame(c)
    BY <1>4, <1>5, <1>6, <1>7 DEF OthersSame, ConnIs, SockIs, EvIs, MIs, UIs
  <1>10. ShapeNow(c)
    <2>1. Life(conn'[c], sock'[c], M(c)')
      BY <1>1, <1>2, <1>4, <1>5, <1>7 DEF Before, ConnIs, SockIs, EvIs, MIs, UIs, Life, NoConn,
         NoSock, ConnRec, SockRec, EvRec
    <2>2. References(conn'[c], sock'[c], ev'[c], U(c)')
      BY <1>1, <1>2, <1>4, <1>5, <1>6, <1>7 DEF Before, ConnIs, SockIs, EvIs, MIs, UIs,
         References, Life, Failing, NoConn, NoSock, ConnRec, SockRec, EvRec
    <2>3. Events(sock'[c], ev'[c], U(c)')
      BY <1>1, <1>2, <1>5, <1>6, <1>7 DEF Before, ConnIs, SockIs, EvIs, MIs, UIs, Events,
         References, Life, NoConn, NoSock, ConnRec, SockRec, EvRec
    <2>4. Failing(conn'[c], sock'[c], M(c)')
      BY <1>1, <1>2, <1>4, <1>5, <1>7 DEF Before, ConnIs, SockIs, EvIs, MIs, UIs, Failing, Life,
         References, NoConn, NoSock, ConnRec, SockRec, EvRec
    <2>5. Connecting(conn'[c], sock'[c])
      BY <1>1, <1>2, <1>4, <1>5 DEF Before, ConnIs, SockIs, EvIs, MIs, UIs, Connecting, Life,
         References, Failing, NoConn, NoSock, ConnRec, SockRec, EvRec
    <2>6. QED  BY <2>1, <2>2, <2>3, <2>4, <2>5 DEF ShapeNow
  <1>11. Tallied(c)
    <2>1. /\ (Acting(conn'[c]) <=> Acting(conn[c])) /\ (In(conn'[c]) <=> In(conn[c]))
          /\ (Out(conn'[c]) <=> Out(conn[c])) /\ (Special(conn'[c]) <=> Special(conn[c]))
          /\ Allocated(conn'[c]) /\ ~Allocated(conn[c])
      BY <1>1, <1>2, <1>4 DEF Before, Acting, In, Out, Allocated, Special, IsActive, ConnIs,
         Life, Failing, References, Connecting, NoConn, ConnRec
    <2>2. stat \in StatRec /\ special \in Int
      BY <1>1 DEF Before
    <2>3. /\ stat' \in StatRec /\ special' = special
          /\ stat'.active = stat.active /\ stat'.inbound = stat.inbound
          /\ stat'.outbound = stat.outbound /\ stat'.allocated = stat.allocated + 1
      BY <2>2, <1>3 DEF StatRec
    <2>4. stat' \in StatRec
      BY <2>3
    <2>5. QED  BY <2>1, <2>2, <2>3, <2>4 DEF Tallied, StatRec, Delta
  <1>12. Actors'
    BY <1>1, <1>2, ConnectionAssumption DEF AllocSocket, Before, Actors, MainTo, MainDone,
       UserTo, MainRec, UserRec
  <1>13. Listeners'
    BY <1>1, <1>2, <1>4 DEF AllocSocket, Before, Listeners, ConnIs, MainTo, MainDone, MainRec
  <1>14. DownShape'
    BY <1>1, <1>2 DEF AllocSocket, Before, DownShape
  <1>15. QED  BY <1>8, <1>9, <1>10, <1>11, <1>12, <1>13, <1>14, OneStep

\* An epoll event.
LEMMA GatewayStep ==
  ASSUME IInv, NEW c \in Fd, NEW s \in {"RUN", "ABORT"}, Gateway(c, s)
  PROVE  IInv'
  <1>1. Before(c)
    BY BeforeStep
  <1>2. ~down /\ sock[c].alive
    BY <1>1 DEF Gateway, MainIdle, Before, M, U, Actors, Life, References, Events, Failing,
       NoSock
  <1>3. ConnIs(c, conn[c].kind, conn[c].flags, conn[c].status, conn[c].io, conn[c].refs,
               conn[c].pend, conn[c].at)
    BY <1>1, <1>2, ConnStays DEF Gateway, MainIdle, Before
  <1>4. SockIs(c, sock[c].alive, sock[c].flags, sock[c].refs, sock[c].pend \union {s},
               sock[c].at)
    BY <1>1, <1>2 DEF Gateway, MainIdle, Before, SockIs, SockRec, Life, NoSock
  <1>5. EvIs(c, ev[c].refcnt, ev[c].data)
    BY <1>1, <1>2, EvStays DEF Gateway, MainIdle, Before
  <1>6. MIs(c, M(c)) /\ UIs(c, U(c))
    BY <1>1, <1>2, ConnectionAssumption DEF Gateway, MainIdle, Before, Actors, MIs, UIs, M, U,
       MainTo, MainDone, UserTo, MainRec, UserRec
  <1>7. TypedRest
    BY <1>1, <1>2, ConnectionAssumption DEF Gateway, MainIdle, Before, TypedRest, MainTo,
       MainDone, UserTo, MainRec, UserRec
  <1>8. OthersSame(c)
    BY <1>3, <1>4, <1>5, <1>6 DEF OthersSame, ConnIs, SockIs, EvIs, MIs, UIs
  <1>9. ShapeNow(c)
    <2>1. Life(conn'[c], sock'[c], M(c)')
      BY <1>1, <1>2, <1>3, <1>4, <1>6 DEF Before, ConnIs, SockIs, EvIs, MIs, UIs, Life, NoConn,
         NoSock, ConnRec, SockRec, EvRec
    <2>2. References(conn'[c], sock'[c], ev'[c], U(c)')
      BY <1>1, <1>2, <1>3, <1>4, <1>5, <1>6 DEF Before, ConnIs, SockIs, EvIs, MIs, UIs,
         References, Life, Failing, NoConn, NoSock, ConnRec, SockRec, EvRec
    <2>3. Events(sock'[c], ev'[c], U(c)')
      BY <1>1, <1>2, <1>4, <1>5, <1>6 DEF Before, ConnIs, SockIs, EvIs, MIs, UIs, Events,
         References, Life, NoConn, NoSock, ConnRec, SockRec, EvRec
    <2>4. Failing(conn'[c], sock'[c], M(c)')
      BY <1>1, <1>2, <1>3, <1>4, <1>6 DEF Before, ConnIs, SockIs, EvIs, MIs, UIs, Failing, Life,
         References, NoConn, NoSock, ConnRec, SockRec, EvRec
    <2>5. Connecting(conn'[c], sock'[c])
      BY <1>1, <1>2, <1>3, <1>4 DEF Before, ConnIs, SockIs, EvIs, MIs, UIs, Connecting, Life,
         References, Failing, NoConn, NoSock, ConnRec, SockRec, EvRec
    <2>6. QED  BY <2>1, <2>2, <2>3, <2>4, <2>5 DEF ShapeNow
  <1>10. Tallied(c)
    BY <1>1, <1>2, <1>3 DEF Gateway, MainIdle, Before, Tallied, StatRec, Delta, Acting, In, Out,
       Allocated, Special, IsActive, ConnIs, Life, Failing, References, Connecting, NoConn,
       ConnRec
  <1>11. Actors'
    BY <1>1, <1>2, ConnectionAssumption DEF Gateway, MainIdle, Before, Actors, MainTo, MainDone,
       UserTo, MainRec, UserRec
  <1>12. Listeners'
    BY <1>1, <1>2, <1>3 DEF Gateway, MainIdle, Before, Listeners, ConnIs, MainTo, MainDone,
       MainRec
  <1>13. DownShape'
    BY <1>1, <1>2 DEF Gateway, MainIdle, Before, DownShape
  <1>14. QED  BY <1>7, <1>8, <1>9, <1>10, <1>11, <1>12, <1>13, OneStep

\* The socket had failed before.
LEMMA SocketAbortAgainStep ==
  ASSUME IInv, NEW c \in Fd, SocketAbort(c), "ERROR" \in sock[c].flags
  PROVE  IInv'
  <1>1. Before(c)
    BY BeforeStep
  <1>2. ~down /\ sock[c].alive
    BY <1>1 DEF SocketAbort, MainIdle, Before, M, U, Actors, Life, References, Events, Failing,
       NoSock
  <1>3. /\ conn' = conn /\ ev' = ev /\ stat' = stat /\ special' = special
        /\ sock' = [sock EXCEPT ![c] = [sock[c] EXCEPT !.pend = @ \ {"ABORT"}]]
    BY <1>2 DEF SocketAbort, MainIdle
  <1>4. ConnIs(c, conn[c].kind, conn[c].flags, conn[c].status, conn[c].io, conn[c].refs,
               conn[c].pend, conn[c].at)
    BY <1>1, <1>2, <1>3, ConnStays DEF Before
  <1>5. SockIs(c, sock[c].alive, sock[c].flags, sock[c].refs, sock[c].pend \ {"ABORT"},
               sock[c].at)
    BY <1>1, <1>2, <1>3 DEF Before, SockIs, SockRec, Life, NoSock
  <1>6. EvIs(c, ev[c].refcnt, ev[c].data)
    BY <1>1, <1>2, <1>3, EvStays DEF Before
  <1>7. MIs(c, M(c)) /\ UIs(c, U(c))
    BY <1>1, <1>2, ConnectionAssumption DEF SocketAbort, MainIdle, Before, Actors, MIs, UIs, M,
       U, MainTo, MainDone, UserTo, MainRec, UserRec
  <1>8. TypedRest
    BY <1>1, <1>2, ConnectionAssumption DEF SocketAbort, MainIdle, Before, TypedRest, MainTo,
       MainDone, UserTo, MainRec, UserRec
  <1>9. OthersSame(c)
    BY <1>4, <1>5, <1>6, <1>7 DEF OthersSame, ConnIs, SockIs, EvIs, MIs, UIs
  <1>10. ShapeNow(c)
    <2>1. Life(conn'[c], sock'[c], M(c)')
      BY <1>1, <1>2, <1>4, <1>5, <1>7 DEF Before, ConnIs, SockIs, EvIs, MIs, UIs, Life, NoConn,
         NoSock, ConnRec, SockRec, EvRec
    <2>2. References(conn'[c], sock'[c], ev'[c], U(c)')
      BY <1>1, <1>2, <1>4, <1>5, <1>6, <1>7 DEF Before, ConnIs, SockIs, EvIs, MIs, UIs,
         References, Life, Failing, NoConn, NoSock, ConnRec, SockRec, EvRec
    <2>3. Events(sock'[c], ev'[c], U(c)')
      BY <1>1, <1>2, <1>5, <1>6, <1>7 DEF Before, ConnIs, SockIs, EvIs, MIs, UIs, Events,
         References, Life, NoConn, NoSock, ConnRec, SockRec, EvRec
    <2>4. Failing(conn'[c], sock'[c], M(c)')
      BY <1>1, <1>2, <1>4, <1>5, <1>7 DEF Before, ConnIs, SockIs, EvIs, MIs, UIs, Failing, Life,
         References, NoConn, NoSock, ConnRec, SockRec, EvRec
    <2>5. Connecting(conn'[c], sock'[c])
      BY <1>1, <1>2, <1>4, <1>5 DEF Before, ConnIs, SockIs, EvIs, MIs, UIs, Connecting, Life,
         References, Failing, NoConn, NoSock, ConnRec, SockRec, EvRec
    <2>6. QED  BY <2>1, <2>2, <2>3, <2>4, <2>5 DEF ShapeNow
  <1>11. Tallied(c)
    BY <1>1, <1>2, <1>3, <1>4 DEF Before, Tallied, StatRec, Delta, Acting, In, Out, Allocated,
       Special, IsActive, ConnIs, Life, Failing, References, Connecting, NoConn, ConnRec
  <1>12. Actors'
    BY <1>1, <1>2, ConnectionAssumption DEF SocketAbort, MainIdle, Before, Actors, MainTo,
       MainDone, UserTo, MainRec, UserRec
  <1>13. Listeners'
    BY <1>1, <1>2, <1>4 DEF SocketAbort, MainIdle, Before, Listeners, ConnIs, MainTo, MainDone,
       MainRec
  <1>14. DownShape'
    BY <1>1, <1>2 DEF SocketAbort, MainIdle, Before, DownShape
  <1>15. QED  BY <1>8, <1>9, <1>10, <1>11, <1>12, <1>13, <1>14, OneStep

\* The socket fails: the table's count goes down.
LEMMA SocketAbortFirstStep ==
  ASSUME IInv, NEW c \in Fd, SocketAbort(c), "ERROR" \notin sock[c].flags
  PROVE  IInv'
  <1>1. Before(c)
    BY BeforeStep
  <1>2. ~down /\ sock[c].alive /\ main.at = "idle" /\ M(c) = "idle" /\ ev[c].refcnt >= 1
    BY <1>1 DEF SocketAbort, MainIdle, EventDecref, Before, M, U, Actors, Life, References,
       Events, Failing, NoSock
  <1>3. /\ conn' = conn /\ stat' = stat /\ special' = special
        /\ EventDecref(c, [[sock[c] EXCEPT !.pend = @ \ {"ABORT"}] EXCEPT !.flags = @ \union {"ERROR"}, !.at = "abort"])
    BY <1>2 DEF SocketAbort
  <1>4. ConnIs(c, conn[c].kind, conn[c].flags, conn[c].status, conn[c].io, conn[c].refs,
               conn[c].pend, conn[c].at)
    BY <1>1, <1>2, <1>3, ConnStays DEF Before
  <1>5. SockIs(c, sock[c].alive, sock[c].flags \union {"ERROR"},
               IF ev[c].refcnt = 1 THEN sock[c].refs \ {"table"} ELSE sock[c].refs,
               sock[c].pend \ {"ABORT"}, "abort")
    <2> DEFINE s == [[sock[c] EXCEPT !.pend = @ \ {"ABORT"}] EXCEPT !.flags = @ \union {"ERROR"}, !.at = "abort"]
            r == IF ev[c].refcnt = 1 THEN [s EXCEPT !.refs = @ \ {"table"}] ELSE s
    <2>1. /\ r \in SockRec /\ r.alive /\ r.flags = sock[c].flags \union {"ERROR"}
          /\ r.refs = IF ev[c].refcnt = 1 THEN sock[c].refs \ {"table"} ELSE sock[c].refs
          /\ r.pend = sock[c].pend \ {"ABORT"} /\ r.at = "abort"
      BY <1>1, <1>2 DEF Before, SockRec
    <2>2. sock' = [sock EXCEPT ![c] = r]
      BY <1>3 DEF EventDecref
    <2> HIDE DEF r
    <2>3. QED  BY <1>1, <1>2, <2>1, <2>2 DEF Before, SockIs
  <1>6. EvIs(c, ev[c].refcnt - 1, (ev[c].data /\ ev[c].refcnt # 1))
    BY <1>1, <1>2, <1>3 DEF Before, EvIs, EvRec, EventDecref
  <1>7. MIs(c, "fail") /\ UIs(c, U(c))
    BY <1>1, <1>2, ConnectionAssumption DEF SocketAbort, MainIdle, EventDecref, Before, Actors,
       MIs, UIs, M, U, MainTo, MainDone, UserTo, MainRec, UserRec
  <1>8. TypedRest
    BY <1>1, <1>2, ConnectionAssumption DEF SocketAbort, MainIdle, EventDecref, Before,
       TypedRest, MainTo, MainDone, UserTo, MainRec, UserRec
  <1>9. OthersSame(c)
    BY <1>4, <1>5, <1>6, <1>7 DEF OthersSame, ConnIs, SockIs, EvIs, MIs, UIs
  <1>10. ShapeNow(c)
    <2>1. Life(conn'[c], sock'[c], M(c)')
      BY <1>1, <1>2, <1>4, <1>5, <1>7 DEF Before, ConnIs, SockIs, EvIs, MIs, UIs, Life, NoConn,
         NoSock, ConnRec, SockRec, EvRec
    <2>2. References(conn'[c], sock'[c], ev'[c], U(c)')
      BY <1>1, <1>2, <1>4, <1>5, <1>6, <1>7 DEF Before, ConnIs, SockIs, EvIs, MIs, UIs,
         References, Life, Failing, NoConn, NoSock, ConnRec, SockRec, EvRec
    <2>3. Events(sock'[c], ev'[c], U(c)')
      BY <1>1, <1>2, <1>5, <1>6, <1>7 DEF Before, ConnIs, SockIs, EvIs, MIs, UIs, Events,
         References, Life, NoConn, NoSock, ConnRec, SockRec, EvRec
    <2>4. Failing(conn'[c], sock'[c], M(c)')
      BY <1>1, <1>2, <1>4, <1>5, <1>7 DEF Before, ConnIs, SockIs, EvIs, MIs, UIs, Failing, Life,
         References, NoConn, NoSock, ConnRec, SockRec, EvRec
    <2>5. Connecting(conn'[c], sock'[c])
      BY <1>1, <1>2, <1>4, <1>5 DEF Before, ConnIs, SockIs, EvIs, MIs, UIs, Connecting, Life,
         References, Failing, NoConn, NoSock, ConnRec, SockRec, EvRec
    <2>6. QED  BY <2>1, <2>2, <2>3, <2>4, <2>5 DEF ShapeNow
  <1>11. Tallied(c)
    BY <1>1, <1>2, <1>3, <1>4 DEF Before, Tallied, StatRec, Delta, Acting, In, Out, Allocated,
       Special, IsActive, ConnIs, Life, Failing, References, Connecting, NoConn, ConnRec
  <1>12. Actors'
    BY <1>1, <1>2, ConnectionAssumption DEF SocketAbort, MainIdle, EventDecref, Before, Actors,
       MainTo, MainDone, UserTo, MainRec, UserRec
  <1>13. Listeners'
    BY <1>1, <1>2, <1>4 DEF SocketAbort, MainIdle, EventDecref, Before, Listeners, ConnIs,
       MainTo, MainDone, MainRec
  <1>14. DownShape'
    BY <1>1, <1>2 DEF SocketAbort, MainIdle, EventDecref, Before, DownShape
  <1>15. QED  BY <1>8, <1>9, <1>10, <1>11, <1>12, <1>13, <1>14, OneStep

\* fail_connection finds C_ERROR set.
LEMMA MainFailAgainStep ==
  ASSUME IInv, NEW c \in Fd, MainFail, c = main.c, "ERROR" \in conn[c].flags
  PROVE  IInv'
  <1>1. Before(c)
    BY BeforeStep
  <1>2. ~down /\ M(c) = "fail" /\ sock[c].alive /\ conn[c].kind # "none"
    BY <1>1 DEF MainFail, MarkError, Before, M, U, Actors, Life, References, Events, Failing,
       NoSock, NoConn
  <1>3. /\ conn' = [conn EXCEPT ![c].flags = @ \union {"ERROR"}] /\ stat' = stat /\ special' = special
        /\ ev' = ev /\ sock' = [sock EXCEPT ![c].at = "idle"]
    BY <1>2 DEF MainFail, MarkError
  <1>4. ConnIs(c, conn[c].kind, conn[c].flags, conn[c].status, conn[c].io, conn[c].refs,
               conn[c].pend, conn[c].at)
    <2> DEFINE r == [conn[c] EXCEPT !.flags = @ \union {"ERROR"}]
    <2>1. conn' = [conn EXCEPT ![c] = r]
      BY <1>2, <1>3 DEF Before
    <2>2. /\ r.kind = conn[c].kind /\ r.flags = conn[c].flags
          /\ r.status = conn[c].status
          /\ r.io = conn[c].io /\ r.refs = conn[c].refs
          /\ r.pend = conn[c].pend
          /\ r.at = conn[c].at
          /\ r \in ConnRec
      BY <1>1, <1>2, SMTT(60) DEF Before, ConnRec
    <2> HIDE DEF r
    <2>3. QED  BY <1>1, <1>2, <2>1, <2>2 DEF Before, ConnIs
  <1>5. SockIs(c, sock[c].alive, sock[c].flags, sock[c].refs, sock[c].pend, "idle")
    BY <1>1, <1>2, <1>3, ZenonT(60) DEF Before, SockIs, SockRec, Life, NoSock
  <1>6. EvIs(c, ev[c].refcnt, ev[c].data)
    BY <1>1, <1>2, <1>3, EvStays DEF Before
  <1>7. MIs(c, "idle") /\ UIs(c, U(c))
    BY <1>1, <1>2, ConnectionAssumption DEF MainFail, MarkError, Before, Actors, MIs, UIs, M, U,
       MainTo, MainDone, UserTo, MainRec, UserRec
  <1>8. TypedRest
    BY <1>1, <1>2, ConnectionAssumption DEF MainFail, MarkError, Before, TypedRest, MainTo,
       MainDone, UserTo, MainRec, UserRec
  <1>9. OthersSame(c)
    BY <1>4, <1>5, <1>6, <1>7 DEF OthersSame, ConnIs, SockIs, EvIs, MIs, UIs
  <1>10. ShapeNow(c)
    <2>1. Life(conn'[c], sock'[c], M(c)')
      BY <1>1, <1>2, <1>4, <1>5, <1>7 DEF Before, ConnIs, SockIs, EvIs, MIs, UIs, Life, NoConn,
         NoSock, ConnRec, SockRec, EvRec
    <2>2. References(conn'[c], sock'[c], ev'[c], U(c)')
      BY <1>1, <1>2, <1>4, <1>5, <1>6, <1>7 DEF Before, ConnIs, SockIs, EvIs, MIs, UIs,
         References, Life, Failing, NoConn, NoSock, ConnRec, SockRec, EvRec
    <2>3. Events(sock'[c], ev'[c], U(c)')
      BY <1>1, <1>2, <1>5, <1>6, <1>7 DEF Before, ConnIs, SockIs, EvIs, MIs, UIs, Events,
         References, Life, NoConn, NoSock, ConnRec, SockRec, EvRec
    <2>4. Failing(conn'[c], sock'[c], M(c)')
      BY <1>1, <1>2, <1>4, <1>5, <1>7 DEF Before, ConnIs, SockIs, EvIs, MIs, UIs, Failing, Life,
         References, NoConn, NoSock, ConnRec, SockRec, EvRec
    <2>5. Connecting(conn'[c], sock'[c])
      BY <1>1, <1>2, <1>4, <1>5 DEF Before, ConnIs, SockIs, EvIs, MIs, UIs, Connecting, Life,
         References, Failing, NoConn, NoSock, ConnRec, SockRec, EvRec
    <2>6. QED  BY <2>1, <2>2, <2>3, <2>4, <2>5 DEF ShapeNow
  <1>11. Tallied(c)
    BY <1>1, <1>2, <1>3, <1>4 DEF Before, Tallied, StatRec, Delta, Acting, In, Out, Allocated,
       Special, IsActive, ConnIs, Life, Failing, References, Connecting, NoConn, ConnRec
  <1>12. Actors'
    BY <1>1, <1>2, ConnectionAssumption DEF MainFail, MarkError, Before, Actors, MainTo,
       MainDone, UserTo, MainRec, UserRec
  <1>13. Listeners'
    BY <1>1, <1>2, <1>4 DEF MainFail, MarkError, Before, Listeners, ConnIs, MainTo, MainDone,
       MainRec
  <1>14. DownShape'
    BY <1>1, <1>2 DEF MainFail, MarkError, Before, DownShape
  <1>15. QED  BY <1>8, <1>9, <1>10, <1>11, <1>12, <1>13, <1>14, OneStep

\* fail_connection sets C_ERROR ...
LEMMA MainFailFirstStep ==
  ASSUME IInv, NEW c \in Fd, MainFail, c = main.c, "ERROR" \notin conn[c].flags
  PROVE  IInv'
  <1>1. Before(c)
    BY BeforeStep
  <1>2. ~down /\ main.at = "fail" /\ M(c) = "fail" /\ sock[c].alive /\ conn[c].kind # "none"
    BY <1>1 DEF MainFail, MarkError, Before, M, U, Actors, Life, References, Events, Failing,
       NoSock, NoConn
  <1>3. ConnIs(c, conn[c].kind, conn[c].flags \union {"ERROR"}, conn[c].status, conn[c].io,
               conn[c].refs, conn[c].pend, conn[c].at)
    BY <1>1, <1>2, ZenonT(60) DEF MainFail, MarkError, Before, ConnIs, ConnRec, Life, NoConn
  <1>4. SockIs(c, sock[c].alive, sock[c].flags, sock[c].refs, sock[c].pend, sock[c].at)
    BY <1>1, <1>2, SockStays DEF MainFail, MarkError, Before
  <1>5. EvIs(c, ev[c].refcnt, ev[c].data)
    BY <1>1, <1>2, EvStays DEF MainFail, MarkError, Before
  <1>6. MIs(c, "report") /\ UIs(c, U(c))
    BY <1>1, <1>2, ConnectionAssumption DEF MainFail, MarkError, Before, Actors, MIs, UIs, M, U,
       MainTo, MainDone, UserTo, MainRec, UserRec
  <1>7. TypedRest
    BY <1>1, <1>2, ConnectionAssumption DEF MainFail, MarkError, Before, TypedRest, MainTo,
       MainDone, UserTo, MainRec, UserRec
  <1>8. OthersSame(c)
    BY <1>3, <1>4, <1>5, <1>6 DEF OthersSame, ConnIs, SockIs, EvIs, MIs, UIs
  <1>9. ShapeNow(c)
    <2>1. Life(conn'[c], sock'[c], M(c)')
      BY <1>1, <1>2, <1>3, <1>4, <1>6 DEF Before, ConnIs, SockIs, EvIs, MIs, UIs, Life, NoConn,
         NoSock, ConnRec, SockRec, EvRec
    <2>2. References(conn'[c], sock'[c], ev'[c], U(c)')
      BY <1>1, <1>2, <1>3, <1>4, <1>5, <1>6 DEF Before, ConnIs, SockIs, EvIs, MIs, UIs,
         References, Life, Failing, NoConn, NoSock, ConnRec, SockRec, EvRec
    <2>3. Events(sock'[c], ev'[c], U(c)')
      BY <1>1, <1>2, <1>4, <1>5, <1>6 DEF Before, ConnIs, SockIs, EvIs, MIs, UIs, Events,
         References, Life, NoConn, NoSock, ConnRec, SockRec, EvRec
    <2>4. Failing(conn'[c], sock'[c], M(c)')
      BY <1>1, <1>2, <1>3, <1>4, <1>6 DEF Before, ConnIs, SockIs, EvIs, MIs, UIs, Failing, Life,
         References, NoConn, NoSock, ConnRec, SockRec, EvRec
    <2>5. Connecting(conn'[c], sock'[c])
      BY <1>1, <1>2, <1>3, <1>4 DEF Before, ConnIs, SockIs, EvIs, MIs, UIs, Connecting, Life,
         References, Failing, NoConn, NoSock, ConnRec, SockRec, EvRec
    <2>6. QED  BY <2>1, <2>2, <2>3, <2>4, <2>5 DEF ShapeNow
  <1>10. Tallied(c)
    <2>1. stat' = stat /\ special' = special /\ stat \in StatRec /\ special \in Int
      BY <1>1 DEF MainFail, Before
    <2>2. /\ conn'[c].kind = conn[c].kind /\ conn'[c].at = conn[c].at
          /\ conn'[c].flags = conn[c].flags \union {"ERROR"}
      BY <1>3 DEF ConnIs
    <2>3. QED  BY <2>1, <2>2, SameTally
  <1>11. Actors'
    BY <1>1, <1>2, ConnectionAssumption DEF MainFail, MarkError, Before, Actors, MainTo,
       MainDone, UserTo, MainRec, UserRec
  <1>12. Listeners'
    BY <1>1, <1>2, <1>3 DEF MainFail, MarkError, Before, Listeners, ConnIs, MainTo, MainDone,
       MainRec
  <1>13. DownShape'
    BY <1>1, <1>2 DEF MainFail, MarkError, Before, DownShape
  <1>14. QED  BY <1>7, <1>8, <1>9, <1>10, <1>11, <1>12, <1>13, OneStep

\* ... and then the status and the signal.
LEMMA MainReportStep ==
  ASSUME IInv, NEW c \in Fd, MainReport, c = main.c
  PROVE  IInv'
  <1>1. Before(c)
    BY BeforeStep
  <1>2. ~down /\ M(c) = "report" /\ sock[c].alive /\ conn[c].kind # "none"
    BY <1>1 DEF MainReport, ReportError, Before, M, U, Actors, Life, References, Events,
       Failing, NoSock, NoConn
  <1>3. ConnIs(c, conn[c].kind, conn[c].flags, "error", conn[c].io, conn[c].refs,
               conn[c].pend \union {"ABORT"}, conn[c].at)
    BY <1>1, <1>2, ZenonT(60) DEF MainReport, ReportError, Before, ConnIs, ConnRec, Life, NoConn
  <1>4. SockIs(c, sock[c].alive, sock[c].flags, sock[c].refs, sock[c].pend, "idle")
    BY <1>1, <1>2, ZenonT(60) DEF MainReport, ReportError, Before, SockIs, SockRec, Life, NoSock
  <1>5. EvIs(c, ev[c].refcnt, ev[c].data)
    BY <1>1, <1>2, EvStays DEF MainReport, ReportError, Before
  <1>6. MIs(c, "idle") /\ UIs(c, U(c))
    BY <1>1, <1>2, ConnectionAssumption DEF MainReport, ReportError, Before, Actors, MIs, UIs,
       M, U, MainTo, MainDone, UserTo, MainRec, UserRec
  <1>7. TypedRest
    BY <1>1, <1>2, ConnectionAssumption DEF MainReport, ReportError, Before, TypedRest, MainTo,
       MainDone, UserTo, MainRec, UserRec
  <1>8. OthersSame(c)
    BY <1>3, <1>4, <1>5, <1>6 DEF OthersSame, ConnIs, SockIs, EvIs, MIs, UIs
  <1>9. ShapeNow(c)
    <2>1. Life(conn'[c], sock'[c], M(c)')
      BY <1>1, <1>2, <1>3, <1>4, <1>6 DEF Before, ConnIs, SockIs, EvIs, MIs, UIs, Life, NoConn,
         NoSock, ConnRec, SockRec, EvRec
    <2>2. References(conn'[c], sock'[c], ev'[c], U(c)')
      BY <1>1, <1>2, <1>3, <1>4, <1>5, <1>6 DEF Before, ConnIs, SockIs, EvIs, MIs, UIs,
         References, Life, Failing, NoConn, NoSock, ConnRec, SockRec, EvRec
    <2>3. Events(sock'[c], ev'[c], U(c)')
      BY <1>1, <1>2, <1>4, <1>5, <1>6 DEF Before, ConnIs, SockIs, EvIs, MIs, UIs, Events,
         References, Life, NoConn, NoSock, ConnRec, SockRec, EvRec
    <2>4. Failing(conn'[c], sock'[c], M(c)')
      BY <1>1, <1>2, <1>3, <1>4, <1>6 DEF Before, ConnIs, SockIs, EvIs, MIs, UIs, Failing, Life,
         References, NoConn, NoSock, ConnRec, SockRec, EvRec
    <2>5. Connecting(conn'[c], sock'[c])
      BY <1>1, <1>2, <1>3, <1>4 DEF Before, ConnIs, SockIs, EvIs, MIs, UIs, Connecting, Life,
         References, Failing, NoConn, NoSock, ConnRec, SockRec, EvRec
    <2>6. QED  BY <2>1, <2>2, <2>3, <2>4, <2>5 DEF ShapeNow
  <1>10. Tallied(c)
    <2>1. stat' = stat /\ special' = special /\ stat \in StatRec /\ special \in Int
      BY <1>1 DEF MainReport, Before
    <2>2. /\ conn'[c].kind = conn[c].kind /\ conn'[c].at = conn[c].at
          /\ conn'[c].flags = conn[c].flags
      BY <1>3 DEF ConnIs
    <2>3. QED  BY <2>1, <2>2, SameTally
  <1>11. Actors'
    BY <1>1, <1>2, ConnectionAssumption DEF MainReport, ReportError, Before, Actors, MainTo,
       MainDone, UserTo, MainRec, UserRec
  <1>12. Listeners'
    BY <1>1, <1>2, <1>3 DEF MainReport, ReportError, Before, Listeners, ConnIs, MainTo,
       MainDone, MainRec
  <1>13. DownShape'
    BY <1>1, <1>2 DEF MainReport, ReportError, Before, DownShape
  <1>14. QED  BY <1>7, <1>8, <1>9, <1>10, <1>11, <1>12, <1>13, OneStep

\* Data for the connection.
LEMMA SocketDataStep ==
  ASSUME IInv, NEW c \in Fd, SocketRunnable(c), sock' = [sock EXCEPT ![c] = Ran(c)],
         conn' = [conn EXCEPT ![c].pend = @ \union {"RUN"}],
         UNCHANGED <<ev, main, user, listening, aux, special, stat, down>>
  PROVE  IInv'
  <1>1. Before(c)
    BY BeforeStep
  <1>2. ~down /\ sock[c].alive /\ conn[c].kind # "none" /\ conn[c].at # "new"
    BY <1>1 DEF SocketRunnable, Ran, Before, M, U, Actors, Life, References, Events, Failing,
       NoSock, NoConn
  <1>3. ConnIs(c, conn[c].kind, conn[c].flags, conn[c].status, conn[c].io, conn[c].refs,
               conn[c].pend \union {"RUN"}, conn[c].at)
    BY <1>1, <1>2 DEF SocketRunnable, Ran, Before, ConnIs, ConnRec, Life, NoConn
  <1>4. SockIs(c, sock[c].alive, sock[c].flags, sock[c].refs, sock[c].pend \ {"RUN"},
               sock[c].at)
    BY <1>1, <1>2 DEF SocketRunnable, Ran, Before, SockIs, SockRec, Life, NoSock
  <1>5. EvIs(c, ev[c].refcnt, ev[c].data)
    BY <1>1, <1>2, EvStays DEF SocketRunnable, Ran, Before
  <1>6. MIs(c, M(c)) /\ UIs(c, U(c))
    BY <1>1, <1>2, ConnectionAssumption DEF SocketRunnable, Ran, Before, Actors, MIs, UIs, M, U,
       MainTo, MainDone, UserTo, MainRec, UserRec
  <1>7. TypedRest
    BY <1>1, <1>2, ConnectionAssumption DEF SocketRunnable, Ran, Before, TypedRest, MainTo,
       MainDone, UserTo, MainRec, UserRec
  <1>8. OthersSame(c)
    BY <1>3, <1>4, <1>5, <1>6 DEF OthersSame, ConnIs, SockIs, EvIs, MIs, UIs
  <1>9. ShapeNow(c)
    <2>1. Life(conn'[c], sock'[c], M(c)')
      BY <1>1, <1>2, <1>3, <1>4, <1>6, ZenonT(60) DEF Before, ConnIs, SockIs, EvIs, MIs, UIs, Life, NoConn,
         NoSock, ConnRec, SockRec, EvRec
    <2>2. References(conn'[c], sock'[c], ev'[c], U(c)')
      BY <1>1, <1>2, <1>3, <1>4, <1>5, <1>6, ZenonT(60) DEF Before, ConnIs, SockIs, EvIs, MIs, UIs,
         References, Life, Failing, NoConn, NoSock, ConnRec, SockRec, EvRec
    <2>3. Events(sock'[c], ev'[c], U(c)')
      BY <1>1, <1>2, <1>4, <1>5, <1>6, ZenonT(60) DEF Before, ConnIs, SockIs, EvIs, MIs, UIs, Events,
         References, Life, NoConn, NoSock, ConnRec, SockRec, EvRec
    <2>4. Failing(conn'[c], sock'[c], M(c)')
      BY <1>1, <1>2, <1>3, <1>4, <1>6 DEF Before, ConnIs, SockIs, EvIs, MIs, UIs, Failing, Life,
         References, NoConn, NoSock, ConnRec, SockRec, EvRec
    <2>5. Connecting(conn'[c], sock'[c])
      BY <1>1, <1>2, <1>3, <1>4 DEF Before, ConnIs, SockIs, EvIs, MIs, UIs, Connecting, Life,
         References, Failing, NoConn, NoSock, ConnRec, SockRec, EvRec
    <2>6. QED  BY <2>1, <2>2, <2>3, <2>4, <2>5 DEF ShapeNow
  <1>10. Tallied(c)
    BY <1>1, <1>2, <1>3 DEF SocketRunnable, Ran, Before, Tallied, StatRec, Delta, Acting, In,
       Out, Allocated, Special, IsActive, ConnIs, Life, Failing, References, Connecting, NoConn,
       ConnRec
  <1>11. Actors'
    BY <1>1, <1>2, ConnectionAssumption DEF SocketRunnable, Ran, Before, Actors, MainTo,
       MainDone, UserTo, MainRec, UserRec
  <1>12. Listeners'
    BY <1>1, <1>2, <1>3 DEF SocketRunnable, Ran, Before, Listeners, ConnIs, MainTo, MainDone,
       MainRec
  <1>13. DownShape'
    BY <1>1, <1>2 DEF SocketRunnable, Ran, Before, DownShape
  <1>14. QED  BY <1>7, <1>8, <1>9, <1>10, <1>11, <1>12, <1>13, OneStep

\* A read or write error.
LEMMA SocketErrorStep ==
  ASSUME IInv, NEW c \in Fd, SocketRunnable(c), sock' = [sock EXCEPT ![c] = [Ran(c) EXCEPT !.pend = @ \union {"ABORT"}]],
         conn' = conn, UNCHANGED <<ev, main, user, listening, aux, special, stat, down>>
  PROVE  IInv'
  <1>1. Before(c)
    BY BeforeStep
  <1>2. ~down /\ sock[c].alive
    BY <1>1 DEF SocketRunnable, Ran, Before, M, U, Actors, Life, References, Events, Failing,
       NoSock, NoConn
  <1>3. ConnIs(c, conn[c].kind, conn[c].flags, conn[c].status, conn[c].io, conn[c].refs,
               conn[c].pend, conn[c].at)
    BY <1>1, <1>2, ConnStays DEF SocketRunnable, Ran, Before
  <1>4. SockIs(c, sock[c].alive, sock[c].flags, sock[c].refs,
               (sock[c].pend \ {"RUN"}) \union {"ABORT"}, sock[c].at)
    BY <1>1, <1>2 DEF SocketRunnable, Ran, Before, SockIs, SockRec, Life, NoSock
  <1>5. EvIs(c, ev[c].refcnt, ev[c].data)
    BY <1>1, <1>2, EvStays DEF SocketRunnable, Ran, Before
  <1>6. MIs(c, M(c)) /\ UIs(c, U(c))
    BY <1>1, <1>2, ConnectionAssumption DEF SocketRunnable, Ran, Before, Actors, MIs, UIs, M, U,
       MainTo, MainDone, UserTo, MainRec, UserRec
  <1>7. TypedRest
    BY <1>1, <1>2, ConnectionAssumption DEF SocketRunnable, Ran, Before, TypedRest, MainTo,
       MainDone, UserTo, MainRec, UserRec
  <1>8. OthersSame(c)
    BY <1>3, <1>4, <1>5, <1>6 DEF OthersSame, ConnIs, SockIs, EvIs, MIs, UIs
  <1>9. ShapeNow(c)
    <2>1. Life(conn'[c], sock'[c], M(c)')
      BY <1>1, <1>2, <1>3, <1>4, <1>6, ZenonT(60) DEF Before, ConnIs, SockIs, EvIs, MIs, UIs, Life, NoConn,
         NoSock, ConnRec, SockRec, EvRec
    <2>2. References(conn'[c], sock'[c], ev'[c], U(c)')
      BY <1>1, <1>2, <1>3, <1>4, <1>5, <1>6, ZenonT(60) DEF Before, ConnIs, SockIs, EvIs, MIs, UIs,
         References, Life, Failing, NoConn, NoSock, ConnRec, SockRec, EvRec
    <2>3. Events(sock'[c], ev'[c], U(c)')
      <3>1. Events(sock[c], ev[c], U(c))
        BY <1>1 DEF Before
      <3>2. sock'[c].alive = sock[c].alive /\ sock'[c].flags = sock[c].flags
            /\ ev'[c].refcnt = ev[c].refcnt /\ ev'[c].data = ev[c].data /\ U(c)' = U(c)
        BY <1>4, <1>5, <1>6 DEF SockIs, EvIs, UIs
      <3>3. QED  BY <3>1, <3>2 DEF Events
    <2>4. Failing(conn'[c], sock'[c], M(c)')
      BY <1>1, <1>2, <1>3, <1>4, <1>6 DEF Before, ConnIs, SockIs, EvIs, MIs, UIs, Failing, Life,
         References, NoConn, NoSock, ConnRec, SockRec, EvRec
    <2>5. Connecting(conn'[c], sock'[c])
      BY <1>1, <1>2, <1>3, <1>4 DEF Before, ConnIs, SockIs, EvIs, MIs, UIs, Connecting, Life,
         References, Failing, NoConn, NoSock, ConnRec, SockRec, EvRec
    <2>6. QED  BY <2>1, <2>2, <2>3, <2>4, <2>5 DEF ShapeNow
  <1>10. Tallied(c)
    BY <1>1, <1>2, <1>3 DEF SocketRunnable, Ran, Before, Tallied, StatRec, Delta, Acting, In,
       Out, Allocated, Special, IsActive, ConnIs, Life, Failing, References, Connecting, NoConn,
       ConnRec
  <1>11. Actors'
    BY <1>1, <1>2, ConnectionAssumption DEF SocketRunnable, Ran, Before, Actors, MainTo,
       MainDone, UserTo, MainRec, UserRec
  <1>12. Listeners'
    BY <1>1, <1>2, <1>3 DEF SocketRunnable, Ran, Before, Listeners, ConnIs, MainTo, MainDone,
       MainRec
  <1>13. DownShape'
    BY <1>1, <1>2 DEF SocketRunnable, Ran, Before, DownShape
  <1>14. QED  BY <1>7, <1>8, <1>9, <1>10, <1>11, <1>12, <1>13, OneStep

\* Nothing to do.
LEMMA SocketNothingStep ==
  ASSUME IInv, NEW c \in Fd, SocketRunnable(c), sock' = [sock EXCEPT ![c] = Ran(c)],
         conn' = conn, UNCHANGED <<ev, main, user, listening, aux, special, stat, down>>
  PROVE  IInv'
  <1>1. Before(c)
    BY BeforeStep
  <1>2. ~down /\ sock[c].alive
    BY <1>1 DEF SocketRunnable, Ran, Before, M, U, Actors, Life, References, Events, Failing,
       NoSock, NoConn
  <1>3. ConnIs(c, conn[c].kind, conn[c].flags, conn[c].status, conn[c].io, conn[c].refs,
               conn[c].pend, conn[c].at)
    BY <1>1, <1>2, ConnStays DEF SocketRunnable, Ran, Before
  <1>4. SockIs(c, sock[c].alive, sock[c].flags, sock[c].refs, sock[c].pend \ {"RUN"},
               sock[c].at)
    BY <1>1, <1>2 DEF SocketRunnable, Ran, Before, SockIs, SockRec, Life, NoSock
  <1>5. EvIs(c, ev[c].refcnt, ev[c].data)
    BY <1>1, <1>2, EvStays DEF SocketRunnable, Ran, Before
  <1>6. MIs(c, M(c)) /\ UIs(c, U(c))
    BY <1>1, <1>2, ConnectionAssumption DEF SocketRunnable, Ran, Before, Actors, MIs, UIs, M, U,
       MainTo, MainDone, UserTo, MainRec, UserRec
  <1>7. TypedRest
    BY <1>1, <1>2, ConnectionAssumption DEF SocketRunnable, Ran, Before, TypedRest, MainTo,
       MainDone, UserTo, MainRec, UserRec
  <1>8. OthersSame(c)
    BY <1>3, <1>4, <1>5, <1>6 DEF OthersSame, ConnIs, SockIs, EvIs, MIs, UIs
  <1>9. ShapeNow(c)
    <2>1. Life(conn'[c], sock'[c], M(c)')
      BY <1>1, <1>2, <1>3, <1>4, <1>6, ZenonT(60) DEF Before, ConnIs, SockIs, EvIs, MIs, UIs, Life, NoConn,
         NoSock, ConnRec, SockRec, EvRec
    <2>2. References(conn'[c], sock'[c], ev'[c], U(c)')
      BY <1>1, <1>2, <1>3, <1>4, <1>5, <1>6, ZenonT(60) DEF Before, ConnIs, SockIs, EvIs, MIs, UIs,
         References, Life, Failing, NoConn, NoSock, ConnRec, SockRec, EvRec
    <2>3. Events(sock'[c], ev'[c], U(c)')
      BY <1>1, <1>2, <1>4, <1>5, <1>6, ZenonT(60) DEF Before, ConnIs, SockIs, EvIs, MIs, UIs, Events,
         References, Life, NoConn, NoSock, ConnRec, SockRec, EvRec
    <2>4. Failing(conn'[c], sock'[c], M(c)')
      BY <1>1, <1>2, <1>3, <1>4, <1>6 DEF Before, ConnIs, SockIs, EvIs, MIs, UIs, Failing, Life,
         References, NoConn, NoSock, ConnRec, SockRec, EvRec
    <2>5. Connecting(conn'[c], sock'[c])
      BY <1>1, <1>2, <1>3, <1>4 DEF Before, ConnIs, SockIs, EvIs, MIs, UIs, Connecting, Life,
         References, Failing, NoConn, NoSock, ConnRec, SockRec, EvRec
    <2>6. QED  BY <2>1, <2>2, <2>3, <2>4, <2>5 DEF ShapeNow
  <1>10. Tallied(c)
    BY <1>1, <1>2, <1>3 DEF SocketRunnable, Ran, Before, Tallied, StatRec, Delta, Acting, In,
       Out, Allocated, Special, IsActive, ConnIs, Life, Failing, References, Connecting, NoConn,
       ConnRec
  <1>11. Actors'
    BY <1>1, <1>2, ConnectionAssumption DEF SocketRunnable, Ran, Before, Actors, MainTo,
       MainDone, UserTo, MainRec, UserRec
  <1>12. Listeners'
    BY <1>1, <1>2, <1>3 DEF SocketRunnable, Ran, Before, Listeners, ConnIs, MainTo, MainDone,
       MainRec
  <1>13. DownShape'
    BY <1>1, <1>2 DEF SocketRunnable, Ran, Before, DownShape
  <1>14. QED  BY <1>7, <1>8, <1>9, <1>10, <1>11, <1>12, <1>13, OneStep

\* The connect has succeeded.
LEMMA SocketConnectedStep ==
  ASSUME IInv, NEW c \in Fd, SocketConnected(c)
  PROVE  IInv'
  <1>1. Before(c)
    BY BeforeStep
  <1>2. ~down /\ sock[c].alive /\ conn[c].kind # "none" /\ conn[c].at # "new"
    BY <1>1 DEF SocketConnected, SocketRunnable, Ran, Before, M, U, Actors, Life, References,
       Events, Failing, NoSock, NoConn
  <1>3. ConnIs(c, conn[c].kind, conn[c].flags \union {"READY_PENDING", "CONNECTED"},
               conn[c].status, conn[c].io, conn[c].refs, conn[c].pend \union {"RUN"},
               conn[c].at)
    BY <1>1, <1>2, ZenonT(60) DEF SocketConnected, SocketRunnable, Ran, Before, ConnIs, ConnRec, Life,
       NoConn
  <1>4. SockIs(c, sock[c].alive, sock[c].flags \union {"CONNECTED"}, sock[c].refs,
               sock[c].pend \ {"RUN"}, sock[c].at)
    BY <1>1, <1>2 DEF SocketConnected, SocketRunnable, Ran, Before, SockIs, SockRec, Life,
       NoSock
  <1>5. EvIs(c, ev[c].refcnt, ev[c].data)
    BY <1>1, <1>2, EvStays DEF SocketConnected, SocketRunnable, Ran, Before
  <1>6. MIs(c, M(c)) /\ UIs(c, U(c))
    BY <1>1, <1>2, ConnectionAssumption DEF SocketConnected, SocketRunnable, Ran, Before,
       Actors, MIs, UIs, M, U, MainTo, MainDone, UserTo, MainRec, UserRec
  <1>7. TypedRest
    BY <1>1, <1>2, ConnectionAssumption DEF SocketConnected, SocketRunnable, Ran, Before,
       TypedRest, MainTo, MainDone, UserTo, MainRec, UserRec
  <1>8. OthersSame(c)
    BY <1>3, <1>4, <1>5, <1>6 DEF OthersSame, ConnIs, SockIs, EvIs, MIs, UIs
  <1>9. ShapeNow(c)
    <2>1. Life(conn'[c], sock'[c], M(c)')
      BY <1>1, <1>2, <1>3, <1>4, <1>6 DEF Before, ConnIs, SockIs, EvIs, MIs, UIs, Life, NoConn,
         NoSock, ConnRec, SockRec, EvRec
    <2>2. References(conn'[c], sock'[c], ev'[c], U(c)')
      BY <1>1, <1>2, <1>3, <1>4, <1>5, <1>6 DEF Before, ConnIs, SockIs, EvIs, MIs, UIs,
         References, Life, Failing, NoConn, NoSock, ConnRec, SockRec, EvRec
    <2>3. Events(sock'[c], ev'[c], U(c)')
      BY <1>1, <1>2, <1>4, <1>5, <1>6 DEF Before, ConnIs, SockIs, EvIs, MIs, UIs, Events,
         References, Life, NoConn, NoSock, ConnRec, SockRec, EvRec
    <2>4. Failing(conn'[c], sock'[c], M(c)')
      BY <1>1, <1>2, <1>3, <1>4, <1>6 DEF Before, ConnIs, SockIs, EvIs, MIs, UIs, Failing, Life,
         References, NoConn, NoSock, ConnRec, SockRec, EvRec
    <2>5. Connecting(conn'[c], sock'[c])
      BY <1>1, <1>2, <1>3, <1>4 DEF Before, ConnIs, SockIs, EvIs, MIs, UIs, Connecting, Life,
         References, Failing, NoConn, NoSock, ConnRec, SockRec, EvRec
    <2>6. QED  BY <2>1, <2>2, <2>3, <2>4, <2>5 DEF ShapeNow
  <1>10. Tallied(c)
    BY <1>1, <1>2, <1>3 DEF SocketConnected, SocketRunnable, Ran, Before, Tallied, StatRec,
       Delta, Acting, In, Out, Allocated, Special, IsActive, ConnIs, Life, Failing, References,
       Connecting, NoConn, ConnRec
  <1>11. Actors'
    BY <1>1, <1>2, ConnectionAssumption DEF SocketConnected, SocketRunnable, Ran, Before,
       Actors, MainTo, MainDone, UserTo, MainRec, UserRec
  <1>12. Listeners'
    BY <1>1, <1>2, <1>3 DEF SocketConnected, SocketRunnable, Ran, Before, Listeners, ConnIs,
       MainTo, MainDone, MainRec
  <1>13. DownShape'
    BY <1>1, <1>2 DEF SocketConnected, SocketRunnable, Ran, Before, DownShape
  <1>14. QED  BY <1>7, <1>8, <1>9, <1>10, <1>11, <1>12, <1>13, OneStep

\* net_server_socket_free: its assertion holds.
LEMMA SocketFinishStep ==
  ASSUME IInv, NEW c \in Fd, SocketFinish(c)
  PROVE  IInv'
  <1>1. Before(c)
    BY BeforeStep
  <1>2. /\ ~down /\ sock[c].alive /\ sock[c].refs = {} /\ sock[c].at = "idle"
        /\ "ERROR" \in sock[c].flags /\ conn[c].kind # "none" /\ conn[c].at # "new"
        /\ {"ERROR", "FAILED"} \subseteq conn[c].flags
    BY <1>1 DEF SocketFinish, Failed, Before, M, U, Actors, Life, References, Events, Failing,
       NoSock, NoConn
  <1>3. /\ conn' = [conn EXCEPT ![c] = [conn[c] EXCEPT !.refs = @ \ {"socket"}]] /\ stat' = stat /\ special' = special
        /\ ev' = ev /\ sock' = [sock EXCEPT ![c] = NoSock]
    <2>1. Failed(conn[c]) = conn[c]
      BY <1>2 DEF Failed
    <2>2. conn' = [conn EXCEPT ![c] = [Failed(conn[c]) EXCEPT !.refs = @ \ {"socket"}]]
      BY <1>2 DEF SocketFinish
    <2>3. conn' = [conn EXCEPT ![c] = [conn[c] EXCEPT !.refs = @ \ {"socket"}]]
      BY <2>1, <2>2, Zenon
    <2>4. QED  BY <1>2, <2>3 DEF SocketFinish
  <1>4. ConnIs(c, conn[c].kind, conn[c].flags, conn[c].status, conn[c].io,
               conn[c].refs \ {"socket"}, conn[c].pend, conn[c].at)
    BY <1>1, <1>2, <1>3 DEF Before, ConnIs, ConnRec, Life, NoConn
  <1>5. SockIs(c, FALSE, {}, {}, {}, "idle")
    BY <1>1, <1>2, <1>3 DEF Before, SockIs, SockRec, Life, NoSock
  <1>6. EvIs(c, ev[c].refcnt, ev[c].data)
    BY <1>1, <1>2, <1>3, EvStays DEF Before
  <1>7. MIs(c, M(c)) /\ UIs(c, U(c))
    BY <1>1, <1>2, ConnectionAssumption DEF SocketFinish, Failed, Before, Actors, MIs, UIs, M,
       U, MainTo, MainDone, UserTo, MainRec, UserRec
  <1>8. TypedRest
    BY <1>1, <1>2, ConnectionAssumption DEF SocketFinish, Failed, Before, TypedRest, MainTo,
       MainDone, UserTo, MainRec, UserRec
  <1>9. OthersSame(c)
    BY <1>4, <1>5, <1>6, <1>7 DEF OthersSame, ConnIs, SockIs, EvIs, MIs, UIs
  <1>10. ShapeNow(c)
    <2>1. Life(conn'[c], sock'[c], M(c)')
      BY <1>1, <1>2, <1>4, <1>5, <1>7 DEF Before, ConnIs, SockIs, EvIs, MIs, UIs, Life, NoConn,
         NoSock, ConnRec, SockRec, EvRec
    <2>2. References(conn'[c], sock'[c], ev'[c], U(c)')
      BY <1>1, <1>2, <1>4, <1>5, <1>6, <1>7 DEF Before, ConnIs, SockIs, EvIs, MIs, UIs,
         References, Life, Failing, NoConn, NoSock, ConnRec, SockRec, EvRec
    <2>3. Events(sock'[c], ev'[c], U(c)')
      BY <1>1, <1>2, <1>5, <1>6, <1>7 DEF Before, ConnIs, SockIs, EvIs, MIs, UIs, Events,
         References, Life, NoConn, NoSock, ConnRec, SockRec, EvRec
    <2>4. Failing(conn'[c], sock'[c], M(c)')
      BY <1>1, <1>2, <1>4, <1>5, <1>7 DEF Before, ConnIs, SockIs, EvIs, MIs, UIs, Failing, Life,
         References, NoConn, NoSock, ConnRec, SockRec, EvRec
    <2>5. Connecting(conn'[c], sock'[c])
      BY <1>1, <1>2, <1>4, <1>5 DEF Before, ConnIs, SockIs, EvIs, MIs, UIs, Connecting, Life,
         References, Failing, NoConn, NoSock, ConnRec, SockRec, EvRec
    <2>6. QED  BY <2>1, <2>2, <2>3, <2>4, <2>5 DEF ShapeNow
  <1>11. Tallied(c)
    BY <1>1, <1>2, <1>3, <1>4 DEF Before, Tallied, StatRec, Delta, Acting, In, Out, Allocated,
       Special, IsActive, ConnIs, Life, Failing, References, Connecting, NoConn, ConnRec
  <1>12. Actors'
    BY <1>1, <1>2, ConnectionAssumption DEF SocketFinish, Failed, Before, Actors, MainTo,
       MainDone, UserTo, MainRec, UserRec
  <1>13. Listeners'
    BY <1>1, <1>2, <1>4 DEF SocketFinish, Failed, Before, Listeners, ConnIs, MainTo, MainDone,
       MainRec
  <1>14. DownShape'
    BY <1>1, <1>2 DEF SocketFinish, Failed, Before, DownShape
  <1>15. QED  BY <1>8, <1>9, <1>10, <1>11, <1>12, <1>13, <1>14, OneStep

\* JS_RUN: C_ERROR is tested.
LEMMA ConnRunStep ==
  ASSUME IInv, NEW c \in Fd, ConnRun(c)
  PROVE  IInv'
  <1>1. Before(c)
    BY BeforeStep
  <1>2. ~down /\ conn[c].at = "idle" /\ conn[c].kind # "none"
    BY <1>1 DEF ConnRun, Runnable, Before, M, U, Actors, Life, References, Events, Failing,
       NoConn
  <1>3. ConnIs(c, conn[c].kind, conn[c].flags, conn[c].status, conn[c].io, conn[c].refs,
               conn[c].pend \ {"RUN"}, IF "ERROR" \in conn[c].flags THEN "idle" ELSE "rw")
    BY <1>1, <1>2, ZenonT(60) DEF ConnRun, Runnable, Before, ConnIs, ConnRec, Life, NoConn
  <1>4. SockIs(c, sock[c].alive, sock[c].flags, sock[c].refs, sock[c].pend, sock[c].at)
    BY <1>1, <1>2, SockStays DEF ConnRun, Runnable, Before
  <1>5. EvIs(c, ev[c].refcnt, ev[c].data)
    BY <1>1, <1>2, EvStays DEF ConnRun, Runnable, Before
  <1>6. MIs(c, M(c)) /\ UIs(c, U(c))
    BY <1>1, <1>2, ConnectionAssumption DEF ConnRun, Runnable, Before, Actors, MIs, UIs, M, U,
       MainTo, MainDone, UserTo, MainRec, UserRec
  <1>7. TypedRest
    BY <1>1, <1>2, ConnectionAssumption DEF ConnRun, Runnable, Before, TypedRest, MainTo,
       MainDone, UserTo, MainRec, UserRec
  <1>8. OthersSame(c)
    BY <1>3, <1>4, <1>5, <1>6 DEF OthersSame, ConnIs, SockIs, EvIs, MIs, UIs
  <1>9. ShapeNow(c)
    <2>1. Life(conn'[c], sock'[c], M(c)')
      BY <1>1, <1>2, <1>3, <1>4, <1>6 DEF Before, ConnIs, SockIs, EvIs, MIs, UIs, Life, NoConn,
         NoSock, ConnRec, SockRec, EvRec
    <2>2. References(conn'[c], sock'[c], ev'[c], U(c)')
      BY <1>1, <1>2, <1>3, <1>4, <1>5, <1>6 DEF Before, ConnIs, SockIs, EvIs, MIs, UIs,
         References, Life, Failing, NoConn, NoSock, ConnRec, SockRec, EvRec
    <2>3. Events(sock'[c], ev'[c], U(c)')
      BY <1>1, <1>2, <1>4, <1>5, <1>6 DEF Before, ConnIs, SockIs, EvIs, MIs, UIs, Events,
         References, Life, NoConn, NoSock, ConnRec, SockRec, EvRec
    <2>4. Failing(conn'[c], sock'[c], M(c)')
      BY <1>1, <1>2, <1>3, <1>4, <1>6 DEF Before, ConnIs, SockIs, EvIs, MIs, UIs, Failing, Life,
         References, NoConn, NoSock, ConnRec, SockRec, EvRec
    <2>5. Connecting(conn'[c], sock'[c])
      BY <1>1, <1>2, <1>3, <1>4 DEF Before, ConnIs, SockIs, EvIs, MIs, UIs, Connecting, Life,
         References, Failing, NoConn, NoSock, ConnRec, SockRec, EvRec
    <2>6. QED  BY <2>1, <2>2, <2>3, <2>4, <2>5 DEF ShapeNow
  <1>10. Tallied(c)
    BY <1>1, <1>2, <1>3 DEF ConnRun, Runnable, Before, Tallied, StatRec, Delta, Acting, In, Out,
       Allocated, Special, IsActive, ConnIs, Life, Failing, References, Connecting, NoConn,
       ConnRec
  <1>11. Actors'
    BY <1>1, <1>2, ConnectionAssumption DEF ConnRun, Runnable, Before, Actors, MainTo, MainDone,
       UserTo, MainRec, UserRec
  <1>12. Listeners'
    BY <1>1, <1>2, <1>3 DEF ConnRun, Runnable, Before, Listeners, ConnIs, MainTo, MainDone,
       MainRec
  <1>13. DownShape'
    BY <1>1, <1>2 DEF ConnRun, Runnable, Before, DownShape
  <1>14. QED  BY <1>7, <1>8, <1>9, <1>10, <1>11, <1>12, <1>13, OneStep

\* The handler wakes the socket.
LEMMA ConnWakeStep ==
  ASSUME IInv, NEW c \in Fd, Waking(c)
  PROVE  IInv'
  <1>1. Before(c)
    BY BeforeStep
  <1>2. /\ ~down /\ sock[c].alive /\ conn[c].kind # "none" /\ conn[c].at = "rw"
        /\ "FAILED" \notin conn[c].flags
    BY <1>1 DEF Waking, Before, M, U, Actors, Life, References, Events, Failing, NoConn, NoSock
  <1>3. ConnIs(c, conn[c].kind, conn[c].flags \ {"READY_PENDING"},
               (IF "READY_PENDING" \in conn[c].flags /\ conn[c].status = "connecting" THEN "working" ELSE conn[c].status),
               conn[c].io, conn[c].refs, conn[c].pend, "idle")
    <2> DEFINE r == [Readied(conn[c]) EXCEPT !.at = "idle"]
    <2>1. conn' = [conn EXCEPT ![c] = r]
      BY <1>2 DEF Waking, Before
    <2>2. /\ r.kind = conn[c].kind /\ r.flags = conn[c].flags \ {"READY_PENDING"}
          /\ r.status = (IF "READY_PENDING" \in conn[c].flags /\ conn[c].status = "connecting" THEN "working" ELSE conn[c].status)
          /\ r.io = conn[c].io /\ r.refs = conn[c].refs
          /\ r.pend = conn[c].pend
          /\ r.at = "idle"
          /\ r \in ConnRec
      <3>1. conn[c] \in ConnRec
        BY <1>1 DEF Before
      <3>2. QED  BY <3>1, ReadiedIs DEF ConnRec
    <2> HIDE DEF r
    <2>3. QED  BY <1>1, <1>2, <2>1, <2>2 DEF Before, ConnIs
  <1>4. SockIs(c, sock[c].alive, sock[c].flags, sock[c].refs, sock[c].pend \union {"RUN"},
               sock[c].at)
    BY <1>1, <1>2 DEF Waking, Before, SockIs, SockRec, Life, NoSock
  <1>5. EvIs(c, ev[c].refcnt, ev[c].data)
    BY <1>1, <1>2, EvStays DEF Waking, Before
  <1>6. MIs(c, M(c)) /\ UIs(c, U(c))
    BY <1>1, <1>2, ConnectionAssumption DEF Waking, Before, Actors, MIs, UIs, M, U, MainTo,
       MainDone, UserTo, MainRec, UserRec
  <1>7. TypedRest
    BY <1>1, <1>2, ConnectionAssumption DEF Waking, Before, TypedRest, MainTo, MainDone, UserTo,
       MainRec, UserRec
  <1>8. OthersSame(c)
    BY <1>3, <1>4, <1>5, <1>6 DEF OthersSame, ConnIs, SockIs, EvIs, MIs, UIs
  <1>9. ShapeNow(c)
    <2>1. Life(conn'[c], sock'[c], M(c)')
      BY <1>1, <1>2, <1>3, <1>4, <1>6 DEF Before, ConnIs, SockIs, EvIs, MIs, UIs, Life, NoConn,
         NoSock, ConnRec, SockRec, EvRec
    <2>2. References(conn'[c], sock'[c], ev'[c], U(c)')
      BY <1>1, <1>2, <1>3, <1>4, <1>5, <1>6 DEF Before, ConnIs, SockIs, EvIs, MIs, UIs,
         References, Life, Failing, NoConn, NoSock, ConnRec, SockRec, EvRec
    <2>3. Events(sock'[c], ev'[c], U(c)')
      BY <1>1, <1>2, <1>4, <1>5, <1>6 DEF Before, ConnIs, SockIs, EvIs, MIs, UIs, Events,
         References, Life, NoConn, NoSock, ConnRec, SockRec, EvRec
    <2>4. Failing(conn'[c], sock'[c], M(c)')
      BY <1>1, <1>2, <1>3, <1>4, <1>6 DEF Before, ConnIs, SockIs, EvIs, MIs, UIs, Failing, Life,
         References, NoConn, NoSock, ConnRec, SockRec, EvRec
    <2>5. Connecting(conn'[c], sock'[c])
      BY <1>1, <1>2, <1>3, <1>4 DEF Before, ConnIs, SockIs, EvIs, MIs, UIs, Connecting, Life,
         References, Failing, NoConn, NoSock, ConnRec, SockRec, EvRec
    <2>6. QED  BY <2>1, <2>2, <2>3, <2>4, <2>5 DEF ShapeNow
  <1>10. Tallied(c)
    <2>1. /\ IF "READY_PENDING" \in conn[c].flags THEN Acting(conn'[c]) /\ ~Acting(conn[c])
             ELSE Acting(conn'[c]) <=> Acting(conn[c])
          /\ (In(conn'[c]) <=> In(conn[c])) /\ (Out(conn'[c]) <=> Out(conn[c]))
          /\ (Allocated(conn'[c]) <=> Allocated(conn[c])) /\ (Special(conn'[c]) <=> Special(conn[c]))
      BY <1>1, <1>2, <1>3 DEF Before, Acting, In, Out, Allocated, Special, IsActive, ConnIs,
         Life, Failing, References, Connecting, NoConn, ConnRec
    <2>2. stat \in StatRec /\ special \in Int
      BY <1>1 DEF Before
    <2>3. /\ stat' \in StatRec /\ special' = special
          /\ stat'.active = (IF "READY_PENDING" \in conn[c].flags THEN stat.active + 1 ELSE stat.active)
          /\ stat'.inbound = stat.inbound /\ stat'.outbound = stat.outbound
          /\ stat'.allocated = stat.allocated
      BY <2>2, <1>2 DEF Waking, StatRec
    <2>4. stat' \in StatRec
      BY <2>3
    <2>5. QED  BY <2>1, <2>2, <2>3, <2>4 DEF Tallied, StatRec, Delta
  <1>11. Actors'
    BY <1>1, <1>2, ConnectionAssumption DEF Waking, Before, Actors, MainTo, MainDone, UserTo,
       MainRec, UserRec
  <1>12. Listeners'
    BY <1>1, <1>2, <1>3 DEF Waking, Before, Listeners, ConnIs, MainTo, MainDone, MainRec
  <1>13. DownShape'
    BY <1>1, <1>2 DEF Waking, Before, DownShape
  <1>14. QED  BY <1>7, <1>8, <1>9, <1>10, <1>11, <1>12, <1>13, OneStep

\* The handler fails a connection that is failed already ...
LEMMA ConnFailsAgainStep ==
  ASSUME IInv, NEW c \in Fd, RwFailing(c), "ERROR" \in conn[c].flags
  PROVE  IInv'
  <1>1. Before(c)
    BY BeforeStep
  <1>2. /\ ~down /\ sock[c].alive /\ conn[c].kind # "none" /\ conn[c].at = "rw"
        /\ "FAILED" \notin conn[c].flags
    BY <1>1 DEF RwFailing, Before, M, U, Actors, Life, References, Events, Failing, NoConn,
       NoSock
  <1>3. ConnIs(c, conn[c].kind, conn[c].flags \ {"READY_PENDING"},
               (IF "READY_PENDING" \in conn[c].flags /\ conn[c].status = "connecting" THEN "working" ELSE conn[c].status),
               conn[c].io, conn[c].refs, conn[c].pend, "idle")
    <2> DEFINE r == Failed([Readied(conn[c]) EXCEPT !.at = "idle"])
    <2>1. conn' = [conn EXCEPT ![c] = r]
      BY <1>2 DEF RwFailing, Before
    <2>2. /\ r.kind = conn[c].kind /\ r.flags = conn[c].flags \ {"READY_PENDING"}
          /\ r.status = (IF "READY_PENDING" \in conn[c].flags /\ conn[c].status = "connecting" THEN "working" ELSE conn[c].status)
          /\ r.io = conn[c].io /\ r.refs = conn[c].refs
          /\ r.pend = conn[c].pend
          /\ r.at = "idle"
          /\ r \in ConnRec
      <3> DEFINE k == [Readied(conn[c]) EXCEPT !.at = "idle"]
      <3>1. conn[c] \in ConnRec
        BY <1>1 DEF Before
      <3>2. /\ k \in ConnRec /\ k.flags = conn[c].flags \ {"READY_PENDING"} /\ k.kind = conn[c].kind
            /\ k.io = conn[c].io /\ k.refs = conn[c].refs /\ k.pend = conn[c].pend /\ k.at = "idle"
            /\ k.status = (IF "READY_PENDING" \in conn[c].flags /\ conn[c].status = "connecting" THEN "working" ELSE conn[c].status)
        BY <3>1, ReadiedIs DEF ConnRec
      <3> HIDE DEF k
      <3>3. /\ Failed(k) \in ConnRec /\ Failed(k).flags = k.flags \union {"ERROR"} /\ Failed(k).kind = k.kind
            /\ Failed(k).io = k.io /\ Failed(k).refs = k.refs /\ Failed(k).at = k.at
            /\ "ERROR" \in k.flags => Failed(k) = k
            /\ "ERROR" \notin k.flags => Failed(k).status = "error" /\ Failed(k).pend = k.pend \union {"ABORT"}
        BY <3>2, FailedIs
      <3>4. QED  BY <3>2, <3>3 DEF k
    <2> HIDE DEF r
    <2>3. QED  BY <1>1, <1>2, <2>1, <2>2 DEF Before, ConnIs
  <1>4. SockIs(c, sock[c].alive, sock[c].flags, sock[c].refs, sock[c].pend, sock[c].at)
    BY <1>1, <1>2, SockStays DEF RwFailing, Before
  <1>5. EvIs(c, ev[c].refcnt, ev[c].data)
    BY <1>1, <1>2, EvStays DEF RwFailing, Before
  <1>6. MIs(c, M(c)) /\ UIs(c, U(c))
    BY <1>1, <1>2, ConnectionAssumption DEF RwFailing, Before, Actors, MIs, UIs, M, U, MainTo,
       MainDone, UserTo, MainRec, UserRec
  <1>7. TypedRest
    BY <1>1, <1>2, ConnectionAssumption DEF RwFailing, Before, TypedRest, MainTo, MainDone,
       UserTo, MainRec, UserRec
  <1>8. OthersSame(c)
    BY <1>3, <1>4, <1>5, <1>6 DEF OthersSame, ConnIs, SockIs, EvIs, MIs, UIs
  <1>9. ShapeNow(c)
    <2>1. Life(conn'[c], sock'[c], M(c)')
      BY <1>1, <1>2, <1>3, <1>4, <1>6 DEF Before, ConnIs, SockIs, EvIs, MIs, UIs, Life, NoConn,
         NoSock, ConnRec, SockRec, EvRec
    <2>2. References(conn'[c], sock'[c], ev'[c], U(c)')
      BY <1>1, <1>2, <1>3, <1>4, <1>5, <1>6 DEF Before, ConnIs, SockIs, EvIs, MIs, UIs,
         References, Life, Failing, NoConn, NoSock, ConnRec, SockRec, EvRec
    <2>3. Events(sock'[c], ev'[c], U(c)')
      BY <1>1, <1>2, <1>4, <1>5, <1>6 DEF Before, ConnIs, SockIs, EvIs, MIs, UIs, Events,
         References, Life, NoConn, NoSock, ConnRec, SockRec, EvRec
    <2>4. Failing(conn'[c], sock'[c], M(c)')
      BY <1>1, <1>2, <1>3, <1>4, <1>6 DEF Before, ConnIs, SockIs, EvIs, MIs, UIs, Failing, Life,
         References, NoConn, NoSock, ConnRec, SockRec, EvRec
    <2>5. Connecting(conn'[c], sock'[c])
      BY <1>1, <1>2, <1>3, <1>4 DEF Before, ConnIs, SockIs, EvIs, MIs, UIs, Connecting, Life,
         References, Failing, NoConn, NoSock, ConnRec, SockRec, EvRec
    <2>6. QED  BY <2>1, <2>2, <2>3, <2>4, <2>5 DEF ShapeNow
  <1>10. Tallied(c)
    <2>1. /\ IF "READY_PENDING" \in conn[c].flags THEN Acting(conn'[c]) /\ ~Acting(conn[c])
             ELSE Acting(conn'[c]) <=> Acting(conn[c])
          /\ (In(conn'[c]) <=> In(conn[c])) /\ (Out(conn'[c]) <=> Out(conn[c]))
          /\ (Allocated(conn'[c]) <=> Allocated(conn[c])) /\ (Special(conn'[c]) <=> Special(conn[c]))
      BY <1>1, <1>2, <1>3 DEF Before, Acting, In, Out, Allocated, Special, IsActive, ConnIs,
         Life, Failing, References, Connecting, NoConn, ConnRec
    <2>2. stat \in StatRec /\ special \in Int
      BY <1>1 DEF Before
    <2>3. /\ stat' \in StatRec /\ special' = special
          /\ stat'.active = (IF "READY_PENDING" \in conn[c].flags THEN stat.active + 1 ELSE stat.active)
          /\ stat'.inbound = stat.inbound /\ stat'.outbound = stat.outbound
          /\ stat'.allocated = stat.allocated
      BY <2>2, <1>2 DEF RwFailing, StatRec
    <2>4. stat' \in StatRec
      BY <2>3
    <2>5. QED  BY <2>1, <2>2, <2>3, <2>4 DEF Tallied, StatRec, Delta
  <1>11. Actors'
    BY <1>1, <1>2, ConnectionAssumption DEF RwFailing, Before, Actors, MainTo, MainDone, UserTo,
       MainRec, UserRec
  <1>12. Listeners'
    BY <1>1, <1>2, <1>3 DEF RwFailing, Before, Listeners, ConnIs, MainTo, MainDone, MainRec
  <1>13. DownShape'
    BY <1>1, <1>2 DEF RwFailing, Before, DownShape
  <1>14. QED  BY <1>7, <1>8, <1>9, <1>10, <1>11, <1>12, <1>13, OneStep

\* ... or fails it first.
LEMMA ConnFailsFirstStep ==
  ASSUME IInv, NEW c \in Fd, RwFailing(c), "ERROR" \notin conn[c].flags
  PROVE  IInv'
  <1>1. Before(c)
    BY BeforeStep
  <1>2. /\ ~down /\ sock[c].alive /\ conn[c].kind # "none" /\ conn[c].at = "rw"
        /\ "FAILED" \notin conn[c].flags
    BY <1>1 DEF RwFailing, Before, M, U, Actors, Life, References, Events, Failing, NoConn,
       NoSock
  <1>3. ConnIs(c, conn[c].kind, (conn[c].flags \ {"READY_PENDING"}) \union {"ERROR"},
               "error", conn[c].io, conn[c].refs, conn[c].pend \union {"ABORT"}, "idle")
    <2> DEFINE r == Failed([Readied(conn[c]) EXCEPT !.at = "idle"])
    <2>1. conn' = [conn EXCEPT ![c] = r]
      BY <1>2 DEF RwFailing, Before
    <2>2. /\ r.kind = conn[c].kind /\ r.flags = (conn[c].flags \ {"READY_PENDING"}) \union {"ERROR"}
          /\ r.status = "error"
          /\ r.io = conn[c].io /\ r.refs = conn[c].refs
          /\ r.pend = conn[c].pend \union {"ABORT"}
          /\ r.at = "idle"
          /\ r \in ConnRec
      <3> DEFINE k == [Readied(conn[c]) EXCEPT !.at = "idle"]
      <3>1. conn[c] \in ConnRec
        BY <1>1 DEF Before
      <3>2. /\ k \in ConnRec /\ k.flags = conn[c].flags \ {"READY_PENDING"} /\ k.kind = conn[c].kind
            /\ k.io = conn[c].io /\ k.refs = conn[c].refs /\ k.pend = conn[c].pend /\ k.at = "idle"
            /\ k.status = (IF "READY_PENDING" \in conn[c].flags /\ conn[c].status = "connecting" THEN "working" ELSE conn[c].status)
        BY <3>1, ReadiedIs DEF ConnRec
      <3> HIDE DEF k
      <3>3. /\ Failed(k) \in ConnRec /\ Failed(k).flags = k.flags \union {"ERROR"} /\ Failed(k).kind = k.kind
            /\ Failed(k).io = k.io /\ Failed(k).refs = k.refs /\ Failed(k).at = k.at
            /\ "ERROR" \in k.flags => Failed(k) = k
            /\ "ERROR" \notin k.flags => Failed(k).status = "error" /\ Failed(k).pend = k.pend \union {"ABORT"}
        BY <3>2, FailedIs
      <3>4. QED  BY <3>2, <3>3 DEF k
    <2> HIDE DEF r
    <2>3. QED  BY <1>1, <1>2, <2>1, <2>2 DEF Before, ConnIs
  <1>4. SockIs(c, sock[c].alive, sock[c].flags, sock[c].refs, sock[c].pend, sock[c].at)
    BY <1>1, <1>2, SockStays DEF RwFailing, Before
  <1>5. EvIs(c, ev[c].refcnt, ev[c].data)
    BY <1>1, <1>2, EvStays DEF RwFailing, Before
  <1>6. MIs(c, M(c)) /\ UIs(c, U(c))
    BY <1>1, <1>2, ConnectionAssumption DEF RwFailing, Before, Actors, MIs, UIs, M, U, MainTo,
       MainDone, UserTo, MainRec, UserRec
  <1>7. TypedRest
    BY <1>1, <1>2, ConnectionAssumption DEF RwFailing, Before, TypedRest, MainTo, MainDone,
       UserTo, MainRec, UserRec
  <1>8. OthersSame(c)
    BY <1>3, <1>4, <1>5, <1>6 DEF OthersSame, ConnIs, SockIs, EvIs, MIs, UIs
  <1>9. ShapeNow(c)
    <2>1. Life(conn'[c], sock'[c], M(c)')
      BY <1>1, <1>2, <1>3, <1>4, <1>6 DEF Before, ConnIs, SockIs, EvIs, MIs, UIs, Life, NoConn,
         NoSock, ConnRec, SockRec, EvRec
    <2>2. References(conn'[c], sock'[c], ev'[c], U(c)')
      BY <1>1, <1>2, <1>3, <1>4, <1>5, <1>6 DEF Before, ConnIs, SockIs, EvIs, MIs, UIs,
         References, Life, Failing, NoConn, NoSock, ConnRec, SockRec, EvRec
    <2>3. Events(sock'[c], ev'[c], U(c)')
      BY <1>1, <1>2, <1>4, <1>5, <1>6 DEF Before, ConnIs, SockIs, EvIs, MIs, UIs, Events,
         References, Life, NoConn, NoSock, ConnRec, SockRec, EvRec
    <2>4. Failing(conn'[c], sock'[c], M(c)')
      BY <1>1, <1>2, <1>3, <1>4, <1>6 DEF Before, ConnIs, SockIs, EvIs, MIs, UIs, Failing, Life,
         References, NoConn, NoSock, ConnRec, SockRec, EvRec
    <2>5. Connecting(conn'[c], sock'[c])
      BY <1>1, <1>2, <1>3, <1>4 DEF Before, ConnIs, SockIs, EvIs, MIs, UIs, Connecting, Life,
         References, Failing, NoConn, NoSock, ConnRec, SockRec, EvRec
    <2>6. QED  BY <2>1, <2>2, <2>3, <2>4, <2>5 DEF ShapeNow
  <1>10. Tallied(c)
    <2>1. /\ IF "READY_PENDING" \in conn[c].flags THEN Acting(conn'[c]) /\ ~Acting(conn[c])
             ELSE Acting(conn'[c]) <=> Acting(conn[c])
          /\ (In(conn'[c]) <=> In(conn[c])) /\ (Out(conn'[c]) <=> Out(conn[c]))
          /\ (Allocated(conn'[c]) <=> Allocated(conn[c])) /\ (Special(conn'[c]) <=> Special(conn[c]))
      BY <1>1, <1>2, <1>3 DEF Before, Acting, In, Out, Allocated, Special, IsActive, ConnIs,
         Life, Failing, References, Connecting, NoConn, ConnRec
    <2>2. stat \in StatRec /\ special \in Int
      BY <1>1 DEF Before
    <2>3. /\ stat' \in StatRec /\ special' = special
          /\ stat'.active = (IF "READY_PENDING" \in conn[c].flags THEN stat.active + 1 ELSE stat.active)
          /\ stat'.inbound = stat.inbound /\ stat'.outbound = stat.outbound
          /\ stat'.allocated = stat.allocated
      BY <2>2, <1>2 DEF RwFailing, StatRec
    <2>4. stat' \in StatRec
      BY <2>3
    <2>5. QED  BY <2>1, <2>2, <2>3, <2>4 DEF Tallied, StatRec, Delta
  <1>11. Actors'
    BY <1>1, <1>2, ConnectionAssumption DEF RwFailing, Before, Actors, MainTo, MainDone, UserTo,
       MainRec, UserRec
  <1>12. Listeners'
    BY <1>1, <1>2, <1>3 DEF RwFailing, Before, Listeners, ConnIs, MainTo, MainDone, MainRec
  <1>13. DownShape'
    BY <1>1, <1>2 DEF RwFailing, Before, DownShape
  <1>14. QED  BY <1>7, <1>8, <1>9, <1>10, <1>11, <1>12, <1>13, OneStep

\* The handler decides on a write-close ...
LEMMA ConnAsksCloseStep ==
  ASSUME IInv, NEW c \in Fd, AskingClose(c)
  PROVE  IInv'
  <1>1. Before(c)
    BY BeforeStep
  <1>2. /\ ~down /\ sock[c].alive /\ conn[c].kind # "none" /\ conn[c].at = "rw"
        /\ "FAILED" \notin conn[c].flags
    BY <1>1 DEF AskingClose, Before, M, U, Actors, Life, References, Events, Failing, NoConn,
       NoSock
  <1>3. ConnIs(c, conn[c].kind, conn[c].flags \ {"READY_PENDING"},
               (IF "READY_PENDING" \in conn[c].flags /\ conn[c].status = "connecting" THEN "working" ELSE conn[c].status),
               conn[c].io, conn[c].refs, conn[c].pend, "wclose")
    <2> DEFINE r == [Readied(conn[c]) EXCEPT !.at = "wclose"]
    <2>1. conn' = [conn EXCEPT ![c] = r]
      BY <1>2 DEF AskingClose, Before
    <2>2. /\ r.kind = conn[c].kind /\ r.flags = conn[c].flags \ {"READY_PENDING"}
          /\ r.status = (IF "READY_PENDING" \in conn[c].flags /\ conn[c].status = "connecting" THEN "working" ELSE conn[c].status)
          /\ r.io = conn[c].io /\ r.refs = conn[c].refs
          /\ r.pend = conn[c].pend
          /\ r.at = "wclose"
          /\ r \in ConnRec
      <3>1. conn[c] \in ConnRec
        BY <1>1 DEF Before
      <3>2. QED  BY <3>1, ReadiedIs DEF ConnRec
    <2> HIDE DEF r
    <2>3. QED  BY <1>1, <1>2, <2>1, <2>2 DEF Before, ConnIs
  <1>4. SockIs(c, sock[c].alive, sock[c].flags, sock[c].refs, sock[c].pend, sock[c].at)
    BY <1>1, <1>2, SockStays DEF AskingClose, Before
  <1>5. EvIs(c, ev[c].refcnt, ev[c].data)
    BY <1>1, <1>2, EvStays DEF AskingClose, Before
  <1>6. MIs(c, M(c)) /\ UIs(c, U(c))
    BY <1>1, <1>2, ConnectionAssumption DEF AskingClose, Before, Actors, MIs, UIs, M, U, MainTo,
       MainDone, UserTo, MainRec, UserRec
  <1>7. TypedRest
    BY <1>1, <1>2, ConnectionAssumption DEF AskingClose, Before, TypedRest, MainTo, MainDone,
       UserTo, MainRec, UserRec
  <1>8. OthersSame(c)
    BY <1>3, <1>4, <1>5, <1>6 DEF OthersSame, ConnIs, SockIs, EvIs, MIs, UIs
  <1>9. ShapeNow(c)
    <2>1. Life(conn'[c], sock'[c], M(c)')
      BY <1>1, <1>2, <1>3, <1>4, <1>6 DEF Before, ConnIs, SockIs, EvIs, MIs, UIs, Life, NoConn,
         NoSock, ConnRec, SockRec, EvRec
    <2>2. References(conn'[c], sock'[c], ev'[c], U(c)')
      BY <1>1, <1>2, <1>3, <1>4, <1>5, <1>6 DEF Before, ConnIs, SockIs, EvIs, MIs, UIs,
         References, Life, Failing, NoConn, NoSock, ConnRec, SockRec, EvRec
    <2>3. Events(sock'[c], ev'[c], U(c)')
      BY <1>1, <1>2, <1>4, <1>5, <1>6 DEF Before, ConnIs, SockIs, EvIs, MIs, UIs, Events,
         References, Life, NoConn, NoSock, ConnRec, SockRec, EvRec
    <2>4. Failing(conn'[c], sock'[c], M(c)')
      BY <1>1, <1>2, <1>3, <1>4, <1>6 DEF Before, ConnIs, SockIs, EvIs, MIs, UIs, Failing, Life,
         References, NoConn, NoSock, ConnRec, SockRec, EvRec
    <2>5. Connecting(conn'[c], sock'[c])
      BY <1>1, <1>2, <1>3, <1>4 DEF Before, ConnIs, SockIs, EvIs, MIs, UIs, Connecting, Life,
         References, Failing, NoConn, NoSock, ConnRec, SockRec, EvRec
    <2>6. QED  BY <2>1, <2>2, <2>3, <2>4, <2>5 DEF ShapeNow
  <1>10. Tallied(c)
    <2>1. /\ IF "READY_PENDING" \in conn[c].flags THEN Acting(conn'[c]) /\ ~Acting(conn[c])
             ELSE Acting(conn'[c]) <=> Acting(conn[c])
          /\ (In(conn'[c]) <=> In(conn[c])) /\ (Out(conn'[c]) <=> Out(conn[c]))
          /\ (Allocated(conn'[c]) <=> Allocated(conn[c])) /\ (Special(conn'[c]) <=> Special(conn[c]))
      BY <1>1, <1>2, <1>3 DEF Before, Acting, In, Out, Allocated, Special, IsActive, ConnIs,
         Life, Failing, References, Connecting, NoConn, ConnRec
    <2>2. stat \in StatRec /\ special \in Int
      BY <1>1 DEF Before
    <2>3. /\ stat' \in StatRec /\ special' = special
          /\ stat'.active = (IF "READY_PENDING" \in conn[c].flags THEN stat.active + 1 ELSE stat.active)
          /\ stat'.inbound = stat.inbound /\ stat'.outbound = stat.outbound
          /\ stat'.allocated = stat.allocated
      BY <2>2, <1>2 DEF AskingClose, StatRec
    <2>4. stat' \in StatRec
      BY <2>3
    <2>5. QED  BY <2>1, <2>2, <2>3, <2>4 DEF Tallied, StatRec, Delta
  <1>11. Actors'
    BY <1>1, <1>2, ConnectionAssumption DEF AskingClose, Before, Actors, MainTo, MainDone,
       UserTo, MainRec, UserRec
  <1>12. Listeners'
    BY <1>1, <1>2, <1>3 DEF AskingClose, Before, Listeners, ConnIs, MainTo, MainDone, MainRec
  <1>13. DownShape'
    BY <1>1, <1>2 DEF AskingClose, Before, DownShape
  <1>14. QED  BY <1>7, <1>8, <1>9, <1>10, <1>11, <1>12, <1>13, OneStep

\* ... and stores it.
LEMMA ConnWriteCloseStep ==
  ASSUME IInv, NEW c \in Fd, ConnWriteClose(c)
  PROVE  IInv'
  <1>1. Before(c)
    BY BeforeStep
  <1>2. ~down /\ conn[c].at = "wclose" /\ conn[c].kind # "none"
    BY <1>1 DEF ConnWriteClose, Before, M, U, Actors, Life, References, Events, Failing, NoConn
  <1>3. ConnIs(c, conn[c].kind, conn[c].flags, "write_close", conn[c].io, conn[c].refs,
               conn[c].pend \union {"RUN"}, "idle")
    BY <1>1, <1>2 DEF ConnWriteClose, Before, ConnIs, ConnRec, Life, NoConn
  <1>4. SockIs(c, sock[c].alive, sock[c].flags, sock[c].refs, sock[c].pend, sock[c].at)
    BY <1>1, <1>2, SockStays DEF ConnWriteClose, Before
  <1>5. EvIs(c, ev[c].refcnt, ev[c].data)
    BY <1>1, <1>2, EvStays DEF ConnWriteClose, Before
  <1>6. MIs(c, M(c)) /\ UIs(c, U(c))
    BY <1>1, <1>2, ConnectionAssumption DEF ConnWriteClose, Before, Actors, MIs, UIs, M, U,
       MainTo, MainDone, UserTo, MainRec, UserRec
  <1>7. TypedRest
    BY <1>1, <1>2, ConnectionAssumption DEF ConnWriteClose, Before, TypedRest, MainTo, MainDone,
       UserTo, MainRec, UserRec
  <1>8. OthersSame(c)
    BY <1>3, <1>4, <1>5, <1>6 DEF OthersSame, ConnIs, SockIs, EvIs, MIs, UIs
  <1>9. ShapeNow(c)
    <2>1. Life(conn'[c], sock'[c], M(c)')
      BY <1>1, <1>2, <1>3, <1>4, <1>6 DEF Before, ConnIs, SockIs, EvIs, MIs, UIs, Life, NoConn,
         NoSock, ConnRec, SockRec, EvRec
    <2>2. References(conn'[c], sock'[c], ev'[c], U(c)')
      BY <1>1, <1>2, <1>3, <1>4, <1>5, <1>6 DEF Before, ConnIs, SockIs, EvIs, MIs, UIs,
         References, Life, Failing, NoConn, NoSock, ConnRec, SockRec, EvRec
    <2>3. Events(sock'[c], ev'[c], U(c)')
      BY <1>1, <1>2, <1>4, <1>5, <1>6 DEF Before, ConnIs, SockIs, EvIs, MIs, UIs, Events,
         References, Life, NoConn, NoSock, ConnRec, SockRec, EvRec
    <2>4. Failing(conn'[c], sock'[c], M(c)')
      BY <1>1, <1>2, <1>3, <1>4, <1>6 DEF Before, ConnIs, SockIs, EvIs, MIs, UIs, Failing, Life,
         References, NoConn, NoSock, ConnRec, SockRec, EvRec
    <2>5. Connecting(conn'[c], sock'[c])
      BY <1>1, <1>2, <1>3, <1>4 DEF Before, ConnIs, SockIs, EvIs, MIs, UIs, Connecting, Life,
         References, Failing, NoConn, NoSock, ConnRec, SockRec, EvRec
    <2>6. QED  BY <2>1, <2>2, <2>3, <2>4, <2>5 DEF ShapeNow
  <1>10. Tallied(c)
    BY <1>1, <1>2, <1>3 DEF ConnWriteClose, Before, Tallied, StatRec, Delta, Acting, In, Out,
       Allocated, Special, IsActive, ConnIs, Life, Failing, References, Connecting, NoConn,
       ConnRec
  <1>11. Actors'
    BY <1>1, <1>2, ConnectionAssumption DEF ConnWriteClose, Before, Actors, MainTo, MainDone,
       UserTo, MainRec, UserRec
  <1>12. Listeners'
    BY <1>1, <1>2, <1>3 DEF ConnWriteClose, Before, Listeners, ConnIs, MainTo, MainDone,
       MainRec
  <1>13. DownShape'
    BY <1>1, <1>2 DEF ConnWriteClose, Before, DownShape
  <1>14. QED  BY <1>7, <1>8, <1>9, <1>10, <1>11, <1>12, <1>13, OneStep

\* JS_ABORT after the close.
LEMMA ConnAbortAgainStep ==
  ASSUME IInv, NEW c \in Fd, ConnAbort(c), "FAILED" \in conn[c].flags
  PROVE  IInv'
  <1>1. Before(c)
    BY BeforeStep
  <1>2. ~down /\ conn[c].at = "idle" /\ conn[c].kind # "none"
    BY <1>1 DEF ConnAbort, Runnable, Before, M, U, Actors, Life, References, Events, Failing,
       NoConn
  <1>3. ConnIs(c, conn[c].kind, conn[c].flags, conn[c].status, conn[c].io, conn[c].refs,
               conn[c].pend \ {"ABORT"}, conn[c].at)
    BY <1>1, <1>2, SMTT(60) DEF ConnAbort, Runnable, Before, ConnIs, ConnRec, Life, NoConn
  <1>4. SockIs(c, sock[c].alive, sock[c].flags, sock[c].refs, sock[c].pend, sock[c].at)
    BY <1>1, <1>2, SockStays DEF ConnAbort, Runnable, Before
  <1>5. EvIs(c, ev[c].refcnt, ev[c].data)
    BY <1>1, <1>2, EvStays DEF ConnAbort, Runnable, Before
  <1>6. MIs(c, M(c)) /\ UIs(c, U(c))
    BY <1>1, <1>2, ConnectionAssumption DEF ConnAbort, Runnable, Before, Actors, MIs, UIs, M, U,
       MainTo, MainDone, UserTo, MainRec, UserRec
  <1>7. TypedRest
    BY <1>1, <1>2, ConnectionAssumption DEF ConnAbort, Runnable, Before, TypedRest, MainTo,
       MainDone, UserTo, MainRec, UserRec
  <1>8. OthersSame(c)
    BY <1>3, <1>4, <1>5, <1>6 DEF OthersSame, ConnIs, SockIs, EvIs, MIs, UIs
  <1>9. ShapeNow(c)
    <2>1. Life(conn'[c], sock'[c], M(c)')
      BY <1>1, <1>2, <1>3, <1>4, <1>6 DEF Before, ConnIs, SockIs, EvIs, MIs, UIs, Life, NoConn,
         NoSock, ConnRec, SockRec, EvRec
    <2>2. References(conn'[c], sock'[c], ev'[c], U(c)')
      BY <1>1, <1>2, <1>3, <1>4, <1>5, <1>6 DEF Before, ConnIs, SockIs, EvIs, MIs, UIs,
         References, Life, Failing, NoConn, NoSock, ConnRec, SockRec, EvRec
    <2>3. Events(sock'[c], ev'[c], U(c)')
      BY <1>1, <1>2, <1>4, <1>5, <1>6 DEF Before, ConnIs, SockIs, EvIs, MIs, UIs, Events,
         References, Life, NoConn, NoSock, ConnRec, SockRec, EvRec
    <2>4. Failing(conn'[c], sock'[c], M(c)')
      BY <1>1, <1>2, <1>3, <1>4, <1>6 DEF Before, ConnIs, SockIs, EvIs, MIs, UIs, Failing, Life,
         References, NoConn, NoSock, ConnRec, SockRec, EvRec
    <2>5. Connecting(conn'[c], sock'[c])
      BY <1>1, <1>2, <1>3, <1>4 DEF Before, ConnIs, SockIs, EvIs, MIs, UIs, Connecting, Life,
         References, Failing, NoConn, NoSock, ConnRec, SockRec, EvRec
    <2>6. QED  BY <2>1, <2>2, <2>3, <2>4, <2>5 DEF ShapeNow
  <1>10. Tallied(c)
    BY <1>1, <1>2, <1>3 DEF ConnAbort, Runnable, Before, Tallied, StatRec, Delta, Acting, In,
       Out, Allocated, Special, IsActive, ConnIs, Life, Failing, References, Connecting, NoConn,
       ConnRec
  <1>11. Actors'
    BY <1>1, <1>2, ConnectionAssumption DEF ConnAbort, Runnable, Before, Actors, MainTo,
       MainDone, UserTo, MainRec, UserRec
  <1>12. Listeners'
    BY <1>1, <1>2, <1>3 DEF ConnAbort, Runnable, Before, Listeners, ConnIs, MainTo, MainDone,
       MainRec
  <1>13. DownShape'
    BY <1>1, <1>2 DEF ConnAbort, Runnable, Before, DownShape
  <1>14. QED  BY <1>7, <1>8, <1>9, <1>10, <1>11, <1>12, <1>13, OneStep

\* cpu_server_close_connection: every statistic the connection was counted in.
LEMMA ConnAbortFirstStep ==
  ASSUME IInv, NEW c \in Fd, ConnAbort(c), "FAILED" \notin conn[c].flags, conn[c].status = "error"
  PROVE  IInv'
  <1>1. Before(c)
    BY BeforeStep
  <1>2. /\ ~down /\ conn[c].at = "idle" /\ conn[c].kind # "none" /\ conn[c].io
        /\ "ERROR" \in conn[c].flags /\ sock[c].alive
    BY <1>1 DEF ConnAbort, Runnable, Before, M, U, Actors, Life, References, Events, Failing,
       NoConn, NoSock
  <1>3. /\ conn' = [conn EXCEPT ![c] = [conn[c] EXCEPT !.pend = @ \ {"ABORT"}, !.io = FALSE,
                   !.flags = (@ \union {"FAILED"}) \ {"SPECIAL"},
                   !.at = IF "SPECIAL" \in conn[c].flags THEN "special" ELSE "idle"]]
        /\ sock' = [sock EXCEPT ![c].refs = @ \ {"io"}, ![c].pend = @ \union {"ABORT"}]
        /\ stat' = [stat EXCEPT !.inbound = IF conn[c].kind = "in" THEN @ - 1 ELSE @,
                                 !.outbound = IF conn[c].kind = "out" THEN @ - 1 ELSE @,
                                 !.active = IF IsActive(conn[c].flags) THEN @ - 1 ELSE @]
        /\ ev' = ev /\ special' = special
    BY <1>2 DEF ConnAbort
  <1>4. ConnIs(c, conn[c].kind, (conn[c].flags \union {"FAILED"}) \ {"SPECIAL"},
               conn[c].status, FALSE, conn[c].refs, conn[c].pend \ {"ABORT"},
               IF "SPECIAL" \in conn[c].flags THEN "special" ELSE "idle")
    <2> DEFINE r == [conn[c] EXCEPT !.pend = @ \ {"ABORT"}, !.io = FALSE,
                   !.flags = (@ \union {"FAILED"}) \ {"SPECIAL"},
                   !.at = IF "SPECIAL" \in conn[c].flags THEN "special" ELSE "idle"]
    <2>1. conn' = [conn EXCEPT ![c] = r]
      BY <1>2, <1>3 DEF Before
    <2>2. /\ r.kind = conn[c].kind /\ r.flags = (conn[c].flags \union {"FAILED"}) \ {"SPECIAL"}
          /\ r.status = conn[c].status
          /\ r.io = FALSE /\ r.refs = conn[c].refs
          /\ r.pend = conn[c].pend \ {"ABORT"}
          /\ r.at = IF "SPECIAL" \in conn[c].flags THEN "special" ELSE "idle"
          /\ r \in ConnRec
      BY <1>1, <1>2 DEF Before, ConnRec
    <2> HIDE DEF r
    <2>3. QED  BY <1>1, <1>2, <2>1, <2>2 DEF Before, ConnIs
  <1>5. SockIs(c, sock[c].alive, sock[c].flags, sock[c].refs \ {"io"},
               sock[c].pend \union {"ABORT"}, sock[c].at)
    BY <1>1, <1>2, <1>3 DEF Before, SockIs, SockRec, Life, NoSock
  <1>6. EvIs(c, ev[c].refcnt, ev[c].data)
    BY <1>1, <1>2, <1>3, EvStays DEF Before
  <1>7. MIs(c, M(c)) /\ UIs(c, U(c))
    BY <1>1, <1>2, ConnectionAssumption DEF ConnAbort, Runnable, Before, Actors, MIs, UIs, M, U,
       MainTo, MainDone, UserTo, MainRec, UserRec
  <1>8. TypedRest
    BY <1>1, <1>2, ConnectionAssumption DEF ConnAbort, Runnable, Before, TypedRest, MainTo,
       MainDone, UserTo, MainRec, UserRec
  <1>9. OthersSame(c)
    BY <1>4, <1>5, <1>6, <1>7 DEF OthersSame, ConnIs, SockIs, EvIs, MIs, UIs
  <1>10. ShapeNow(c)
    <2>1. Life(conn'[c], sock'[c], M(c)')
      BY <1>1, <1>2, <1>4, <1>5, <1>7 DEF Before, ConnIs, SockIs, EvIs, MIs, UIs, Life, NoConn,
         NoSock, ConnRec, SockRec, EvRec
    <2>2. References(conn'[c], sock'[c], ev'[c], U(c)')
      BY <1>1, <1>2, <1>4, <1>5, <1>6, <1>7 DEF Before, ConnIs, SockIs, EvIs, MIs, UIs,
         References, Life, Failing, NoConn, NoSock, ConnRec, SockRec, EvRec
    <2>3. Events(sock'[c], ev'[c], U(c)')
      BY <1>1, <1>2, <1>5, <1>6, <1>7 DEF Before, ConnIs, SockIs, EvIs, MIs, UIs, Events,
         References, Life, NoConn, NoSock, ConnRec, SockRec, EvRec
    <2>4. Failing(conn'[c], sock'[c], M(c)')
      BY <1>1, <1>2, <1>4, <1>5, <1>7 DEF Before, ConnIs, SockIs, EvIs, MIs, UIs, Failing, Life,
         References, NoConn, NoSock, ConnRec, SockRec, EvRec
    <2>5. Connecting(conn'[c], sock'[c])
      BY <1>1, <1>2, <1>4, <1>5 DEF Before, ConnIs, SockIs, EvIs, MIs, UIs, Connecting, Life,
         References, Failing, NoConn, NoSock, ConnRec, SockRec, EvRec
    <2>6. QED  BY <2>1, <2>2, <2>3, <2>4, <2>5 DEF ShapeNow
  <1>11. Tallied(c)
    <2>1. /\ ~Acting(conn'[c]) /\ (Acting(conn[c]) <=> IsActive(conn[c].flags))
          /\ ~In(conn'[c]) /\ (In(conn[c]) <=> conn[c].kind = "in")
          /\ ~Out(conn'[c]) /\ (Out(conn[c]) <=> conn[c].kind = "out")
          /\ Allocated(conn'[c]) /\ Allocated(conn[c]) /\ (Special(conn'[c]) <=> Special(conn[c]))
      BY <1>1, <1>2, <1>4 DEF Before, Acting, In, Out, Allocated, Special, IsActive, ConnIs,
         Life, Failing, References, Connecting, NoConn, ConnRec
    <2>2. stat \in StatRec /\ special \in Int
      BY <1>1 DEF Before
    <2>3. /\ special' = special
          /\ stat'.active = (IF IsActive(conn[c].flags) THEN stat.active - 1 ELSE stat.active)
          /\ stat'.inbound = (IF conn[c].kind = "in" THEN stat.inbound - 1 ELSE stat.inbound)
          /\ stat'.outbound = (IF conn[c].kind = "out" THEN stat.outbound - 1 ELSE stat.outbound)
          /\ stat'.allocated = stat.allocated
      BY <2>2, <1>3 DEF StatRec
    <2>4. stat' \in StatRec
      <3>1. /\ (IF conn[c].kind = "in" THEN stat.inbound - 1 ELSE stat.inbound) \in Int
            /\ (IF conn[c].kind = "out" THEN stat.outbound - 1 ELSE stat.outbound) \in Int
            /\ (IF IsActive(conn[c].flags) THEN stat.active - 1 ELSE stat.active) \in Int
        BY <2>2 DEF StatRec
      <3>2. QED  BY <2>2, <1>3, <3>1, StatSet
    <2>5. QED  BY <2>1, <2>2, <2>3, <2>4 DEF Tallied, StatRec, Delta
  <1>12. Actors'
    BY <1>1, <1>2, ConnectionAssumption DEF ConnAbort, Runnable, Before, Actors, MainTo,
       MainDone, UserTo, MainRec, UserRec
  <1>13. Listeners'
    BY <1>1, <1>2, <1>4 DEF ConnAbort, Runnable, Before, Listeners, ConnIs, MainTo, MainDone,
       MainRec
  <1>14. DownShape'
    BY <1>1, <1>2 DEF ConnAbort, Runnable, Before, DownShape
  <1>15. QED  BY <1>8, <1>9, <1>10, <1>11, <1>12, <1>13, <1>14, OneStep

\* The status is not conn_error: the assertion fails.
LEMMA ConnAbortDownStep ==
  ASSUME IInv, NEW c \in Fd, ConnAbort(c), "FAILED" \notin conn[c].flags, conn[c].status # "error"
  PROVE  IInv'
  <1>1. Before(c)
    BY BeforeStep
  <1>2. ~down /\ conn[c].status = "write_close" /\ conn[c].io /\ "ERROR" \in conn[c].flags
    BY <1>1 DEF ConnAbort, Runnable, Before, M, U, Actors, Life, References, Events, Failing,
       NoConn, NoSock
  <1>3. ConnIs(c, conn[c].kind, conn[c].flags, conn[c].status, conn[c].io, conn[c].refs,
               conn[c].pend, conn[c].at)
    BY <1>1, <1>2, ConnStays DEF ConnAbort, Runnable, Before
  <1>4. SockIs(c, sock[c].alive, sock[c].flags, sock[c].refs, sock[c].pend, sock[c].at)
    BY <1>1, <1>2, SockStays DEF ConnAbort, Runnable, Before
  <1>5. EvIs(c, ev[c].refcnt, ev[c].data)
    BY <1>1, <1>2, EvStays DEF ConnAbort, Runnable, Before
  <1>6. MIs(c, M(c)) /\ UIs(c, U(c))
    BY <1>1, <1>2, ConnectionAssumption DEF ConnAbort, Runnable, Before, Actors, MIs, UIs, M, U,
       MainTo, MainDone, UserTo, MainRec, UserRec
  <1>7. TypedRest
    BY <1>1, <1>2, ConnectionAssumption DEF ConnAbort, Runnable, Before, TypedRest, MainTo,
       MainDone, UserTo, MainRec, UserRec
  <1>8. OthersSame(c)
    BY <1>3, <1>4, <1>5, <1>6 DEF OthersSame, ConnIs, SockIs, EvIs, MIs, UIs
  <1>9. ShapeNow(c)
    <2>1. Life(conn'[c], sock'[c], M(c)')
      BY <1>1, <1>2, <1>3, <1>4, <1>6 DEF Before, ConnIs, SockIs, EvIs, MIs, UIs, Life, NoConn,
         NoSock, ConnRec, SockRec, EvRec
    <2>2. References(conn'[c], sock'[c], ev'[c], U(c)')
      BY <1>1, <1>2, <1>3, <1>4, <1>5, <1>6 DEF Before, ConnIs, SockIs, EvIs, MIs, UIs,
         References, Life, Failing, NoConn, NoSock, ConnRec, SockRec, EvRec
    <2>3. Events(sock'[c], ev'[c], U(c)')
      BY <1>1, <1>2, <1>4, <1>5, <1>6 DEF Before, ConnIs, SockIs, EvIs, MIs, UIs, Events,
         References, Life, NoConn, NoSock, ConnRec, SockRec, EvRec
    <2>4. Failing(conn'[c], sock'[c], M(c)')
      BY <1>1, <1>2, <1>3, <1>4, <1>6 DEF Before, ConnIs, SockIs, EvIs, MIs, UIs, Failing, Life,
         References, NoConn, NoSock, ConnRec, SockRec, EvRec
    <2>5. Connecting(conn'[c], sock'[c])
      BY <1>1, <1>2, <1>3, <1>4 DEF Before, ConnIs, SockIs, EvIs, MIs, UIs, Connecting, Life,
         References, Failing, NoConn, NoSock, ConnRec, SockRec, EvRec
    <2>6. QED  BY <2>1, <2>2, <2>3, <2>4, <2>5 DEF ShapeNow
  <1>10. Tallied(c)
    BY <1>1, <1>2, <1>3 DEF ConnAbort, Runnable, Before, Tallied, StatRec, Delta, Acting, In,
       Out, Allocated, Special, IsActive, ConnIs, Life, Failing, References, Connecting, NoConn,
       ConnRec
  <1>11. Actors'
    BY <1>1, <1>2, ConnectionAssumption DEF ConnAbort, Runnable, Before, Actors, MainTo,
       MainDone, UserTo, MainRec, UserRec
  <1>12. Listeners'
    BY <1>1, <1>2, <1>3 DEF ConnAbort, Runnable, Before, Listeners, ConnIs, MainTo, MainDone,
       MainRec
  <1>13. DownShape'
    BY <1>1, <1>2 DEF ConnAbort, Runnable, Before, DownShape
  <1>14. QED  BY <1>7, <1>8, <1>9, <1>10, <1>11, <1>12, <1>13, OneStep

\* The place is given back; the one who crosses the limit tells the listeners.
LEMMA ConnSpecialStep ==
  ASSUME IInv, NEW c \in Fd, ConnSpecial(c)
  PROVE  IInv'
  <1>1. Before(c)
    BY BeforeStep
  <1>2. /\ ~down /\ conn[c].at = "special" /\ conn[c].kind # "none"
        /\ "SPECIAL" \notin conn[c].flags
    BY <1>1 DEF ConnSpecial, Before, M, U, Actors, Life, References, Events, Failing, NoConn
  <1>3. ConnIs(c, conn[c].kind, conn[c].flags, conn[c].status, conn[c].io, conn[c].refs,
               conn[c].pend, IF special = MaxSpecial THEN "notify" ELSE "idle")
    BY <1>1, <1>2 DEF ConnSpecial, Before, ConnIs, ConnRec, Life, NoConn
  <1>4. SockIs(c, sock[c].alive, sock[c].flags, sock[c].refs, sock[c].pend, sock[c].at)
    BY <1>1, <1>2, SockStays DEF ConnSpecial, Before
  <1>5. EvIs(c, ev[c].refcnt, ev[c].data)
    BY <1>1, <1>2, EvStays DEF ConnSpecial, Before
  <1>6. MIs(c, M(c)) /\ UIs(c, U(c))
    BY <1>1, <1>2, ConnectionAssumption DEF ConnSpecial, Before, Actors, MIs, UIs, M, U, MainTo,
       MainDone, UserTo, MainRec, UserRec
  <1>7. TypedRest
    BY <1>1, <1>2, ConnectionAssumption DEF ConnSpecial, Before, TypedRest, MainTo, MainDone,
       UserTo, MainRec, UserRec
  <1>8. OthersSame(c)
    BY <1>3, <1>4, <1>5, <1>6 DEF OthersSame, ConnIs, SockIs, EvIs, MIs, UIs
  <1>9. ShapeNow(c)
    <2>1. Life(conn'[c], sock'[c], M(c)')
      BY <1>1, <1>2, <1>3, <1>4, <1>6 DEF Before, ConnIs, SockIs, EvIs, MIs, UIs, Life, NoConn,
         NoSock, ConnRec, SockRec, EvRec
    <2>2. References(conn'[c], sock'[c], ev'[c], U(c)')
      BY <1>1, <1>2, <1>3, <1>4, <1>5, <1>6 DEF Before, ConnIs, SockIs, EvIs, MIs, UIs,
         References, Life, Failing, NoConn, NoSock, ConnRec, SockRec, EvRec
    <2>3. Events(sock'[c], ev'[c], U(c)')
      BY <1>1, <1>2, <1>4, <1>5, <1>6 DEF Before, ConnIs, SockIs, EvIs, MIs, UIs, Events,
         References, Life, NoConn, NoSock, ConnRec, SockRec, EvRec
    <2>4. Failing(conn'[c], sock'[c], M(c)')
      BY <1>1, <1>2, <1>3, <1>4, <1>6 DEF Before, ConnIs, SockIs, EvIs, MIs, UIs, Failing, Life,
         References, NoConn, NoSock, ConnRec, SockRec, EvRec
    <2>5. Connecting(conn'[c], sock'[c])
      BY <1>1, <1>2, <1>3, <1>4 DEF Before, ConnIs, SockIs, EvIs, MIs, UIs, Connecting, Life,
         References, Failing, NoConn, NoSock, ConnRec, SockRec, EvRec
    <2>6. QED  BY <2>1, <2>2, <2>3, <2>4, <2>5 DEF ShapeNow
  <1>10. Tallied(c)
    BY <1>1, <1>2, <1>3 DEF ConnSpecial, Before, Tallied, StatRec, Delta, Acting, In, Out,
       Allocated, Special, IsActive, ConnIs, Life, Failing, References, Connecting, NoConn,
       ConnRec
  <1>11. Actors'
    BY <1>1, <1>2, ConnectionAssumption DEF ConnSpecial, Before, Actors, MainTo, MainDone,
       UserTo, MainRec, UserRec
  <1>12. Listeners'
    <2> SUFFICES ASSUME special' < MaxSpecial, \A d \in Fd : conn'[d].at # "notify"
               PROVE  \A l \in Listener : aux'[l] \/ (listening'[l] /\ ~(main'.at = "remove" /\ main'.l = l))
      BY DEF Listeners
    <2>1. special < MaxSpecial
      BY <1>1, <1>2, <1>3, ConnectionAssumption DEF ConnSpecial, Before, ConnIs
    <2>2. \A d \in Fd : conn[d].at # "notify"
      BY <1>1, <1>2, <1>3 DEF Before, ConnIs, NoConn
    <2>3. main'.at # "remove" \/ main' = main
      BY <1>1, <1>2, <2>1, ConnectionAssumption DEF ConnSpecial, Before, MainRec, MainTo
    <2>4. listening' = listening /\ aux' = aux
      BY DEF ConnSpecial
    <2>5. QED  BY <1>1, <2>1, <2>2, <2>3, <2>4 DEF Before, Listeners
  <1>13. DownShape'
    BY <1>1, <1>2 DEF ConnSpecial, Before, DownShape
  <1>14. QED  BY <1>7, <1>8, <1>9, <1>10, <1>11, <1>12, <1>13, OneStep

\* JS_AUX to the listeners.
LEMMA ConnNotifyStep ==
  ASSUME IInv, NEW c \in Fd, ConnNotify(c)
  PROVE  IInv'
  <1>1. Before(c)
    BY BeforeStep
  <1>2. ~down /\ conn[c].at = "notify" /\ conn[c].kind # "none"
    BY <1>1 DEF ConnNotify, Before, M, U, Actors, Life, References, Events, Failing, NoConn
  <1>3. ConnIs(c, conn[c].kind, conn[c].flags, conn[c].status, conn[c].io, conn[c].refs,
               conn[c].pend, "idle")
    BY <1>1, <1>2 DEF ConnNotify, Before, ConnIs, ConnRec, Life, NoConn
  <1>4. SockIs(c, sock[c].alive, sock[c].flags, sock[c].refs, sock[c].pend, sock[c].at)
    BY <1>1, <1>2, SockStays DEF ConnNotify, Before
  <1>5. EvIs(c, ev[c].refcnt, ev[c].data)
    BY <1>1, <1>2, EvStays DEF ConnNotify, Before
  <1>6. MIs(c, M(c)) /\ UIs(c, U(c))
    BY <1>1, <1>2, ConnectionAssumption DEF ConnNotify, Before, Actors, MIs, UIs, M, U, MainTo,
       MainDone, UserTo, MainRec, UserRec
  <1>7. TypedRest
    BY <1>1, <1>2, ConnectionAssumption DEF ConnNotify, Before, TypedRest, MainTo, MainDone,
       UserTo, MainRec, UserRec
  <1>8. OthersSame(c)
    BY <1>3, <1>4, <1>5, <1>6 DEF OthersSame, ConnIs, SockIs, EvIs, MIs, UIs
  <1>9. ShapeNow(c)
    <2>1. Life(conn'[c], sock'[c], M(c)')
      BY <1>1, <1>2, <1>3, <1>4, <1>6 DEF Before, ConnIs, SockIs, EvIs, MIs, UIs, Life, NoConn,
         NoSock, ConnRec, SockRec, EvRec
    <2>2. References(conn'[c], sock'[c], ev'[c], U(c)')
      BY <1>1, <1>2, <1>3, <1>4, <1>5, <1>6 DEF Before, ConnIs, SockIs, EvIs, MIs, UIs,
         References, Life, Failing, NoConn, NoSock, ConnRec, SockRec, EvRec
    <2>3. Events(sock'[c], ev'[c], U(c)')
      BY <1>1, <1>2, <1>4, <1>5, <1>6 DEF Before, ConnIs, SockIs, EvIs, MIs, UIs, Events,
         References, Life, NoConn, NoSock, ConnRec, SockRec, EvRec
    <2>4. Failing(conn'[c], sock'[c], M(c)')
      BY <1>1, <1>2, <1>3, <1>4, <1>6 DEF Before, ConnIs, SockIs, EvIs, MIs, UIs, Failing, Life,
         References, NoConn, NoSock, ConnRec, SockRec, EvRec
    <2>5. Connecting(conn'[c], sock'[c])
      BY <1>1, <1>2, <1>3, <1>4 DEF Before, ConnIs, SockIs, EvIs, MIs, UIs, Connecting, Life,
         References, Failing, NoConn, NoSock, ConnRec, SockRec, EvRec
    <2>6. QED  BY <2>1, <2>2, <2>3, <2>4, <2>5 DEF ShapeNow
  <1>10. Tallied(c)
    BY <1>1, <1>2, <1>3 DEF ConnNotify, Before, Tallied, StatRec, Delta, Acting, In, Out,
       Allocated, Special, IsActive, ConnIs, Life, Failing, References, Connecting, NoConn,
       ConnRec
  <1>11. Actors'
    BY <1>1, <1>2, ConnectionAssumption DEF ConnNotify, Before, Actors, MainTo, MainDone,
       UserTo, MainRec, UserRec
  <1>12. Listeners'
    BY <1>1, <1>2, <1>3 DEF ConnNotify, Before, Listeners, ConnIs, MainTo, MainDone, MainRec
  <1>13. DownShape'
    BY <1>1, <1>2 DEF ConnNotify, Before, DownShape
  <1>14. QED  BY <1>7, <1>8, <1>9, <1>10, <1>11, <1>12, <1>13, OneStep

\* cpu_server_free_connection: its assertions hold.
LEMMA ConnFinishStep ==
  ASSUME IInv, NEW c \in Fd, ConnFinish(c)
  PROVE  IInv'
  <1>1. Before(c)
    BY BeforeStep
  <1>2. /\ ~down /\ conn[c].kind # "none" /\ conn[c].at = "idle" /\ conn[c].refs = {}
        /\ sock[c] = NoSock /\ {"ERROR", "FAILED"} \subseteq conn[c].flags /\ ~conn[c].io
        /\ "SPECIAL" \notin conn[c].flags
    BY <1>1 DEF ConnFinish, Before, M, U, Actors, Life, References, Events, Failing, NoConn,
       NoSock
  <1>3. /\ conn' = [conn EXCEPT ![c] = NoConn] /\ stat' = [stat EXCEPT !.allocated = @ - 1]
        /\ ev' = ev /\ sock' = sock /\ special' = special
    BY <1>2 DEF ConnFinish
  <1>4. ConnIs(c, "none", {}, "none", FALSE, {}, {}, "idle")
    BY <1>1, <1>2, <1>3 DEF Before, ConnIs, ConnRec, Life, NoConn
  <1>5. SockIs(c, sock[c].alive, sock[c].flags, sock[c].refs, sock[c].pend, sock[c].at)
    BY <1>1, <1>2, <1>3, SockStays DEF Before
  <1>6. EvIs(c, ev[c].refcnt, ev[c].data)
    BY <1>1, <1>2, <1>3, EvStays DEF Before
  <1>7. MIs(c, M(c)) /\ UIs(c, U(c))
    BY <1>1, <1>2, ConnectionAssumption DEF ConnFinish, Before, Actors, MIs, UIs, M, U, MainTo,
       MainDone, UserTo, MainRec, UserRec
  <1>8. TypedRest
    BY <1>1, <1>2, ConnectionAssumption DEF ConnFinish, Before, TypedRest, MainTo, MainDone,
       UserTo, MainRec, UserRec
  <1>9. OthersSame(c)
    BY <1>4, <1>5, <1>6, <1>7 DEF OthersSame, ConnIs, SockIs, EvIs, MIs, UIs
  <1>10. ShapeNow(c)
    <2>1. Life(conn'[c], sock'[c], M(c)')
      BY <1>1, <1>2, <1>4, <1>5, <1>7 DEF Before, ConnIs, SockIs, EvIs, MIs, UIs, Life, NoConn,
         NoSock, ConnRec, SockRec, EvRec
    <2>2. References(conn'[c], sock'[c], ev'[c], U(c)')
      BY <1>1, <1>2, <1>4, <1>5, <1>6, <1>7 DEF Before, ConnIs, SockIs, EvIs, MIs, UIs,
         References, Life, Failing, NoConn, NoSock, ConnRec, SockRec, EvRec
    <2>3. Events(sock'[c], ev'[c], U(c)')
      BY <1>1, <1>2, <1>5, <1>6, <1>7 DEF Before, ConnIs, SockIs, EvIs, MIs, UIs, Events,
         References, Life, NoConn, NoSock, ConnRec, SockRec, EvRec
    <2>4. Failing(conn'[c], sock'[c], M(c)')
      BY <1>1, <1>2, <1>4, <1>5, <1>7 DEF Before, ConnIs, SockIs, EvIs, MIs, UIs, Failing, Life,
         References, NoConn, NoSock, ConnRec, SockRec, EvRec
    <2>5. Connecting(conn'[c], sock'[c])
      BY <1>1, <1>2, <1>4, <1>5 DEF Before, ConnIs, SockIs, EvIs, MIs, UIs, Connecting, Life,
         References, Failing, NoConn, NoSock, ConnRec, SockRec, EvRec
    <2>6. QED  BY <2>1, <2>2, <2>3, <2>4, <2>5 DEF ShapeNow
  <1>11. Tallied(c)
    BY <1>1, <1>2, <1>3, <1>4 DEF Before, Tallied, StatRec, Delta, Acting, In, Out, Allocated,
       Special, IsActive, ConnIs, Life, Failing, References, Connecting, NoConn, ConnRec
  <1>12. Actors'
    BY <1>1, <1>2, ConnectionAssumption DEF ConnFinish, Before, Actors, MainTo, MainDone,
       UserTo, MainRec, UserRec
  <1>13. Listeners'
    BY <1>1, <1>2, <1>4 DEF ConnFinish, Before, Listeners, ConnIs, MainTo, MainDone, MainRec
  <1>14. DownShape'
    BY <1>1, <1>2 DEF ConnFinish, Before, DownShape
  <1>15. QED  BY <1>8, <1>9, <1>10, <1>11, <1>12, <1>13, <1>14, OneStep

\* The entry of the event table is pinned ...
LEMMA LookupPinStep ==
  ASSUME IInv, NEW c \in Fd, LookupPin(c)
  PROVE  IInv'
  <1>1. Before(c)
    BY BeforeStep
  <1>2. ~down /\ U(c) = "idle" /\ user.at = "idle" /\ ev[c].refcnt = 1
    BY <1>1 DEF LookupPin, Before, M, U, Actors, Life, References, Events, Failing
  <1>3. ConnIs(c, conn[c].kind, conn[c].flags, conn[c].status, conn[c].io, conn[c].refs,
               conn[c].pend, conn[c].at)
    BY <1>1, <1>2, ConnStays DEF LookupPin, Before
  <1>4. SockIs(c, sock[c].alive, sock[c].flags, sock[c].refs, sock[c].pend, sock[c].at)
    BY <1>1, <1>2, SockStays DEF LookupPin, Before
  <1>5. EvIs(c, ev[c].refcnt + 1, ev[c].data)
    BY <1>1, <1>2 DEF LookupPin, Before, EvIs, EvRec
  <1>6. MIs(c, M(c)) /\ UIs(c, "pinned")
    BY <1>1, <1>2, ConnectionAssumption DEF LookupPin, Before, Actors, MIs, UIs, M, U, MainTo,
       MainDone, UserTo, MainRec, UserRec
  <1>7. TypedRest
    BY <1>1, <1>2, ConnectionAssumption DEF LookupPin, Before, TypedRest, MainTo, MainDone,
       UserTo, MainRec, UserRec
  <1>8. OthersSame(c)
    BY <1>3, <1>4, <1>5, <1>6 DEF OthersSame, ConnIs, SockIs, EvIs, MIs, UIs
  <1>9. ShapeNow(c)
    <2>1. Life(conn'[c], sock'[c], M(c)')
      BY <1>1, <1>2, <1>3, <1>4, <1>6 DEF Before, ConnIs, SockIs, EvIs, MIs, UIs, Life, NoConn,
         NoSock, ConnRec, SockRec, EvRec
    <2>2. References(conn'[c], sock'[c], ev'[c], U(c)')
      BY <1>1, <1>2, <1>3, <1>4, <1>5, <1>6 DEF Before, ConnIs, SockIs, EvIs, MIs, UIs,
         References, Life, Failing, NoConn, NoSock, ConnRec, SockRec, EvRec
    <2>3. Events(sock'[c], ev'[c], U(c)')
      BY <1>1, <1>2, <1>4, <1>5, <1>6 DEF Before, ConnIs, SockIs, EvIs, MIs, UIs, Events,
         References, Life, NoConn, NoSock, ConnRec, SockRec, EvRec
    <2>4. Failing(conn'[c], sock'[c], M(c)')
      BY <1>1, <1>2, <1>3, <1>4, <1>6 DEF Before, ConnIs, SockIs, EvIs, MIs, UIs, Failing, Life,
         References, NoConn, NoSock, ConnRec, SockRec, EvRec
    <2>5. Connecting(conn'[c], sock'[c])
      BY <1>1, <1>2, <1>3, <1>4 DEF Before, ConnIs, SockIs, EvIs, MIs, UIs, Connecting, Life,
         References, Failing, NoConn, NoSock, ConnRec, SockRec, EvRec
    <2>6. QED  BY <2>1, <2>2, <2>3, <2>4, <2>5 DEF ShapeNow
  <1>10. Tallied(c)
    <2>1. stat' = stat /\ special' = special /\ stat \in StatRec /\ special \in Int
      BY <1>1 DEF LookupPin, Before
    <2>2. /\ conn'[c].kind = conn[c].kind /\ conn'[c].at = conn[c].at
          /\ conn'[c].flags = conn[c].flags
      BY <1>3 DEF ConnIs
    <2>3. QED  BY <2>1, <2>2, SameTally
  <1>11. Actors'
    BY <1>1, <1>2, ConnectionAssumption DEF LookupPin, Before, Actors, MainTo, MainDone, UserTo,
       MainRec, UserRec
  <1>12. Listeners'
    BY <1>1, <1>2, <1>3 DEF LookupPin, Before, Listeners, ConnIs, MainTo, MainDone, MainRec
  <1>13. DownShape'
    BY <1>1, <1>2 DEF LookupPin, Before, DownShape
  <1>14. QED  BY <1>7, <1>8, <1>9, <1>10, <1>11, <1>12, <1>13, OneStep

\* ... the socket job referenced ...
LEMMA LookupIncrefStep ==
  ASSUME IInv, NEW c \in Fd, LookupIncref, c = user.c
  PROVE  IInv'
  <1>1. Before(c)
    BY BeforeStep
  <1>2. ~down /\ U(c) = "pinned" /\ user.at = "pinned" /\ ev[c].refcnt >= 1 /\ sock[c].alive
    BY <1>1 DEF LookupIncref, EventDecref, Before, M, U, Actors, Life, References, Events,
       Failing, NoSock
  <1>3. ConnIs(c, conn[c].kind, conn[c].flags, conn[c].status, conn[c].io, conn[c].refs,
               conn[c].pend, conn[c].at)
    BY <1>1, <1>2, ConnStays DEF LookupIncref, EventDecref, Before
  <1>4. SockIs(c, sock[c].alive, sock[c].flags,
               IF ev[c].refcnt = 1 THEN (sock[c].refs \union {"lookup"}) \ {"table"} ELSE sock[c].refs \union {"lookup"},
               sock[c].pend, sock[c].at)
    BY <1>1, <1>2, ZenonT(60) DEF LookupIncref, EventDecref, Before, SockIs, SockRec, Life, NoSock
  <1>5. EvIs(c, ev[c].refcnt - 1, (ev[c].data /\ ev[c].refcnt # 1))
    BY <1>1, <1>2 DEF LookupIncref, EventDecref, Before, EvIs, EvRec
  <1>6. MIs(c, M(c)) /\ UIs(c, "socket")
    BY <1>1, <1>2, ConnectionAssumption DEF LookupIncref, EventDecref, Before, Actors, MIs, UIs,
       M, U, MainTo, MainDone, UserTo, MainRec, UserRec
  <1>7. TypedRest
    BY <1>1, <1>2, ConnectionAssumption DEF LookupIncref, EventDecref, Before, TypedRest,
       MainTo, MainDone, UserTo, MainRec, UserRec
  <1>8. OthersSame(c)
    BY <1>3, <1>4, <1>5, <1>6 DEF OthersSame, ConnIs, SockIs, EvIs, MIs, UIs
  <1>9. ShapeNow(c)
    <2>1. Life(conn'[c], sock'[c], M(c)')
      BY <1>1, <1>2, <1>3, <1>4, <1>6 DEF Before, ConnIs, SockIs, EvIs, MIs, UIs, Life, NoConn,
         NoSock, ConnRec, SockRec, EvRec
    <2>2. References(conn'[c], sock'[c], ev'[c], U(c)')
      BY <1>1, <1>2, <1>3, <1>4, <1>5, <1>6 DEF Before, ConnIs, SockIs, EvIs, MIs, UIs,
         References, Life, Failing, NoConn, NoSock, ConnRec, SockRec, EvRec
    <2>3. Events(sock'[c], ev'[c], U(c)')
      BY <1>1, <1>2, <1>4, <1>5, <1>6 DEF Before, ConnIs, SockIs, EvIs, MIs, UIs, Events,
         References, Life, NoConn, NoSock, ConnRec, SockRec, EvRec
    <2>4. Failing(conn'[c], sock'[c], M(c)')
      BY <1>1, <1>2, <1>3, <1>4, <1>6 DEF Before, ConnIs, SockIs, EvIs, MIs, UIs, Failing, Life,
         References, NoConn, NoSock, ConnRec, SockRec, EvRec
    <2>5. Connecting(conn'[c], sock'[c])
      BY <1>1, <1>2, <1>3, <1>4 DEF Before, ConnIs, SockIs, EvIs, MIs, UIs, Connecting, Life,
         References, Failing, NoConn, NoSock, ConnRec, SockRec, EvRec
    <2>6. QED  BY <2>1, <2>2, <2>3, <2>4, <2>5 DEF ShapeNow
  <1>10. Tallied(c)
    <2>1. stat' = stat /\ special' = special /\ stat \in StatRec /\ special \in Int
      BY <1>1 DEF LookupIncref, Before
    <2>2. /\ conn'[c].kind = conn[c].kind /\ conn'[c].at = conn[c].at
          /\ conn'[c].flags = conn[c].flags
      BY <1>3 DEF ConnIs
    <2>3. QED  BY <2>1, <2>2, SameTally
  <1>11. Actors'
    BY <1>1, <1>2, ConnectionAssumption DEF LookupIncref, EventDecref, Before, Actors, MainTo,
       MainDone, UserTo, MainRec, UserRec
  <1>12. Listeners'
    BY <1>1, <1>2, <1>3 DEF LookupIncref, EventDecref, Before, Listeners, ConnIs, MainTo,
       MainDone, MainRec
  <1>13. DownShape'
    BY <1>1, <1>2 DEF LookupIncref, EventDecref, Before, DownShape
  <1>14. QED  BY <1>7, <1>8, <1>9, <1>10, <1>11, <1>12, <1>13, OneStep

\* ... and the socket had failed ...
LEMMA LookupLostStep ==
  ASSUME IInv, NEW c \in Fd, LookupConn, c = user.c, user' = [at |-> "idle", c |-> NoFd], conn' = conn
  PROVE  IInv'
  <1>1. Before(c)
    BY BeforeStep
  <1>2. ~down /\ U(c) = "socket" /\ sock[c].alive
    BY <1>1 DEF LookupConn, Before, M, U, Actors, Life, References, Events, Failing, NoSock
  <1>3. ConnIs(c, conn[c].kind, conn[c].flags, conn[c].status, conn[c].io, conn[c].refs,
               conn[c].pend, conn[c].at)
    BY <1>1, <1>2, ConnStays DEF LookupConn, Before
  <1>4. SockIs(c, sock[c].alive, sock[c].flags, sock[c].refs \ {"lookup"}, sock[c].pend,
               sock[c].at)
    BY <1>1, <1>2, ZenonT(60) DEF LookupConn, Before, SockIs, SockRec, Life, NoSock
  <1>5. EvIs(c, ev[c].refcnt, ev[c].data)
    BY <1>1, <1>2, EvStays DEF LookupConn, Before
  <1>6. MIs(c, M(c)) /\ UIs(c, "idle")
    BY <1>1, <1>2, ConnectionAssumption DEF LookupConn, Before, Actors, MIs, UIs, M, U, MainTo,
       MainDone, UserTo, MainRec, UserRec
  <1>7. TypedRest
    BY <1>1, <1>2, ConnectionAssumption DEF LookupConn, Before, TypedRest, MainTo, MainDone,
       UserTo, MainRec, UserRec
  <1>8. OthersSame(c)
    BY <1>3, <1>4, <1>5, <1>6 DEF OthersSame, ConnIs, SockIs, EvIs, MIs, UIs
  <1>9. ShapeNow(c)
    <2>1. Life(conn'[c], sock'[c], M(c)')
      BY <1>1, <1>2, <1>3, <1>4, <1>6 DEF Before, ConnIs, SockIs, EvIs, MIs, UIs, Life, NoConn,
         NoSock, ConnRec, SockRec, EvRec
    <2>2. References(conn'[c], sock'[c], ev'[c], U(c)')
      BY <1>1, <1>2, <1>3, <1>4, <1>5, <1>6 DEF Before, ConnIs, SockIs, EvIs, MIs, UIs,
         References, Life, Failing, NoConn, NoSock, ConnRec, SockRec, EvRec
    <2>3. Events(sock'[c], ev'[c], U(c)')
      BY <1>1, <1>2, <1>4, <1>5, <1>6 DEF Before, ConnIs, SockIs, EvIs, MIs, UIs, Events,
         References, Life, NoConn, NoSock, ConnRec, SockRec, EvRec
    <2>4. Failing(conn'[c], sock'[c], M(c)')
      BY <1>1, <1>2, <1>3, <1>4, <1>6 DEF Before, ConnIs, SockIs, EvIs, MIs, UIs, Failing, Life,
         References, NoConn, NoSock, ConnRec, SockRec, EvRec
    <2>5. Connecting(conn'[c], sock'[c])
      BY <1>1, <1>2, <1>3, <1>4 DEF Before, ConnIs, SockIs, EvIs, MIs, UIs, Connecting, Life,
         References, Failing, NoConn, NoSock, ConnRec, SockRec, EvRec
    <2>6. QED  BY <2>1, <2>2, <2>3, <2>4, <2>5 DEF ShapeNow
  <1>10. Tallied(c)
    <2>1. stat' = stat /\ special' = special /\ stat \in StatRec /\ special \in Int
      BY <1>1 DEF LookupConn, Before
    <2>2. /\ conn'[c].kind = conn[c].kind /\ conn'[c].at = conn[c].at
          /\ conn'[c].flags = conn[c].flags
      BY <1>3 DEF ConnIs
    <2>3. QED  BY <2>1, <2>2, SameTally
  <1>11. Actors'
    BY <1>1, <1>2, ConnectionAssumption DEF LookupConn, Before, Actors, MainTo, MainDone,
       UserTo, MainRec, UserRec
  <1>12. Listeners'
    BY <1>1, <1>2, <1>3 DEF LookupConn, Before, Listeners, ConnIs, MainTo, MainDone, MainRec
  <1>13. DownShape'
    BY <1>1, <1>2 DEF LookupConn, Before, DownShape
  <1>14. QED  BY <1>7, <1>8, <1>9, <1>10, <1>11, <1>12, <1>13, OneStep

\* ... or the connection is referenced.
LEMMA LookupFoundStep ==
  ASSUME IInv, NEW c \in Fd, LookupConn, c = user.c, UserTo("holds"), conn' = [conn EXCEPT ![c].refs = @ \union {"user"}]
  PROVE  IInv'
  <1>1. Before(c)
    BY BeforeStep
  <1>2. /\ ~down /\ U(c) = "socket" /\ sock[c].alive /\ conn[c].kind # "none"
        /\ conn[c].at # "new"
    BY <1>1 DEF LookupConn, Before, M, U, Actors, Life, References, Events, Failing, NoSock,
       NoConn
  <1>3. ConnIs(c, conn[c].kind, conn[c].flags, conn[c].status, conn[c].io,
               conn[c].refs \union {"user"}, conn[c].pend, conn[c].at)
    BY <1>1, <1>2, ZenonT(60) DEF LookupConn, Before, ConnIs, ConnRec, Life, NoConn
  <1>4. SockIs(c, sock[c].alive, sock[c].flags, sock[c].refs \ {"lookup"}, sock[c].pend,
               sock[c].at)
    BY <1>1, <1>2, ZenonT(60) DEF LookupConn, Before, SockIs, SockRec, Life, NoSock
  <1>5. EvIs(c, ev[c].refcnt, ev[c].data)
    BY <1>1, <1>2, EvStays DEF LookupConn, Before
  <1>6. MIs(c, M(c)) /\ UIs(c, "holds")
    BY <1>1, <1>2, ConnectionAssumption DEF LookupConn, Before, Actors, MIs, UIs, M, U, MainTo,
       MainDone, UserTo, MainRec, UserRec
  <1>7. TypedRest
    BY <1>1, <1>2, ConnectionAssumption DEF LookupConn, Before, TypedRest, MainTo, MainDone,
       UserTo, MainRec, UserRec
  <1>8. OthersSame(c)
    BY <1>3, <1>4, <1>5, <1>6 DEF OthersSame, ConnIs, SockIs, EvIs, MIs, UIs
  <1>9. ShapeNow(c)
    <2>1. Life(conn'[c], sock'[c], M(c)')
      BY <1>1, <1>2, <1>3, <1>4, <1>6 DEF Before, ConnIs, SockIs, EvIs, MIs, UIs, Life, NoConn,
         NoSock, ConnRec, SockRec, EvRec
    <2>2. References(conn'[c], sock'[c], ev'[c], U(c)')
      BY <1>1, <1>2, <1>3, <1>4, <1>5, <1>6 DEF Before, ConnIs, SockIs, EvIs, MIs, UIs,
         References, Life, Failing, NoConn, NoSock, ConnRec, SockRec, EvRec
    <2>3. Events(sock'[c], ev'[c], U(c)')
      BY <1>1, <1>2, <1>4, <1>5, <1>6 DEF Before, ConnIs, SockIs, EvIs, MIs, UIs, Events,
         References, Life, NoConn, NoSock, ConnRec, SockRec, EvRec
    <2>4. Failing(conn'[c], sock'[c], M(c)')
      <3>1. Failing(conn[c], sock[c], M(c))
        BY <1>1 DEF Before
      <3>2. conn'[c].flags = conn[c].flags /\ conn'[c].at = conn[c].at
            /\ conn'[c].pend = conn[c].pend /\ conn'[c].status = conn[c].status
        BY <1>3 DEF ConnIs
      <3>3. sock'[c].alive = sock[c].alive /\ sock'[c].flags = sock[c].flags
            /\ sock[c].pend \subseteq sock'[c].pend /\ M(c)' = M(c)
        BY <1>4, <1>6 DEF SockIs, MIs
      <3>4. QED  BY <3>1, <3>2, <3>3 DEF Failing
    <2>5. Connecting(conn'[c], sock'[c])
      BY <1>1, <1>2, <1>3, <1>4 DEF Before, ConnIs, SockIs, EvIs, MIs, UIs, Connecting, Life,
         References, Failing, NoConn, NoSock, ConnRec, SockRec, EvRec
    <2>6. QED  BY <2>1, <2>2, <2>3, <2>4, <2>5 DEF ShapeNow
  <1>10. Tallied(c)
    <2>1. stat' = stat /\ special' = special /\ stat \in StatRec /\ special \in Int
      BY <1>1 DEF LookupConn, Before
    <2>2. /\ conn'[c].kind = conn[c].kind /\ conn'[c].at = conn[c].at
          /\ conn'[c].flags = conn[c].flags
      BY <1>3 DEF ConnIs
    <2>3. QED  BY <2>1, <2>2, SameTally
  <1>11. Actors'
    BY <1>1, <1>2, ConnectionAssumption DEF LookupConn, Before, Actors, MainTo, MainDone,
       UserTo, MainRec, UserRec
  <1>12. Listeners'
    BY <1>1, <1>2, <1>3 DEF LookupConn, Before, Listeners, ConnIs, MainTo, MainDone, MainRec
  <1>13. DownShape'
    BY <1>1, <1>2 DEF LookupConn, Before, DownShape
  <1>14. QED  BY <1>7, <1>8, <1>9, <1>10, <1>11, <1>12, <1>13, OneStep

\* fail_connection by the thread that looked the connection up, again ...
LEMMA UserFailsAgainStep ==
  ASSUME IInv, NEW c \in Fd, UserFailing(c), c = user.c, "ERROR" \in conn[c].flags
  PROVE  IInv'
  <1>1. Before(c)
    BY BeforeStep
  <1>2. ~down /\ U(c) = "holds" /\ conn[c].kind # "none" /\ conn[c].at # "new"
    BY <1>1 DEF UserFailing, Before, M, U, Actors, Life, References, Events, Failing, NoSock,
       NoConn
  <1>3. ConnIs(c, conn[c].kind, conn[c].flags, conn[c].status, conn[c].io,
               conn[c].refs \ {"user"}, conn[c].pend, conn[c].at)
    <2> DEFINE r == [Failed(conn[c]) EXCEPT !.refs = @ \ {"user"}]
    <2>1. conn' = [conn EXCEPT ![c] = r]
      BY <1>2 DEF UserFailing, Before
    <2>2. /\ r.kind = conn[c].kind /\ r.flags = conn[c].flags
          /\ r.status = conn[c].status
          /\ r.io = conn[c].io /\ r.refs = conn[c].refs \ {"user"}
          /\ r.pend = conn[c].pend
          /\ r.at = conn[c].at
          /\ r \in ConnRec
      <3>1. conn[c] \in ConnRec
        BY <1>1 DEF Before
      <3>2. QED  BY <3>1, FailedIs DEF ConnRec
    <2> HIDE DEF r
    <2>3. QED  BY <1>1, <1>2, <2>1, <2>2 DEF Before, ConnIs
  <1>4. SockIs(c, sock[c].alive, sock[c].flags, sock[c].refs, sock[c].pend, sock[c].at)
    BY <1>1, <1>2, SockStays DEF UserFailing, Before
  <1>5. EvIs(c, ev[c].refcnt, ev[c].data)
    BY <1>1, <1>2, EvStays DEF UserFailing, Before
  <1>6. MIs(c, M(c)) /\ UIs(c, "idle")
    BY <1>1, <1>2, ConnectionAssumption DEF UserFailing, Before, Actors, MIs, UIs, M, U, MainTo,
       MainDone, UserTo, MainRec, UserRec
  <1>7. TypedRest
    BY <1>1, <1>2, ConnectionAssumption DEF UserFailing, Before, TypedRest, MainTo, MainDone,
       UserTo, MainRec, UserRec
  <1>8. OthersSame(c)
    BY <1>3, <1>4, <1>5, <1>6 DEF OthersSame, ConnIs, SockIs, EvIs, MIs, UIs
  <1>9. ShapeNow(c)
    <2>1. Life(conn'[c], sock'[c], M(c)')
      BY <1>1, <1>2, <1>3, <1>4, <1>6 DEF Before, ConnIs, SockIs, EvIs, MIs, UIs, Life, NoConn,
         NoSock, ConnRec, SockRec, EvRec
    <2>2. References(conn'[c], sock'[c], ev'[c], U(c)')
      BY <1>1, <1>2, <1>3, <1>4, <1>5, <1>6 DEF Before, ConnIs, SockIs, EvIs, MIs, UIs,
         References, Life, Failing, NoConn, NoSock, ConnRec, SockRec, EvRec
    <2>3. Events(sock'[c], ev'[c], U(c)')
      BY <1>1, <1>2, <1>4, <1>5, <1>6 DEF Before, ConnIs, SockIs, EvIs, MIs, UIs, Events,
         References, Life, NoConn, NoSock, ConnRec, SockRec, EvRec
    <2>4. Failing(conn'[c], sock'[c], M(c)')
      BY <1>1, <1>2, <1>3, <1>4, <1>6 DEF Before, ConnIs, SockIs, EvIs, MIs, UIs, Failing, Life,
         References, NoConn, NoSock, ConnRec, SockRec, EvRec
    <2>5. Connecting(conn'[c], sock'[c])
      BY <1>1, <1>2, <1>3, <1>4 DEF Before, ConnIs, SockIs, EvIs, MIs, UIs, Connecting, Life,
         References, Failing, NoConn, NoSock, ConnRec, SockRec, EvRec
    <2>6. QED  BY <2>1, <2>2, <2>3, <2>4, <2>5 DEF ShapeNow
  <1>10. Tallied(c)
    <2>1. stat' = stat /\ special' = special /\ stat \in StatRec /\ special \in Int
      BY <1>1 DEF UserFailing, Before
    <2>2. /\ conn'[c].kind = conn[c].kind /\ conn'[c].at = conn[c].at
          /\ conn'[c].flags = conn[c].flags
      BY <1>3 DEF ConnIs
    <2>3. QED  BY <2>1, <2>2, SameTally
  <1>11. Actors'
    BY <1>1, <1>2, ConnectionAssumption DEF UserFailing, Before, Actors, MainTo, MainDone,
       UserTo, MainRec, UserRec
  <1>12. Listeners'
    BY <1>1, <1>2, <1>3 DEF UserFailing, Before, Listeners, ConnIs, MainTo, MainDone, MainRec
  <1>13. DownShape'
    BY <1>1, <1>2 DEF UserFailing, Before, DownShape
  <1>14. QED  BY <1>7, <1>8, <1>9, <1>10, <1>11, <1>12, <1>13, OneStep

\* ... or first.
LEMMA UserFailsFirstStep ==
  ASSUME IInv, NEW c \in Fd, UserFailing(c), c = user.c, "ERROR" \notin conn[c].flags
  PROVE  IInv'
  <1>1. Before(c)
    BY BeforeStep
  <1>2. ~down /\ U(c) = "holds" /\ conn[c].kind # "none" /\ conn[c].at # "new"
    BY <1>1 DEF UserFailing, Before, M, U, Actors, Life, References, Events, Failing, NoSock,
       NoConn
  <1>3. ConnIs(c, conn[c].kind, conn[c].flags \union {"ERROR"}, "error", conn[c].io,
               conn[c].refs \ {"user"}, conn[c].pend \union {"ABORT"}, conn[c].at)
    <2> DEFINE r == [Failed(conn[c]) EXCEPT !.refs = @ \ {"user"}]
    <2>1. conn' = [conn EXCEPT ![c] = r]
      BY <1>2 DEF UserFailing, Before
    <2>2. /\ r.kind = conn[c].kind /\ r.flags = conn[c].flags \union {"ERROR"}
          /\ r.status = "error"
          /\ r.io = conn[c].io /\ r.refs = conn[c].refs \ {"user"}
          /\ r.pend = conn[c].pend \union {"ABORT"}
          /\ r.at = conn[c].at
          /\ r \in ConnRec
      <3>1. conn[c] \in ConnRec
        BY <1>1 DEF Before
      <3>2. QED  BY <3>1, FailedIs DEF ConnRec
    <2> HIDE DEF r
    <2>3. QED  BY <1>1, <1>2, <2>1, <2>2 DEF Before, ConnIs
  <1>4. SockIs(c, sock[c].alive, sock[c].flags, sock[c].refs, sock[c].pend, sock[c].at)
    BY <1>1, <1>2, SockStays DEF UserFailing, Before
  <1>5. EvIs(c, ev[c].refcnt, ev[c].data)
    BY <1>1, <1>2, EvStays DEF UserFailing, Before
  <1>6. MIs(c, M(c)) /\ UIs(c, "idle")
    BY <1>1, <1>2, ConnectionAssumption DEF UserFailing, Before, Actors, MIs, UIs, M, U, MainTo,
       MainDone, UserTo, MainRec, UserRec
  <1>7. TypedRest
    BY <1>1, <1>2, ConnectionAssumption DEF UserFailing, Before, TypedRest, MainTo, MainDone,
       UserTo, MainRec, UserRec
  <1>8. OthersSame(c)
    BY <1>3, <1>4, <1>5, <1>6 DEF OthersSame, ConnIs, SockIs, EvIs, MIs, UIs
  <1>9. ShapeNow(c)
    <2>1. Life(conn'[c], sock'[c], M(c)')
      BY <1>1, <1>2, <1>3, <1>4, <1>6 DEF Before, ConnIs, SockIs, EvIs, MIs, UIs, Life, NoConn,
         NoSock, ConnRec, SockRec, EvRec
    <2>2. References(conn'[c], sock'[c], ev'[c], U(c)')
      BY <1>1, <1>2, <1>3, <1>4, <1>5, <1>6 DEF Before, ConnIs, SockIs, EvIs, MIs, UIs,
         References, Life, Failing, NoConn, NoSock, ConnRec, SockRec, EvRec
    <2>3. Events(sock'[c], ev'[c], U(c)')
      BY <1>1, <1>2, <1>4, <1>5, <1>6 DEF Before, ConnIs, SockIs, EvIs, MIs, UIs, Events,
         References, Life, NoConn, NoSock, ConnRec, SockRec, EvRec
    <2>4. Failing(conn'[c], sock'[c], M(c)')
      BY <1>1, <1>2, <1>3, <1>4, <1>6 DEF Before, ConnIs, SockIs, EvIs, MIs, UIs, Failing, Life,
         References, NoConn, NoSock, ConnRec, SockRec, EvRec
    <2>5. Connecting(conn'[c], sock'[c])
      BY <1>1, <1>2, <1>3, <1>4 DEF Before, ConnIs, SockIs, EvIs, MIs, UIs, Connecting, Life,
         References, Failing, NoConn, NoSock, ConnRec, SockRec, EvRec
    <2>6. QED  BY <2>1, <2>2, <2>3, <2>4, <2>5 DEF ShapeNow
  <1>10. Tallied(c)
    <2>1. stat' = stat /\ special' = special /\ stat \in StatRec /\ special \in Int
      BY <1>1 DEF UserFailing, Before
    <2>2. /\ conn'[c].kind = conn[c].kind /\ conn'[c].at = conn[c].at
          /\ conn'[c].flags = conn[c].flags \union {"ERROR"}
      BY <1>3 DEF ConnIs
    <2>3. QED  BY <2>1, <2>2, SameTally
  <1>11. Actors'
    BY <1>1, <1>2, ConnectionAssumption DEF UserFailing, Before, Actors, MainTo, MainDone,
       UserTo, MainRec, UserRec
  <1>12. Listeners'
    BY <1>1, <1>2, <1>3 DEF UserFailing, Before, Listeners, ConnIs, MainTo, MainDone, MainRec
  <1>13. DownShape'
    BY <1>1, <1>2 DEF UserFailing, Before, DownShape
  <1>14. QED  BY <1>7, <1>8, <1>9, <1>10, <1>11, <1>12, <1>13, OneStep

\* Output and JS_RUN by that thread.
LEMMA UserRunsStep ==
  ASSUME IInv, NEW c \in Fd, UserRunning(c), c = user.c
  PROVE  IInv'
  <1>1. Before(c)
    BY BeforeStep
  <1>2. ~down /\ U(c) = "holds" /\ conn[c].kind # "none" /\ conn[c].at # "new"
    BY <1>1 DEF UserRunning, Before, M, U, Actors, Life, References, Events, Failing, NoSock,
       NoConn
  <1>3. ConnIs(c, conn[c].kind, conn[c].flags, conn[c].status, conn[c].io,
               conn[c].refs \ {"user"}, conn[c].pend \union {"RUN"}, conn[c].at)
    BY <1>1, <1>2, ZenonT(60) DEF UserRunning, Before, ConnIs, ConnRec, Life, NoConn
  <1>4. SockIs(c, sock[c].alive, sock[c].flags, sock[c].refs, sock[c].pend, sock[c].at)
    BY <1>1, <1>2, SockStays DEF UserRunning, Before
  <1>5. EvIs(c, ev[c].refcnt, ev[c].data)
    BY <1>1, <1>2, EvStays DEF UserRunning, Before
  <1>6. MIs(c, M(c)) /\ UIs(c, "idle")
    BY <1>1, <1>2, ConnectionAssumption DEF UserRunning, Before, Actors, MIs, UIs, M, U, MainTo,
       MainDone, UserTo, MainRec, UserRec
  <1>7. TypedRest
    BY <1>1, <1>2, ConnectionAssumption DEF UserRunning, Before, TypedRest, MainTo, MainDone,
       UserTo, MainRec, UserRec
  <1>8. OthersSame(c)
    BY <1>3, <1>4, <1>5, <1>6 DEF OthersSame, ConnIs, SockIs, EvIs, MIs, UIs
  <1>9. ShapeNow(c)
    <2>1. Life(conn'[c], sock'[c], M(c)')
      BY <1>1, <1>2, <1>3, <1>4, <1>6 DEF Before, ConnIs, SockIs, EvIs, MIs, UIs, Life, NoConn,
         NoSock, ConnRec, SockRec, EvRec
    <2>2. References(conn'[c], sock'[c], ev'[c], U(c)')
      BY <1>1, <1>2, <1>3, <1>4, <1>5, <1>6 DEF Before, ConnIs, SockIs, EvIs, MIs, UIs,
         References, Life, Failing, NoConn, NoSock, ConnRec, SockRec, EvRec
    <2>3. Events(sock'[c], ev'[c], U(c)')
      BY <1>1, <1>2, <1>4, <1>5, <1>6 DEF Before, ConnIs, SockIs, EvIs, MIs, UIs, Events,
         References, Life, NoConn, NoSock, ConnRec, SockRec, EvRec
    <2>4. Failing(conn'[c], sock'[c], M(c)')
      BY <1>1, <1>2, <1>3, <1>4, <1>6 DEF Before, ConnIs, SockIs, EvIs, MIs, UIs, Failing, Life,
         References, NoConn, NoSock, ConnRec, SockRec, EvRec
    <2>5. Connecting(conn'[c], sock'[c])
      BY <1>1, <1>2, <1>3, <1>4 DEF Before, ConnIs, SockIs, EvIs, MIs, UIs, Connecting, Life,
         References, Failing, NoConn, NoSock, ConnRec, SockRec, EvRec
    <2>6. QED  BY <2>1, <2>2, <2>3, <2>4, <2>5 DEF ShapeNow
  <1>10. Tallied(c)
    <2>1. stat' = stat /\ special' = special /\ stat \in StatRec /\ special \in Int
      BY <1>1 DEF UserRunning, Before
    <2>2. /\ conn'[c].kind = conn[c].kind /\ conn'[c].at = conn[c].at
          /\ conn'[c].flags = conn[c].flags
      BY <1>3 DEF ConnIs
    <2>3. QED  BY <2>1, <2>2, SameTally
  <1>11. Actors'
    BY <1>1, <1>2, ConnectionAssumption DEF UserRunning, Before, Actors, MainTo, MainDone,
       UserTo, MainRec, UserRec
  <1>12. Listeners'
    BY <1>1, <1>2, <1>3 DEF UserRunning, Before, Listeners, ConnIs, MainTo, MainDone, MainRec
  <1>13. DownShape'
    BY <1>1, <1>2 DEF UserRunning, Before, DownShape
  <1>14. QED  BY <1>7, <1>8, <1>9, <1>10, <1>11, <1>12, <1>13, OneStep
-----------------------------------------------------------------------------
(* The steps that leave the connections alone *)

\* A step that touches no connection only has to keep the listeners and the assertion.
LEMMA QuietStep ==
  ASSUME IInv, TypedRest, Listeners', DownShape',
         UNCHANGED <<conn, sock, ev, main, user, special, stat>>
  PROVE  IInv'
  <1>1. CountersExact'
    <2>1. TypeOK'
      BY DEF IInv, CountersExact, TypeOK, TypedRest
    <2>2. QED  BY <2>1 DEF IInv, CountersExact, Closed, IsActive
  <1>2. Shapes'
    <2>1. \A c \in Fd : M(c)' = M(c) /\ U(c)' = U(c)
      BY DEF M, U
    <2>2. QED
      BY <2>1 DEF IInv, Shapes, Shape, Life, References, Events, Failing, Connecting, NoConn,
         NoSock
  <1>3. Actors'
    BY DEF IInv, Actors
  <1>4. QED  BY <1>1, <1>2, <1>3 DEF IInv

\* JS_AUX of a listener: it is back in epoll.
LEMMA ListenerAuxStep ==
  ASSUME IInv, NEW l \in Listener, ListenerAux(l)
  PROVE  IInv'
  <1>1. main.at = "idle" /\ ~down /\ down' = down
    BY DEF ListenerAux, MainIdle
  <1>2. main \in MainRec /\ user \in UserRec /\ listening \in [Listener -> BOOLEAN]
        /\ aux \in [Listener -> BOOLEAN] /\ down \in BOOLEAN
    BY DEF IInv, CountersExact, TypeOK, MainRec, UserRec
  <1>3. TypedRest
    BY <1>2 DEF ListenerAux, TypedRest
  <1>4. Listeners'
    <2> SUFFICES ASSUME special' < MaxSpecial, \A d \in Fd : conn'[d].at # "notify", NEW m \in Listener
                 PROVE  aux'[m] \/ (listening'[m] /\ ~(main'.at = "remove" /\ main'.l = m))
      BY DEF Listeners
    <2>1. main'.at # "remove"
      BY <1>1 DEF ListenerAux
    <2>2. aux[m] \/ listening[m]
      BY DEF IInv, Listeners, ListenerAux
    <2>3. aux'[m] \/ listening'[m]
      BY <1>2, <2>2 DEF ListenerAux
    <2>4. QED  BY <2>1, <2>3
  <1>5. DownShape'
    BY <1>1 DEF DownShape
  <1>6. QED  BY <1>3, <1>4, <1>5, QuietStep DEF ListenerAux

\* Nothing happens, or the process is gone.
LEMMA StutterStep ==
  ASSUME IInv, UNCHANGED vars
  PROVE  IInv'
  <1>1. UNCHANGED <<conn, sock, ev, main, user, special, stat>> /\ UNCHANGED <<listening, aux, down>>
    BY DEF vars
  <1>2. TypedRest
    BY <1>1 DEF IInv, CountersExact, TypeOK, TypedRest, MainRec, UserRec
  <1>3. Listeners' /\ DownShape'
    BY <1>1 DEF IInv, Listeners, DownShape
  <1>4. QED  BY <1>1, <1>2, <1>3, QuietStep

-----------------------------------------------------------------------------
(* The handlers with several outcomes *)

\* fail_socket_connection, first or again.
LEMMA SocketAbortStep ==
  ASSUME IInv, NEW c \in Fd, SocketAbort(c)
  PROVE  IInv'
  BY SocketAbortAgainStep, SocketAbortFirstStep

\* fail_connection on the main thread, first or again.
LEMMA MainFailStep ==
  ASSUME IInv, NEW c \in Fd, MainFail, c = main.c
  PROVE  IInv'
  BY MainFailAgainStep, MainFailFirstStep

\* net_server_socket_read_write: data, an error, or nothing.
LEMMA SocketRunStep ==
  ASSUME IInv, NEW c \in Fd, SocketRun(c)
  PROVE  IInv'
  <1>1. SocketRunnable(c) /\ UNCHANGED <<ev, main, user, listening, aux, special, stat, down>>
    BY DEF SocketRun
  <1>2. \/ /\ sock' = [sock EXCEPT ![c] = Ran(c)]
           /\ conn' = [conn EXCEPT ![c].pend = @ \union {"RUN"}]
        \/ /\ sock' = [sock EXCEPT ![c] = [Ran(c) EXCEPT !.pend = @ \union {"ABORT"}]]
           /\ conn' = conn
        \/ /\ sock' = [sock EXCEPT ![c] = Ran(c)]
           /\ conn' = conn
    BY DEF SocketRun
  <1>3. QED  BY <1>1, <1>2, SocketDataStep, SocketErrorStep, SocketNothingStep

\* The connection's handler: it wakes the socket, fails or asks for the close.
LEMMA ConnReadWriteStep ==
  ASSUME IInv, NEW c \in Fd, ConnReadWrite(c)
  PROVE  IInv'
  <1>1. Waking(c) \/ RwFailing(c) \/ AskingClose(c)
    BY DEF ConnReadWrite, Waking, RwFailing, AskingClose
  <1>2. QED  BY <1>1, ConnWakeStep, ConnFailsAgainStep, ConnFailsFirstStep, ConnAsksCloseStep

\* JS_ABORT of the connection: the close, once; the assertion about the status.
LEMMA ConnAbortStep ==
  ASSUME IInv, NEW c \in Fd, ConnAbort(c)
  PROVE  IInv'
  BY ConnAbortAgainStep, ConnAbortFirstStep, ConnAbortDownStep

\* connection_get_by_fd: the connection was failed meanwhile, or is found.
LEMMA LookupConnStep ==
  ASSUME IInv, NEW c \in Fd, LookupConn, c = user.c
  PROVE  IInv'
  BY LookupLostStep, LookupFoundStep DEF LookupConn

\* The thread that looked it up fails it or writes to it, and lets go.
LEMMA UserDoneStep ==
  ASSUME IInv, NEW c \in Fd, UserDone, c = user.c
  PROVE  IInv'
  <1>1. UserFailing(c) \/ UserRunning(c)
    BY DEF UserDone, UserFailing, UserRunning
  <1>2. QED  BY <1>1, UserFailsAgainStep, UserFailsFirstStep, UserRunsStep

-----------------------------------------------------------------------------
(* The invariant *)

\* The invariant holds at the start ...
LEMMA InitInv ==
  ASSUME Init
  PROVE  IInv
  <1>1. Counted
    <2>1. /\ Actives = {} /\ Ins = {} /\ Outs = {} /\ Allocateds = {} /\ Specials = {}
      BY DEF Init, NoConn, Actives, Ins, Outs, Allocateds, Specials, Acting, In, Out,
         Allocated,
             Special, IsActive
    <2>2. QED  BY <2>1, FS_EmptySet DEF Counted, Init
  <1>2. TypeOK
    <2>1. Cardinality(Fd) \in Nat
      BY ConnectionAssumption, FS_CardinalityType
    <2>2. NoConn \in ConnRec /\ NoSock \in SockRec /\ [refcnt |-> 0, data |-> FALSE] \in EvRec
      BY DEF NoConn, NoSock, ConnRec, SockRec, EvRec
    <2>3. conn \in [Fd -> ConnRec] /\ sock \in [Fd -> SockRec] /\ ev \in [Fd -> EvRec]
      BY <2>2 DEF Init
    <2>4. stat \in [allocated : 0 .. Cardinality(Fd), inbound : 0 .. Cardinality(Fd),
                   outbound : 0 .. Cardinality(Fd), active : 0 .. Cardinality(Fd)]
          /\ special \in 0 .. Cardinality(Fd)
      BY <2>1 DEF Init
    <2>5. QED  BY <2>3, <2>4 DEF TypeOK, Init, ConnRec, SockRec, EvRec
  <1>3. Shapes
    <2>1. ASSUME NEW c \in Fd
          PROVE  /\ conn[c] = NoConn /\ sock[c] = NoSock /\ ev[c] = [refcnt |-> 0, data |-> FALSE]
                 /\ M(c) = "idle" /\ U(c) = "idle"
      BY ConnectionAssumption DEF Init, M, U
    <2>2. Shape(NoConn, NoSock, [refcnt |-> 0, data |-> FALSE], "idle", "idle")
      BY DEF Shape, Life, References, Events, Failing, Connecting, NoConn, NoSock
    <2>3. QED  BY <2>1, <2>2 DEF Shapes
  <1>4. Actors /\ Listeners /\ DownShape
    BY DEF Init, Actors, Listeners, DownShape
  <1>5. QED  BY <1>1, <1>2, <1>3, <1>4, CountersAre DEF IInv

\* A thread in the middle of something is there with a descriptor.
LEMMA ActorsAt ==
  ASSUME IInv
  PROVE  /\ main.at # "idle" => main.c \in Fd
         /\ user.at # "idle" => user.c \in Fd
  BY DEF IInv, CountersExact, TypeOK, Actors

\* ... and every step keeps it.
LEMMA NextInv ==
  ASSUME IInv, [Next]_vars
  PROVE  IInv'
  <1>1. CASE UNCHANGED vars
    BY <1>1, StutterStep
  <1>2. CASE MainStep
    <2>1. main.c \in Fd
      BY <1>2, ActorsAt DEF MainStep, AcceptLimit, AcceptRemove, AllocSocket, MainFail,
         MainReport
    <2>2. QED
      BY <1>2, <2>1, AcceptLimitStep, AcceptRemoveStep, AllocSocketStep, MainFailStep,
         MainReportStep
      DEF MainStep
  <1>3. CASE UserStep
    <2>1. user.c \in Fd
      BY <1>3, ActorsAt DEF UserStep, LookupIncref, LookupConn, UserDone
    <2>2. QED
      BY <1>3, <2>1, LookupIncrefStep, LookupConnStep, UserDoneStep DEF UserStep
  <1>4. CASE Dead
    BY <1>4, StutterStep DEF Dead
  <1>5. CASE \E l \in Listener : ListenerAux(l) \/ \E c \in Fd : Accept(l, c)
    BY <1>5, ListenerAuxStep, AcceptStep
  <1>6. ASSUME NEW c \in Fd, SocketStep(c)
        PROVE  IInv'
    BY <1>6, SocketRunStep, SocketConnectedStep, SocketFinishStep DEF SocketStep
  <1>7. ASSUME NEW c \in Fd, ConnStep(c)
        PROVE  IInv'
    BY <1>7, ConnRunStep, ConnReadWriteStep, ConnWriteCloseStep, ConnAbortStep,
       ConnSpecialStep,
       ConnNotifyStep, ConnFinishStep DEF ConnStep
  <1>8. ASSUME NEW c \in Fd, Connect(c) \/ SocketAbort(c) \/ LookupPin(c)
        PROVE  IInv'
    BY <1>8, ConnectStep, SocketAbortStep, LookupPinStep
  <1>9. ASSUME NEW c \in Fd, NEW s \in {"RUN", "ABORT"}, Gateway(c, s)
        PROVE  IInv'
    BY <1>9, GatewayStep
  <1>10. QED  BY <1>1, <1>2, <1>3, <1>4, <1>5, <1>6, <1>7, <1>8, <1>9 DEF Next

\* The invariant holds always.
LEMMA Invariance == Spec => []IInv
  BY InitInv, NextInv, PTL DEF Spec

-----------------------------------------------------------------------------
(* What it gives *)

\* The listeners' part of it is stronger than what is promised.
LEMMA Listening ==
  ASSUME IInv
  PROVE  NotStranded
  BY DEF IInv, Listeners, NotStranded

\* Who is referred to is alive.
LEMMA Alive ==
  ASSUME IInv, NEW c \in Fd
  PROVE  /\ sock[c].alive => conn[c].kind # "none"
         /\ conn[c].io => sock[c].alive
         /\ ev[c].data => sock[c].alive /\ "table" \in sock[c].refs
         /\ ev[c].refcnt > 0 <=> ev[c].data
         /\ U(c) = "pinned" => ev[c].data
         /\ U(c) = "socket" => sock[c].alive
         /\ U(c) = "holds" => conn[c].kind # "none"
  <1>1. Before(c)
    BY BeforeStep
  <1>2. QED
    BY <1>1 DEF Before, Life, References, Events, NoConn, NoSock, ConnRec, SockRec, EvRec

\* No thread meets freed memory.
LEMMA Looking ==
  ASSUME IInv
  PROVE  NoDangling
  <1>1. ASSUME user.at # "idle"
        PROVE  user.c \in Fd /\ U(user.c) = user.at
    BY <1>1, ActorsAt DEF U
  <1>2. user.at = "pinned" => ev[user.c].data /\ sock[user.c].alive
    BY <1>1, Alive
  <1>3. user.at = "socket" => sock[user.c].alive
    BY <1>1, Alive
  <1>4. user.at = "holds" => conn[user.c].kind # "none"
    BY <1>1, Alive
  <1>5. \A c \in Fd : /\ sock[c].alive => conn[c].kind # "none"
                      /\ conn[c].io => sock[c].alive
                      /\ ev[c].data => sock[c].alive /\ "table" \in sock[c].refs
                      /\ ev[c].refcnt > 0 <=> ev[c].data
    BY Alive
  <1>6. down => \E c \in Fd : conn[c].status = "write_close"
    BY DEF IInv, DownShape
  <1>7. QED  BY <1>2, <1>3, <1>4, <1>5, <1>6 DEF NoDangling

\* A failed connection at rest has a job nobody refers to.
LEMMA Proceeding ==
  ASSUME IInv
  PROVE  FailureProceeds
  <1> SUFFICES ASSUME NEW c \in Fd, "ERROR" \in conn[c].flags, main.c # c, user.c # c,
                      conn[c].at = "idle", "ABORT" \notin conn[c].pend \union sock[c].pend
               PROVE  (sock[c].alive /\ sock[c].refs = {}) \/ conn[c].refs = {}
    BY DEF FailureProceeds
  <1>1. Before(c) /\ M(c) = "idle" /\ U(c) = "idle"
    BY BeforeStep DEF M, U
  <1>2. "FAILED" \in conn[c].flags
    BY <1>1 DEF Before, Failing
  <1>3. CASE sock[c].alive
    <2>1. "ERROR" \in sock[c].flags
      BY <1>1, <1>2, <1>3 DEF Before, Failing
    <2>2. ~ev[c].data
      BY <1>1, <2>1 DEF Before, Events
    <2>3. "lookup" \notin sock[c].refs /\ "io" \notin sock[c].refs /\ "table" \notin sock[c].refs
      BY <1>1, <1>2, <2>2 DEF Before, References
    <2>4. QED  BY <1>1, <1>3, <2>3 DEF Before, SockRec
  <1>4. CASE ~sock[c].alive
    <2>1. "user" \notin conn[c].refs /\ "socket" \notin conn[c].refs /\ "creator" \notin conn[c].refs
      BY <1>1, <1>4 DEF Before, References
    <2>2. QED  BY <1>1, <2>1 DEF Before, ConnRec
  <1>5. QED  BY <1>3, <1>4

\* MODULE_STAT and active_special_connections are exact in every reachable state:
\* the counters a graceful shutdown and the accept limit rely on.
THEOREM Counters == Spec => []CountersExact
  <1>1. IInv => CountersExact
    BY DEF IInv
  <1>2. QED  BY <1>1, Invariance, PTL

\* No special listener stays out of epoll below max_special_connections without
\* a JS_AUX pending (net_accept_new_connections against cpu_server_close_connection).
THEOREM NeverStranded == Spec => []NotStranded
  BY Listening, Invariance, PTL

\* connection_get_by_fd and every handler meet live jobs only, and the only assertion
\* that can fail is the one about the status in cpu_server_close_connection.
THEOREM NeverDangling == Spec => []NoDangling
  BY Looking, Invariance, PTL

\* A connection with C_ERROR is never left with nobody to finish it: fail_connection,
\* fail_socket_connection and the two JS_FINISH handlers hand it on.
THEOREM FailuresProceed == Spec => []FailureProceeds
  BY Proceeding, Invariance, PTL

=============================================================================
