------------------------- MODULE SecretSlotsProofs -------------------------
(* Proofs about the table of secrets, for every number of slots, clients,   *)
(* addresses and DC connections and any configurations: what a slot counts  *)
(* is right and the slot is the client's own, the secrets in use are those  *)
(* of the configuration, and the two sides of a relay agree.                *)
(*                                                                          *)
(* SlotKept is not inductive: a slot is released when its count is zero, so *)
(* the count must never fall below the number of clients that are charged,  *)
(* in direct mode too, where it is not exact (ConnsLeast).  ConfigApplied   *)
(* needs to know that the pinned slots are never touched and that no active *)
(* slot lies beyond the count (Covered), and PairsAgree that a client whose *)
(* DC connection still points at it is either the one that points back or   *)
(* closed, that no two clients share a DC connection, and which phases can  *)
(* have one at all (ClientShape, DcShape, Paired).                          *)
EXTENDS SecretSlots, FiniteSetTheorems, FunctionTheorems, WellFoundedInduction, TLAPS

SlotRec == [state : {"FREE", "ACTIVE", "DRAINING"}, key : AnyKey, limit : Nat, maxIps : Nat,
            conns : Nat, ips : [Ip -> Nat], unique : Nat, overdue : BOOLEAN]
ClientRec == [phase : {"none", "hello", "open", "gone"}, key : Key \union {NoKey},
              slot : Slot \union {None}, kind : {"ext", "direct"}, failed : BOOLEAN,
              extra : Dc \union {None}, attempt : 0 .. MaxRetries, timer : BOOLEAN]
DcRec == [phase : {"none", "connecting", "up", "gone"}, extra : Conn \union {None},
          failed : BOOLEAN]

\* The types, with the records T and loaded themselves.
Typed ==
  /\ direct \in BOOLEAN /\ gauge \in Nat
  /\ T \in [slot : [Slot -> SlotRec], cnt : 0 .. MaxSlots]
  /\ client \in [Conn -> ClientRec] /\ dc \in [Dc -> DcRec]
  /\ loaded \in [config : Configs[direct] \union {<<>>}, ok : BOOLEAN]

\* What a client connection is like in each phase.
ClientOK(k) ==
  /\ k.phase = "open" => k.slot \in Slot
  /\ k.phase # "open" => k.extra = None
  /\ k.phase = "gone" => k.failed
  /\ k.kind = "ext" => k.extra = None
  /\ k.timer => k.phase = "gone" \/ (k.phase = "open" /\ k.kind = "direct")
ClientShape == \A c \in Conn : ClientOK(client[c]) /\ (client[c].kind = "direct" => direct)

\* A DC connection knows its client while it is connecting or up.
DcShape == \A d \in Dc : dc[d].extra # None <=> dc[d].phase \in {"connecting", "up"}

\* A client's pointer leads to the DC connection that points back or has
\* closed under it; that of a DC connection to its client, or to what is left of one.
Paired ==
  /\ \A c \in Conn : client[c].extra # None =>
        \/ dc[client[c].extra].extra = c
        \/ dc[client[c].extra].phase = "gone" /\ client[c].failed
  /\ \A d \in Dc : dc[d].extra # None =>
        \/ client[dc[d].extra].extra = d
        \/ client[dc[d].extra].phase = "gone" /\ dc[d].failed
  /\ \A b, c \in Conn : client[b].extra = client[c].extra /\ client[b].extra # None => b = c

\* A slot counts at least the clients that are charged to it.
ConnsLeast == \A s \in Slot : T.slot[s].conns >= Cardinality(Charged(s))

\* The pinned slots stay as they are, and the count covers them and, after a
\* reload that succeeded, all that are active.
Covered ==
  /\ Pinned <= T.cnt
  /\ \A s \in Slot : s < Pinned => T.slot[s].state = "ACTIVE" /\ T.slot[s].key = PinnedKey[s]
  /\ loaded.ok => \A s \in Slot : T.slot[s].state = "ACTIVE" => s < T.cnt

TableOK == ConnsLeast /\ ConnsExact /\ UniqueIpsExact /\ SlotKept
IInv == /\ Typed /\ ClientShape /\ DcShape /\ Paired /\ TableOK /\ Covered /\ ConfigApplied

-----------------------------------------------------------------------------
(* Numbers *)

LEMMA MinIn ==
  ASSUME NEW S \in SUBSET Nat, S # {}
  PROVE  Min(S) \in S /\ \A y \in S : Min(S) <= y
  <1>1. PICK x \in S : \A y \in S : ~(<<y, x>> \in OpToRel(<, Nat))
    BY NatLessThanWellFounded, WFMin
  <1>2. ASSUME NEW y \in S PROVE x <= y
    <2>1. x \in Nat /\ y \in Nat
      OBVIOUS
    <2>2. CASE y < x
      <3>1. <<y, x>> \in OpToRel(<, Nat)
        BY <2>1, <2>2, Zenon DEF OpToRel
      <3>2. QED  BY <1>1, <3>1
    <2>3. QED  BY <2>1, <2>2
  <1>3. QED  BY <1>2 DEF Min

LEMMA MaxIn ==
  ASSUME NEW B \in Nat, NEW S \in SUBSET (0 .. B), S # {}
  PROVE  Max(S) \in S /\ \A y \in S : y <= Max(S)
  <1> DEFINE D == {n \in Nat : B - n \in S}
  <1>1. D \in SUBSET Nat
    OBVIOUS
  <1>2. ASSUME NEW x \in S PROVE B - x \in D /\ x \in Int
    <2>1. x \in 0 .. B
      OBVIOUS
    <2>2. B - x \in Nat /\ B - (B - x) = x
      BY <2>1
    <2>3. QED  BY <2>1, <2>2
  <1>3. D # {}
    BY <1>2
  <1> HIDE DEF D
  <1>4. Min(D) \in D /\ \A n \in D : Min(D) <= n
    BY <1>1, <1>3, MinIn
  <1>5. Min(D) \in Nat /\ B - Min(D) \in S
    BY <1>4 DEF D
  <1>6. ASSUME NEW x \in S PROVE x <= B - Min(D)
    <2>1. Min(D) <= B - x /\ x \in Int
      BY <1>2, <1>4
    <2>2. QED  BY <1>5, <2>1
  <1>7. QED  BY <1>5, <1>6 DEF Max

\* Rank numbers the elements of a finite set of numbers in their order.
LEMMA RankLess ==
  ASSUME NEW S \in SUBSET Nat, IsFiniteSet(S), NEW x \in S, NEW y \in S, x < y
  PROVE  Rank(S, x) < Rank(S, y)
  <1> DEFINE X == {z \in S : z <= x}
             Y == {z \in S : z <= y}
  <1>1. X \in SUBSET Y /\ X # Y
    <2>1. x \in Nat /\ y \in Nat
      OBVIOUS
    <2>2. ASSUME NEW z \in X PROVE z \in Y
      BY <2>1
    <2>3. y \in Y /\ y \notin X
      BY <2>1
    <2>4. QED  BY <2>2, <2>3
  <1>2. IsFiniteSet(Y)
    BY FS_Subset
  <1>3. IsFiniteSet(X) /\ Cardinality(X) <= Cardinality(Y) /\ Cardinality(Y) # Cardinality(X)
    BY <1>1, <1>2, FS_Subset
  <1>4. Cardinality(X) \in Nat /\ Cardinality(Y) \in Nat
    BY <1>2, <1>3, FS_CardinalityType
  <1>5. Rank(S, x) = Cardinality(X) /\ Rank(S, y) = Cardinality(Y)
    BY DEF Rank
  <1>6. QED  BY <1>3, <1>4, <1>5

LEMMA RankRange ==
  ASSUME NEW S \in SUBSET Nat, IsFiniteSet(S), NEW x \in S
  PROVE  Rank(S, x) \in 1 .. Cardinality(S)
  <1> DEFINE X == {z \in S : z <= x}
  <1>1. X \in SUBSET S /\ x \in X
    OBVIOUS
  <1>2. IsFiniteSet(X) /\ Cardinality(X) <= Cardinality(S)
    BY <1>1, FS_Subset
  <1>3. Cardinality(X) \in Nat /\ Cardinality(S) \in Nat /\ Cardinality(X) # 0
    BY <1>1, <1>2, FS_CardinalityType, FS_EmptySet
  <1>4. Rank(S, x) = Cardinality(X)
    BY DEF Rank
  <1>5. QED  BY <1>2, <1>3, <1>4

LEMMA RankOnce ==
  ASSUME NEW S \in SUBSET Nat, IsFiniteSet(S), NEW x \in S, NEW y \in S, Rank(S, x) = Rank(S, y)
  PROVE  x = y
  <1>1. x \in Nat /\ y \in Nat /\ Cardinality(S) \in Nat
    BY FS_CardinalityType
  <1>2. Rank(S, x) \in 1 .. Cardinality(S) /\ Rank(S, y) \in 1 .. Cardinality(S)
    BY RankRange
  <1>3. CASE x < y
    BY <1>1, <1>2, <1>3, RankLess
  <1>4. CASE y < x
    BY <1>1, <1>2, <1>4, RankLess
  <1>5. QED  BY <1>1, <1>3, <1>4

LEMMA RankOnto ==
  ASSUME NEW S \in SUBSET Nat, IsFiniteSet(S), NEW n \in 1 .. Cardinality(S)
  PROVE  \E x \in S : Rank(S, x) = n
  <1> DEFINE N == 1 .. Cardinality(S)
             f == [x \in S |-> Rank(S, x)]
  <1>1. f \in [S -> N]
    BY RankRange
  <1>2. \A x, y \in S : f[x] = f[y] => x = y
    BY RankOnce
  <1>3. f \in Injection(S, N)
    BY <1>1, <1>2 DEF Injection, IsInjective
  <1>4. Cardinality(S) \in Nat
    BY FS_CardinalityType
  <1>5. IsFiniteSet(N) /\ Cardinality(N) = Cardinality(S)
    BY <1>4, FS_Interval
  <1>6. f \in Surjection(S, N)
    BY <1>3, <1>5, FS_Injection
  <1>7. PICK x \in S : f[x] = n
    BY <1>6 DEF Surjection
  <1>8. QED  BY <1>7

-----------------------------------------------------------------------------
(* The table *)

Table == [Slot -> SlotRec]

LEMMA SlotNumbers ==
  /\ Slot \in SUBSET Nat /\ IsFiniteSet(Slot)
  /\ Config \in SUBSET Slot /\ IsFiniteSet(Config) /\ Config \in SUBSET Nat
  /\ \A s \in Slot : s \in Config <=> ~(s < Pinned)
  /\ \A s \in Slot : s + 1 \in 0 .. MaxSlots
  <1>1. MaxSlots \in Nat /\ Pinned \in Nat
    BY SlotsAssumption
  <1>2. Slot \in SUBSET Nat /\ Config \in SUBSET Slot /\ IsFiniteSet(Slot)
    BY <1>1, FS_Interval DEF Slot, Config
  <1>3. IsFiniteSet(Config)
    BY <1>2, FS_Subset
  <1>4. QED  BY <1>1, <1>2, <1>3 DEF Slot, Config

\* The count covers the pinned slots and those in use.
LEMMA Water ==
  ASSUME NEW t \in Table
  PROVE  /\ HighWater(t) \in 0 .. MaxSlots /\ Pinned <= HighWater(t)
         /\ \A s \in Config : Used(t, s) => s < HighWater(t)
  <1> DEFINE S == {Pinned} \union {s + 1 : s \in {s \in Config : Used(t, s)}}
  <1>1. MaxSlots \in Nat /\ Pinned \in 0 .. MaxSlots
    BY SlotsAssumption
  <1>2. S \in SUBSET (0 .. MaxSlots) /\ S # {}
    BY <1>1, SlotNumbers
  <1>3. Max(S) \in S /\ \A y \in S : y <= Max(S)
    BY <1>1, <1>2, MaxIn
  <1>4. HighWater(t) = Max(S)
    BY DEF HighWater
  <1>5. Pinned <= Max(S) /\ Max(S) \in 0 .. MaxSlots
    BY <1>2, <1>3
  <1>6. ASSUME NEW s \in Config, Used(t, s) PROVE s < Max(S)
    <2>1. s + 1 \in S /\ s \in Nat
      BY <1>6, SlotNumbers
    <2>2. s + 1 <= Max(S)
      BY <1>3, <2>1
    <2>3. QED  BY <1>5, <2>1, <2>2
  <1> HIDE DEF S
  <1>7. QED  BY <1>4, <1>5, <1>6

\* A configuration the model may load.
Loadable(cfg) == cfg \in Configs[direct]

LEMMA Entries ==
  ASSUME NEW cfg, Loadable(cfg), direct \in BOOLEAN
  PROVE  /\ DOMAIN cfg \in SUBSET Nat /\ IsFiniteSet(DOMAIN cfg)
         /\ Len(cfg) \in Nat /\ DOMAIN cfg \in SUBSET (0 .. Len(cfg))
         /\ Accepted(cfg) \in SUBSET DOMAIN cfg
         /\ \A i \in DOMAIN cfg : /\ cfg[i].limit \in Nat /\ cfg[i].maxIps \in Nat
                                  /\ cfg[i].key \in AnyKey /\ cfg[i].key \in Keys(cfg)
  <1>1. Len(cfg) \in Nat /\ DOMAIN cfg = 1 .. Len(cfg)
        /\ \A i \in DOMAIN cfg : cfg[i].limit \in Nat /\ cfg[i].maxIps \in Nat
    BY ClientsAssumption DEF Loadable
  <1>2. IsFiniteSet(DOMAIN cfg) /\ DOMAIN cfg \in SUBSET Nat /\ DOMAIN cfg \in SUBSET (0 .. Len(cfg))
    BY <1>1, FS_Interval, SMTT(60)
  <1>3. \A i \in DOMAIN cfg : cfg[i].key \in Keys(cfg)
    BY DEF Keys
  <1>4. Keys(cfg) \in SUBSET AnyKey
    BY DEF AnyKey, Loadable
  <1>5. Accepted(cfg) \in SUBSET DOMAIN cfg
    BY DEF Accepted
  <1>6. QED  BY <1>1, <1>2, <1>3, <1>4, <1>5

\* The records of a slot whose state and limits change, and nothing else.
SameCounts(a, b) == a.key = b.key /\ a.conns = b.conns /\ a.ips = b.ips /\ a.unique = b.unique
Blank(a) == a.conns = 0 /\ a.unique = 0 /\ a.ips = [i \in Ip |-> 0]

LEMMA Own ==
  ASSUME NEW t \in Table, NEW cfg, Loadable(cfg), direct \in BOOLEAN, NEW s \in Config
  PROVE  LET own == {i \in Accepted(cfg) : Matches(t, cfg[i].key) # {}
                                           /\ s = Min(Matches(t, cfg[i].key))}
         IN  own # {} => /\ Max(own) \in Accepted(cfg) /\ Max(own) \in DOMAIN cfg
                         /\ Used(t, s) /\ t[s].key = cfg[Max(own)].key
  <1> DEFINE own == {i \in Accepted(cfg) : Matches(t, cfg[i].key) # {}
                                           /\ s = Min(Matches(t, cfg[i].key))}
  <1> SUFFICES ASSUME own # {}
               PROVE  /\ Max(own) \in Accepted(cfg) /\ Max(own) \in DOMAIN cfg
                      /\ Used(t, s) /\ t[s].key = cfg[Max(own)].key
    OBVIOUS
  <1>1. own \in SUBSET (0 .. Len(cfg)) /\ Len(cfg) \in Nat /\ Accepted(cfg) \in SUBSET DOMAIN cfg
    BY Entries
  <1>2. Max(own) \in own
    BY <1>1, MaxIn
  <1>3. PICK i \in own : i = Max(own)
    BY <1>2
  <1>4. /\ i \in Accepted(cfg) /\ Matches(t, cfg[i].key) # {} /\ s = Min(Matches(t, cfg[i].key))
    BY <1>3
  <1>5. Matches(t, cfg[i].key) \in SUBSET Nat
    BY SlotNumbers DEF Matches
  <1>6. s \in Matches(t, cfg[i].key)
    BY <1>4, <1>5, MinIn
  <1>7. QED  BY <1>1, <1>3, <1>4, <1>6 DEF Matches

\* Passes A to C: what Refresh does to a slot, and that every entry that has a
\* slot has an active one.
IsRefreshed(r, t, cfg) ==
  /\ r \in Table
  /\ \A s \in Slot : /\ SameCounts(r[s], t[s])
                     /\ Used(r, s) <=> Used(t, s)
                     /\ s \notin Config => r[s] = t[s]
  /\ \A s \in Config : r[s].state = "ACTIVE" => \E i \in Accepted(cfg) : cfg[i].key = t[s].key
  /\ \A i \in Accepted(cfg) : Matches(t, cfg[i].key) # {} =>
        \E s \in Config : r[s].state = "ACTIVE" /\ t[s].key = cfg[i].key

LEMMA Refreshing ==
  ASSUME NEW t \in Table, NEW cfg, Loadable(cfg), direct \in BOOLEAN
  PROVE  IsRefreshed(Refresh(t, cfg), t, cfg)
  <1> DEFINE own(s) == {i \in Accepted(cfg) : Matches(t, cfg[i].key) # {}
                                              /\ s = Min(Matches(t, cfg[i].key))}
             r == Refresh(t, cfg)
  <1>1. \A s \in Config : own(s) # {} => /\ Max(own(s)) \in Accepted(cfg) /\ Max(own(s)) \in DOMAIN cfg
                                         /\ Used(t, s) /\ t[s].key = cfg[Max(own(s))].key
    BY Own, SMTT(60)
  <1>2. /\ DOMAIN r = Slot
        /\ \A s \in Slot : s \notin Config => r[s] = t[s]
        /\ \A s \in Config : own(s) # {} =>
              r[s] = [t[s] EXCEPT !.state = "ACTIVE", !.overdue = FALSE,
                        !.limit = cfg[Max(own(s))].limit, !.maxIps = cfg[Max(own(s))].maxIps]
        /\ \A s \in Config : own(s) = {} =>
              r[s] = IF t[s].state = "ACTIVE" THEN [t[s] EXCEPT !.state = "DRAINING"] ELSE t[s]
        /\ r = [s \in Slot |-> r[s]]
    BY SlotNumbers DEF Refresh
  <1> HIDE DEF own, r
  <1>3. ASSUME NEW s \in Slot
        PROVE  /\ r[s] \in SlotRec /\ SameCounts(r[s], t[s])
               /\ r[s].state # "FREE" <=> t[s].state # "FREE"
               /\ s \in Config /\ r[s].state = "ACTIVE" => own(s) # {}
               /\ s \in Config /\ own(s) # {} => r[s].state = "ACTIVE"
    <2>1. t[s] \in SlotRec
      BY DEF Table
    <2>2. CASE s \notin Config
      BY <1>2, <2>1, <2>2 DEF SameCounts
    <2>3. CASE s \in Config /\ own(s) # {}
      <3>1. PICK m \in DOMAIN cfg : m = Max(own(s)) /\ Used(t, s)
        BY <1>1, <2>3
      <3>2. cfg[m].limit \in Nat /\ cfg[m].maxIps \in Nat
        BY Entries
      <3>3. r[s] = [t[s] EXCEPT !.state = "ACTIVE", !.overdue = FALSE,
                        !.limit = cfg[m].limit, !.maxIps = cfg[m].maxIps]
        BY <1>2, <2>3, <3>1
      <3>4. QED  BY <2>1, <2>3, <3>1, <3>2, <3>3 DEF SameCounts, SlotRec, Used
    <2>4. CASE s \in Config /\ own(s) = {}
      BY <1>2, <2>1, <2>4, ZenonT(60) DEF SameCounts, SlotRec
    <2>5. QED  BY <2>2, <2>3, <2>4
  <1>4. r \in Table
    BY <1>2, <1>3 DEF Table
  <1>5. ASSUME NEW s \in Config, r[s].state = "ACTIVE"
        PROVE  \E i \in Accepted(cfg) : cfg[i].key = t[s].key
    <2>1. own(s) # {}
      BY <1>3, <1>5, SlotNumbers
    <2>2. QED  BY <1>1, <2>1
  <1>6. ASSUME NEW i \in Accepted(cfg), Matches(t, cfg[i].key) # {}
        PROVE  \E s \in Config : r[s].state = "ACTIVE" /\ t[s].key = cfg[i].key
    <2>1. Matches(t, cfg[i].key) \in SUBSET Nat
      BY SlotNumbers DEF Matches
    <2>2. PICK s \in Matches(t, cfg[i].key) : s = Min(Matches(t, cfg[i].key))
      BY <1>6, <2>1, MinIn
    <2>3. s \in Config /\ t[s].key = cfg[i].key
      BY DEF Matches
    <2>4. i \in own(s)
      BY <1>6, <2>2 DEF own
    <2>5. r[s].state = "ACTIVE"
      BY <1>3, <2>3, <2>4, SlotNumbers
    <2>6. QED  BY <2>3, <2>5
  <1>7. \A s \in Slot : Used(r, s) <=> Used(t, s)
    BY <1>3 DEF Used
  <1>8. QED  BY <1>2, <1>3, <1>4, <1>5, <1>6, <1>7 DEF r, IsRefreshed

LEMMA PlaceOne ==
  ASSUME NEW cfg, Loadable(cfg), direct \in BOOLEAN, NEW i \in DOMAIN cfg
  PROVE  /\ Place(cfg[i]) \in SlotRec /\ Blank(Place(cfg[i]))
         /\ Place(cfg[i]).state = "ACTIVE" /\ Place(cfg[i]).key = cfg[i].key
  <1>1. cfg[i].limit \in Nat /\ cfg[i].maxIps \in Nat /\ cfg[i].key \in AnyKey
    BY Entries
  <1>2. QED  BY <1>1 DEF Place, Free, Blank, SlotRec

\* Pass D: what Placed does to a slot, and that every new entry gets one when
\* there are enough.
LEMMA Placing ==
  ASSUME NEW t \in Table, NEW cfg, Loadable(cfg), direct \in BOOLEAN,
         NEW new \in SUBSET DOMAIN cfg
  PROVE  /\ Placed(t, cfg, new) \in Table
         /\ \A s \in Slot : (Used(t, s) \/ s \notin Config) => Placed(t, cfg, new)[s] = t[s]
         /\ \A s \in Slot : \/ Placed(t, cfg, new)[s] = t[s]
                            \/ \E i \in new : Placed(t, cfg, new)[s] = Place(cfg[i])
         /\ Cardinality(new) <= Cardinality(FreeSlots(t)) =>
               \A i \in new : \E s \in Config : Placed(t, cfg, new)[s] = Place(cfg[i])
  <1> DEFINE F == FreeSlots(t)
             r == Placed(t, cfg, new)
             of(s) == CHOOSE i \in new : Rank(new, i) = Rank(F, s)
  <1>1. new \in SUBSET Nat /\ IsFiniteSet(new)
    BY Entries, FS_Subset
  <1>2. F \in SUBSET Config
    BY DEF FreeSlots
  <1>3. F \in SUBSET Nat /\ IsFiniteSet(F) /\ F \in SUBSET Slot
    BY <1>2, SlotNumbers, FS_Subset
  <1>4. /\ DOMAIN r = Slot /\ r = [s \in Slot |-> r[s]]
        /\ \A s \in Slot : s \in F /\ Rank(F, s) <= Cardinality(new) => r[s] = Place(cfg[of(s)])
        /\ \A s \in Slot : ~(s \in F /\ Rank(F, s) <= Cardinality(new)) => r[s] = t[s]
    BY DEF Placed
  <1>5. Cardinality(new) \in Nat /\ Cardinality(F) \in Nat
    BY <1>1, <1>3, FS_CardinalityType
  <1> HIDE DEF F, r
  <1>6. ASSUME NEW s \in F, Rank(F, s) <= Cardinality(new)
        PROVE  of(s) \in new /\ Rank(new, of(s)) = Rank(F, s)
    <2>1. Rank(F, s) \in 1 .. Cardinality(F)
      BY <1>3, RankRange
    <2>2. Rank(F, s) \in 1 .. Cardinality(new)
      BY <1>5, <1>6, <2>1
    <2>3. \E i \in new : Rank(new, i) = Rank(F, s)
      BY <1>1, <2>2, RankOnto
    <2>4. QED  BY <2>3
  <1> HIDE DEF of
  <1>7. ASSUME NEW s \in Slot
        PROVE  r[s] = t[s] \/ \E i \in new : r[s] = Place(cfg[i])
    BY <1>4, <1>6
  <1>8. ASSUME NEW s \in Slot, Used(t, s) \/ s \notin Config
        PROVE  r[s] = t[s]
    <2>1. s \notin F
      BY <1>8 DEF F, FreeSlots
    <2>2. QED  BY <1>4, <2>1
  <1>9. ASSUME NEW s \in Slot PROVE r[s] \in SlotRec
    <2>1. t[s] \in SlotRec
      BY DEF Table
    <2>2. \A i \in new : Place(cfg[i]) \in SlotRec
      BY PlaceOne
    <2>3. QED  BY <1>7, <2>1, <2>2
  <1>10. r \in Table
    BY <1>4, <1>9 DEF Table
  <1>11. ASSUME Cardinality(new) <= Cardinality(F), NEW i \in new
         PROVE  \E s \in Config : r[s] = Place(cfg[i])
    <2>1. Rank(new, i) \in 1 .. Cardinality(new)
      BY <1>1, RankRange
    <2>2. Rank(new, i) \in 1 .. Cardinality(F)
      BY <1>5, <1>11, <2>1
    <2>3. PICK s \in F : Rank(F, s) = Rank(new, i)
      BY <1>3, <2>2, RankOnto
    <2>4. Rank(F, s) <= Cardinality(new)
      BY <1>5, <2>1, <2>3
    <2>5. of(s) \in new /\ Rank(new, of(s)) = Rank(new, i)
      BY <1>6, <2>3, <2>4
    <2>6. of(s) = i
      BY <1>1, <2>5, RankOnce
    <2>7. s \in Slot /\ s \in Config
      BY <1>2, <1>3
    <2>8. r[s] = Place(cfg[of(s)])
      BY <1>4, <2>4, <2>7
    <2>9. QED  BY <2>6, <2>7, <2>8
  <1>12. QED  BY <1>7, <1>8, <1>10, <1>11 DEF F, r

-----------------------------------------------------------------------------
(* The counts *)

LEMMA ChargedFinite ==
  ASSUME NEW s \in Slot
  PROVE  /\ IsFiniteSet(Charged(s)) /\ Cardinality(Charged(s)) \in Nat
         /\ Charged(s) \in SUBSET Conn
         /\ Cardinality(Charged(s)) = 0 <=> Charged(s) = {}
  <1>1. Charged(s) \in SUBSET Conn
    BY DEF Charged
  <1>2. IsFiniteSet(Charged(s))
    BY <1>1, ClientsAssumption, FS_Subset
  <1>3. QED  BY <1>1, <1>2, FS_CardinalityType, FS_EmptySet

LEMMA NoAddresses ==
  ASSUME NEW a, Blank(a)
  PROVE  a.unique = Cardinality({i \in Ip : a.ips[i] > 0})
  <1>1. {i \in Ip : a.ips[i] > 0} = {}
    BY DEF Blank
  <1>2. QED  BY <1>1, FS_EmptySet DEF Blank

\* The clients that are charged stay charged to the same slot.
OpenSame == \A c \in Conn : /\ client'[c].phase = "open" <=> client[c].phase = "open"
                            /\ client[c].phase = "open" => /\ client'[c].slot = client[c].slot
                                                           /\ client'[c].key = client[c].key

KeptSlot(s) == SameCounts(T'.slot[s], T.slot[s]) /\ (Used(T.slot, s) => Used(T'.slot, s))

\* A step that charges nobody may change states and limits, and blank the slots
\* nobody is charged to.
LEMMA TableStep ==
  ASSUME TableOK, direct' = direct, OpenSame,
         \A s \in Slot : KeptSlot(s) \/ (Charged(s) = {} /\ Blank(T'.slot[s]))
  PROVE  TableOK'
  <1>1. ASSUME NEW s \in Slot PROVE Charged(s)' = Charged(s)
    BY DEF OpenSame, Charged
  <1>2. ASSUME NEW s \in Slot
        PROVE  /\ T'.slot[s].conns >= Cardinality(Charged(s)')
               /\ ~direct => T'.slot[s].conns = Cardinality(Charged(s)')
               /\ T'.slot[s].unique = Cardinality({i \in Ip : T'.slot[s].ips[i] > 0})
               /\ \A c \in Charged(s)' : Used(T'.slot, s) /\ T'.slot[s].key = client'[c].key
    <2>1. Charged(s)' = Charged(s)
      BY <1>1
    <2>2. CASE KeptSlot(s)
      <3>1. /\ T.slot[s].conns >= Cardinality(Charged(s))
            /\ ~direct => T.slot[s].conns = Cardinality(Charged(s))
            /\ T.slot[s].unique = Cardinality({i \in Ip : T.slot[s].ips[i] > 0})
            /\ \A c \in Charged(s) : Used(T.slot, s) /\ T.slot[s].key = client[c].key
        BY DEF TableOK, ConnsLeast, ConnsExact, UniqueIpsExact, SlotKept
      <3>2. \A c \in Charged(s) : client'[c].key = client[c].key
        BY DEF OpenSame, Charged
      <3>3. QED  BY <2>1, <2>2, <3>1, <3>2 DEF KeptSlot, SameCounts
    <2>3. CASE Charged(s) = {} /\ Blank(T'.slot[s])
      <3>1. Cardinality(Charged(s)) = 0
        BY <2>3, FS_EmptySet
      <3>2. T'.slot[s].unique = Cardinality({i \in Ip : T'.slot[s].ips[i] > 0})
        BY <2>3, NoAddresses
      <3>3. QED  BY <2>1, <2>3, <3>1, <3>2 DEF Blank
    <2>4. QED  BY <2>2, <2>3
  <1>3. ConnsLeast'
    BY <1>2 DEF ConnsLeast
  <1>4. ConnsExact'
    BY <1>2 DEF ConnsExact
  <1>5. UniqueIpsExact'
    BY <1>2 DEF UniqueIpsExact
  <1>6. SlotKept'
    BY <1>2 DEF SlotKept
  <1>7. QED  BY <1>3, <1>4, <1>5, <1>6 DEF TableOK

\* A step that leaves states, keys and the count alone.
LEMMA SameKeys ==
  ASSUME Covered, ConfigApplied, loaded' = loaded, T'.cnt = T.cnt,
         \A s \in Slot : T'.slot[s].state = T.slot[s].state /\ T'.slot[s].key = T.slot[s].key
  PROVE  Covered' /\ ConfigApplied'
  <1>1. Covered'
    BY DEF Covered
  <1>2. {s \in Slot : s < T'.cnt /\ T'.slot[s].state = "ACTIVE"}
           = {s \in Slot : s < T.cnt /\ T.slot[s].state = "ACTIVE"}
    OBVIOUS
  <1>3. {T'.slot[s].key : s \in {s \in Slot : s < T'.cnt /\ T'.slot[s].state = "ACTIVE"}}
           = {T.slot[s].key : s \in {s \in Slot : s < T.cnt /\ T.slot[s].state = "ACTIVE"}}
    BY <1>2
  <1>4. QED  BY <1>1, <1>3 DEF ConfigApplied, Keys

\* ConfigApplied, key by key.
PinnedKeys == {PinnedKey[p] : p \in 0 .. (Pinned - 1)}
UsedKey(k) == \E s \in Slot : s < T.cnt /\ T.slot[s].state = "ACTIVE" /\ T.slot[s].key = k
KeysApplied == loaded.ok => \A k : UsedKey(k) <=> k \in PinnedKeys \union Keys(loaded.config)
LEMMA ByKey == ConfigApplied <=> KeysApplied
  <1> DEFINE A == {T.slot[s].key : s \in {s \in Slot : s < T.cnt /\ T.slot[s].state = "ACTIVE"}}
             B == PinnedKeys \union Keys(loaded.config)
  <1>1. \A k : k \in A <=> UsedKey(k)
    BY DEF UsedKey
  <1>2. ConfigApplied <=> (loaded.ok => A = B)
    BY DEF ConfigApplied, PinnedKeys
  <1> HIDE DEF A, B
  <1>3. A = B <=> \A k : k \in A <=> k \in B
    OBVIOUS
  <1>4. QED  BY <1>1, <1>2, <1>3 DEF B, KeysApplied

\* Every pinned slot shows its key.
LEMMA UsedAfter ==
  ASSUME Covered', T'.cnt \in 0 .. MaxSlots, NEW k \in PinnedKeys
  PROVE  UsedKey(k)'
  <1>1. PICK p \in 0 .. (Pinned - 1) : k = PinnedKey[p]
    BY DEF PinnedKeys
  <1>2. Pinned \in Nat /\ MaxSlots \in Nat /\ Pinned <= MaxSlots
    BY SlotsAssumption
  <1>3. p \in Slot /\ p < Pinned
    BY <1>2 DEF Slot
  <1>4. p < T'.cnt
    BY <1>2, <1>3 DEF Covered
  <1>5. T'.slot[p].state = "ACTIVE" /\ T'.slot[p].key = PinnedKey[p]
    BY <1>3 DEF Covered
  <1>6. QED  BY <1>1, <1>3, <1>4, <1>5 DEF UsedKey

LEMMA KeyAfter ==
  ASSUME loaded'.ok => \A k : UsedKey(k)' <=> k \in PinnedKeys \union Keys(loaded'.config)
  PROVE  ConfigApplied'
  <1>1. ConfigApplied' <=> KeysApplied'
    BY ByKey, PTL
  <1>2. QED  BY <1>1 DEF KeysApplied, Keys

-----------------------------------------------------------------------------
(* Reload *)

\* The table a reload leaves, and the configuration in it when it returns 0.
LEMMA Reloading ==
  ASSUME NEW t \in Table, NEW n \in 0 .. MaxSlots, NEW cfg, Loadable(cfg), direct \in BOOLEAN,
         NEW r, r = Reload([slot |-> t, cnt |-> n], cfg)
  PROVE  /\ r.table \in [slot : Table, cnt : 0 .. MaxSlots] /\ r.ok \in BOOLEAN
         /\ r = [table |-> r.table, ok |-> r.ok]
         /\ Pinned <= n => Pinned <= r.table.cnt
         /\ \A s \in Slot : /\ s \notin Config => r.table.slot[s] = t[s]
                            /\ Used(t, s) => /\ Used(r.table.slot, s)
                                             /\ SameCounts(r.table.slot[s], t[s])
                            /\ SameCounts(r.table.slot[s], t[s]) \/ Blank(r.table.slot[s])
         /\ \A s \in Config : r.table.slot[s].state = "ACTIVE" =>
               r.table.slot[s].key \in Keys(cfg)
         /\ r.ok => /\ \A s \in Config : r.table.slot[s].state = "ACTIVE" => s < r.table.cnt
                    /\ \A i \in Accepted(cfg) : \E s \in Config :
                          r.table.slot[s].state = "ACTIVE" /\ r.table.slot[s].key = cfg[i].key
  <1> DEFINE t1 == Refresh(t, cfg)
             new == Unplaced(t, cfg)
             t2 == Placed(t1, cfg, new)
             full == Cardinality(new) > Cardinality(FreeSlots(t1))
             many == Cardinality({s \in Slot : t2[s].state = "ACTIVE"}) > MaxActive
             ok == ~full /\ ~many
  <1>1. r = [table |-> [slot |-> t2, cnt |-> IF ok THEN HighWater(t2) ELSE n], ok |-> ok]
    BY DEF Reload
  <1>2. /\ Accepted(cfg) \in SUBSET DOMAIN cfg /\ new \in SUBSET DOMAIN cfg
        /\ new \in SUBSET Accepted(cfg) /\ IsFiniteSet(new)
    <2>1. new \in SUBSET Accepted(cfg)
      BY DEF Unplaced
    <2>2. QED  BY <2>1, Entries, FS_Subset
  <1>3. IsRefreshed(t1, t, cfg)
    BY Refreshing
  <1> HIDE DEF t1
  <1>4. /\ t2 \in Table
        /\ \A s \in Slot : (Used(t1, s) \/ s \notin Config) => t2[s] = t1[s]
        /\ \A s \in Slot : t2[s] = t1[s] \/ \E i \in new : t2[s] = Place(cfg[i])
        /\ Cardinality(new) <= Cardinality(FreeSlots(t1)) =>
               \A i \in new : \E s \in Config : t2[s] = Place(cfg[i])
    BY <1>2, <1>3, Placing DEF IsRefreshed
  <1>5. \A i \in DOMAIN cfg : /\ Blank(Place(cfg[i])) /\ Place(cfg[i]).state = "ACTIVE"
                              /\ Place(cfg[i]).key = cfg[i].key
    BY PlaceOne
  <1>6. HighWater(t2) \in 0 .. MaxSlots /\ Pinned <= HighWater(t2)
        /\ \A s \in Config : Used(t2, s) => s < HighWater(t2)
    BY <1>4, Water
  <1> HIDE DEF t2
  <1>7. Cardinality(new) \in Nat /\ Cardinality(FreeSlots(t1)) \in Nat
    <2>1. FreeSlots(t1) \in SUBSET Config
      BY DEF FreeSlots
    <2>2. QED  BY <1>2, <2>1, SlotNumbers, FS_Subset, FS_CardinalityType
  <1>8. ok => Cardinality(new) <= Cardinality(FreeSlots(t1))
    BY <1>7
  <1>9. ASSUME NEW s \in Slot
        PROVE  /\ s \notin Config => t2[s] = t[s]
               /\ Used(t, s) => Used(t2, s) /\ SameCounts(t2[s], t[s])
               /\ SameCounts(t2[s], t[s]) \/ Blank(t2[s])
    <2>1. s \notin Config => t2[s] = t[s]
      BY <1>3, <1>4 DEF IsRefreshed
    <2>2. Used(t, s) => Used(t2, s) /\ SameCounts(t2[s], t[s])
      BY <1>3, <1>4 DEF Used, IsRefreshed
    <2>3. SameCounts(t2[s], t[s]) \/ Blank(t2[s])
      BY <1>2, <1>3, <1>4, <1>5 DEF IsRefreshed
    <2>4. QED  BY <2>1, <2>2, <2>3
  <1>10. ASSUME NEW s \in Config, t2[s].state = "ACTIVE"
         PROVE  t2[s].key \in Keys(cfg)
    <2>1. s \in Slot
      BY SlotNumbers
    <2>2. CASE t2[s] = t1[s]
      <3>1. PICK i \in Accepted(cfg) : cfg[i].key = t[s].key
        BY <1>3, <1>10, <2>2 DEF IsRefreshed
      <3>2. cfg[i].key \in Keys(cfg)
        BY <1>2, Entries
      <3>3. t2[s].key = t[s].key
        BY <1>3, <2>1, <2>2 DEF SameCounts, IsRefreshed
      <3>4. QED  BY <3>1, <3>2, <3>3
    <2>3. CASE \E i \in new : t2[s] = Place(cfg[i])
      <3>1. PICK i \in new : t2[s] = Place(cfg[i])
        BY <2>3
      <3>2. i \in DOMAIN cfg
        BY <1>2
      <3>3. QED  BY <1>5, <3>1, <3>2, Entries
    <2>4. QED  BY <1>4, <2>1, <2>2, <2>3
  <1>11. ASSUME ok, NEW i \in Accepted(cfg)
         PROVE  \E s \in Config : t2[s].state = "ACTIVE" /\ t2[s].key = cfg[i].key
    <2>1. CASE Matches(t, cfg[i].key) # {}
      <3>1. PICK s \in Config : t1[s].state = "ACTIVE" /\ t[s].key = cfg[i].key
        BY <1>3, <2>1 DEF IsRefreshed
      <3>2. s \in Slot /\ Used(t1, s)
        BY <3>1, SlotNumbers DEF Used
      <3>3. t2[s] = t1[s] /\ t1[s].key = t[s].key
        BY <1>3, <1>4, <3>2 DEF SameCounts, IsRefreshed
      <3>4. QED  BY <3>1, <3>3
    <2>2. CASE Matches(t, cfg[i].key) = {}
      <3>1. i \in new /\ i \in DOMAIN cfg
        BY <1>2, <2>2 DEF Unplaced
      <3>2. PICK s \in Config : t2[s] = Place(cfg[i])
        BY <1>4, <1>8, <1>11, <3>1
      <3>3. QED  BY <1>5, <3>1, <3>2
    <2>3. QED  BY <2>1, <2>2
  <1>12. ASSUME ok, NEW s \in Config, t2[s].state = "ACTIVE"
         PROVE  s < HighWater(t2)
    BY <1>6, <1>12 DEF Used
  <1>13. ok \in BOOLEAN
    OBVIOUS
  <1> HIDE DEF ok
  <1>14. /\ r.table = [slot |-> t2, cnt |-> IF ok THEN HighWater(t2) ELSE n]
         /\ r.ok = ok /\ r.table.slot = t2 /\ r.table.cnt = IF ok THEN HighWater(t2) ELSE n
    BY <1>1
  <1>15. r.table \in [slot : Table, cnt : 0 .. MaxSlots]
    BY <1>4, <1>6, <1>14
  <1>16. QED  BY <1>1, <1>6, <1>9, <1>10, <1>11, <1>12, <1>13, <1>14, <1>15

\* What does not change the pairs.
PairsSame ==
  /\ direct' = direct
  /\ \A c \in Conn : /\ client'[c].phase = client[c].phase /\ client'[c].slot = client[c].slot
                     /\ client'[c].extra = client[c].extra /\ client'[c].kind = client[c].kind
                     /\ client'[c].timer = client[c].timer
                     /\ client[c].failed => client'[c].failed
  /\ \A d \in Dc : /\ dc'[d].extra = dc[d].extra
                   /\ dc'[d].phase = "gone" <=> dc[d].phase = "gone"
                   /\ dc'[d].phase \in {"connecting", "up"} <=> dc[d].phase \in {"connecting", "up"}
                   /\ dc[d].failed => dc'[d].failed

\* Paired, for one connection and its peer.
LEMMA PairOf ==
  ASSUME Paired, NEW c \in Conn, NEW d \in Dc
  PROVE  /\ client[c].extra = d /\ d # None => dc[d].extra = c \/ (dc[d].phase = "gone" /\ client[c].failed)
         /\ dc[d].extra = c /\ c # None => client[c].extra = d \/ (client[c].phase = "gone" /\ dc[d].failed)
         /\ \A b \in Conn : client[b].extra = client[c].extra /\ client[c].extra # None => b = c
  <1>1. /\ client[c].extra # None => (dc[client[c].extra].extra = c
                                      \/ (dc[client[c].extra].phase = "gone" /\ client[c].failed))
        /\ dc[d].extra # None => (client[dc[d].extra].extra = d
                                 \/ (client[dc[d].extra].phase = "gone" /\ dc[d].failed))
    BY DEF Paired
  <1>2. \A b \in Conn : client[b].extra = client[c].extra /\ client[c].extra # None => b = c
    BY DEF Paired
  <1>3. QED  BY <1>1, <1>2

LEMMA PairsStay ==
  ASSUME Typed, ClientShape, DcShape, Paired, PairsSame
  PROVE  ClientShape' /\ DcShape' /\ Paired'
  <1>1. ClientShape'
    BY DEF ClientShape, ClientOK, PairsSame
  <1>2. DcShape'
    BY DEF DcShape, PairsSame
  <1>3. \A c \in Conn : client[c].extra \in Dc \union {None}
    BY DEF Typed, ClientRec
  <1>4. \A d \in Dc : dc[d].extra \in Conn \union {None}
    BY DEF Typed, DcRec
  <1>5. Paired'
    <2>1. ASSUME NEW c \in Conn, client'[c].extra # None
          PROVE  \/ dc'[client'[c].extra].extra = c
                 \/ dc'[client'[c].extra].phase = "gone" /\ client'[c].failed
      <3>1. PICK d \in Dc : d = client[c].extra /\ d = client'[c].extra /\ d # None
        BY <1>3, <2>1 DEF PairsSame
      <3>2. dc[d].extra = c \/ (dc[d].phase = "gone" /\ client[c].failed)
        BY <3>1, PairOf
      <3>3. QED  BY <3>1, <3>2 DEF PairsSame
    <2>2. ASSUME NEW d \in Dc, dc'[d].extra # None
          PROVE  \/ client'[dc'[d].extra].extra = d
                 \/ client'[dc'[d].extra].phase = "gone" /\ dc'[d].failed
      <3>1. PICK c \in Conn : c = dc[d].extra /\ c = dc'[d].extra /\ c # None
        BY <1>4, <2>2 DEF PairsSame
      <3>2. client[c].extra = d \/ (client[c].phase = "gone" /\ dc[d].failed)
        BY <3>1, PairOf
      <3>3. QED  BY <3>1, <3>2 DEF PairsSame
    <2>3. \A b, c \in Conn : client'[b].extra = client'[c].extra /\ client'[b].extra # None => b = c
      BY DEF Paired, PairsSame
    <2>4. QED  BY <2>1, <2>2, <2>3 DEF Paired
  <1>6. QED  BY <1>1, <1>2, <1>5

LEMMA NothingMoves ==
  ASSUME client' = client, dc' = dc, direct' = direct
  PROVE  PairsSame /\ OpenSame
  BY DEF PairsSame, OpenSame

LEMMA ReloadStep ==
  ASSUME IInv, NEW config \in Configs[direct], ReloadSecrets(config)
  PROVE  IInv'
  <1>1. Typed /\ ClientShape /\ DcShape /\ Paired /\ TableOK /\ Covered /\ ConfigApplied
    BY DEF IInv
  <1>2. PICK r : r = Reload(T, config)
    OBVIOUS
  <1>3. /\ T' = r.table /\ loaded' = [config |-> config, ok |-> r.ok]
        /\ direct' = direct /\ client' = client /\ dc' = dc /\ gauge' = gauge
    BY <1>2 DEF ReloadSecrets
  <1>4. PICK t \in Table, n \in 0 .. MaxSlots : T = [slot |-> t, cnt |-> n] /\ t = T.slot /\ n = T.cnt
    BY <1>1 DEF Typed, Table
  <1>5. Loadable(config) /\ direct \in BOOLEAN
    BY <1>1 DEF Typed, Loadable
  <1>6. /\ r.table \in [slot : Table, cnt : 0 .. MaxSlots] /\ r.ok \in BOOLEAN
        /\ Pinned <= n => Pinned <= r.table.cnt
    BY <1>2, <1>4, <1>5, Reloading
  <1>7. \A s \in Slot : /\ s \notin Config => r.table.slot[s] = t[s]
                        /\ Used(t, s) => /\ Used(r.table.slot, s)
                                         /\ SameCounts(r.table.slot[s], t[s])
                        /\ SameCounts(r.table.slot[s], t[s]) \/ Blank(r.table.slot[s])
    BY <1>2, <1>4, <1>5, Reloading
  <1>8. \A s \in Config : r.table.slot[s].state = "ACTIVE" => r.table.slot[s].key \in Keys(config)
    BY <1>2, <1>4, <1>5, Reloading
  <1>9. r.ok => /\ \A s \in Config : r.table.slot[s].state = "ACTIVE" => s < r.table.cnt
                /\ \A i \in Accepted(config) : \E s \in Config :
                     r.table.slot[s].state = "ACTIVE" /\ r.table.slot[s].key = config[i].key
    BY <1>2, <1>4, <1>5, Reloading
  <1>10. Typed'
    <2>1. loaded' \in [config : Configs[direct] \union {<<>>}, ok : BOOLEAN]
      BY <1>3, <1>6
    <2>2. AnyKey' = AnyKey
      BY <1>3 DEF AnyKey
    <2>3. Table' = Table /\ SlotRec' = SlotRec
      BY <2>2 DEF Table, SlotRec
    <2>4. T' \in [slot : [Slot -> SlotRec'], cnt : 0 .. MaxSlots]
      BY <1>3, <1>6, <2>3 DEF Table
    <2>5. QED  BY <1>1, <1>3, <2>1, <2>4 DEF Typed
  <1>11. ClientShape' /\ DcShape' /\ Paired' /\ OpenSame
    BY <1>1, <1>3, NothingMoves, PairsStay
  <1>12. TableOK'
    <2>1. ASSUME NEW s \in Slot
          PROVE  KeptSlot(s) \/ (Charged(s) = {} /\ Blank(T'.slot[s]))
      <3>1. CASE Used(t, s)
        BY <1>3, <1>4, <1>7, <3>1 DEF KeptSlot
      <3>2. CASE ~Used(t, s)
        <4>1. Charged(s) = {}
          BY <1>1, <1>4, <3>2 DEF TableOK, SlotKept
        <4>2. QED  BY <1>3, <1>4, <1>7, <3>2, <4>1 DEF KeptSlot
      <3>3. QED  BY <3>1, <3>2
    <2>2. QED  BY <1>1, <1>3, <1>11, <2>1, TableStep
  <1>13. Covered'
    <2>1. Pinned <= T'.cnt
      BY <1>1, <1>3, <1>4, <1>6 DEF Covered
    <2>2. ASSUME NEW s \in Slot, s < Pinned
          PROVE  T'.slot[s].state = "ACTIVE" /\ T'.slot[s].key = PinnedKey[s]
      <3>1. s \notin Config
        BY <2>2, SlotNumbers
      <3>2. QED  BY <1>1, <1>3, <1>4, <1>7, <2>2, <3>1 DEF Covered
    <2>3. ASSUME loaded'.ok, NEW s \in Slot, T'.slot[s].state = "ACTIVE"
          PROVE  s < T'.cnt
      <3>1. CASE s \in Config
        BY <1>3, <1>9, <2>3, <3>1
      <3>2. CASE s < Pinned
        <4>1. s \in Nat /\ Pinned \in Nat /\ T'.cnt \in Nat
          BY <1>3, <1>6, SlotNumbers, SlotsAssumption
        <4>2. QED  BY <2>1, <3>2, <4>1
      <3>3. QED  BY <3>1, <3>2, SlotNumbers
    <2>4. QED  BY <2>1, <2>2, <2>3 DEF Covered
  <1>14. ConfigApplied'
    <2>1. ASSUME loaded'.ok, NEW k, UsedKey(k)'
          PROVE  k \in PinnedKeys \union Keys(config)
      <3>1. PICK s \in Slot : T'.slot[s].state = "ACTIVE" /\ T'.slot[s].key = k
        BY <2>1 DEF UsedKey
      <3>2. CASE s \in Config
        BY <1>3, <1>8, <3>1, <3>2
      <3>3. CASE s < Pinned
        <4>1. s \in 0 .. (Pinned - 1)
          BY <3>3, SlotNumbers, SlotsAssumption
        <4>2. k = PinnedKey[s]
          BY <1>13, <3>1, <3>3 DEF Covered
        <4>3. QED  BY <4>1, <4>2 DEF PinnedKeys
      <3>4. QED  BY <3>2, <3>3, SlotNumbers
    <2>2. ASSUME NEW k \in PinnedKeys
          PROVE  UsedKey(k)'
      <3>1. Covered' /\ T'.cnt \in 0 .. MaxSlots
        BY <1>3, <1>6, <1>13
      <3>2. QED  BY <3>1, UsedAfter
    <2>3. ASSUME loaded'.ok, NEW k \in Keys(config), k \notin PinnedKeys
          PROVE  UsedKey(k)'
      <3>1. PICK i \in DOMAIN config : k = config[i].key
        BY DEF Keys
      <3>2. i \in Accepted(config)
        BY <2>3, <3>1 DEF Accepted, PinnedKeys
      <3>3. PICK s \in Config : T'.slot[s].state = "ACTIVE" /\ T'.slot[s].key = k
        BY <1>3, <1>9, <2>3, <3>1, <3>2
      <3>4. s \in Slot /\ s < T'.cnt
        BY <1>3, <1>9, <2>3, <3>3, SlotNumbers
      <3>5. QED  BY <3>3, <3>4 DEF UsedKey
    <2>4. loaded'.ok => \A k : UsedKey(k)' <=> k \in PinnedKeys \union Keys(config)
      BY <2>1, <2>2, <2>3
    <2>5. QED  BY <1>3, <2>4, KeyAfter
  <1>15. QED  BY <1>10, <1>11, <1>12, <1>13, <1>14 DEF IInv

-----------------------------------------------------------------------------
(* Drain and sweep *)

LEMMA SameTypes ==
  ASSUME direct' = direct
  PROVE  SlotRec' = SlotRec /\ Table' = Table
  <1>1. AnyKey' = AnyKey
    BY DEF AnyKey, Keys
  <1>2. QED  BY <1>1 DEF SlotRec, Table

LEMMA DrainStep ==
  ASSUME IInv, NEW s \in Slot, DrainTimeout(s)
  PROVE  IInv'
  <1>1. Typed /\ ClientShape /\ DcShape /\ Paired /\ TableOK /\ Covered /\ ConfigApplied
    BY DEF IInv
  <1>2. /\ T' = [T EXCEPT !.slot[s].overdue = TRUE]
        /\ direct' = direct /\ client' = client /\ dc' = dc /\ gauge' = gauge /\ loaded' = loaded
    BY DEF DrainTimeout
  <1>3. T \in [slot : [Slot -> SlotRec], cnt : 0 .. MaxSlots]
    BY <1>1 DEF Typed
  <1>4. /\ T' = [T EXCEPT !.slot = [T.slot EXCEPT ![s] = [T.slot[s] EXCEPT !.overdue = TRUE]]]
        /\ [T.slot[s] EXCEPT !.overdue = TRUE] \in SlotRec
    BY <1>2, <1>3 DEF SlotRec
  <1>5. /\ T'.slot = [T.slot EXCEPT ![s] = [T.slot[s] EXCEPT !.overdue = TRUE]] /\ T'.cnt = T.cnt
        /\ T' \in [slot : [Slot -> SlotRec], cnt : 0 .. MaxSlots]
    BY <1>3, <1>4
  <1>6. \A r \in Slot : /\ SameCounts(T'.slot[r], T.slot[r]) /\ T'.slot[r].state = T.slot[r].state
                        /\ T'.slot[r].key = T.slot[r].key
    BY <1>3, <1>5 DEF SameCounts, SlotRec
  <1>7. Typed'
    BY <1>1, <1>2, <1>5, SameTypes DEF Typed
  <1>8. ClientShape' /\ DcShape' /\ Paired' /\ OpenSame
    BY <1>1, <1>2, NothingMoves, PairsStay
  <1>9. \A r \in Slot : KeptSlot(r)
    BY <1>6 DEF KeptSlot, Used
  <1>10. TableOK'
    BY <1>1, <1>2, <1>8, <1>9, TableStep
  <1>11. Covered' /\ ConfigApplied'
    BY <1>1, <1>2, <1>5, <1>6, SameKeys
  <1>12. QED  BY <1>7, <1>8, <1>10, <1>11 DEF IInv

\* Only draining slots without connections are released, and the count covers
\* what is left.
LEMMA Releasing ==
  ASSUME NEW t \in Table, NEW n \in 0 .. MaxSlots, NEW S,
         NEW r, r = Release([slot |-> t, cnt |-> n], S)
  PROVE  /\ r \in [slot : Table, cnt : 0 .. MaxSlots] /\ (Pinned <= n => Pinned <= r.cnt)
         /\ \A s \in Slot : \/ r.slot[s] = t[s]
                            \/ /\ s \in Config /\ t[s].state = "DRAINING" /\ t[s].conns = 0
                               /\ r.slot[s].state = "FREE" /\ Blank(r.slot[s])
         /\ (\A s \in Slot : t[s].state = "ACTIVE" => s < n) =>
               \A s \in Slot : r.slot[s].state = "ACTIVE" => s < r.cnt
  <1> DEFINE done == {s \in S \cap Config : t[s].state = "DRAINING" /\ t[s].conns = 0}
             u == [s \in Slot |-> IF s \in done THEN Free ELSE t[s]]
  <1>1. /\ r = [slot |-> u, cnt |-> IF done = {} THEN n ELSE HighWater(u)]
        /\ r.slot = u /\ r.cnt = IF done = {} THEN n ELSE HighWater(u)
    BY DEF Release
  <1>2. Free \in SlotRec /\ Blank(Free) /\ Free.state = "FREE"
    BY DEF Free, SlotRec, Blank, AnyKey
  <1>3. u \in Table
    BY <1>2 DEF Table
  <1>4. \A s \in Slot : \/ u[s] = t[s]
                        \/ /\ s \in Config /\ t[s].state = "DRAINING" /\ t[s].conns = 0
                           /\ u[s].state = "FREE" /\ Blank(u[s])
    BY <1>2
  <1>5. HighWater(u) \in 0 .. MaxSlots /\ Pinned <= HighWater(u)
        /\ \A s \in Config : Used(u, s) => s < HighWater(u)
    BY <1>3, Water
  <1> HIDE DEF u, done
  <1>6. r \in [slot : Table, cnt : 0 .. MaxSlots] /\ (Pinned <= n => Pinned <= r.cnt)
    BY <1>1, <1>3, <1>5
  <1>7. ASSUME \A s \in Slot : t[s].state = "ACTIVE" => s < n,
               NEW s \in Slot, u[s].state = "ACTIVE"
        PROVE  s < r.cnt
    <2>1. CASE done = {}
      BY <1>1, <1>4, <1>7, <2>1
    <2>2. CASE done # {} /\ s \in Config
      BY <1>1, <1>5, <1>7, <2>2 DEF Used
    <2>3. CASE done # {} /\ s < Pinned
      <3>1. s \in Nat /\ Pinned \in Nat
        BY SlotNumbers, SlotsAssumption
      <3>2. QED  BY <1>1, <1>5, <2>3, <3>1
    <2>4. QED  BY <2>1, <2>2, <2>3, SlotNumbers
  <1>8. QED  BY <1>1, <1>4, <1>6, <1>7

LEMMA SweepStep ==
  ASSUME IInv, Sweep
  PROVE  IInv'
  <1>1. Typed /\ ClientShape /\ DcShape /\ Paired /\ TableOK /\ Covered /\ ConfigApplied
    BY DEF IInv
  <1>2. PICK F : /\ T' = Release(T, Swept)
                 /\ client' = [c \in Conn |-> IF client[c].phase = "open" /\ client[c].slot \in F
                                              THEN [client[c] EXCEPT !.failed = TRUE] ELSE client[c]]
    BY DEF Sweep
  <1>3. direct' = direct /\ dc' = dc /\ gauge' = gauge /\ loaded' = loaded
    BY DEF Sweep
  <1>4. PICK t \in Table, n \in 0 .. MaxSlots : T = [slot |-> t, cnt |-> n] /\ t = T.slot /\ n = T.cnt
    BY <1>1 DEF Typed, Table
  <1>5. T' \in [slot : Table, cnt : 0 .. MaxSlots] /\ (Pinned <= n => Pinned <= T'.cnt)
    BY <1>2, <1>4, Releasing
  <1>6. \A s \in Slot : \/ T'.slot[s] = t[s]
                        \/ /\ s \in Config /\ t[s].state = "DRAINING" /\ t[s].conns = 0
                           /\ T'.slot[s].state = "FREE" /\ Blank(T'.slot[s])
    BY <1>2, <1>4, Releasing
  <1>7. (\A s \in Slot : t[s].state = "ACTIVE" => s < n) =>
           \A s \in Slot : T'.slot[s].state = "ACTIVE" => s < T'.cnt
    BY <1>2, <1>4, Releasing
  <1>8. client \in [Conn -> ClientRec]
    BY <1>1 DEF Typed
  <1>9. client' \in [Conn -> ClientRec] /\ PairsSame /\ OpenSame
    <2>1. ASSUME NEW c \in Conn
          PROVE  /\ client'[c] \in ClientRec /\ (client[c].failed => client'[c].failed)
                 /\ client'[c].phase = client[c].phase /\ client'[c].slot = client[c].slot
                 /\ client'[c].extra = client[c].extra /\ client'[c].kind = client[c].kind
                 /\ client'[c].timer = client[c].timer /\ client'[c].key = client[c].key
      <3>1. client[c] \in ClientRec
        BY <1>8
      <3>2. client'[c] = client[c] \/ client'[c] = [client[c] EXCEPT !.failed = TRUE]
        BY <1>2
      <3>3. QED  BY <3>1, <3>2 DEF ClientRec
    <2>2. QED  BY <1>2, <1>3, <2>1 DEF PairsSame, OpenSame
  <1>10. Typed'
    BY <1>1, <1>3, <1>5, <1>9, SameTypes DEF Typed, Table
  <1>11. ClientShape' /\ DcShape' /\ Paired'
    BY <1>1, <1>9, PairsStay
  <1>12. TableOK'
    <2>1. ASSUME NEW s \in Slot
          PROVE  KeptSlot(s) \/ (Charged(s) = {} /\ Blank(T'.slot[s]))
      <3>1. CASE T'.slot[s] = t[s]
        BY <1>4, <3>1 DEF KeptSlot, SameCounts, Used
      <3>2. CASE t[s].conns = 0 /\ Blank(T'.slot[s])
        <4>1. 0 >= Cardinality(Charged(s))
          BY <1>1, <1>4, <3>2 DEF TableOK, ConnsLeast
        <4>2. Charged(s) = {}
          BY <4>1, ChargedFinite
        <4>3. QED  BY <3>2, <4>2
      <3>3. QED  BY <1>6, <3>1, <3>2
    <2>2. QED  BY <1>1, <1>3, <1>9, <2>1, TableStep
  <1>13. Covered'
    <2>1. Pinned <= T'.cnt
      BY <1>1, <1>4, <1>5 DEF Covered
    <2>2. ASSUME NEW s \in Slot, s < Pinned
          PROVE  T'.slot[s].state = "ACTIVE" /\ T'.slot[s].key = PinnedKey[s]
      <3>1. s \notin Config
        BY <2>2, SlotNumbers
      <3>2. QED  BY <1>1, <1>4, <1>6, <2>2, <3>1 DEF Covered
    <2>3. loaded'.ok => \A s \in Slot : T'.slot[s].state = "ACTIVE" => s < T'.cnt
      BY <1>1, <1>3, <1>4, <1>7 DEF Covered
    <2>4. QED  BY <2>1, <2>2, <2>3 DEF Covered
  <1>14. ConfigApplied'
    <2>1. ASSUME loaded.ok, NEW k
          PROVE  UsedKey(k)' <=> UsedKey(k)
      <3>1. \A s \in Slot : /\ T.slot[s].state = "ACTIVE" => s < T.cnt
                            /\ T'.slot[s].state = "ACTIVE" => s < T'.cnt
        BY <1>1, <1>3, <1>13, <2>1 DEF Covered
      <3>2. \A s \in Slot : /\ T'.slot[s].state = "ACTIVE" <=> T.slot[s].state = "ACTIVE"
                            /\ T.slot[s].state = "ACTIVE" => T'.slot[s].key = T.slot[s].key
        BY <1>4, <1>6
      <3>3. QED  BY <3>1, <3>2 DEF UsedKey
    <2>2. KeysApplied
      BY <1>1, ByKey
    <2>3. loaded'.ok => \A k : UsedKey(k)' <=> k \in PinnedKeys \union Keys(loaded'.config)
      BY <1>3, <2>1, <2>2 DEF KeysApplied
    <2>4. QED  BY <2>3, KeyAfter
  <1>15. QED  BY <1>10, <1>11, <1>12, <1>13, <1>14 DEF IInv

-----------------------------------------------------------------------------
(* One client *)

\* A client moves on with the DC connection it had, or without one as before.
LEMMA OneClient ==
  ASSUME Typed, ClientShape, DcShape, Paired, NEW c \in Conn, NEW k \in ClientRec,
         client' = [client EXCEPT ![c] = k], dc' = dc, direct' = direct,
         ClientOK(k), k.kind = "direct" => direct, k.extra = client[c].extra,
         (client[c].failed /\ k.extra # None) => k.failed,
         client[c].phase = "gone" => (k.phase = "gone" \/ \A d \in Dc : dc[d].extra # c)
  PROVE  ClientShape' /\ DcShape' /\ Paired' /\ client' \in [Conn -> ClientRec]
  <1>1. /\ client \in [Conn -> ClientRec] /\ dc \in [Dc -> DcRec] /\ None \notin Dc /\ None \notin Conn
        /\ client' \in [Conn -> ClientRec]
        /\ client'[c] = k /\ \A b \in Conn : b # c => client'[b] = client[b]
    BY ClientsAssumption DEF Typed
  <1>2. \A b \in Conn : client[b].extra \in Dc \union {None} /\ client'[b].extra = client[b].extra
    BY <1>1 DEF ClientRec
  <1>3. \A d \in Dc : dc[d].extra \in Conn \union {None}
    BY <1>1 DEF DcRec
  <1>4. ClientShape'
    <2>1. ASSUME NEW b \in Conn
          PROVE  ClientOK(client[b])' /\ (client'[b].kind = "direct" => direct')
      <3>1. CASE b = c
        BY <1>1, <3>1 DEF ClientOK
      <3>2. CASE b # c
        BY <1>1, <3>2 DEF ClientShape, ClientOK
      <3>3. QED  BY <3>1, <3>2
    <2>2. QED  BY <2>1 DEF ClientShape
  <1>5. DcShape'
    BY DEF DcShape
  <1>6. Paired'
    <2>1. ASSUME NEW b \in Conn, client'[b].extra # None
          PROVE  \/ dc'[client'[b].extra].extra = b
                 \/ dc'[client'[b].extra].phase = "gone" /\ client'[b].failed
      <3>1. PICK d \in Dc : d = client[b].extra /\ d = client'[b].extra /\ d # None
        BY <1>2, <2>1
      <3>2. dc[d].extra = b \/ (dc[d].phase = "gone" /\ client[b].failed)
        BY <3>1, PairOf
      <3>3. client[b].failed => client'[b].failed
        BY <1>1, <3>1
      <3>4. QED  BY <3>1, <3>2, <3>3
    <2>2. ASSUME NEW d \in Dc, dc'[d].extra # None
          PROVE  \/ client'[dc'[d].extra].extra = d
                 \/ client'[dc'[d].extra].phase = "gone" /\ dc'[d].failed
      <3>1. PICK b \in Conn : b = dc[d].extra /\ b = dc'[d].extra /\ b # None
        BY <1>3, <2>2
      <3>2. client[b].extra = d \/ (client[b].phase = "gone" /\ dc[d].failed)
        BY <3>1, PairOf
      <3>3. client[b].phase = "gone" => client'[b].phase = "gone"
        BY <1>1, <3>1
      <3>4. QED  BY <1>2, <3>1, <3>2, <3>3
    <2>3. \A b, e \in Conn : client'[b].extra = client'[e].extra /\ client'[b].extra # None => b = e
      BY <1>2 DEF Paired
    <2>4. QED  BY <2>1, <2>2, <2>3 DEF Paired
  <1>7. QED  BY <1>1, <1>4, <1>5, <1>6

\* A client without a DC connection gets one that nobody had.
LEMMA StartDc ==
  ASSUME Typed, ClientShape, DcShape, Paired, NEW c \in Conn, NEW k \in ClientRec, NEW d \in Dc,
         dc[d].phase = "none",
         client' = [client EXCEPT ![c] = k], direct' = direct,
         dc' = [dc EXCEPT ![d] = [phase |-> "connecting", extra |-> c, failed |-> FALSE]],
         ClientOK(k), k.kind = "direct" => direct, k.extra = d,
         client[c].extra = None, client[c].phase # "gone"
  PROVE  ClientShape' /\ DcShape' /\ Paired' /\ client' \in [Conn -> ClientRec] /\ dc' \in [Dc -> DcRec]
  <1>1. /\ client \in [Conn -> ClientRec] /\ dc \in [Dc -> DcRec] /\ None \notin Dc /\ None \notin Conn
        /\ client' \in [Conn -> ClientRec]
        /\ client'[c] = k /\ \A b \in Conn : b # c => client'[b] = client[b]
    BY ClientsAssumption DEF Typed
  <1>2. /\ dc' \in [Dc -> DcRec] /\ \A e \in Dc : e # d => dc'[e] = dc[e]
        /\ dc'[d].phase = "connecting" /\ dc'[d].extra = c /\ ~dc'[d].failed
    BY <1>1 DEF DcRec
  <1>3. dc[d].extra = None
    BY DEF DcShape
  <1>4. \A b \in Conn : client[b].extra # d
    BY <1>1, <1>3, PairOf
  <1>5. \A e \in Dc : dc[e].extra # c
    BY <1>1, PairOf
  <1>6. \A b \in Conn : client[b].extra \in Dc \union {None}
    BY <1>1 DEF ClientRec
  <1>7. \A e \in Dc : dc[e].extra \in Conn \union {None}
    BY <1>1 DEF DcRec
  <1>8. ClientShape'
    <2>1. ASSUME NEW b \in Conn
          PROVE  ClientOK(client[b])' /\ (client'[b].kind = "direct" => direct')
      <3>1. CASE b = c
        BY <1>1, <3>1 DEF ClientOK
      <3>2. CASE b # c
        BY <1>1, <3>2 DEF ClientShape, ClientOK
      <3>3. QED  BY <3>1, <3>2
    <2>2. QED  BY <2>1 DEF ClientShape
  <1>9. DcShape'
    BY <1>1, <1>2 DEF DcShape
  <1>10. Paired'
    <2>1. ASSUME NEW b \in Conn, client'[b].extra # None
          PROVE  \/ dc'[client'[b].extra].extra = b
                 \/ dc'[client'[b].extra].phase = "gone" /\ client'[b].failed
      <3>1. CASE b = c
        BY <1>1, <1>2, <3>1
      <3>2. CASE b # c
        <4>1. PICK e \in Dc : e = client[b].extra /\ e = client'[b].extra /\ e # None /\ e # d
          BY <1>1, <1>4, <1>6, <2>1, <3>2
        <4>2. dc[e].extra = b \/ (dc[e].phase = "gone" /\ client[b].failed)
          BY <4>1, PairOf
        <4>3. QED  BY <1>1, <1>2, <3>2, <4>1, <4>2
      <3>3. QED  BY <3>1, <3>2
    <2>2. ASSUME NEW e \in Dc, dc'[e].extra # None
          PROVE  \/ client'[dc'[e].extra].extra = e
                 \/ client'[dc'[e].extra].phase = "gone" /\ dc'[e].failed
      <3>1. CASE e = d
        BY <1>1, <1>2, <3>1
      <3>2. CASE e # d
        <4>1. PICK b \in Conn : b = dc[e].extra /\ b = dc'[e].extra /\ b # None /\ b # c
          BY <1>1, <1>2, <1>5, <1>7, <2>2, <3>2
        <4>2. client[b].extra = e \/ (client[b].phase = "gone" /\ dc[e].failed)
          BY <4>1, PairOf
        <4>3. QED  BY <1>1, <1>2, <3>2, <4>1, <4>2
      <3>3. QED  BY <3>1, <3>2
    <2>3. \A b, e \in Conn : client'[b].extra = client'[e].extra /\ client'[b].extra # None => b = e
      <3> SUFFICES ASSUME NEW b \in Conn, NEW e \in Conn, client'[b].extra = client'[e].extra,
                          client'[b].extra # None
                   PROVE  b = e
        OBVIOUS
      <3>1. CASE b = c \/ e = c
        BY <1>1, <1>4, <3>1
      <3>2. CASE b # c /\ e # c
        <4>1. client[b].extra = client[e].extra /\ client[e].extra # None
          BY <1>1, <3>2
        <4>2. QED  BY <4>1 DEF Paired
      <3>3. QED  BY <3>1, <3>2
    <2>4. QED  BY <2>1, <2>2, <2>3 DEF Paired
  <1>11. QED  BY <1>1, <1>2, <1>8, <1>9, <1>10

-----------------------------------------------------------------------------
(* Charge and discharge *)

Exact(a) == a.unique = Cardinality({i \in Ip : a.ips[i] > 0})

LEMMA NewCounts ==
  ASSUME NEW r \in SlotRec, NEW n \in Nat, NEW p \in [Ip -> Nat], NEW u \in Nat
  PROVE  [r EXCEPT !.conns = n, !.ips = p, !.unique = u] \in SlotRec
  BY DEF SlotRec

LEMMA Charging ==
  ASSUME NEW r \in SlotRec, NEW ip \in Ip, Exact(r)
  PROVE  /\ Charge(r, ip) \in SlotRec /\ Exact(Charge(r, ip))
         /\ Charge(r, ip).conns = r.conns + 1
         /\ Charge(r, ip).state = r.state /\ Charge(r, ip).key = r.key
  <1> DEFINE A == {i \in Ip : r.ips[i] > 0}
             p == [r.ips EXCEPT ![ip] = @ + 1]
             u == IF r.ips[ip] = 0 THEN r.unique + 1 ELSE r.unique
  <1>1. r.ips \in [Ip -> Nat] /\ r.conns \in Nat /\ r.unique \in Nat
    BY DEF SlotRec
  <1>2. CASE r.maxIps <= 0
    <2>1. Charge(r, ip) = [r EXCEPT !.conns = r.conns + 1]
      BY <1>2 DEF Charge
    <2>2. QED  BY <1>1, <2>1 DEF SlotRec, Exact
  <1>3. CASE ~(r.maxIps <= 0)
    <2>1. p \in [Ip -> Nat] /\ u \in Nat
      BY <1>1
    <2>2. Charge(r, ip) = [r EXCEPT !.conns = r.conns + 1, !.ips = p, !.unique = u]
      BY <1>3 DEF Charge, SlotRec
    <2>3. {i \in Ip : p[i] > 0} = A \union {ip}
      BY <1>1
    <2>4. IsFiniteSet(A)
      BY SlotsAssumption, FS_Subset
    <2>5. Cardinality(A \union {ip}) = IF ip \in A THEN Cardinality(A) ELSE Cardinality(A) + 1
      BY <2>4, FS_AddElement
    <2>6. ip \in A <=> r.ips[ip] # 0
      BY <1>1
    <2>7. u = Cardinality({i \in Ip : p[i] > 0})
      BY <2>3, <2>5, <2>6 DEF Exact
    <2> HIDE DEF p, u
    <2>8. Charge(r, ip).ips = p /\ Charge(r, ip).unique = u
      BY <2>2 DEF SlotRec
    <2>9. Exact(Charge(r, ip))
      BY <2>7, <2>8 DEF Exact
    <2>10. /\ Charge(r, ip).conns = r.conns + 1
           /\ Charge(r, ip).state = r.state /\ Charge(r, ip).key = r.key
      BY <2>2 DEF SlotRec
    <2>11. Charge(r, ip) \in SlotRec
      <3>1. r.conns + 1 \in Nat
        BY <1>1
      <3>2. [r EXCEPT !.conns = r.conns + 1, !.ips = p, !.unique = u] \in SlotRec
        BY <2>1, <3>1, NewCounts
      <3>3. QED  BY <2>2, <3>2
    <2>12. QED  BY <2>9, <2>10, <2>11
  <1>4. QED  BY <1>2, <1>3

LEMMA Discharging ==
  ASSUME NEW r \in SlotRec, NEW ip \in Ip, Exact(r), r.conns >= 1
  PROVE  /\ Discharge(r, ip) \in SlotRec /\ Exact(Discharge(r, ip))
         /\ Discharge(r, ip).conns = r.conns - 1
         /\ Discharge(r, ip).state = r.state /\ Discharge(r, ip).key = r.key
  <1> DEFINE A == {i \in Ip : r.ips[i] > 0}
             p == [r.ips EXCEPT ![ip] = @ - 1]
             u == IF r.ips[ip] = 1 THEN r.unique - 1 ELSE r.unique
  <1>1. r.ips \in [Ip -> Nat] /\ r.conns \in Nat /\ r.unique \in Nat
    BY DEF SlotRec
  <1>2. CASE r.maxIps <= 0 \/ r.ips[ip] = 0
    <2>1. Discharge(r, ip) = [r EXCEPT !.conns = r.conns - 1]
      BY <1>2 DEF Discharge
    <2>2. QED  BY <1>1, <2>1 DEF SlotRec, Exact
  <1>3. CASE ~(r.maxIps <= 0 \/ r.ips[ip] = 0)
    <2>1. IsFiniteSet(A) /\ ip \in A
      BY <1>1, <1>3, SlotsAssumption, FS_Subset
    <2>2. Cardinality(A) \in Nat /\ Cardinality(A) # 0
      BY <2>1, FS_CardinalityType, FS_EmptySet
    <2>3. p \in [Ip -> Nat] /\ u \in Nat
      BY <1>1, <1>3, <2>2 DEF Exact
    <2>4. Discharge(r, ip) = [r EXCEPT !.conns = r.conns - 1, !.ips = p, !.unique = u]
      BY <1>3 DEF Discharge, SlotRec
    <2>5. {i \in Ip : p[i] > 0} = IF r.ips[ip] = 1 THEN A \ {ip} ELSE A
      BY <1>1, <1>3
    <2>6. Cardinality(A \ {ip}) = Cardinality(A) - 1
      BY <2>1, FS_RemoveElement
    <2>7. u = Cardinality({i \in Ip : p[i] > 0})
      BY <2>5, <2>6 DEF Exact
    <2> HIDE DEF p, u
    <2>8. Discharge(r, ip).ips = p /\ Discharge(r, ip).unique = u
      BY <2>4 DEF SlotRec
    <2>9. Exact(Discharge(r, ip))
      BY <2>7, <2>8 DEF Exact
    <2>10. /\ Discharge(r, ip).conns = r.conns - 1
           /\ Discharge(r, ip).state = r.state /\ Discharge(r, ip).key = r.key
      BY <2>4 DEF SlotRec
    <2>11. Discharge(r, ip) \in SlotRec
      <3>1. r.conns - 1 \in Nat
        BY <1>1
      <3>2. [r EXCEPT !.conns = r.conns - 1, !.ips = p, !.unique = u] \in SlotRec
        BY <2>3, <3>1, NewCounts
      <3>3. QED  BY <2>4, <3>2
    <2>12. QED  BY <2>9, <2>10, <2>11
  <1>4. QED  BY <1>2, <1>3

\* One slot gets a new record, one client a new phase.
LEMMA SlotOf ==
  ASSUME Typed, NEW s \in Slot, NEW r \in SlotRec, T' = [T EXCEPT !.slot[s] = r]
  PROVE  /\ T' \in [slot : [Slot -> SlotRec], cnt : 0 .. MaxSlots] /\ T'.cnt = T.cnt
         /\ T'.slot[s] = r /\ \A o \in Slot : o # s => T'.slot[o] = T.slot[o]
  <1>1. T \in [slot : [Slot -> SlotRec], cnt : 0 .. MaxSlots]
    BY DEF Typed
  <1>2. T' = [T EXCEPT !.slot = [T.slot EXCEPT ![s] = r]]
    BY <1>1
  <1>3. T'.slot = [T.slot EXCEPT ![s] = r] /\ T'.cnt = T.cnt
    BY <1>1, <1>2
  <1>4. QED  BY <1>1, <1>2, <1>3

\* TableOK, slot by slot, here and in the next state.
SlotOK(s) == /\ T.slot[s].conns >= Cardinality(Charged(s))
             /\ ~direct => T.slot[s].conns = Cardinality(Charged(s))
             /\ Exact(T.slot[s])
             /\ \A c \in Charged(s) : Used(T.slot, s) /\ T.slot[s].key = client[c].key
LEMMA BySlot == TableOK <=> \A s \in Slot : SlotOK(s)
  BY DEF TableOK, ConnsLeast, ConnsExact, UniqueIpsExact, SlotKept, SlotOK, Exact
LEMMA SlotsAfter ==
  ASSUME \A s \in Slot : SlotOK(s)'
  PROVE  TableOK'
  BY DEF TableOK, ConnsLeast, ConnsExact, UniqueIpsExact, SlotKept, SlotOK, Exact

\* A slot that keeps its record and its clients.
LEMMA OtherSlot ==
  ASSUME NEW s \in Slot, SlotOK(s), direct' = direct, T'.slot[s] = T.slot[s],
         Charged(s)' = Charged(s), \A c \in Charged(s) : client'[c].key = client[c].key
  PROVE  SlotOK(s)'
  BY DEF SlotOK, Used, Exact

LEMMA ChargeTable ==
  ASSUME Typed, TableOK, Covered, ConfigApplied, NEW c \in Conn, NEW s \in Slot, NEW k \in ClientRec,
         client[c].phase # "open", k.phase = "open", k.slot = s, Used(T.slot, s), T.slot[s].key = k.key,
         client' = [client EXCEPT ![c] = k], direct' = direct, loaded' = loaded,
         T' = [T EXCEPT !.slot[s] = Charge(@, IpOf[c])]
  PROVE  /\ T' \in [slot : [Slot -> SlotRec], cnt : 0 .. MaxSlots]
         /\ TableOK' /\ Covered' /\ ConfigApplied'
  <1>1. PICK r : r = Charge(T.slot[s], IpOf[c])
    OBVIOUS
  <1>2. T.slot[s] \in SlotRec /\ IpOf[c] \in Ip /\ T.slot[s].conns \in Nat
    BY ClientsAssumption DEF Typed, SlotRec
  <1>3. \A o \in Slot : SlotOK(o)
    BY BySlot
  <1>4. r \in SlotRec /\ Exact(r) /\ r.conns = T.slot[s].conns + 1
        /\ r.state = T.slot[s].state /\ r.key = T.slot[s].key
    BY <1>1, <1>2, <1>3, Charging DEF SlotOK
  <1>5. T' = [T EXCEPT !.slot[s] = r]
    BY <1>1 DEF Typed
  <1>6. /\ T' \in [slot : [Slot -> SlotRec], cnt : 0 .. MaxSlots] /\ T'.cnt = T.cnt
        /\ T'.slot[s] = r /\ \A o \in Slot : o # s => T'.slot[o] = T.slot[o]
    BY <1>4, <1>5, SlotOf
  <1>7. client'[c] = k /\ \A b \in Conn : b # c => client'[b] = client[b]
    BY DEF Typed
  <1>8. Charged(s)' = Charged(s) \union {c} /\ c \notin Charged(s)
    BY <1>7 DEF Charged
  <1>9. \A o \in Slot : o # s => Charged(o)' = Charged(o)
    BY <1>7 DEF Charged
  <1>10. Cardinality(Charged(s)') = Cardinality(Charged(s)) + 1 /\ Cardinality(Charged(s)) \in Nat
    BY <1>8, ChargedFinite, FS_AddElement, ZenonT(60)
  <1>11. ASSUME NEW o \in Slot PROVE SlotOK(o)'
    <2>1. CASE o = s
      <3>1. SlotOK(s)
        BY <1>3
      <3>2. T'.slot[s].conns >= Cardinality(Charged(s)')
            /\ (~direct => T'.slot[s].conns = Cardinality(Charged(s)'))
        BY <1>2, <1>4, <1>6, <1>10, <3>1 DEF SlotOK
      <3>3. Used(T'.slot, s)
        BY <1>4, <1>6 DEF Used
      <3>4. \A b \in Charged(s)' : T'.slot[s].key = client'[b].key
        BY <1>4, <1>6, <1>7, <1>8, <3>1 DEF SlotOK, Charged
      <3>5. QED  BY <1>4, <1>6, <2>1, <3>2, <3>3, <3>4 DEF SlotOK
    <2>2. CASE o # s
      <3>1. c \notin Charged(o)
        BY DEF Charged
      <3>2. \A b \in Charged(o) : client'[b].key = client[b].key
        BY <1>7, <3>1 DEF Charged
      <3>3. QED  BY <1>3, <1>6, <1>9, <2>2, <3>2, OtherSlot
    <2>3. QED  BY <2>1, <2>2
  <1>12. TableOK'
    BY <1>11, SlotsAfter
  <1>13. Covered' /\ ConfigApplied'
    <2>1. \A o \in Slot : T'.slot[o].state = T.slot[o].state /\ T'.slot[o].key = T.slot[o].key
      BY <1>4, <1>6
    <2>2. QED  BY <1>6, <2>1, SameKeys
  <1>14. QED  BY <1>6, <1>12, <1>13

\* A client closes; its slot is discharged, except in direct mode with the gauge at 0.
LEMMA DischargeTable ==
  ASSUME Typed, TableOK, Covered, ConfigApplied, NEW c \in Conn, NEW s \in Slot, NEW k \in ClientRec,
         client[c].phase = "open", client[c].slot = s, k.phase # "open",
         client' = [client EXCEPT ![c] = k], direct' = direct, loaded' = loaded,
         T' = [T EXCEPT !.slot[s] = Discharge(@, IpOf[c])] \/ (direct /\ T' = T)
  PROVE  /\ T' \in [slot : [Slot -> SlotRec], cnt : 0 .. MaxSlots]
         /\ TableOK' /\ Covered' /\ ConfigApplied'
  <1>1. PICK r : r = Discharge(T.slot[s], IpOf[c])
    OBVIOUS
  <1>2. T.slot[s] \in SlotRec /\ IpOf[c] \in Ip /\ T.slot[s].conns \in Nat
    BY ClientsAssumption DEF Typed, SlotRec
  <1>3. \A o \in Slot : SlotOK(o)
    BY BySlot
  <1>4. client'[c] = k /\ \A b \in Conn : b # c => client'[b] = client[b]
    BY DEF Typed
  <1>5. Charged(s)' = Charged(s) \ {c} /\ c \in Charged(s)
    BY <1>4 DEF Charged
  <1>6. \A o \in Slot : o # s => Charged(o)' = Charged(o) /\ c \notin Charged(o)
    BY <1>4 DEF Charged
  <1>7. /\ Cardinality(Charged(s)') = Cardinality(Charged(s)) - 1
        /\ Cardinality(Charged(s)) \in Nat /\ Cardinality(Charged(s)) # 0
    BY <1>5, ChargedFinite, FS_RemoveElement, ZenonT(60)
  <1>8. T.slot[s].conns >= 1
    BY <1>2, <1>3, <1>7 DEF SlotOK
  <1>9. r \in SlotRec /\ Exact(r) /\ r.conns = T.slot[s].conns - 1
        /\ r.state = T.slot[s].state /\ r.key = T.slot[s].key
    BY <1>1, <1>2, <1>3, <1>8, Discharging DEF SlotOK
  <1>10. T' = [T EXCEPT !.slot[s] = r] \/ (direct /\ T' = T)
    BY <1>1 DEF Typed
  <1>11. /\ T' \in [slot : [Slot -> SlotRec], cnt : 0 .. MaxSlots] /\ T'.cnt = T.cnt
         /\ T'.slot[s] = r \/ (direct /\ T'.slot[s] = T.slot[s])
         /\ \A o \in Slot : o # s => T'.slot[o] = T.slot[o]
    <2>1. CASE T' = [T EXCEPT !.slot[s] = r]
      BY <1>9, <2>1, SlotOf
    <2>2. CASE direct /\ T' = T
      BY <2>2 DEF Typed
    <2>3. QED  BY <1>10, <2>1, <2>2
  <1>12. ASSUME NEW o \in Slot PROVE SlotOK(o)'
    <2>1. CASE o = s
      <3>1. SlotOK(s)
        BY <1>3
      <3>2. T'.slot[s].conns >= Cardinality(Charged(s)')
            /\ (~direct => T'.slot[s].conns = Cardinality(Charged(s)'))
        BY <1>2, <1>7, <1>9, <1>11, <3>1 DEF SlotOK
      <3>3. Exact(T'.slot[s])
        BY <1>9, <1>11, <3>1 DEF SlotOK
      <3>4. T'.slot[s].state = T.slot[s].state /\ T'.slot[s].key = T.slot[s].key
        BY <1>9, <1>11
      <3>5. \A b \in Charged(s)' : b \in Charged(s) /\ client'[b].key = client[b].key
        BY <1>4, <1>5 DEF Charged
      <3>6. \A b \in Charged(s)' : Used(T'.slot, s) /\ T'.slot[s].key = client'[b].key
        BY <3>1, <3>4, <3>5 DEF SlotOK, Used
      <3>7. QED  BY <2>1, <3>2, <3>3, <3>6 DEF SlotOK
    <2>2. CASE o # s
      <3>1. \A b \in Charged(o) : client'[b].key = client[b].key
        BY <1>4, <1>6, <2>2 DEF Charged
      <3>2. QED  BY <1>3, <1>6, <1>11, <2>2, <3>1, OtherSlot
    <2>3. QED  BY <2>1, <2>2
  <1>13. TableOK'
    BY <1>12, SlotsAfter
  <1>14. Covered' /\ ConfigApplied'
    <2>1. \A o \in Slot : T'.slot[o].state = T.slot[o].state /\ T'.slot[o].key = T.slot[o].key
      BY <1>9, <1>11
    <2>2. QED  BY <1>11, <2>1, SameKeys
  <1>15. QED  BY <1>11, <1>13, <1>14

-----------------------------------------------------------------------------
(* The other steps *)

\* A step that charges and discharges nobody, and leaves the table alone.
LEMMA TableIdle ==
  ASSUME Typed, TableOK, Covered, ConfigApplied, T' = T, loaded' = loaded, direct' = direct, OpenSame
  PROVE  TableOK' /\ Covered' /\ ConfigApplied'
  <1>1. \A s \in Slot : KeptSlot(s)
    BY DEF KeptSlot, SameCounts
  <1>2. TableOK'
    BY <1>1, TableStep
  <1>3. QED  BY <1>2, SameKeys

\* One client changes without being charged or discharged.
LEMMA StaysOpen ==
  ASSUME Typed, NEW c \in Conn, NEW k \in ClientRec, client' = [client EXCEPT ![c] = k],
         k.phase = "open" <=> client[c].phase = "open",
         k.phase = "open" => k.slot = client[c].slot /\ k.key = client[c].key
  PROVE  OpenSame
  BY DEF OpenSame, Typed

LEMMA Parts ==
  ASSUME IInv
  PROVE  /\ Typed /\ ClientShape /\ DcShape /\ Paired /\ TableOK /\ Covered /\ ConfigApplied
         /\ client \in [Conn -> ClientRec] /\ dc \in [Dc -> DcRec] /\ gauge \in Nat
         /\ None \notin Dc /\ None \notin Conn
  BY ClientsAssumption DEF IInv, Typed

LEMMA BlankClient ==
  /\ NoClient \in ClientRec /\ ClientOK(NoClient) /\ NoClient.extra = None /\ NoClient.phase = "none"
  /\ ~NoClient.failed /\ NoClient.kind = "ext" /\ ~NoClient.timer /\ NoClient.attempt = 0
  BY ClientsAssumption DEF NoClient, ClientRec, ClientOK

\* Any step of one client that is not open before or after it.
LEMMA UnchargedStep ==
  ASSUME IInv, NEW c \in Conn, NEW k \in ClientRec,
         client' = [client EXCEPT ![c] = k], ClientOK(k), k.kind = "ext",
         client[c].phase # "open", k.phase # "open",
         client[c].phase = "gone" => (k.phase = "gone" \/ \A d \in Dc : dc[d].extra # c),
         UNCHANGED <<direct, T, dc, gauge, loaded>>
  PROVE  IInv'
  <1>1. /\ Typed /\ ClientShape /\ DcShape /\ Paired /\ TableOK /\ Covered /\ ConfigApplied
    BY Parts
  <1>2. k.extra = None /\ client[c].extra = None
    BY <1>1 DEF ClientOK, ClientShape
  <1>3. ClientShape' /\ DcShape' /\ Paired' /\ client' \in [Conn -> ClientRec]
    BY <1>1, <1>2, OneClient
  <1>4. OpenSame
    BY <1>1, StaysOpen
  <1>5. TableOK' /\ Covered' /\ ConfigApplied'
    BY <1>1, <1>4, TableIdle
  <1>6. Typed'
    BY <1>1, <1>3, SameTypes DEF Typed
  <1>7. QED  BY <1>3, <1>5, <1>6 DEF IInv

LEMMA HelloStep ==
  ASSUME IInv, NEW c \in Conn, NEW key \in Key, TlsHello(c, key)
  PROVE  IInv'
  <1>1. client[c] = NoClient /\ client' = [client EXCEPT ![c].phase = "hello", ![c].key = key]
        /\ UNCHANGED <<direct, T, dc, gauge, loaded>>
    BY DEF TlsHello
  <1>2. client \in [Conn -> ClientRec]
    BY Parts
  <1>3. PICK k : k = [NoClient EXCEPT !.phase = "hello", !.key = key]
    OBVIOUS
  <1>4. k \in ClientRec /\ ClientOK(k) /\ k.kind = "ext" /\ k.phase = "hello"
    <2>1. /\ k.phase = "hello" /\ k.key = key /\ k.kind = "ext" /\ k.extra = None /\ ~k.timer
      BY <1>3, BlankClient DEF ClientRec
    <2>2. k \in ClientRec
      BY <1>3, BlankClient DEF ClientRec
    <2>3. QED  BY <2>1, <2>2 DEF ClientOK
  <1>5. client' = [client EXCEPT ![c] = k]
    BY <1>1, <1>2, <1>3
  <1>6. client[c].phase = "none"
    BY <1>1, BlankClient
  <1>7. QED  BY <1>1, <1>4, <1>5, <1>6, UnchargedStep

LEMMA HelloEndStep ==
  ASSUME IInv, NEW c \in Conn, HelloEnds(c)
  PROVE  IInv'
  BY BlankClient, UnchargedStep DEF HelloEnds

LEMMA FreedStep ==
  ASSUME IInv, NEW c \in Conn, Freed(c)
  PROVE  IInv'
  BY BlankClient, UnchargedStep DEF Freed

\* Steps that only mark or confirm a connection.
LEMMA MarkStep ==
  ASSUME IInv, client' \in [Conn -> ClientRec], dc' \in [Dc -> DcRec], PairsSame,
         \A c \in Conn : client'[c].key = client[c].key,
         T' = T, gauge' = gauge, loaded' = loaded
  PROVE  IInv'
  <1>1. /\ Typed /\ ClientShape /\ DcShape /\ Paired /\ TableOK /\ Covered /\ ConfigApplied
    BY Parts
  <1>2. OpenSame /\ direct' = direct
    BY DEF OpenSame, PairsSame
  <1>3. TableOK' /\ Covered' /\ ConfigApplied'
    BY <1>1, <1>2, TableIdle
  <1>4. ClientShape' /\ DcShape' /\ Paired'
    BY <1>1, PairsStay
  <1>5. Typed'
    BY <1>1, <1>2, SameTypes DEF Typed
  <1>6. QED  BY <1>3, <1>4, <1>5 DEF IInv

LEMMA FailStep ==
  ASSUME IInv, NEW c \in Conn, ClientFails(c)
  PROVE  IInv'
  <1>1. /\ client' = [client EXCEPT ![c].failed = TRUE] /\ client \in [Conn -> ClientRec]
        /\ UNCHANGED <<direct, T, dc, gauge, loaded>> /\ dc \in [Dc -> DcRec]
    BY Parts DEF ClientFails
  <1>2. client' \in [Conn -> ClientRec] /\ dc' \in [Dc -> DcRec]
    BY <1>1, ZenonT(60) DEF ClientRec
  <1>3. PairsSame /\ \A b \in Conn : client'[b].key = client[b].key
    BY <1>1 DEF PairsSame, ClientRec
  <1>4. QED  BY <1>1, <1>2, <1>3, MarkStep

LEMMA DcFailStep ==
  ASSUME IInv, NEW d \in Dc, DcFails(d)
  PROVE  IInv'
  <1>1. /\ dc' = [dc EXCEPT ![d].failed = TRUE] /\ client \in [Conn -> ClientRec]
        /\ UNCHANGED <<direct, T, client, gauge, loaded>> /\ dc \in [Dc -> DcRec]
    BY Parts DEF DcFails
  <1>2. client' \in [Conn -> ClientRec] /\ dc' \in [Dc -> DcRec]
    BY <1>1 DEF DcRec
  <1>3. PairsSame /\ \A b \in Conn : client'[b].key = client[b].key
    BY <1>1 DEF PairsSame, DcRec
  <1>4. QED  BY <1>1, <1>2, <1>3, MarkStep

LEMMA DcUpStep ==
  ASSUME IInv, NEW d \in Dc, DcUp(d)
  PROVE  IInv'
  <1>1. /\ dc' = [dc EXCEPT ![d].phase = "up"] /\ client \in [Conn -> ClientRec]
        /\ UNCHANGED <<direct, T, client, gauge, loaded>> /\ dc \in [Dc -> DcRec]
        /\ dc[d].phase = "connecting"
    BY Parts DEF DcUp
  <1>2. client' \in [Conn -> ClientRec] /\ dc' \in [Dc -> DcRec]
    BY <1>1 DEF DcRec
  <1>3. PairsSame /\ \A b \in Conn : client'[b].key = client[b].key
    BY <1>1 DEF PairsSame, DcRec
  <1>4. QED  BY <1>1, <1>2, <1>3, MarkStep

\* The records the DC code makes of a client's.
LEMMA ClientSet ==
  ASSUME NEW k \in ClientRec
  PROVE  /\ LET m == [k EXCEPT !.failed = TRUE, !.attempt = 0] IN
              /\ m \in ClientRec /\ m.failed /\ m.extra = k.extra /\ m.phase = k.phase
              /\ m.timer = k.timer /\ m.slot = k.slot /\ m.key = k.key
         /\ \A d \in Dc : LET m == [k EXCEPT !.kind = "direct", !.extra = d, !.attempt = 0] IN
              /\ m \in ClientRec /\ m.kind = "direct" /\ m.extra = d /\ m.phase = k.phase
              /\ m.slot = k.slot /\ m.key = k.key
  <1>1. 0 \in 0 .. MaxRetries
    BY ClientsAssumption
  <1>2. QED  BY <1>1 DEF ClientRec

LEMMA Scheduling ==
  ASSUME NEW k \in ClientRec, NEW n \in 0 .. MaxRetries
  PROVE  /\ Scheduled(k, n) \in ClientRec /\ (k.failed => Scheduled(k, n).failed)
         /\ Scheduled(k, n).extra = k.extra /\ Scheduled(k, n).phase = k.phase
         /\ Scheduled(k, n).slot = k.slot /\ Scheduled(k, n).key = k.key
         /\ Scheduled(k, n).kind = k.kind
  <1>1. MaxRetries \in Nat
    BY ClientsAssumption
  <1>2. CASE n >= MaxRetries
    BY <1>2 DEF Scheduled, ClientRec
  <1>3. CASE ~(n >= MaxRetries)
    <2>1. n + 1 \in 0 .. MaxRetries
      BY <1>1, <1>3
    <2>2. Scheduled(k, n) = [k EXCEPT !.attempt = n + 1, !.timer = TRUE]
      BY <1>3 DEF Scheduled
    <2>3. PICK a \in 0 .. MaxRetries : a = n + 1
      BY <2>1
    <2>4. Scheduled(k, n) = [k EXCEPT !.attempt = a, !.timer = TRUE]
      BY <2>2, <2>3
    <2>5. QED  BY <2>4 DEF ClientRec
  <1>4. QED  BY <1>2, <1>3

\* A client that is open and has no DC connection tries for one.
Tried(c, k) == DcUnknown(c, k) \/ DcRefused(c, k) \/ DcStarted(c, k)
LEMMA Trying ==
  ASSUME Typed, ClientShape, DcShape, Paired, NEW c \in Conn, NEW k \in ClientRec,
         k.phase = "open", k.slot \in Slot, k.extra = None, ~k.timer, direct, direct' = direct,
         client[c].extra = None, client[c].phase # "gone", Tried(c, k)
  PROVE  /\ ClientShape' /\ DcShape' /\ Paired'
         /\ client' \in [Conn -> ClientRec] /\ dc' \in [Dc -> DcRec] /\ gauge' \in Nat
         /\ \E m \in ClientRec : /\ client' = [client EXCEPT ![c] = m]
                                 /\ m.phase = "open" /\ m.slot = k.slot /\ m.key = k.key
  <1>1. /\ client \in [Conn -> ClientRec] /\ dc \in [Dc -> DcRec] /\ gauge \in Nat
        /\ None \notin Dc /\ MaxRetries \in Nat /\ 0 \in 0 .. MaxRetries
    BY ClientsAssumption DEF Typed
  <1>2. ASSUME NEW m \in ClientRec, client' = [client EXCEPT ![c] = m], m.extra = None,
               m.phase = "open", m.slot = k.slot, m.key = k.key, m.timer => m.kind = "direct",
               dc' = dc, gauge' = gauge
        PROVE  /\ ClientShape' /\ DcShape' /\ Paired'
               /\ client' \in [Conn -> ClientRec] /\ dc' \in [Dc -> DcRec] /\ gauge' \in Nat
    <2>1. ClientOK(m)
      BY <1>2 DEF ClientOK
    <2>2. ClientShape' /\ DcShape' /\ Paired' /\ client' \in [Conn -> ClientRec]
      BY <1>2, <2>1, OneClient
    <2>3. QED  BY <1>1, <1>2, <2>2
  <1>3. CASE DcUnknown(c, k)
    <2>1. PICK m : m = [k EXCEPT !.failed = TRUE, !.attempt = 0]
      OBVIOUS
    <2>2. client' = [client EXCEPT ![c] = m] /\ dc' = dc /\ gauge' = gauge
      BY <1>3, <2>1 DEF DcUnknown
    <2>3. /\ m \in ClientRec /\ m.extra = None /\ m.phase = "open" /\ m.slot = k.slot /\ m.key = k.key
          /\ ~m.timer
      BY <1>1, <2>1, ClientSet
    <2>4. QED  BY <1>2, <2>2, <2>3
  <1>4. CASE DcRefused(c, k)
    <2>1. PICK j : j = [k EXCEPT !.kind = "direct"]
      OBVIOUS
    <2>2. /\ j \in ClientRec /\ j.extra = None /\ j.phase = "open" /\ j.slot = k.slot /\ j.key = k.key
          /\ j.kind = "direct"
      BY <2>1 DEF ClientRec
    <2>3. PICK m : m = Scheduled(j, k.attempt)
      OBVIOUS
    <2>4. client' = [client EXCEPT ![c] = m] /\ dc' = dc /\ gauge' = gauge
      BY <1>4, <2>1, <2>3 DEF DcRefused
    <2>5. k.attempt \in 0 .. MaxRetries
      BY DEF ClientRec
    <2>6. /\ m \in ClientRec /\ m.extra = None /\ m.phase = "open" /\ m.slot = k.slot /\ m.key = k.key
          /\ m.kind = "direct"
      BY <2>2, <2>3, <2>5, Scheduling
    <2>7. QED  BY <1>2, <2>4, <2>6
  <1>5. CASE DcStarted(c, k)
    <2>1. PICK d \in Dc : /\ dc[d].phase = "none" /\ gauge' = gauge + 1
                          /\ client' = [client EXCEPT ![c] = [k EXCEPT !.kind = "direct", !.extra = d, !.attempt = 0]]
                          /\ dc' = [dc EXCEPT ![d] = [phase |-> "connecting", extra |-> c, failed |-> FALSE]]
      BY <1>5 DEF DcStarted, FreeDc
    <2>2. PICK m : m = [k EXCEPT !.kind = "direct", !.extra = d, !.attempt = 0]
      OBVIOUS
    <2>3. /\ m \in ClientRec /\ m.extra = d /\ m.phase = "open" /\ m.slot = k.slot /\ m.key = k.key
          /\ m.kind = "direct"
      BY <2>2, ClientSet
    <2>4. ClientOK(m)
      BY <2>3 DEF ClientOK
    <2>5. client' = [client EXCEPT ![c] = m]
      BY <2>1, <2>2
    <2>6. ClientShape' /\ DcShape' /\ Paired' /\ client' \in [Conn -> ClientRec] /\ dc' \in [Dc -> DcRec]
      <3>1. m.kind = "direct" => direct
        OBVIOUS
      <3>2. direct' = direct /\ client[c].extra = None /\ client[c].phase # "gone"
        OBVIOUS
      <3>3. QED  BY <2>1, <2>3, <2>4, <2>5, <3>1, <3>2, StartDc, ZenonT(20)
    <2>7. gauge' \in Nat
      BY <1>1, <2>1
    <2>8. \E n \in ClientRec : /\ client' = [client EXCEPT ![c] = n]
                               /\ n.phase = "open" /\ n.slot = k.slot /\ n.key = k.key
      BY <2>3, <2>5, Zenon
    <2>9. QED  BY <2>6, <2>7, <2>8
  <1>6. QED  BY <1>3, <1>4, <1>5 DEF Tried

LEMMA InitStep ==
  ASSUME NEW c \in Conn, NEW key \in Key, NEW tls \in BOOLEAN, IInv, ObfsInit(c, key, tls)
  PROVE  IInv'
  <1>1. /\ Typed /\ ClientShape /\ DcShape /\ Paired /\ TableOK /\ Covered /\ ConfigApplied
        /\ client \in [Conn -> ClientRec] /\ dc \in [Dc -> DcRec] /\ gauge \in Nat
    BY Parts
  <1>2. Matching(T, key) # {} /\ Matching(T, key) \in SUBSET Nat
    BY SlotNumbers DEF ObfsInit, Matching
  <1>3. PICK s \in Matching(T, key) : s = Min(Matching(T, key))
    BY <1>2, MinIn
  <1>4. s \in Slot /\ Used(T.slot, s) /\ T.slot[s].key = key
    BY DEF Matching
  <1>5. PICK k : k = [NoClient EXCEPT !.phase = "open", !.key = key, !.slot = s]
    OBVIOUS
  <1>6. k \in ClientRec /\ k.phase = "open" /\ k.key = key /\ k.slot = s /\ k.extra = None
        /\ k.kind = "ext" /\ ~k.timer
    BY <1>4, <1>5, BlankClient DEF ClientRec
  <1>7. /\ T' = [T EXCEPT !.slot[s] = Charge(@, IpOf[c])] /\ direct' = direct /\ loaded' = loaded
        /\ \/ ~direct /\ client' = [client EXCEPT ![c] = k] /\ dc' = dc /\ gauge' = gauge
           \/ direct /\ Tried(c, k)
    BY <1>3, <1>5 DEF ObfsInit, Tried
  <1>8. client[c].phase \in {"none", "hello"}
    BY BlankClient DEF ObfsInit
  <1>9. client[c].extra = None
    BY <1>1, <1>8 DEF ClientShape, ClientOK
  <1>10. /\ ClientShape' /\ DcShape' /\ Paired'
         /\ client' \in [Conn -> ClientRec] /\ dc' \in [Dc -> DcRec] /\ gauge' \in Nat
         /\ \E m \in ClientRec : /\ client' = [client EXCEPT ![c] = m]
                                 /\ m.phase = "open" /\ m.slot = s /\ m.key = key
    <2>1. CASE ~direct /\ client' = [client EXCEPT ![c] = k] /\ dc' = dc /\ gauge' = gauge
      <3>1. ClientOK(k)
        BY <1>4, <1>6 DEF ClientOK
      <3>2. k.kind # "direct" /\ k.extra = client[c].extra /\ client[c].phase # "gone"
        BY <1>6, <1>8, <1>9
      <3>3. ClientShape' /\ DcShape' /\ Paired' /\ client' \in [Conn -> ClientRec]
        BY <1>1, <1>6, <1>7, <2>1, <3>1, <3>2, OneClient
      <3>4. QED  BY <1>1, <1>6, <2>1, <3>3
    <2>2. CASE direct /\ Tried(c, k)
      <3>1. /\ ClientShape' /\ DcShape' /\ Paired'
            /\ client' \in [Conn -> ClientRec] /\ dc' \in [Dc -> DcRec] /\ gauge' \in Nat
            /\ \E m \in ClientRec : /\ client' = [client EXCEPT ![c] = m]
                                    /\ m.phase = "open" /\ m.slot = k.slot /\ m.key = k.key
        BY <1>1, <1>4, <1>6, <1>7, <1>8, <1>9, <2>2, Trying
      <3>2. QED  BY <1>6, <3>1
    <2>3. QED  BY <1>7, <2>1, <2>2
  <1>11. PICK m \in ClientRec : /\ client' = [client EXCEPT ![c] = m]
                                /\ m.phase = "open" /\ m.slot = s /\ m.key = key
    BY <1>10
  <1>12. T' \in [slot : [Slot -> SlotRec], cnt : 0 .. MaxSlots] /\ TableOK' /\ Covered' /\ ConfigApplied'
    BY <1>1, <1>4, <1>7, <1>8, <1>11, ChargeTable
  <1>13. Typed'
    BY <1>1, <1>7, <1>10, <1>12, SameTypes DEF Typed
  <1>14. QED  BY <1>10, <1>12, <1>13 DEF IInv

LEMMA AlarmStep ==
  ASSUME IInv, NEW c \in Conn, Alarm(c)
  PROVE  IInv'
  <1>1. /\ Typed /\ ClientShape /\ DcShape /\ Paired /\ TableOK /\ Covered /\ ConfigApplied
        /\ client \in [Conn -> ClientRec] /\ dc \in [Dc -> DcRec] /\ gauge \in Nat
    BY Parts
  <1>2. PICK k : k = [client[c] EXCEPT !.timer = FALSE]
    OBVIOUS
  <1>3. client[c] \in ClientRec /\ ClientOK(client[c]) /\ (client[c].kind = "direct" => direct)
    BY <1>1 DEF ClientShape
  <1>4. /\ k \in ClientRec /\ ~k.timer /\ k.phase = client[c].phase /\ k.key = client[c].key
        /\ k.slot = client[c].slot /\ k.kind = client[c].kind /\ k.extra = client[c].extra
        /\ (k.failed <=> client[c].failed)
    BY <1>2, <1>3 DEF ClientRec
  <1>5. /\ client[c].timer /\ T' = T /\ direct' = direct /\ loaded' = loaded
        /\ IF k.failed \/ k.extra # None \/ k.attempt = 0
           THEN client' = [client EXCEPT ![c] = k] /\ dc' = dc /\ gauge' = gauge
           ELSE Tried(c, k)
    BY <1>2 DEF Alarm, Tried
  <1>6. CASE k.failed \/ k.extra # None \/ k.attempt = 0
    <2>1. client' = [client EXCEPT ![c] = k] /\ dc' = dc /\ gauge' = gauge
      BY <1>5, <1>6
    <2>2. ClientOK(k)
      BY <1>3, <1>4 DEF ClientOK
    <2>3. ClientShape' /\ DcShape' /\ Paired' /\ client' \in [Conn -> ClientRec]
      BY <1>1, <1>3, <1>4, <1>5, <2>1, <2>2, OneClient
    <2>4. OpenSame
      BY <1>1, <1>4, <2>1, StaysOpen
    <2>5. TableOK' /\ Covered' /\ ConfigApplied'
      BY <1>1, <1>5, <2>4, TableIdle
    <2>6. Typed'
      BY <1>1, <1>5, <2>1, <2>3, SameTypes DEF Typed
    <2>7. QED  BY <2>3, <2>5, <2>6 DEF IInv
  <1>7. CASE ~(k.failed \/ k.extra # None \/ k.attempt = 0)
    <2>1. Tried(c, k) /\ k.extra = None /\ client[c].extra = None /\ ~client[c].failed
      BY <1>4, <1>5, <1>7
    <2>2. k.phase = "open" /\ k.slot \in Slot /\ client[c].phase = "open" /\ client[c].kind = "direct"
      BY <1>3, <1>4, <1>5, <2>1 DEF ClientOK
    <2>3. direct
      BY <1>3, <2>2
    <2>4. /\ ClientShape' /\ DcShape' /\ Paired'
          /\ client' \in [Conn -> ClientRec] /\ dc' \in [Dc -> DcRec] /\ gauge' \in Nat
          /\ \E m \in ClientRec : /\ client' = [client EXCEPT ![c] = m]
                                  /\ m.phase = "open" /\ m.slot = k.slot /\ m.key = k.key
      BY <1>1, <1>4, <1>5, <2>1, <2>2, <2>3, Trying
    <2>5. PICK m \in ClientRec : /\ client' = [client EXCEPT ![c] = m]
                                 /\ m.phase = "open" /\ m.slot = k.slot /\ m.key = k.key
      BY <2>4
    <2>6. OpenSame
      BY <1>1, <1>4, <2>2, <2>5, StaysOpen
    <2>7. TableOK' /\ Covered' /\ ConfigApplied'
      BY <1>1, <1>5, <2>6, TableIdle
    <2>8. Typed'
      BY <1>1, <1>5, <2>4, SameTypes DEF Typed
    <2>9. QED  BY <2>4, <2>7, <2>8 DEF IInv
  <1>8. QED  BY <1>6, <1>7

LEMMA GoneClient ==
  /\ Gone \in ClientRec /\ ClientOK(Gone) /\ Gone.phase = "gone" /\ Gone.kind = "ext"
  /\ Gone.extra = None /\ Gone.failed
  <1>1. /\ Gone.phase = "gone" /\ Gone.kind = "ext" /\ Gone.extra = None /\ Gone.failed /\ ~Gone.timer
    BY BlankClient DEF Gone, ClientRec
  <1>2. Gone \in ClientRec
    BY BlankClient DEF Gone, ClientRec
  <1>3. QED  BY <1>1, <1>2 DEF ClientOK

LEMMA CloseExtStep ==
  ASSUME IInv, NEW c \in Conn, CloseExt(c)
  PROVE  IInv'
  <1>1. /\ Typed /\ ClientShape /\ DcShape /\ Paired /\ TableOK /\ Covered /\ ConfigApplied
    BY Parts
  <1>2. /\ client[c].phase = "open" /\ client[c].kind = "ext" /\ client' = [client EXCEPT ![c] = Gone]
        /\ T' = [T EXCEPT !.slot[client[c].slot] = Discharge(@, IpOf[c])]
        /\ UNCHANGED <<direct, dc, gauge, loaded>>
    BY DEF CloseExt, Closing
  <1>3. client[c].slot \in Slot /\ client[c].extra = None
    BY <1>1, <1>2 DEF ClientShape, ClientOK
  <1>4. ClientShape' /\ DcShape' /\ Paired' /\ client' \in [Conn -> ClientRec]
    BY <1>1, <1>2, <1>3, GoneClient, OneClient
  <1>5. T' \in [slot : [Slot -> SlotRec], cnt : 0 .. MaxSlots] /\ TableOK' /\ Covered' /\ ConfigApplied'
    BY <1>1, <1>2, <1>3, GoneClient, DischargeTable
  <1>6. Typed'
    BY <1>1, <1>2, <1>4, <1>5, SameTypes DEF Typed
  <1>7. QED  BY <1>4, <1>5, <1>6 DEF IInv

LEMMA CloseDirectStep ==
  ASSUME IInv, NEW c \in Conn, CloseDirect(c)
  PROVE  IInv'
  <1>1. /\ Typed /\ ClientShape /\ DcShape /\ Paired /\ TableOK /\ Covered /\ ConfigApplied
        /\ client \in [Conn -> ClientRec] /\ dc \in [Dc -> DcRec] /\ gauge \in Nat
        /\ None \notin Dc /\ None \notin Conn
    BY Parts
  <1>2. /\ client[c].phase = "open" /\ client[c].kind = "direct" /\ client' = [client EXCEPT ![c] = Gone]
        /\ T' = IF gauge > 0 THEN [T EXCEPT !.slot[client[c].slot] = Discharge(@, IpOf[c])] ELSE T
        /\ gauge' = IF gauge > 0 THEN gauge - 1 ELSE gauge
        /\ direct' = direct /\ loaded' = loaded
    BY DEF CloseDirect, Closing
  <1>3. client[c].slot \in Slot /\ direct
    BY <1>1, <1>2 DEF ClientShape, ClientOK
  <1>4. PICK x : x = client[c].extra
    OBVIOUS
  <1>5. dc' = [d \in Dc |-> IF d # x THEN dc[d] ELSE IF dc[d].phase = "gone" THEN NoDc
                            ELSE [dc[d] EXCEPT !.failed = TRUE]]
    BY <1>4 DEF CloseDirect
  <1>6. \A d \in Dc : d # x => dc'[d] = dc[d]
    BY <1>5
  <1>7. ASSUME NEW d \in Dc, d = x
        PROVE  /\ dc'[d] \in DcRec /\ (dc'[d].extra # None => dc'[d].failed)
               /\ dc'[d].extra = dc[d].extra
               /\ dc'[d].phase \in {"connecting", "up"} <=> dc[d].phase \in {"connecting", "up"}
    <2>1. dc[d] \in DcRec /\ (dc[d].extra # None <=> dc[d].phase \in {"connecting", "up"})
      BY <1>1 DEF DcShape
    <2>2. CASE dc[d].phase = "gone"
      BY <1>5, <1>7, <2>1, <2>2 DEF NoDc, DcRec
    <2>3. CASE dc[d].phase # "gone"
      <3>1. dc'[d] = [dc[d] EXCEPT !.failed = TRUE]
        BY <1>5, <1>7, <2>3
      <3>2. QED  BY <2>1, <3>1 DEF DcRec
    <2>4. QED  BY <2>2, <2>3
  <1>8. dc' \in [Dc -> DcRec]
    <2>1. ASSUME NEW d \in Dc PROVE dc'[d] \in DcRec
      BY <1>1, <1>6, <1>7
    <2>2. dc' = [d \in Dc |-> dc'[d]]
      BY <1>5
    <2>3. QED  BY <2>1, <2>2
  <1>9. /\ client' \in [Conn -> ClientRec] /\ client'[c] = Gone
        /\ \A b \in Conn : b # c => client'[b] = client[b]
    BY <1>1, <1>2, GoneClient
  <1>10. ClientShape'
    <2>1. ASSUME NEW b \in Conn
          PROVE  ClientOK(client[b])' /\ (client'[b].kind = "direct" => direct')
      <3>1. CASE b = c
        BY <1>2, <1>3, <1>9, <3>1, GoneClient DEF ClientOK
      <3>2. CASE b # c
        BY <1>1, <1>2, <1>9, <3>2 DEF ClientShape, ClientOK
      <3>3. QED  BY <3>1, <3>2
    <2>2. QED  BY <2>1 DEF ClientShape
  <1>11. DcShape'
    <2>1. ASSUME NEW d \in Dc
          PROVE  dc'[d].extra # None <=> dc'[d].phase \in {"connecting", "up"}
      <3>1. dc[d].extra # None <=> dc[d].phase \in {"connecting", "up"}
        BY <1>1 DEF DcShape
      <3>2. QED  BY <1>6, <1>7, <3>1
    <2>2. QED  BY <2>1 DEF DcShape
  <1>12. \A b \in Conn : client[b].extra \in Dc \union {None}
    BY <1>1 DEF ClientRec
  <1>13. \A d \in Dc : dc[d].extra \in Conn \union {None} /\ dc'[d].extra = dc[d].extra
    BY <1>1, <1>6, <1>7 DEF DcRec
  <1>14. Paired'
    <2>1. ASSUME NEW b \in Conn, client'[b].extra # None
          PROVE  \/ dc'[client'[b].extra].extra = b
                 \/ dc'[client'[b].extra].phase = "gone" /\ client'[b].failed
      <3>1. b # c /\ client'[b] = client[b]
        BY <1>9, <2>1, GoneClient
      <3>2. PICK e \in Dc : e = client[b].extra /\ e = client'[b].extra /\ e # None
        BY <1>12, <2>1, <3>1
      <3>3. e # x
        BY <1>1, <1>4, <3>1, <3>2, PairOf
      <3>4. dc[e].extra = b \/ (dc[e].phase = "gone" /\ client[b].failed)
        BY <1>1, <3>2, PairOf
      <3>5. QED  BY <1>6, <3>1, <3>2, <3>3, <3>4
    <2>2. ASSUME NEW e \in Dc, dc'[e].extra # None
          PROVE  \/ client'[dc'[e].extra].extra = e
                 \/ client'[dc'[e].extra].phase = "gone" /\ dc'[e].failed
      <3>1. PICK b \in Conn : b = dc[e].extra /\ b = dc'[e].extra /\ b # None
        BY <1>13, <2>2
      <3>2. client[b].extra = e \/ (client[b].phase = "gone" /\ dc[e].failed)
        BY <1>1, <3>1, PairOf
      <3>3. CASE b = c
        <4>1. dc'[e].failed
          <5>1. CASE e = x
            BY <1>7, <2>2, <5>1
          <5>2. CASE e # x
            BY <1>2, <1>4, <1>6, <3>2, <3>3, <5>2
          <5>3. QED  BY <5>1, <5>2
        <4>2. QED  BY <1>9, <3>1, <3>3, <4>1, GoneClient
      <3>4. CASE b # c
        <4>1. client'[b] = client[b]
          BY <1>9, <3>4
        <4>2. dc[e].failed => dc'[e].failed
          BY <1>6, <1>7, <2>2
        <4>3. QED  BY <3>1, <3>2, <4>1, <4>2
      <3>5. QED  BY <3>3, <3>4
    <2>3. \A b, e \in Conn : client'[b].extra = client'[e].extra /\ client'[b].extra # None => b = e
      <3> SUFFICES ASSUME NEW b \in Conn, NEW e \in Conn, client'[b].extra = client'[e].extra,
                          client'[b].extra # None
                   PROVE  b = e
        OBVIOUS
      <3>1. b # c /\ e # c
        BY <1>9, GoneClient
      <3>2. client[b].extra = client[e].extra /\ client[e].extra # None
        BY <1>9, <3>1
      <3>3. QED  BY <1>1, <3>2 DEF Paired
    <2>4. QED  BY <2>1, <2>2, <2>3 DEF Paired
  <1>15. T' = [T EXCEPT !.slot[client[c].slot] = Discharge(@, IpOf[c])] \/ (direct /\ T' = T)
    BY <1>2, <1>3
  <1>16. T' \in [slot : [Slot -> SlotRec], cnt : 0 .. MaxSlots] /\ TableOK' /\ Covered' /\ ConfigApplied'
    BY <1>1, <1>2, <1>3, <1>15, GoneClient, DischargeTable
  <1>17. gauge' \in Nat
    BY <1>1, <1>2
  <1>18. Typed'
    BY <1>1, <1>2, <1>8, <1>9, <1>16, <1>17, SameTypes DEF Typed
  <1>19. QED  BY <1>10, <1>11, <1>14, <1>16, <1>18 DEF IInv

LEMMA CloseDcStep ==
  ASSUME IInv, NEW d \in Dc, CloseDc(d)
  PROVE  IInv'
  <1>1. /\ Typed /\ ClientShape /\ DcShape /\ Paired /\ TableOK /\ Covered /\ ConfigApplied
        /\ client \in [Conn -> ClientRec] /\ dc \in [Dc -> DcRec] /\ gauge \in Nat
        /\ None \notin Dc /\ None \notin Conn
    BY Parts
  <1>2. /\ dc[d].phase \in {"connecting", "up"} /\ dc[d].failed
        /\ UNCHANGED <<direct, T, gauge, loaded>>
    BY DEF CloseDc
  <1>3. PICK c \in Conn : c = dc[d].extra
    BY <1>1, <1>2 DEF DcShape, DcRec
  <1>4. PICK retry, k, m, g :
            /\ retry = (dc[d].phase = "connecting" /\ client[c].attempt < MaxRetries)
            /\ k = [client[c] EXCEPT !.extra = None]
            /\ m = IF retry THEN Scheduled(k, client[c].attempt) ELSE [client[c] EXCEPT !.failed = TRUE]
            /\ g = IF m.extra = d THEN [NoDc EXCEPT !.phase = "gone"] ELSE NoDc
    OBVIOUS
  <1>5. client' = [client EXCEPT ![c] = m]
    BY <1>3, <1>4 DEF CloseDc
  <1>6. client[c] \in ClientRec /\ ClientOK(client[c]) /\ (client[c].kind = "direct" => direct)
        /\ client[c].attempt \in 0 .. MaxRetries
    BY <1>1 DEF ClientShape, ClientRec
  <1>7. client[c].extra = d \/ client[c].phase = "gone"
    BY <1>1, <1>3, PairOf
  <1>8. /\ m \in ClientRec /\ (client[c].failed => m.failed)
        /\ m.phase = client[c].phase /\ m.slot = client[c].slot /\ m.key = client[c].key
        /\ m.kind = client[c].kind
        /\ m.extra = None \/ (m.extra = client[c].extra /\ m.failed /\ m.timer = client[c].timer)
    <2>1. CASE retry
      <3>1. k \in ClientRec /\ k.extra = None /\ k.phase = client[c].phase /\ k.slot = client[c].slot
            /\ k.key = client[c].key /\ k.kind = client[c].kind /\ (client[c].failed => k.failed)
        BY <1>4, <1>6 DEF ClientRec
      <3>2. m = Scheduled(k, client[c].attempt)
        BY <1>4, <2>1
      <3>3. QED  BY <1>6, <3>1, <3>2, Scheduling
    <2>2. CASE ~retry
      <3>1. m = [client[c] EXCEPT !.failed = TRUE]
        BY <1>4, <2>2
      <3>2. QED  BY <1>6, <3>1 DEF ClientRec
    <2>3. QED  BY <2>1, <2>2
  <1>9. client' \in [Conn -> ClientRec] /\ client'[c] = m /\ \A b \in Conn : b # c => client'[b] = client[b]
    BY <1>1, <1>5, <1>8
  <1>10. dc' = [dc EXCEPT ![d] = g]
    <2>1. dc' = [dc EXCEPT ![d] = IF client'[c].extra = d THEN [NoDc EXCEPT !.phase = "gone"] ELSE NoDc]
      BY <1>3 DEF CloseDc
    <2>2. QED  BY <1>4, <1>9, <2>1
  <1>11. g \in DcRec /\ g.extra = None /\ g.phase \in {"gone", "none"} /\ (m.extra = d => g.phase = "gone")
    BY <1>4 DEF NoDc, DcRec
  <1>12. dc' \in [Dc -> DcRec] /\ dc'[d] = g /\ \A e \in Dc : e # d => dc'[e] = dc[e]
    BY <1>1, <1>10, <1>11
  <1>13. ClientOK(m) /\ (m.kind = "direct" => direct)
    <2>1. CASE client[c].phase = "gone"
      BY <1>6, <1>8, <2>1 DEF ClientOK
    <2>2. CASE client[c].phase # "gone"
      <3>1. client[c].extra = d /\ client[c].phase = "open" /\ client[c].kind # "ext"
        BY <1>1, <1>6, <1>7, <2>2 DEF ClientOK
      <3>2. m.kind = "direct"
        BY <1>8, <3>1 DEF ClientRec
      <3>3. QED  BY <1>6, <1>8, <3>1, <3>2 DEF ClientOK
    <2>3. QED  BY <2>1, <2>2
  <1>14. ClientShape'
    <2>1. ASSUME NEW b \in Conn
          PROVE  ClientOK(client[b])' /\ (client'[b].kind = "direct" => direct')
      <3>1. CASE b = c
        BY <1>2, <1>9, <1>13, <3>1 DEF ClientOK
      <3>2. CASE b # c
        BY <1>1, <1>2, <1>9, <3>2 DEF ClientShape, ClientOK
      <3>3. QED  BY <3>1, <3>2
    <2>2. QED  BY <2>1 DEF ClientShape
  <1>15. DcShape'
    BY <1>1, <1>11, <1>12 DEF DcShape
  <1>16. \A b \in Conn : client[b].extra \in Dc \union {None} /\ client'[b].extra \in Dc \union {None}
    BY <1>1, <1>9 DEF ClientRec
  <1>17. \A e \in Dc : dc[e].extra \in Conn \union {None}
    BY <1>1 DEF DcRec
  <1>18. \A b \in Conn : client'[b].extra = None \/ client'[b].extra = client[b].extra
    BY <1>8, <1>9
  <1>19. \A b \in Conn : b # c => client[b].extra # d
    BY <1>1, <1>2, <1>3, PairOf
  <1>20. Paired'
    <2>1. ASSUME NEW b \in Conn, client'[b].extra # None
          PROVE  \/ dc'[client'[b].extra].extra = b
                 \/ dc'[client'[b].extra].phase = "gone" /\ client'[b].failed
      <3>1. PICK e \in Dc : e = client[b].extra /\ e = client'[b].extra /\ e # None
        BY <1>16, <1>18, <2>1
      <3>2. dc[e].extra = b \/ (dc[e].phase = "gone" /\ client[b].failed)
        BY <1>1, <3>1, PairOf
      <3>3. CASE b = c
        <4>1. e = d
          BY <1>6, <1>7, <3>1, <3>3 DEF ClientOK
        <4>2. m.extra = d /\ m.failed
          BY <1>8, <1>9, <3>1, <3>3, <4>1
        <4>3. QED  BY <1>9, <1>11, <1>12, <3>1, <3>3, <4>1, <4>2
      <3>4. CASE b # c
        <4>1. e # d /\ client'[b] = client[b] /\ dc'[e] = dc[e]
          BY <1>9, <1>12, <1>19, <3>1, <3>4
        <4>2. QED  BY <3>1, <3>2, <4>1
      <3>5. QED  BY <3>3, <3>4
    <2>2. ASSUME NEW e \in Dc, dc'[e].extra # None
          PROVE  \/ client'[dc'[e].extra].extra = e
                 \/ client'[dc'[e].extra].phase = "gone" /\ dc'[e].failed
      <3>1. e # d /\ dc'[e] = dc[e]
        BY <1>11, <1>12, <2>2
      <3>2. PICK b \in Conn : b = dc[e].extra /\ b = dc'[e].extra /\ b # None
        BY <1>17, <2>2, <3>1
      <3>3. client[b].extra = e \/ (client[b].phase = "gone" /\ dc[e].failed)
        BY <1>1, <3>2, PairOf
      <3>4. CASE b = c
        <4>1. client[c].phase = "gone" /\ dc[e].failed
          <5>1. CASE client[c].extra = e
            BY <1>1, <1>6, <1>7, <3>1, <5>1 DEF ClientOK
          <5>2. CASE client[c].extra # e
            BY <3>3, <3>4, <5>2
          <5>3. QED  BY <5>1, <5>2
        <4>2. QED  BY <1>8, <1>9, <3>1, <3>2, <3>4, <4>1
      <3>5. CASE b # c
        BY <1>9, <3>1, <3>2, <3>3, <3>5
      <3>6. QED  BY <3>4, <3>5
    <2>3. \A b, e \in Conn : client'[b].extra = client'[e].extra /\ client'[b].extra # None => b = e
      BY <1>1, <1>18 DEF Paired
    <2>4. QED  BY <2>1, <2>2, <2>3 DEF Paired
  <1>21. OpenSame
    BY <1>1, <1>5, <1>8, StaysOpen
  <1>22. TableOK' /\ Covered' /\ ConfigApplied'
    BY <1>1, <1>2, <1>21, TableIdle
  <1>23. Typed'
    BY <1>1, <1>2, <1>9, <1>12, SameTypes DEF Typed
  <1>24. QED  BY <1>14, <1>15, <1>20, <1>22, <1>23 DEF IInv

-----------------------------------------------------------------------------
(* The theorems *)

LEMMA Start ==
  ASSUME Init
  PROVE  IInv
  <1>1. /\ direct \in BOOLEAN /\ T = PinnedTable /\ client = [c \in Conn |-> NoClient]
        /\ dc = [d \in Dc |-> NoDc] /\ gauge = 0 /\ loaded = [config |-> <<>>, ok |-> TRUE]
    BY DEF Init
  <1>2. MaxSlots \in Nat /\ Pinned \in Nat /\ Pinned \in 0 .. MaxSlots
    BY SlotsAssumption
  <1>3. Free \in SlotRec /\ Blank(Free) /\ Free.state = "FREE"
    BY DEF Free, SlotRec, Blank, AnyKey
  <1>4. ASSUME NEW s \in Slot
        PROVE  /\ T.slot[s] \in SlotRec /\ Blank(T.slot[s])
               /\ s < Pinned => T.slot[s].state = "ACTIVE" /\ T.slot[s].key = PinnedKey[s]
               /\ ~(s < Pinned) => T.slot[s].state = "FREE"
    <2>1. T.slot[s] = IF s < Pinned THEN [Free EXCEPT !.state = "ACTIVE", !.key = PinnedKey[s]] ELSE Free
      BY <1>1 DEF PinnedTable
    <2>2. CASE s < Pinned
      <3>1. s \in 0 .. (Pinned - 1)
        BY <1>2, <2>2, SlotNumbers
      <3>2. PinnedKey[s] \in AnyKey
        BY <3>1 DEF AnyKey
      <3>3. QED  BY <1>3, <2>1, <2>2, <3>2, ZenonT(60) DEF SlotRec, Blank
    <2>3. CASE ~(s < Pinned)
      BY <1>3, <2>1, <2>3
    <2>4. QED  BY <2>2, <2>3
  <1>5. T.cnt = Pinned /\ T = [slot |-> T.slot, cnt |-> T.cnt] /\ T.slot = [s \in Slot |-> T.slot[s]]
    BY <1>1 DEF PinnedTable
  <1>6. T \in [slot : [Slot -> SlotRec], cnt : 0 .. MaxSlots]
    <2>1. T.slot \in [Slot -> SlotRec]
      BY <1>4, <1>5
    <2>2. QED  BY <1>2, <1>5, <2>1
  <1>7. Typed
    <2>1. NoDc \in DcRec
      BY DEF NoDc, DcRec
    <2>2. QED  BY <1>1, <1>6, <2>1, BlankClient DEF Typed
  <1>8. ClientShape /\ DcShape /\ Paired
    <2>1. \A d \in Dc : dc[d].extra = None /\ dc[d].phase = "none"
      BY <1>1 DEF NoDc
    <2>2. \A c \in Conn : client[c] = NoClient
      BY <1>1
    <2>3. QED  BY <2>1, <2>2, BlankClient DEF ClientShape, DcShape, Paired
  <1>9. TableOK
    <2>1. ASSUME NEW s \in Slot PROVE SlotOK(s)
      <3>1. Charged(s) = {}
        BY <1>1, BlankClient DEF Charged
      <3>2. Cardinality(Charged(s)) = 0
        BY <3>1, FS_EmptySet
      <3>3. Exact(T.slot[s])
        BY <1>4, NoAddresses DEF Exact
      <3>4. QED  BY <1>4, <3>1, <3>2, <3>3 DEF SlotOK, Blank
    <2>2. QED  BY <2>1, BySlot
  <1>10. Covered
    BY <1>2, <1>4, <1>5 DEF Covered
  <1>11. ConfigApplied
    <2>1. Keys(loaded.config) = {}
      BY <1>1 DEF Keys
    <2>2. ASSUME NEW k, UsedKey(k) PROVE k \in PinnedKeys
      <3>1. PICK s \in Slot : s < T.cnt /\ T.slot[s].key = k
        BY <2>2 DEF UsedKey
      <3>2. s \in 0 .. (Pinned - 1) /\ s < Pinned
        BY <1>2, <1>5, <3>1, SlotNumbers
      <3>3. k = PinnedKey[s]
        BY <1>4, <3>1, <3>2
      <3>4. QED  BY <3>2, <3>3 DEF PinnedKeys
    <2>3. ASSUME NEW k \in PinnedKeys PROVE UsedKey(k)
      <3>1. PICK p \in 0 .. (Pinned - 1) : k = PinnedKey[p]
        BY DEF PinnedKeys
      <3>2. p \in Slot /\ p < Pinned
        BY <1>2 DEF Slot
      <3>3. QED  BY <1>4, <1>5, <3>1, <3>2 DEF UsedKey
    <2>4. KeysApplied
      BY <2>1, <2>2, <2>3 DEF KeysApplied
    <2>5. QED  BY <2>4, ByKey
  <1>12. QED  BY <1>7, <1>8, <1>9, <1>10, <1>11 DEF IInv

LEMMA Stutter ==
  ASSUME IInv, UNCHANGED vars
  PROVE  IInv'
  <1>1. /\ Typed /\ ClientShape /\ DcShape /\ Paired /\ TableOK /\ Covered /\ ConfigApplied
        /\ direct' = direct /\ T' = T /\ client' = client /\ dc' = dc /\ gauge' = gauge /\ loaded' = loaded
    BY Parts DEF vars
  <1>2. client' \in [Conn -> ClientRec] /\ dc' \in [Dc -> DcRec]
    BY <1>1, Parts
  <1>3. PairsSame /\ \A c \in Conn : client'[c].key = client[c].key
    BY <1>1, NothingMoves
  <1>4. QED  BY <1>1, <1>2, <1>3, MarkStep

LEMMA Step ==
  ASSUME IInv, [Next]_vars
  PROVE  IInv'
  <1>1. CASE UNCHANGED vars
    BY <1>1, Stutter
  <1>2. CASE Next
    <2>1. CASE \E config \in Configs[direct] : ReloadSecrets(config)
      BY <2>1, ReloadStep
    <2>2. CASE (\E s \in Slot : DrainTimeout(s)) \/ Sweep
      BY <2>2, DrainStep, SweepStep
    <2>3. CASE \E c \in Conn : \/ HelloEnds(c) \/ Alarm(c) \/ ClientFails(c) \/ Close(c) \/ Freed(c)
                               \/ \E key \in Key : \/ TlsHello(c, key)
                                                   \/ \E tls \in BOOLEAN : ObfsInit(c, key, tls)
      <3>1. PICK c \in Conn : \/ HelloEnds(c) \/ Alarm(c) \/ ClientFails(c) \/ Close(c) \/ Freed(c)
                              \/ \E key \in Key : \/ TlsHello(c, key)
                                                  \/ \E tls \in BOOLEAN : ObfsInit(c, key, tls)
        BY <2>3
      <3>2. CASE HelloEnds(c)
        BY <3>2, HelloEndStep
      <3>3. CASE Alarm(c)
        BY <3>3, AlarmStep
      <3>4. CASE ClientFails(c)
        BY <3>4, FailStep
      <3>5. CASE Close(c)
        BY <3>5, CloseExtStep, CloseDirectStep DEF Close
      <3>6. CASE Freed(c)
        BY <3>6, FreedStep
      <3>7. CASE \E key \in Key : TlsHello(c, key) \/ \E tls \in BOOLEAN : ObfsInit(c, key, tls)
        BY <3>7, HelloStep, InitStep
      <3>8. QED  BY <3>1, <3>2, <3>3, <3>4, <3>5, <3>6, <3>7
    <2>4. CASE \E d \in Dc : DcFails(d) \/ DcUp(d) \/ CloseDc(d)
      BY <2>4, DcFailStep, DcUpStep, CloseDcStep
    <2>5. QED  BY <1>2, <2>1, <2>2, <2>3, <2>4 DEF Next
  <1>3. QED  BY <1>1, <1>2

\* The inductive invariant holds throughout.
THEOREM Invariance == Spec => []IInv
  <1>1. Init => IInv
    BY Start
  <1>2. IInv /\ [Next]_vars => IInv'
    BY Step
  <1>3. QED  BY <1>1, <1>2, PTL DEF Spec

\* However configurations are reloaded and drains swept under live clients, what
\* a slot counts is the connections and addresses that are charged to it, and it
\* is never given to another secret while one of them lives
\* (tcp_rpcs_reload_ext_secrets, drain_sweep_gw, the charge of the obfs2 init and
\* the discharge of the close handlers).
THEOREM Counts == Spec => []CountsExact
  <1>1. IInv => CountsExact
    BY DEF IInv, TableOK, CountsExact, Typed, TypeOK, SlotRec, ClientRec, DcRec
  <1>2. QED  BY <1>1, Invariance, PTL

\* After a reload that returned 0 the usable secrets are the pinned ones and those
\* of the configuration, whatever is swept, charged or closed later.
THEOREM Applied == Spec => []ConfigApplied
  <1>1. IInv => ConfigApplied
    BY DEF IInv
  <1>2. QED  BY <1>1, Invariance, PTL

\* The two sides of a direct relay point at each other until one of them fails
\* (tcp_direct_close from either side, retries and timers included).
THEOREM Pairs == Spec => []PairsAgree
  <1>1. ASSUME IInv PROVE PairsAgree
    <2>1. Paired
      BY <1>1 DEF IInv
    <2>2. QED  BY <2>1 DEF Paired, PairsAgree
  <1>2. QED  BY <1>1, Invariance, PTL
=============================================================================
