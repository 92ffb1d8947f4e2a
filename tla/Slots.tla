------------------------------- MODULE Slots -------------------------------
(* The table of client secrets: what a reload of the configuration, the     *)
(* release of a drained slot and the per-address limits do to it, as        *)
(* operators over a table T (net/net-tcp-rpc-ext-drain.c and the helpers    *)
(* of net/net-tcp-rpc-ext-server.c).  Labels, quotas, rates and expiry are  *)
(* left out: they refuse clients and never change a slot's state.           *)
EXTENDS Integers, Sequences, FiniteSets, FiniteSetsExt

CONSTANTS MaxSlots,   \* EXT_SECRET_MAX_SLOTS
          MaxActive,  \* EXT_SECRET_MAX_ACTIVE
          Pinned,     \* secrets from the command line: slots 0 .. Pinned-1
          PinnedKey,  \* [0 .. Pinned-1 -> key]
          NoKey,      \* sixteen zero bytes
          Ip          \* client addresses

ASSUME SlotsAssumption == /\ MaxSlots \in Nat /\ MaxActive \in Nat /\ Pinned \in Nat
                          /\ Pinned <= MaxActive /\ MaxActive <= MaxSlots
                          /\ IsFiniteSet(Ip)

Slot == 0 .. (MaxSlots - 1)
Free == [state |-> "FREE", key |-> NoKey, limit |-> 0, maxIps |-> 0,
         conns |-> 0, ips |-> [i \in Ip |-> 0], unique |-> 0, overdue |-> FALSE]

\* tcp_rpcs_set_ext_secret for each -S option, then tcp_rpcs_pin_ext_secrets
PinnedTable == [slot |-> [s \in Slot |-> IF s < Pinned
                            THEN [Free EXCEPT !.state = "ACTIVE", !.key = PinnedKey[s]]
                            ELSE Free],
                cnt |-> Pinned]

Config == Pinned .. (MaxSlots - 1)
Used(t, s) == t[s].state # "FREE"
HighWater(t) == Max({Pinned} \union {s + 1 : s \in {s \in Config : Used(t, s)}})

\* Pass B: the slot an entry of the configuration is already in
Matches(t, key) == {s \in Config : Used(t, s) /\ t[s].key = key}

\* the entries left, by their index, after those that collide with a pinned secret
Accepted(cfg) == {i \in DOMAIN cfg : \A p \in 0 .. (Pinned - 1) : PinnedKey[p] # cfg[i].key}

\* Faulty variant: a slot that drains is not recognised by its key.
RefreshActiveOnly(t, cfg) ==
    [s \in Slot |->
        IF s \notin Config THEN t[s]
        ELSE LET own == {i \in Accepted(cfg) : {r \in Matches(t, cfg[i].key) : t[r].state = "ACTIVE"} # {}
                                            /\ s = Min(Matches(t, cfg[i].key))} IN
             IF own # {}
             THEN [t[s] EXCEPT !.state = "ACTIVE", !.overdue = FALSE,
                     !.limit = cfg[Max(own)].limit, !.maxIps = cfg[Max(own)].maxIps]
             ELSE IF t[s].state = "ACTIVE" THEN [t[s] EXCEPT !.state = "DRAINING"]
             ELSE t[s]]

\* Passes A, B and C: slots whose key is configured are refreshed or revived,
\* active ones whose key is not start to drain; nothing else changes.
Refresh(t, cfg) ==
    [s \in Slot |->
        IF s \notin Config THEN t[s]
        ELSE LET own == {i \in Accepted(cfg) : Matches(t, cfg[i].key) # {}
                                            /\ s = Min(Matches(t, cfg[i].key))} IN
             IF own # {}
             THEN [t[s] EXCEPT !.state = "ACTIVE", !.overdue = FALSE,
                     !.limit = cfg[Max(own)].limit, !.maxIps = cfg[Max(own)].maxIps]
             ELSE IF t[s].state = "ACTIVE" THEN [t[s] EXCEPT !.state = "DRAINING"]
             ELSE t[s]]

\* Pass D: the entries not matched take the lowest free slots, in order, and
\* the first that finds none ends the reload.
Unplaced(t, cfg) == {i \in Accepted(cfg) : Matches(t, cfg[i].key) = {}}
\* Faulty variant: a slot that drains counts as free.
FreeSlotsDraining(t) == {s \in Config : t[s].state # "ACTIVE"}

FreeSlots(t) == {s \in Config : ~Used(t, s)}
Rank(S, x) == Cardinality({y \in S : y <= x})

Place(e) == [Free EXCEPT !.state = "ACTIVE", !.key = e.key, !.limit = e.limit,
                            !.maxIps = e.maxIps]

Placed(t, cfg, new) ==
    [s \in Slot |-> IF s \in FreeSlots(t) /\ Rank(FreeSlots(t), s) <= Cardinality(new)
                    THEN Place(cfg[CHOOSE i \in new : Rank(new, i) = Rank(FreeSlots(t), s)])
                    ELSE t[s]]

\* tcp_rpcs_reload_ext_secrets: the table it leaves, and whether it returned 0;
\* a reload that fails has changed the slots but not the count.
Reload(T, config) ==
    LET t1 == Refresh(T.slot, config)
        new == Unplaced(T.slot, config)
        t2 == Placed(t1, config, new)
        full == Cardinality(new) > Cardinality(FreeSlots(t1))
        many == Cardinality({s \in Slot : t2[s].state = "ACTIVE"}) > MaxActive
        ok == ~full /\ ~many
    IN [table |-> [slot |-> t2, cnt |-> IF ok THEN HighWater(t2) ELSE T.cnt], ok |-> ok]

\* tcp_rpcs_drain_release_slot_if_empty for each slot of S
Release(T, S) ==
    LET done == {s \in S \cap Config : T.slot[s].state = "DRAINING" /\ T.slot[s].conns = 0}
        t == [s \in Slot |-> IF s \in done THEN Free ELSE T.slot[s]]
    IN [slot |-> t, cnt |-> IF done = {} THEN T.cnt ELSE HighWater(t)]

-----------------------------------------------------------------------------
(* Clients and slots *)

\* the slot a client's key selects: the first below ext_secret_cnt in use
Matching(T, key) == {s \in Slot : s < T.cnt /\ Used(T.slot, s) /\ T.slot[s].key = key}

\* secret_over_limit and ip_over_limit, one worker
OverLimit(r) == r.limit > 0 /\ r.conns >= r.limit
IpOverLimit(r, ip) == r.maxIps > 0 /\ r.ips[ip] = 0 /\ r.unique >= r.maxIps
Refuses(r, ip) == r.state = "DRAINING" \/ OverLimit(r) \/ IpOverLimit(r, ip)

\* the increments of the obfs2 init, ip_track_connect included
Charge(r, ip) ==
    LET k == [r EXCEPT !.conns = @ + 1] IN
    IF r.maxIps <= 0 THEN k
    ELSE [k EXCEPT !.ips[ip] = @ + 1, !.unique = IF r.ips[ip] = 0 THEN @ + 1 ELSE @]

\* the decrements of the close handlers, ip_track_disconnect_impl included
Discharge(r, ip) ==
    LET k == [r EXCEPT !.conns = @ - 1] IN
    IF r.maxIps <= 0 \/ r.ips[ip] = 0 THEN k
    ELSE [k EXCEPT !.ips[ip] = @ - 1, !.unique = IF r.ips[ip] = 1 THEN @ - 1 ELSE @]
=============================================================================
