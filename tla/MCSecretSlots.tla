--------------------------- MODULE MCSecretSlots ---------------------------
(* One pinned secret and two more slots, two clients at two addresses,    *)
(* two connections to data centres.  No configuration has a secret twice.   *)
(* Between them they limit connections and addresses, lift the limits under *)
(* live clients, repeat the pinned secret, have more secrets than may be    *)
(* active and need more slots than are free.  In direct mode one secret     *)
(* comes and goes: its states multiply with those of the relays.            *)
EXTENDS SecretSlots, TLC

CONSTANTS pinned, k1, k2, k3, c1, c2

Entry(key, limit, maxIps) == [key |-> key, limit |-> limit, maxIps |-> maxIps]
MCPinnedKey == [p \in {0} |-> pinned]
MCConfigs == [mode \in BOOLEAN |->
    {<<>>, <<Entry(k1, 0, 0)>>} \union
    IF mode THEN {}
    ELSE {<<Entry(k1, 1, 1)>>, <<Entry(pinned, 0, 0), Entry(k2, 0, 0)>>,
          <<Entry(k2, 0, 0), Entry(k3, 0, 0)>>}]
MCIp == {1, 2}
MCIpOf == (c1 :> 1 @@ c2 :> 2)
=============================================================================
