\* Secrets reloaded and drained under connected clients, with and without
\* direct mode.
CONSTANTS MaxSlots = 3 MaxActive = 2 Pinned = 1 MaxRetries = 2 MaxGauge = 2 MaxConns = 2
          NoKey = nokey None = none
          pinned = pinned k1 = k1 k2 = k2 k3 = k3 c1 = c1 c2 = c2
          Conn = {c1, c2} Key = {k1, k2} Dc = {d1, d2}
          PinnedKey <- MCPinnedKey Ip <- MCIp IpOf <- MCIpOf Configs <- MCConfigs
SPECIFICATION FairSpec
INVARIANTS CountsExact ConfigApplied PairsAgree
PROPERTIES  PairEnds
CHECK_DEADLOCK FALSE
