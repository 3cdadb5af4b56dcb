------------------------- MODULE MCP2PoolIpMonitor -------------------------
(* Small instances of P2PoolIpMonitor for TLC: the operator, and one coroutine *)
(* of the monitor in flight at a time.                                         *)
EXTENDS P2PoolIpMonitor

CONSTANTS gui, mon1, ip1, ip2

MCClients == {gui, mon1}
MCMons    == {mon1}
MCIps     == {ip1, ip2}
=============================================================================
