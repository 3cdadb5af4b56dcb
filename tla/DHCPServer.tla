----------------------------- MODULE DHCPServer -----------------------------
(***************************************************************************)
(* DHCPServer of server/p2pool_router_managers_2.py, its IPv4 half: the    *)
(* table of leases, the set of free addresses and the pins, under the      *)
(* messages of clients, the administrator's helpers and the cleanup        *)
(* thread.  Everything done under _lease_lock is one action; only the      *)
(* INIT-REBOOT branch takes the lock twice.                                *)
(*                                                                         *)
(* Time is abstracted to whether a lease has run out: the table keeps an   *)
(* expired lease until the cleanup thread, which wakes every minute, or    *)
(* its client removes it.                                                  *)
(***************************************************************************)
EXTENDS Naturals, FiniteSetsExt

CONSTANTS Clients,         \* MAC addresses
          Addresses,       \* the addresses of the subnet, as numbers
          Pool,            \* dynamic_ip_pool
          Reserved,        \* _reserved_ipv4: the router, network, broadcast
          MaxLeases,       \* max_leases
          AllowOutOfPool,  \* allow_out_of_pool
          None             \* no address

ASSUME AddressesAssumption ==
  /\ Addresses \subseteq Nat /\ Pool \subseteq Addresses
  /\ Reserved \subseteq Addresses /\ None \notin Addresses
ASSUME LimitAssumption == MaxLeases \in Nat \ {0} /\ AllowOutOfPool \in BOOLEAN

VARIABLES
  leases,     \* _leases: client -> address, None for no entry
  valid,      \* the clients whose entry has not run out
  pins,       \* _static_leases
  available,  \* available_ips
  nonPool,    \* _non_pool_leases
  reboot,     \* INIT-REBOOT requests past _can_ack_requested_ip: client -> address
  pinned      \* addresses that were ever pinned

dhcpVars == <<leases, valid, pins, available, nonPool, reboot, pinned>>

DhcpInit ==
  /\ leases = [c \in Clients |-> None] /\ valid = {}
  /\ pins = [c \in Clients |-> None]
  /\ available = Pool \ Reserved
  /\ nonPool = {} /\ reboot = [c \in Clients |-> None]
  /\ pinned = {}

Leased(m) == {m[c] : c \in Clients} \ {None}
Pins == {pins[c] : c \in Clients} \ {None}

\* Seeded fault: an expired lease of another client is no obstacle.
InUseLive(c, ip) == \E d \in valid \ {c} : leases[d] = ip

\* Also an expired lease counts.
InUse(c, ip) == \E d \in Clients \ {c} : leases[d] = ip

LimitReached(c) == Cardinality(valid \ {c}) >= MaxLeases

----------------------------------------------------------------------------
(* _assign_ip *)

\* Client c gets the lease of ip.
Grant(c, ip) ==
  /\ leases' = [leases EXCEPT ![c] = ip] /\ valid' = valid \cup {c}

\* A preferred address the server does not honour is as good as none.
Honoured(c, ip) ==
  /\ ip # None /\ ip \notin Reserved /\ ~InUse(c, ip)
  /\ ip \in Pool \/ AllowOutOfPool

\* c has no pin and its lease has not run out: the lease is renewed.
Renews(c) == pins[c] = None /\ c \in valid

\* A pin, else a lease that has not run out.
Kept(c) == IF Renews(c) THEN leases[c] ELSE pins[c]

\* The address _assign_ip(c, ip) returns, None for none.
Assigned(c, ip) ==
  IF Kept(c) # None THEN Kept(c)
  ELSE IF LimitReached(c) THEN None
  ELSE IF Honoured(c, ip) THEN ip
  ELSE IF available # {} THEN Min(available) ELSE None

\* Seeded fault: an address granted on request stays available.
AssignKeepsAvailable(c, ip) ==
  LET got == Assigned(c, ip) IN
  /\ IF got # None
       THEN Grant(c, got)
       ELSE leases' = [leases EXCEPT ![c] = None] /\ valid' = valid \ {c}
  /\ available' = IF got = ip \/ Renews(c) THEN available ELSE available \ {got}
  /\ UNCHANGED nonPool

\* What it does to the tables.  An expired lease of c's own goes before
\* anything else, and its address does not return to available.  A renewal
\* looks at available neither to test it nor to change it.
Assign(c, ip) ==
  LET got == Assigned(c, ip) IN
  /\ IF got # None
       THEN Grant(c, got)
       ELSE leases' = [leases EXCEPT ![c] = None] /\ valid' = valid \ {c}
  /\ available' = IF Renews(c) THEN available ELSE available \ {got}
  /\ nonPool' = IF Kept(c) = None /\ got # None /\ got \notin Pool
                  THEN nonPool \cup {got} ELSE nonPool

----------------------------------------------------------------------------
(* handle_packet *)

Preferred == IF AllowOutOfPool THEN Addresses \cup {None} ELSE {None}

\* A DISCOVER or a REQUEST: the offer and the ACK are made alike.
DiscoverOrRequest(c) ==
  /\ \E ip \in Preferred : Assign(c, ip)
  /\ UNCHANGED <<pins, reboot, pinned>>

\* _can_ack_requested_ip; otherwise the answer is a NAK.
CanAck(c, ip) ==
  /\ ip \notin Reserved
  /\ \/ c \in valid /\ leases[c] = ip
     \/ pins[c] = ip
     \/ /\ \A d \in valid \ {c} : leases[d] # ip
        /\ ip \in Pool \/ AllowOutOfPool

RebootAsked(c, ip) ==
  /\ reboot[c] = None /\ CanAck(c, ip)
  /\ reboot' = [reboot EXCEPT ![c] = ip]
  /\ UNCHANGED <<leases, valid, pins, available, nonPool, pinned>>

\* The second time under the lock: an ACK of what is assigned, or a NAK.
RebootAnswered(c) ==
  /\ reboot[c] # None
  /\ Assign(c, reboot[c])
  /\ reboot' = [reboot EXCEPT ![c] = None]
  /\ UNCHANGED <<pins, pinned>>

\* RELEASE and DECLINE: release_ipv4.
Release(c) ==
  /\ leases[c] # None
  /\ leases' = [leases EXCEPT ![c] = None] /\ valid' = valid \ {c}
  /\ pins' = [pins EXCEPT ![c] = None]
  /\ available' = available \cup ({leases[c]} \cap (Pool \ Reserved))
  /\ nonPool' = nonPool \ {leases[c]}
  /\ UNCHANGED <<reboot, pinned>>

----------------------------------------------------------------------------
(* The administrator's helpers *)

\* assign_specific_ipv4
Pin(c, ip, force) ==
  /\ ip \notin Reserved
  /\ force \/ (~InUse(c, ip) /\ (leases[c] = None => ~LimitReached(c)))
  /\ Grant(c, ip)
  /\ pins' = [pins EXCEPT ![c] = ip] /\ pinned' = pinned \cup {ip}
  /\ available' = available \ {ip}
  /\ nonPool' = IF ip \notin Pool THEN nonPool \cup {ip} ELSE nonPool
  /\ UNCHANGED reboot

\* The addresses that are free when m is the table of leases.
Free(m) == Pool \ (Leased(m) \cup Pins \cup Reserved)

\* force_reconcile_ipv4_pool
Reconcile ==
  /\ available' = Free(leases)
  /\ UNCHANGED <<leases, valid, pins, nonPool, reboot, pinned>>

----------------------------------------------------------------------------
(* Time *)

Expire(c) ==
  /\ c \in valid /\ valid' = valid \ {c}
  /\ UNCHANGED <<leases, pins, available, nonPool, reboot, pinned>>

Expired == {c \in Clients : leases[c] # None /\ c \notin valid}

\* Seeded fault: only the addresses of expired leases return.
CleanupExpiredOnly ==
  /\ leases' = [c \in Clients |-> IF c \in Expired THEN None ELSE leases[c]]
  /\ available' = available \cup
       (({leases[c] : c \in Expired} \cap Pool) \ (Pins \cup Reserved))
  /\ nonPool' = nonPool \ {leases[c] : c \in Expired}
  /\ UNCHANGED <<valid, pins, reboot, pinned>>

\* One round of _cleanup_leases_loop.
Cleanup ==
  LET m == [c \in Clients |-> IF c \in Expired THEN None ELSE leases[c]] IN
  /\ leases' = m /\ available' = Free(m)
  /\ nonPool' = nonPool \ {leases[c] : c \in Expired}
  /\ UNCHANGED <<valid, pins, reboot, pinned>>

----------------------------------------------------------------------------
DhcpNext ==
  \/ \E c \in Clients :
       \/ DiscoverOrRequest(c) \/ Release(c) \/ RebootAnswered(c) \/ Expire(c)
       \/ \E ip \in Addresses :
            \/ RebootAsked(c, ip)
            \/ \E force \in BOOLEAN : Pin(c, ip, force)
  \/ Reconcile
  \/ Cleanup

DhcpSpec == DhcpInit /\ [][DhcpNext]_dhcpVars

\* The cleanup thread wakes again and again.
DhcpFairSpec == DhcpSpec /\ WF_dhcpVars(Cleanup)

----------------------------------------------------------------------------
\* The tables agree: a live lease has an entry, available_ips holds addresses
\* of the pool that nobody leases unless they were pinned, and
\* _non_pool_leases only addresses outside the pool.
DhcpTypeOK ==
  /\ leases \in [Clients -> Addresses \cup {None}]
  /\ valid \subseteq {c \in Clients : leases[c] # None}
  /\ pins \in [Clients -> Addresses \cup {None}] /\ Pins \subseteq pinned
  /\ available \subseteq Pool \ (Reserved \cup (Leased(leases) \ pinned))
  /\ nonPool \subseteq Addresses \ Pool
  /\ reboot \in [Clients -> Addresses \cup {None}]

\* Two clients share an address only if the administrator pinned it, whatever
\* they ask for and whenever leases run out; and clients without a pin never
\* hold more leases than the limit allows.
OneHolder ==
  /\ \A c, d \in Clients :
       (c # d /\ leases[c] # None /\ leases[c] = leases[d]) => leases[c] \in pinned
  /\ Cardinality({c \in valid : pins[c] = None}) <= MaxLeases

\* An address of the pool that nobody holds and no pin keeps becomes available
\* again, also when it left the table without being returned.
AddressReturns ==
  \A ip \in Pool \ Reserved : []<>(ip \in available \cup Leased(leases) \cup Pins)

\* p2pool_router_managers_2.py:21232, "DHCPREQUEST INIT-REBOOT is handled
\* strictly: ACK only the exact requested address, otherwise NAK."  The ACK
\* carries the address the client then holds the lease of.
AckIsExact ==
  [][\A c \in Clients :
       (reboot[c] # None /\ reboot'[c] = None) => leases'[c] \in {None, reboot[c]}]_dhcpVars
=============================================================================
