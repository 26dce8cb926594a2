----------------------------- MODULE ProxyPool -----------------------------
(***************************************************************************)
(* resilience/proxy.py: round-robin over the proxies that are not cooling  *)
(* down.  The pool is a record: the cursor, and for each proxy what is     *)
(* left of its quarantine (banned_until minus the clock, 0 when healthy).  *)
(* The per-proxy success and failure tallies feed only a metric that       *)
(* nothing in the program reads and are left out.                          *)
(***************************************************************************)
EXTENDS Integers

CONSTANTS NumProxies,     \* distinct non-blank entries of ACQUIRE_PROXY_POOL
          ProxyCooldown   \* ACQUIRE_PROXY_COOLDOWN_SECONDS

ASSUME ProxyAssumption == NumProxies \in Nat /\ ProxyCooldown \in Nat

Proxies == 0..(NumProxies - 1)

(* The None that stands for a direct connection.                           *)
Direct == -1

Pool == [cursor     : {n \in Nat : n = 0 \/ n < NumProxies},
         quarantine : [Proxies -> 0..ProxyCooldown]]

NewPool == [cursor |-> 0, quarantine |-> [p \in Proxies |-> 0]]

Healthy(pool, p) == pool.quarantine[p] = 0

(* The proxy `offset' places after the cursor in the configured order.     *)
AtOffset(pool, offset) == (pool.cursor + offset) % NumProxies

(* acquire(): the first healthy offset from the cursor, if there is one.   *)
FirstHealthy(pool, offset) ==
    /\ Healthy(pool, AtOffset(pool, offset))
    /\ \A nearer \in 0..(offset - 1) : ~Healthy(pool, AtOffset(pool, nearer))

Exhausted(pool) == \A p \in Proxies : ~Healthy(pool, p)

(* Mutant: round-robin that does not look at the quarantine.               *)
AcquiredUnseen(pool) == IF NumProxies = 0 THEN Direct ELSE pool.cursor

Acquired(pool) ==
    IF Exhausted(pool) THEN Direct
    ELSE AtOffset(pool, CHOOSE o \in Proxies : FirstHealthy(pool, o))

AfterAcquire(pool) ==
    IF Exhausted(pool) THEN pool
    ELSE [pool EXCEPT !.cursor = (Acquired(pool) + 1) % NumProxies]

RecordBan(pool, p) ==
    IF p = Direct THEN pool
    ELSE [pool EXCEPT !.quarantine[p] = ProxyCooldown]

PoolTick(pool) ==
    [pool EXCEPT !.quarantine =
        [p \in Proxies |-> IF @[p] > 0 THEN @[p] - 1 ELSE 0]]

=============================================================================
