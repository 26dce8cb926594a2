------------------------------ MODULE RunLedger ------------------------------
(***************************************************************************)
(* What the crawl-run ledger promises its readers (the API, the health     *)
(* classifier, the volume gate): a run is opened once and finished at most *)
(* once, observations arrive only while it runs, its final count is the    *)
(* number that arrived, and a quarantined run stored none.                 *)
(***************************************************************************)
EXTENDS Naturals

CONSTANT Runs, Terminal

VARIABLES status,  \* of every run
          stored,  \* how many observations carry its id
          count    \* items_ok of its ledger row

ledgerVars == <<status, stored, count>>

Init ==
    /\ status = [r \in Runs |-> "absent"]
    /\ stored = [r \in Runs |-> 0]
    /\ count  = [r \in Runs |-> 0]

(* One trigger may open several runs at once.                              *)
Open(rs) ==
    /\ \A r \in rs : status[r] = "absent"
    /\ status' = [r \in Runs |-> IF r \in rs THEN "running" ELSE status[r]]
    /\ UNCHANGED <<stored, count>>

Store(r) ==
    /\ status[r] = "running"
    /\ stored' = [stored EXCEPT ![r] = @ + 1]
    /\ UNCHANGED <<status, count>>

Finish(r, st) ==
    /\ status[r] = "running"
    /\ st = "quarantined" => stored[r] = 0
    /\ status' = [status EXCEPT ![r] = st]
    /\ count' = [count EXCEPT ![r] = stored[r]]
    /\ UNCHANGED stored

Next ==
    \/ \E rs \in SUBSET Runs : Open(rs)
    \/ \E r \in Runs : Store(r) \/ \E st \in Terminal : Finish(r, st)

Spec == Init /\ [][Next]_ledgerVars

=============================================================================
