---------------------------- MODULE RequestFate ----------------------------
(***************************************************************************)
(* What the downloader as a whole promises about the requests of a crawl,  *)
(* whatever middlewares stand between the scheduler and the spider: a page *)
(* is fetched a bounded number of times, only a fetched page is delivered  *)
(* or recorded as a ban, every chain has one final fate, and the ledger    *)
(* grows by one exactly when a ban ends a chain.                           *)
(***************************************************************************)
EXTENDS Naturals

CONSTANTS Chains,    \* the request chains of the crawl
          Budget,    \* downloads a page may cost
          MaxPages   \* pages a chain may have

VARIABLES fate, page, attempts, recorded

fateVars == <<fate, page, attempts, recorded>>

Init ==
    /\ fate     = [c \in Chains |-> "pending"]
    /\ page     = [c \in Chains |-> 1]
    /\ attempts = [c \in Chains |-> 0]
    /\ recorded = 0

(* The page is fetched once more.                                          *)
Attempt(c) ==
    /\ fate[c] = "pending"
    /\ attempts[c] < Budget
    /\ attempts' = [attempts EXCEPT ![c] = @ + 1]
    /\ UNCHANGED <<fate, page, recorded>>

(* The spider got the page and asks for the next one.                      *)
TurnPage(c) ==
    /\ fate[c] = "pending"
    /\ attempts[c] > 0
    /\ page[c] < MaxPages
    /\ page' = [page EXCEPT ![c] = @ + 1]
    /\ attempts' = [attempts EXCEPT ![c] = 0]
    /\ UNCHANGED <<fate, recorded>>

End(c, how) ==
    /\ fate[c] = "pending"
    /\ fate' = [fate EXCEPT ![c] = how]
    /\ UNCHANGED <<page, attempts>>

(* The spider got the chain's last page.                                   *)
Delivered(c) == attempts[c] > 0 /\ End(c, "delivered") /\ UNCHANGED recorded

(* A ban ended the chain, and the ledger knows.                            *)
Banned(c) == attempts[c] > 0 /\ End(c, "banned") /\ recorded' = recorded + 1

(* Refused by an open breaker, or lost to the network.                     *)
Dropped(c) == End(c, "dropped") /\ UNCHANGED recorded

Next ==
    \E c \in Chains :
        Attempt(c) \/ TurnPage(c) \/ Delivered(c) \/ Banned(c) \/ Dropped(c)

Spec == Init /\ [][Next]_fateVars

=============================================================================
