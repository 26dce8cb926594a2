--------------------------- MODULE MCControlPlane ---------------------------
(***************************************************************************)
(* A small instance of ControlPlane for TLC.                               *)
(***************************************************************************)
EXTENDS ControlPlane, TLC

(* One price; what the crawls store is CrawlRunsLedger's matter.           *)
OnePrice == {2}

(* Who calls is interchangeable.                                           *)
Callers == Permutations(Requests)

=============================================================================
