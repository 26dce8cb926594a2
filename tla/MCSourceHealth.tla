--------------------------- MODULE MCSourceHealth ---------------------------
(***************************************************************************)
(* Small instances of SourceHealth for TLC.                                *)
(***************************************************************************)
EXTENDS SourceHealth

(* No bans; a rate between the two limits; a rate beyond the second.       *)
Quiet == [bans |-> 0, requests |-> 2]
Noisy == [bans |-> 1, requests |-> 3]
Loud  == [bans |-> 2, requests |-> 2]

AllTraffic == {Quiet, Noisy, Loud}

=============================================================================
