---------------------------- MODULE MCCrawlRuns ----------------------------
(***************************************************************************)
(* Small instances of CrawlRuns for TLC.                                   *)
(***************************************************************************)
EXTENDS CrawlRuns, TLC

(* A price the gates accept, one that jumps from it, one out of range, and *)
(* one that does not parse.                                                *)
AllPrices == {Unparsable, 0, 2, 30, 99}

FewPrices == {2, 30}
TwoPrices == {2, Unparsable}

(* What a source lists is interchangeable.                                 *)
Listings == Permutations(Entries)

=============================================================================
