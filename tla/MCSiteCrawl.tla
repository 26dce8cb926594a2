---------------------------- MODULE MCSiteCrawl ----------------------------
(***************************************************************************)
(* A small instance of SiteCrawl for TLC.                                  *)
(***************************************************************************)
EXTENDS SiteCrawl

OneDomain == [c \in Chains |-> CHOOSE d \in Domains : TRUE]

(* The server is the harness.                                              *)
GivenAnswers == HarnessAnswers

(* All entries complete, or the second one without a price.                *)
Complete    == [i \in Items |-> RequiredFields]
SomeLacking == [Complete EXCEPT ![2] = {"id", "title"}]
Stated      == {Complete, SomeLacking}

=============================================================================
