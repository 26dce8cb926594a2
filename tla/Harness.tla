------------------------------ MODULE Harness ------------------------------
(***************************************************************************)
(* harness/: the adversarial server the resilience layer is tested         *)
(* against, as the answer it gives to one request.  Its only state is how  *)
(* many requests each identity made (_IdentityCounter); the session cookie *)
(* lives with the caller.                                                  *)
(***************************************************************************)
EXTENDS BanClassifier, FiniteSets

CONSTANTS RateLimitedBurst,   \* 429s an identity gets before success
          RetryAfterSeconds,  \* Retry-After of a 429
          BlockAfter,         \* requests an identity may make
          PageSize            \* products on a page

ASSUME HarnessAssumption ==
    /\ RateLimitedBurst \in Nat /\ RetryAfterSeconds \in Nat
    /\ BlockAfter \in Nat
    /\ PageSize \in Nat \ {0}

Scenario == {"happy", "rate_limited", "block_after_n", "captcha",
             "cookie_wall", "soft_ban", "drift"}

(* bump() answers with the requests the identity made before this one.     *)
Bump(prior, identity) == [prior EXCEPT ![identity] = @ + 1]

Limits(scenario, count) ==
    scenario = "rate_limited" /\ count < RateLimitedBurst

Blocks(scenario, count) ==
    scenario = "block_after_n" /\ count >= BlockAfter

Walls(scenario, carriesCookie) ==
    scenario = "cookie_wall" /\ ~carriesCookie

(* _respond(): status line, headers and the class of the body.             *)
Respond(scenario, count, carriesCookie) ==
    [status     |-> IF Limits(scenario, count) THEN "429"
                    ELSE IF \/ Blocks(scenario, count)
                            \/ Walls(scenario, carriesCookie)
                    THEN "other" ELSE "2xx",
     body       |-> IF scenario = "captcha" THEN "challenge"
                    ELSE IF scenario = "soft_ban" THEN "blank" ELSE "page",
     setCookie  |-> Walls(scenario, carriesCookie),
     retryAfter |-> IF Limits(scenario, count) THEN RetryAfterSeconds ELSE 0]

(* Every answer it may give: a 429 asks to wait, no other one does.        *)
HarnessAnswers ==
    [status : {"2xx", "429", "other"}, body : BodyClass, setCookie : BOOLEAN,
     retryAfter : {0, RetryAfterSeconds}]

(* Products are numbered in the order of the catalogue.                    *)
Rank(products, i) == Cardinality({j \in products : j <= i})

(* happy_page(): the slice of the catalogue, empty past its end.           *)
HappyPage(products, page) ==
    {i \in products : /\ (page - 1) * PageSize < Rank(products, i)
                      /\ Rank(products, i) <= page * PageSize}

=============================================================================
