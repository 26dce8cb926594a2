--------------------------- MODULE BanClassifier ---------------------------
(***************************************************************************)
(* resilience/classifier.py: the pure label every downloader response gets *)
(* before it may reach a spider callback.                                  *)
(*                                                                         *)
(* A response is abstracted to what the label and the recovery layer read: *)
(* the status class, whether the body is a page, blank or a challenge, the *)
(* presence of Set-Cookie, and a positive Retry-After (0 when the header   *)
(* is absent, unparsable or not positive, which compute_delay treats alike)*)
(***************************************************************************)
EXTENDS Naturals

StatusClass == {"2xx", "429", "503", "other"}
BodyClass   == {"page", "blank", "challenge"}

Response == [status : StatusClass, body : BodyClass,
             setCookie : BOOLEAN, retryAfter : Nat]

Classification == {"ok", "rate_limited", "blocked", "captcha", "empty"}

(* Mutant: a challenge page is judged by its status.                       *)
ClassifyByStatus(r) ==
    IF r.status = "429" THEN "rate_limited"
    ELSE IF r.status = "2xx" THEN (IF r.body = "blank" THEN "empty" ELSE "ok")
    ELSE "blocked"

(* Challenge markers win over every status; then 429; then the 2xx split.  *)
Classify(r) ==
    IF r.body = "challenge" THEN "captcha"
    ELSE IF r.status = "429" THEN "rate_limited"
    ELSE IF r.status = "2xx" THEN (IF r.body = "blank" THEN "empty" ELSE "ok")
    ELSE "blocked"

BanKinds == Classification \ {"ok"}

(* middleware.py: the labels that count against a domain's breaker are the *)
(* labels that escalate to a fresh identity.                               *)
CircuitFailures == {"blocked", "captcha", "empty"}
RotateOn        == CircuitFailures

(* middleware.py: the statuses the backoff middleware owns.                *)
RetryableStatuses == {"429", "503"}

=============================================================================
