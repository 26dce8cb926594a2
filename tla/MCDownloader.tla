---------------------------- MODULE MCDownloader ----------------------------
(***************************************************************************)
(* Small instances of Downloader for TLC.                                  *)
(***************************************************************************)
EXTENDS Downloader

Answer(status, body, setCookie, retryAfter) ==
    [status |-> status, body |-> body, setCookie |-> setCookie,
     retryAfter |-> retryAfter]

Ok          == Answer("2xx", "page", FALSE, 0)
Blank       == Answer("2xx", "blank", FALSE, 0)
Captcha     == Answer("2xx", "challenge", FALSE, 0)
Blocked     == Answer("other", "page", FALSE, 0)
Wall        == Answer("other", "page", TRUE, 0)
Limited     == Answer("429", "page", FALSE, 0)
LimitedTill == Answer("429", "page", FALSE, 2)
Limiting    == Answer("429", "challenge", FALSE, 0)
Unavailable == Answer("503", "page", FALSE, 0)

AllAnswers      == {Ok, Blank, Captcha, Blocked, Wall, Limited, LimitedTill,
                    Limiting, Unavailable}
FriendlyAnswers == {Ok, Limited, LimitedTill}
CoreAnswers     == {Ok, Blocked, Wall, Limited}

(* Every chain on the one domain, or every chain on a domain of its own.   *)
SharedDomain == [c \in Chains |-> CHOOSE d \in Domains : TRUE]
OwnDomain    == [c \in Chains |-> c]

=============================================================================
