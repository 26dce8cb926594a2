---------------------------- MODULE IdentityPool ----------------------------
(***************************************************************************)
(* resilience/identity.py: the catalogue of coherent browser bundles and   *)
(* the order in which rotation walks through it.                           *)
(*                                                                         *)
(* The pool's whole state is its generation: _index is the generation      *)
(* modulo the catalogue's length, and the identity's key names profile and *)
(* generation, so that two generations never share a cookie jar.           *)
(***************************************************************************)
EXTENDS Naturals, Sequences

Profiles == <<"chrome-win", "chrome-mac", "firefox-win", "firefox-linux",
              "safari-mac">>

ProfileOf(generation) == Profiles[(generation % Len(Profiles)) + 1]

(* Only the Chromium bundles name the three sec-ch-ua headers.             *)
SendsClientHints(profile) == profile \in {"chrome-win", "chrome-mac"}

=============================================================================
