----------------------------- MODULE MCWebhooks -----------------------------
(* Instance of Webhooks for TLC.                                           *)
EXTENDS Webhooks

\* A webhook for one of two kinds of events, with and without payloads.
OneKind == {[kinds |-> {"wanted"}, payload |-> b, enabled |-> TRUE] : b \in BOOLEAN}
OnePlain == {[kinds |-> {"wanted"}, payload |-> FALSE, enabled |-> TRUE]}
=============================================================================
