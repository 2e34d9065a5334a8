------------------------------ MODULE MCWebhooks ------------------------------
(***************************************************************************)
(* Small instances of Webhooks for TLC: the document's events are enabled  *)
(* and groups are configured.                                              *)
(***************************************************************************)
EXTENDS Webhooks

ConfiguredInit == Init /\ cfg.groups # "none" /\ cfg.document \in cfg.events

ConfiguredSpec == ConfiguredInit /\ [][Next]_vars /\ Fairness
================================================================================
