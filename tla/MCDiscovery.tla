------------------------------- MODULE MCDiscovery -------------------------------
(***************************************************************************)
(* A small instance of Discovery.                                          *)
(***************************************************************************)
EXTENDS Discovery

\* A top group, and a subgroup that is configured as well.
Overlapping == <<Repo, {r \in Repo : r % 2 = 1}>>
==================================================================================
