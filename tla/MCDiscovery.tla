---------------------------- MODULE MCDiscovery ----------------------------
(***************************************************************************)
(* Instances of Discovery for TLC.                                         *)
(***************************************************************************)
EXTENDS Discovery

CONSTANTS a, b, m

BothSources == {"docker", "traefik"}
Nobody == {}
=============================================================================
