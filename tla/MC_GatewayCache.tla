-------------------------- MODULE MC_GatewayCache --------------------------
(* Instantiates GatewayCache; callers, HEAD requests and writers are model *)
(* values given in each configuration.                                     *)
EXTENDS GatewayCache

=============================================================================
