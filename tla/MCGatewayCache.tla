-------------------------- MODULE MCGatewayCache --------------------------
(* GatewayCache with one user, one pair and two requests at a time.        *)
EXTENDS GatewayCache
=============================================================================
