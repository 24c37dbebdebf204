--------------------------- MODULE MCBearerTokens ---------------------------
(* BearerTokens for TLC: three requests, two of which know the challenge and *)
(* ask the cache before they send.                                           *)
EXTENDS BearerTokens

CONSTANTS q1, q2, q3

MCPreemptive == {q1, q2}
=============================================================================
