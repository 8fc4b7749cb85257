--------------------------- MODULE MCProviderHealth ---------------------------
(* ProviderHealth for TLC.                                                     *)
EXTENDS ProviderHealth

CONSTANTS s1, c1

===============================================================================
