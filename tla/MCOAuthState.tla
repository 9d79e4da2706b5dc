--------------------------- MODULE MCOAuthState ----------------------------
(* One replica that signs and one that does not, with overlapping and       *)
(* repeated callbacks.                                                      *)
EXTENDS OAuthState, TLC
============================================================================
