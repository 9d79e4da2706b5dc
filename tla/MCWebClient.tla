---------------------------- MODULE MCWebClient -----------------------------
(* Two requests of one browser and two sessions: no symmetry, the run       *)
(* checks a liveness property.                                              *)
EXTENDS WebClient
=============================================================================
