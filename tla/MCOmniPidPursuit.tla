--------------------------- MODULE MCOmniPidPursuit ---------------------------
(* The parameters of bringup, in units of 0.5 m/s and 1/16 s: 3.5 m/s, 8 m/s2, 1.8 m. *)
EXTENDS OmniPidPursuit

MCMinSpeed == -7
=============================================================================
