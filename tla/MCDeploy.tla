------------------------------ MODULE MCDeploy ------------------------------
(* Small instances of Deploy.                                              *)
EXTENDS Deploy

CONSTANTS s1, s2
=============================================================================
