-------------------------- MODULE MCProvisionProof --------------------------
(* Small instances of ProvisionProof.                                      *)
EXTENDS ProvisionProof

CONSTANTS t1, t2
=============================================================================
