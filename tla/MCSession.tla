----------------------------- MODULE MCSession -----------------------------
(* A small instance of Session: the sessions of the code that read by      *)
(* read_status, its window, and counters of 128 values.                    *)
EXTENDS Session

MCPlans == AllPlans
=============================================================================
