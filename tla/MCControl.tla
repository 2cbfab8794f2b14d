----------------------------- MODULE MCControl -----------------------------
(***************************************************************************)
(* Two browsers; proposing pairs with two sets of parameters, which share  *)
(* a group and need confirming; a replay that writes nothing, which is a   *)
(* child process; and the doctor, which a read-only server runs.           *)
(***************************************************************************)
EXTENDS Control

CONSTANTS strict, loose, dry, doctor   \* orders

MCGroupOf ==
    [o \in Orders |-> CASE o \in {strict, loose} -> "pairs"
                        [] o = dry             -> "replay"
                        [] OTHER               -> "doctor"]

=============================================================================
