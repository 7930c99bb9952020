------------------------------ MODULE MCAudit ------------------------------
(***************************************************************************)
(* Small instances of Audit for TLC.                                       *)
(***************************************************************************)
EXTENDS Audit

\* The rows that writers announce.
Interactions == {[AnyRow EXCEPT !.type = "interaction"]}

=============================================================================
