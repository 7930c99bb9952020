----------------------------- MODULE RunRecord -----------------------------
(***************************************************************************)
(* What the runtime promises about one workflow run: it begins once, gets  *)
(* one verdict, is called cancelled only if someone asked for that, is     *)
(* forgotten by the process table at some point, and the journal receives  *)
(* one terminal row for it: its verdict or, if the process died before     *)
(* the row was written, "failed".                                          *)
(***************************************************************************)

CONSTANT Streamed   \* the run's errors reach the runtime as text

VARIABLES
    life,      \* "unborn", "running", "ended", "forgotten"
    verdict,   \* "none", or how the run ended
    record,    \* "none", or the terminal row in the journal
    requested, \* its cancellation was asked for
    died       \* the process that ran it is gone

vars == <<life, verdict, record, requested, died>>

Verdicts == {"completed", "failed", "cancelled"}

Init ==
    /\ life = "unborn" /\ verdict = "none" /\ record = "none"
    /\ requested = FALSE /\ died = FALSE

Begin ==
    /\ life = "unborn" /\ life' = "running"
    /\ UNCHANGED <<verdict, record, requested, died>>

Request ==
    /\ life # "unborn" /\ ~died
    /\ requested' = TRUE
    /\ UNCHANGED <<life, verdict, record, died>>

\* A stream reports errors as text, in which the word may stand by chance.
End(v) ==
    /\ life = "running" /\ life' = "ended"
    /\ v = "cancelled" => requested \/ Streamed
    /\ verdict' = v
    /\ UNCHANGED <<record, requested, died>>

Forget ==
    /\ life = "ended" /\ life' = "forgotten"
    /\ UNCHANGED <<verdict, record, requested, died>>

\* All but the journal is forgotten.
Die ==
    /\ life # "unborn"
    /\ life' = "forgotten" /\ verdict' = "none" /\ requested' = FALSE /\ died' = TRUE
    /\ UNCHANGED record

Record ==
    /\ record = "none"
    /\ \/ ~died /\ verdict # "none" /\ record' = verdict
       \/ died /\ record' = "failed"
    /\ UNCHANGED <<life, verdict, requested, died>>

Next == Begin \/ Request \/ Forget \/ Die \/ Record \/ \E v \in Verdicts : End(v)

Spec == Init /\ [][Next]_vars
=============================================================================
