-------------------------------- MODULE ReportRun --------------------------------
(***************************************************************************)
(* What a run of the reports promises: it takes some reports, settles every *)
(* one of them once, whatever becomes of the others, and returns an error   *)
(* exactly if one of them failed or the reports could not be read.          *)
(***************************************************************************)
CONSTANTS Report

VARIABLES
    phase,     \* "idle", "running", "ok" or "error"
    open,      \* reports to be settled
    settled    \* what became of the others: [Report -> "sent", "failed" or "skipped"]

vars == <<phase, open, settled>>

Init == phase = "idle" /\ open = {} /\ settled = << >>

Begin ==
    /\ phase = "idle"
    /\ phase' = "running"
    /\ open' \subseteq Report
    /\ UNCHANGED settled

Refuse ==
    /\ phase = "idle"
    /\ phase' = "error"
    /\ UNCHANGED <<open, settled>>

Settle(r, how) ==
    /\ phase = "running" /\ r \in open
    /\ open' = open \ {r}
    /\ settled' = [q \in DOMAIN settled \union {r} |-> IF q = r THEN how ELSE settled[q]]
    /\ UNCHANGED phase

Return ==
    /\ phase = "running" /\ open = {}
    /\ phase' = IF \E r \in DOMAIN settled : settled[r] = "failed" THEN "error" ELSE "ok"
    /\ UNCHANGED <<open, settled>>

Forget ==
    /\ phase \in {"ok", "error"}
    /\ phase' = "idle" /\ settled' = << >>
    /\ UNCHANGED open

Next ==
    \/ Begin \/ Refuse \/ Return \/ Forget
    \/ \E r \in Report, how \in {"sent", "failed", "skipped"} : Settle(r, how)

Spec == Init /\ [][Next]_vars
=============================================================================
