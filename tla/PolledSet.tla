-------------------------------- MODULE PolledSet --------------------------------
(***************************************************************************)
(* What the poller promises of the counters it polls, whatever goroutines   *)
(* it uses: from time to time it looks at the rows, and at one stroke what  *)
(* it polls becomes what it saw; when the service stops, nothing is polled  *)
(* any more.                                                                *)
(***************************************************************************)
CONSTANTS Counters, Cadences, Unpolled

VARIABLES
    rows,      \* the cadence each counter's row asks for
    seen,      \* the rows as they were last looked at
    polled,    \* the cadence each counter is polled at
    stopped    \* the service has been told to stop

vars == <<rows, seen, polled, stopped>>

Cadence == Cadences \union {Unpolled}

Nothing == [c \in Counters |-> Unpolled]

Init ==
    /\ rows \in [Counters -> Cadence]
    /\ seen = Nothing
    /\ polled = Nothing
    /\ stopped = FALSE

Edit ==
    /\ rows' \in [Counters -> Cadence]
    /\ UNCHANGED <<seen, polled, stopped>>

Look ==
    /\ seen' = rows
    /\ UNCHANGED <<rows, polled, stopped>>

Follow ==
    /\ polled' = IF stopped THEN Nothing ELSE seen
    /\ UNCHANGED <<rows, seen, stopped>>

Stop ==
    /\ stopped' = TRUE
    /\ polled' = Nothing
    /\ UNCHANGED <<rows, seen>>

Next == Edit \/ Look \/ Follow \/ Stop

Spec == Init /\ [][Next]_vars

=============================================================================
