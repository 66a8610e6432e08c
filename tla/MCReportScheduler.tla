--------------------------- MODULE MCReportScheduler ---------------------------
(* Instances of ReportScheduler for TLC; a day has five minutes.            *)
EXTENDS ReportScheduler

MCSchedules == {Off, Every(2), Daily(1), Daily(3)}
MCDaily == {Daily(3)}
MCHourly == Every(2)
MCOff == Off
MCNever == {None}

=============================================================================
