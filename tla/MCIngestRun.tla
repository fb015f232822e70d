---------------------------- MODULE MCIngestRun ----------------------------
(* IngestRun on small hosts: one log file, one collectinfo file and up to   *)
(* three lives of the process.                                              *)
EXTENDS IngestRun

\* Nothing ever fails.
Calm == [lines |-> 1, boots |-> 3, service |-> TRUE, wal |-> FALSE, async |-> FALSE,
         upgrade |-> FALSE, prepFails |-> FALSE, storeFails |-> FALSE,
         readFails |-> FALSE, canCrash |-> FALSE, canStop |-> TRUE]

\* The service without WAL, crashing and failing at any point: in two lives of a
\* host with two lines, or in three of one with a line.
Rough == [Calm EXCEPT !.lines = 2, !.boots = 2, !.async = TRUE, !.prepFails = TRUE,
                      !.storeFails = TRUE, !.readFails = TRUE, !.canCrash = TRUE]
RoughAgain == [Rough EXCEPT !.lines = 1, !.boots = 3]

\* The command with WAL, killed at any point, on a file longer than the scanner's
\* look-ahead.
Logged == [Calm EXCEPT !.lines = 3, !.boots = 2, !.service = FALSE, !.wal = TRUE,
                       !.canCrash = TRUE, !.canStop = FALSE]

\* The command on a store of the previous version, stopped but not killed.
Upgraded == [Calm EXCEPT !.lines = 2, !.service = FALSE, !.upgrade = TRUE]

\* The service without WAL, killed while nothing else goes wrong.
Killed == [Calm EXCEPT !.canCrash = TRUE]

\* The same service on files it cannot read and a store that refuses batches.
Flaky == [Killed EXCEPT !.boots = 2, !.async = TRUE, !.readFails = TRUE, !.storeFails = TRUE]

AllModes    == {Rough, RoughAgain, Logged, Upgraded, Killed, Flaky}
CalmModes    == {Calm}
LoggedModes  == {Logged}
=============================================================================
