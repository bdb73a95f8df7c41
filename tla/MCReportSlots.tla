--------------------------- MODULE MCReportSlots ---------------------------
(* Instances of ReportSlots for TLC.                                       *)
EXTENDS ReportSlots, TLC

CONSTANTS p1, p2, p3, earlier

TwoProcesses == {p1, p2}
ThreeProcesses == {p1, p2, p3}

FirstSecond == {1}
TwoSeconds == {1, 2}

AllFaults == {"exception", "interrupt", "crash"}
OnlyExceptions == {"exception"}
NoInterrupt == {"exception", "crash"}

Nothing == {}

(* Left by an interrupted process, or put there.                           *)
Interrupted == {<<1, "json">>, <<1, "marker">>, <<1, "jsonTmp">>,
                <<1, "mdTmp">>}

(* Left by a process that published or was killed.                         *)
Killed == {<<1, "json">>, <<1, "lock">>}
=============================================================================
