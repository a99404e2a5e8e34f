-------------------------- MODULE MCExperimentLoop --------------------------
(* One Run of one Experiment, of one or two invocations. *)
EXTENDS ExperimentLoop

Some(wakes, faults, recoveries, stops, restarts) ==
    [wakes |-> wakes, faults |-> faults, recoveries |-> recoveries, stops |-> stops, restarts |-> restarts]

Bounds == {Some(1, 1, 0, 1, 0), Some(0, 1, 1, 0, 0), Some(1, 0, 0, 1, 1), Some(0, 0, 1, 1, 1), Some(0, 1, 0, 0, 1)}
=============================================================================
