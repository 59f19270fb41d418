-------------------------- MODULE MCExecutionQueue --------------------------
(* Model values and bounds for TLC; see the .cfg files. *)
EXTENDS ExecutionQueue, TLC

\* Devices are interchangeable, and so are the processors of an Issue.
Interchangeable == Permutations(Device) \cup Permutations(Processor)
=============================================================================
