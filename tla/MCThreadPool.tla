---------------------------- MODULE MCThreadPool ----------------------------
(* Values of ThreadPool's constants for TLC.                               *)
EXTENDS ThreadPool

CONSTANTS p1, p2

MCProducer == {p1, p2}
\* Producers call run, and tasks do.
MCAllSubmit == MCProducer \cup Worker
=============================================================================
