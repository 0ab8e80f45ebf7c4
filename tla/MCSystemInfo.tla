--------------------------- MODULE MCSystemInfo ---------------------------
(* Values for SystemInfo's constants: a program without resident memory, as *)
(* a kernel thread, and one with several threads.                           *)
EXTENDS SystemInfo

CONSTANTS kthread, server

MCThreads == [program \in Program |-> IF program = server THEN 2 ELSE 1]
MCRss == [program \in Program |-> IF program = server THEN 3 ELSE 0]
MCAtStart == {[p \in Pid |-> IF p = 1 THEN kthread ELSE other] : other \in Program \cup {None}}
MCOutOfRange == -half
=============================================================================
