------------------------------- MODULE MCOutbox -------------------------------
(* Finite values for the constants of Outbox.                               *)
EXTENDS Outbox

\* All messages share one partition.
OnePartition == [m \in Msg |-> CHOOSE p \in Partition : TRUE]
=============================================================================
