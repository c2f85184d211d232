------------------------------- MODULE MCChat -------------------------------
(* TLC instance of Chat. *)
EXTENDS Chat, TLC

MCCoros  == AllCoros
MCQueues == AllQueues
MCExecs  == 0 .. WorkerN - 1

\* The message of a helper can be sent in part.
MCUnits == [c \in Coros |-> IF c[1] = "helper" THEN 2 ELSE 1]
=============================================================================
