--------------------------- MODULE MCPollSchedule ---------------------------
(***************************************************************************)
(* The instance of PollSchedule for TLC: only item 1 may be AUTO.  The     *)
(* other items have explicit statuses and compete with it for the queue.   *)
(***************************************************************************)
EXTENDS PollSchedule

Rivals == Item \ {1}

MCInit == Init /\ \A i \in Rivals : file[i] # AUTO
MCNext == Next /\ \A i \in Rivals : file'[i] # AUTO
MCFairSpec == MCInit /\ [][MCNext]_vars /\ Fairness

=============================================================================
