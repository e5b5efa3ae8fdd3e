------------------------------- MODULE MCLive -------------------------------
(***************************************************************************)
(* The live loop with the rebuild script and a reader, for TLC: at most    *)
(* MaxDisturbances restarts of the worker, runs of the script and replies  *)
(* together, and with one of the latter two at most BesideSales sales.     *)
(***************************************************************************)
EXTENDS HistoryReader

CONSTANTS MaxDisturbances, BesideSales

Beside == rebuild'.runs + reply'.replies

MCNext ==
    /\ ReaderNext
    /\ faults' + Beside <= MaxDisturbances
    /\ Beside > 0 => n' <= BesideSales

MCSpec == ReaderInit /\ [][MCNext]_readerVars

=============================================================================
