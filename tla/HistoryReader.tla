--------------------------- MODULE HistoryReader ---------------------------
(***************************************************************************)
(* A request for the history of the item (read_history in                  *)
(* app/modules/history/service.py, resolution=auto, over all time), beside *)
(* the worker and the rebuild script.                                      *)
(*                                                                         *)
(* The reply is put together from four queries at READ COMMITTED: each     *)
(* sees the tables as they are when it is run, and the boundaries are those *)
(* of the moment the request came in.  Filters, points and statistics are  *)
(* left out: a reply is the number of times it includes each sale.         *)
(***************************************************************************)
EXTENDS AggregateRebuild

CONSTANT MaxReplies  \* bound of the model: requests in all

ASSUME RepliesAssumption == MaxReplies \in Nat

VARIABLE reply  \* part: the query to run next; at: its clock; seen: the points so far

readerVars == <<rebuildVars, reply>>

Answering == reply.part # "none"

\* A slip: the raw rows are read before the 20-minute rows they turn into.
RawBeforeTwenty ==
    [day |-> "hour", hour |-> "raw", raw |-> "twenty", twenty |-> "reply"]

\* The order of the queries.
PartAfter == [day |-> "hour", hour |-> "twenty", twenty |-> "raw", raw |-> "reply"]

\* How often a query finds sale s in the rows of its part of the time.
FoundIn(part, s) ==
    LET rb == RawBoundary(reply.at)
        hb == HourlyBoundary(reply.at)
    IN  CASE part = "day"    -> IF DayStart(sold[s]) < hb THEN day[s] ELSE 0
          [] part = "hour"   -> IF hb <= HourStart(sold[s]) /\ HourStart(sold[s]) < rb
                                THEN hour[s] ELSE 0
          [] part = "twenty" -> IF rb <= sold[s] THEN twenty[s] ELSE 0
          [] part = "raw"    -> IF rb <= sold[s] /\ s \in raw THEN 1 ELSE 0

NoReply(replies) == [part |-> "none", at |-> 0, seen |-> NoRows, replies |-> replies]

OpenHistory ==
    /\ ~Answering /\ reply.replies < MaxReplies
    /\ reply' = [part |-> "day", at |-> now, seen |-> NoRows, replies |-> reply.replies + 1]
    /\ UNCHANGED rebuildVars

Query ==
    /\ Answering /\ reply.part # "reply"
    /\ reply' = [reply EXCEPT !.part = PartAfter[@],
                              !.seen = [s \in Sale |-> @[s] + FoundIn(reply.part, s)]]
    /\ UNCHANGED rebuildVars

\* The points are sorted and returned.
Reply ==
    /\ reply.part = "reply"
    /\ reply' = NoReply(reply.replies)
    /\ UNCHANGED rebuildVars

\* A request takes less than an hour.
InTime == Answering => now' - reply.at < SlotsPerHour

ReaderNext ==
    \/ RebuildNext /\ InTime /\ UNCHANGED reply
    \/ OpenHistory \/ Query \/ Reply

ReaderInit == RebuildInit /\ reply = NoReply(0)
ReaderSpec == ReaderInit /\ [][ReaderNext]_readerVars

-----------------------------------------------------------------------------
(* Properties. *)

\* A reply includes no sale twice, although between two of its queries polls save,
\* compaction moves rows from hours to days and from raw rows to 20-minute rows,
\* and the script rewrites hours: each query reads where rows go before the next
\* reads where they come from.
ReplyShowsOnce == \A s \in Sale : reply.seen[s] <= 1

=============================================================================
