------------------------------ MODULE FairPrice ------------------------------
(***************************************************************************)
(* The fair prices of app/modules/market/service.py, by which a request    *)
(* finds cheap lots: the lots of a variant of an item (its quality and     *)
(* additional data) are compared with its sales in the shortest of three   *)
(* periods that has enough of them, or with the sales of the whole item.   *)
(*                                                                         *)
(* Each period is a query of its own.  Between them the worker adds hourly *)
(* rows, replaces and deletes them.                                        *)
(***************************************************************************)
EXTENDS Integers, FiniteSets, FiniteSetsExt

CONSTANTS
    Variants, ItemOf(_),  \* what the lots on sale are, and of which items
    MinSales,             \* min_sales_count
    MaxSold,              \* bound of the model: sales of a variant in the hourly rows
    MaxRowChanges         \* bound of the model: changes during a request

ASSUME FairAssumption ==
    IsFiniteSet(Variants) /\ MinSales \in Nat \ {0} /\ MaxSold \in Nat /\ MaxRowChanges \in Nat

VARIABLES
    hourly,      \* hourly[v][p]: sales of v in the hourly rows of period p
    request,     \* a request in flight
    rowChanges

fairVars == <<hourly, request, rowChanges>>

\* PERIOD_HOURS: a day, a week, a month.
Period == 1 .. 3

\* No period has had enough sales.
Unpriced == 0

ItemsOf(variants) == {ItemOf(v) : v \in variants}

NoHourly == [v \in Variants |-> [p \in Period |-> 0]]

\* A longer period includes the shorter ones.
Windows == {w \in [Period -> 0 .. MaxSold] : w[1] <= w[2] /\ w[2] <= w[3]}

\* The sales of an item, counted over its variants.
SoldOf(i, sales) ==
    Cardinality({x \in Variants \X (1 .. MaxSold) : ItemOf(x[1]) = i /\ x[2] <= sales[x[1]]})

IdleRequest ==
    [period |-> 0, wanted |-> {}, remainingExact |-> {}, remainingItems |-> {},
     exact |-> [v \in Variants |-> Unpriced],
     fallback |-> [i \in ItemsOf(Variants) |-> Unpriced],
     seen |-> [p \in Period |-> [v \in Variants |-> 0]]]

-----------------------------------------------------------------------------
\* The rows change: the worker adds, replaces, compacts or prunes.
ChangeRows ==
    /\ request.period > 0
    /\ rowChanges < MaxRowChanges
    /\ rowChanges' = rowChanges + 1
    /\ \E v \in Variants : \E window \in Windows \ {hourly[v]} :
        hourly' = [hourly EXCEPT ![v] = window]
    /\ UNCHANGED request

\* read_cheap_lots has the active lots; no lots is a reply at once.  The hourly
\* rows are whatever the worker has left there.
OpenRequest ==
    /\ request.period = 0
    /\ \E wanted \in SUBSET Variants \ {{}} :
        request' = [IdleRequest EXCEPT !.period = 1, !.wanted = wanted,
                                       !.remainingExact = wanted,
                                       !.remainingItems = ItemsOf(wanted)]
    /\ hourly' \in [Variants -> Windows]
    /\ rowChanges' = 0

\* The query of a period is about the items that have no price yet.
SoldInPeriod ==
    [v \in Variants |-> IF ItemOf(v) \in request.remainingItems
                        THEN hourly[v][request.period] ELSE 0]

ExactSettled(v) == v \in request.remainingExact /\ SoldInPeriod[v] >= MinSales

ItemSettled(i) == i \in request.remainingItems /\ SoldOf(i, SoldInPeriod) >= MinSales

\* A slip: an item stays in the queries and its price is overwritten.
KeepsItems(items) == items

\* Items that now have a price leave the queries.
RemainingItems(items) == {i \in items : ~ItemSettled(i)}

\* One round of the loop of _read_fair_prices.
ReadPeriod ==
    /\ request.period \in Period
    /\ request.remainingExact # {} \/ request.remainingItems # {}
    /\ request' = [request EXCEPT
          !.period = @ + 1,
          !.remainingExact = {v \in @ : ~ExactSettled(v)},
          !.remainingItems = RemainingItems(@),
          !.exact = [v \in Variants |-> IF ExactSettled(v) THEN request.period ELSE @[v]],
          !.fallback = [i \in ItemsOf(Variants) |->
                           IF ItemSettled(i) THEN request.period ELSE @[i]],
          !.seen[request.period] = SoldInPeriod]
    /\ UNCHANGED <<hourly, rowChanges>>

\* The loop is over: after the last period, or when nothing is left to price.
Priced ==
    /\ request.period > 0
    /\ request.period \notin Period
       \/ (request.remainingExact = {} /\ request.remainingItems = {})

\* read_cheap_lots compares every lot with its price and replies.
ReplyCheapLots ==
    /\ Priced
    /\ request' = IdleRequest
    /\ hourly' = NoHourly /\ rowChanges' = 0

-----------------------------------------------------------------------------
(* Specification. *)

FairInit == hourly = NoHourly /\ request = IdleRequest /\ rowChanges = 0

FairNext == ChangeRows \/ OpenRequest \/ ReadPeriod \/ ReplyCheapLots

FairPriceSpec == FairInit /\ [][FairNext]_fairVars

-----------------------------------------------------------------------------
(* Properties. *)

\* The kinds of value the variables hold.
FairTypeOK ==
    /\ hourly \in [Variants -> Windows]
    /\ request.period \in 0 .. 4
    /\ request.wanted \subseteq Variants /\ request.remainingExact \subseteq request.wanted
    /\ request.remainingItems \subseteq ItemsOf(request.wanted)
    /\ request.exact \in [Variants -> {Unpriced} \cup Period]
    /\ request.fallback \in [ItemsOf(Variants) -> {Unpriced} \cup Period]
    /\ rowChanges \in 0 .. MaxRowChanges

\* What the queries so far have seen of a variant, and of an item as a whole.
Seen(p, v) == request.seen[p][v]
SeenOfItem(p, i) == SoldOf(i, request.seen[p])

\* The first period in which the item as a whole has enough sales.
SettlingPeriod(i) ==
    LET enough == {p \in Period : p < request.period /\ SeenOfItem(p, i) >= MinSales}
    IN  IF enough = {} THEN Unpriced ELSE Min(enough)

\* The price of a lot is of one period only, the shortest in which its item has
\* enough sales, though the rows change between the queries: its own variant's
\* if that alone has enough there, else the item's (service.py read_cheap_lots
\* takes the exact price first, and the two are settled in separate loops).
PricedByShortestPeriod ==
    \A v \in request.wanted :
        LET p == SettlingPeriod(ItemOf(v))
        IN  /\ request.fallback[ItemOf(v)] = p
            /\ request.exact[v] = IF p # Unpriced /\ Seen(p, v) >= MinSales THEN p ELSE Unpriced

=============================================================================
