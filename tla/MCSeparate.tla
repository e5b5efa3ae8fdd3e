----------------------------- MODULE MCSeparate -----------------------------
(***************************************************************************)
(* CraftAnalysis, FairPrice and CollectionQueues as one instance for TLC.  *)
(* They share nothing they write, so each is explored while the other ones *)
(* are in an initial state.  The queues see at most one disturbance, be it *)
(* a change of status, a restart or a failure of what is not broken.       *)
(***************************************************************************)
EXTENDS CraftAnalysis, FairPrice, CollectionQueues

Needs(item, amount) == [item |-> item, amount |-> amount]

RecipeFor(result, output, ingredients) ==
    [result |-> result, output |-> output, ingredients |-> ingredients, disabled |-> FALSE]

\* pea and soup are made of raw, which is bought; pie of both.
MCItems == {"raw", "pea", "soup", "pie"}

PeaOfRaw   == RecipeFor("pea", 2, <<Needs("raw", 2)>>)
PeaOfSoup  == RecipeFor("pea", 1, <<Needs("soup", 1)>>)
SoupOfPea  == RecipeFor("soup", 1, <<Needs("pea", 2)>>)
SoupOfRaw  == RecipeFor("soup", 1, <<Needs("raw", 1), Needs("pea", 1)>>)
SoupOfPie  == RecipeFor("soup", 2, <<Needs("pie", 1)>>)
PieOfBoth  == RecipeFor("pie", 1, <<Needs("soup", 1), Needs("pea", 2)>>)
RawOfPea   == [RecipeFor("raw", 1, <<Needs("pea", 1)>>) EXCEPT !.disabled = TRUE]

\* Without cycles, with a cycle of two, with one of three beside items without
\* any, in several orders.
MCRecipeBooks ==
    {<<PeaOfRaw, SoupOfPea, SoupOfRaw, PieOfBoth, RawOfPea>>,
     <<PieOfBoth, SoupOfRaw, SoupOfPea, PeaOfRaw>>,
     <<SoupOfPea, PeaOfSoup, PeaOfRaw, PieOfBoth>>,
     <<PieOfBoth, SoupOfPie, SoupOfPea, PeaOfRaw>>,
     <<PeaOfSoup, SoupOfPie, PieOfBoth, SoupOfRaw>>}

\* Multiples of 16, which can be halved once for each item.
MCPriceLists == {p \in [MCItems -> {NoPrice, 64, 192}] : p["pie"] # 64}
MCUnits == [n \in 0 .. Cardinality(MCItems) |-> 2 ^ (Cardinality(MCItems) - n)]

\* Two variants of one item, and another item.
MCVariants == {<<"art", 1>>, <<"art", 2>>, <<"gun", 0>>}
MCItemOf(v) == v[1]

QueuesRest == QueuesInit /\ \A i \in QueuedItem : ~Collected(i)
RequestsRest == CraftInit /\ FairInit

Init == RequestsRest /\ QueuesInit

Next ==
    \/ QueuesRest /\ FairInit /\ CraftNext /\ UNCHANGED <<fairVars, queueVars>>
    \/ QueuesRest /\ CraftInit /\ FairNext /\ UNCHANGED <<craftVars, queueVars>>
    \/ /\ RequestsRest /\ QueuesNext /\ statusChanges' + queueFaults' <= 1
       /\ UNCHANGED <<craftVars, fairVars>>

Spec == Init /\ [][Next]_<<craftVars, fairVars, queueVars>> /\ QueuesFairness

TypeOK == CraftTypeOK /\ FairTypeOK /\ QueuesTypeOK

=============================================================================
