---------------------------- MODULE CraftAnalysis ----------------------------
(***************************************************************************)
(* The craft analysis of app/modules/crafting/service.py: what it costs to *)
(* obtain an item, bought or crafted, for all recipes of the hideout; the  *)
(* runs it saves; the request that reads the latest one.                   *)
(*                                                                         *)
(* The costs are computed by a recursion over the recipes with a cache for *)
(* the whole run and a stack against cycles.  An item met on the stack is  *)
(* bought, and whatever is computed with that stays in the cache.          *)
(*                                                                         *)
(* Prices are integers in a unit so small that the divisions by the        *)
(* outputs of the recipes leave no remainder.                              *)
(***************************************************************************)
EXTENDS Integers, Sequences, SequencesExt, FiniteSets, FiniteSetsExt

CONSTANTS
    Items,           \* items that recipes make or use
    RecipeBooks,     \* what the recipe file may hold: sequences of recipes
    PriceLists,      \* what the hourly rows may say: a price or NoPrice by item
    Units,           \* what costs are multiples of, by the number of nested crafts
    MinMargin,       \* craft_analysis_min_margin_percent
    KeepRuns,        \* craft_analysis_keep_runs
    MaxCraftFaults   \* bound of the model: failed analyses

\* prices.get(item) is None, a cost is None.
NoPrice == -1

Recipe == [result : Items, output : Nat \ {0}, disabled : BOOLEAN,
           ingredients : Seq([item : Items, amount : Nat \ {0}])]

ASSUME CraftAssumption ==
    /\ RecipeBooks \subseteq Seq(Recipe)
    /\ PriceLists \subseteq [Items -> Nat \cup {NoPrice}]
    /\ IsFiniteSet(Items)
    /\ MinMargin \in Nat /\ KeepRuns \in Nat \ {0} /\ MaxCraftFaults \in Nat

\* Divisions leave no remainder: a price is a multiple of the first unit, and a
\* unit is one of the next unit times any output.
ASSUME UnitsAssumption ==
    /\ Units \in [0 .. Cardinality(Items) -> Nat \ {0}]
    /\ \A price \in PriceLists : \A i \in Items : price[i] # NoPrice => price[i] % Units[0] = 0
    /\ \A n \in 1 .. Cardinality(Items) : \A book \in RecipeBooks : \A k \in DOMAIN book :
        Units[n - 1] % (book[k].output * Units[n]) = 0

VARIABLES
    analysis,    \* the run in flight: phase, recipes, prices, cost_cache, the recipe
                 \* that is analyzed next, results
    calls,       \* its calls: the recipe being analyzed and, above it, the calls
                 \* of _optimal_cost that have not returned
    savedRuns,   \* craft_analysis_runs, newest first: the results each promises
                 \* (recipes_count) and all of which it was saved with
    reader,      \* a request of GET /analysis/latest between its two SELECTs
    craftFaults

craftVars == <<analysis, calls, savedRuns, reader, craftFaults>>
tables == <<savedRuns, reader, craftFaults>>

\* No entry of cost_cache, and no recipe.
NotCached == [chosen |-> NoPrice, output |-> 0, plan |-> <<>>, decision |-> "none"]
NoRecipe == 0

IdleAnalysis == [phase |-> "idle", book |-> <<>>, price |-> <<>>,
                 cache |-> [i \in Items |-> NotCached], recipe |-> NoRecipe, results |-> <<>>]
IdleReader == [at |-> 0, promised |-> 0]

-----------------------------------------------------------------------------
(* CraftAnalyzer *)

\* The recipes of a book that are not disabled, by their places in it.
Enabled(book) == {k \in DOMAIN book : ~book[k].disabled}

\* recipes_by_result
Makers(book, i) == {k \in Enabled(book) : book[k].result = i}
RecipesOf(i) == Makers(analysis.book, i)

\* The next one of some recipes, in the order of the book.
After(recipes, k) ==
    LET later == {j \in recipes : k < j}
    IN  IF later = {} THEN NoRecipe ELSE Min(later)

\* A call: the item whose cost is sought, the recipe that is tried, the next
\* ingredient of it, the cost of those before it, their cost when all are bought,
\* and the best recipe so far.
NoRecipeYet == [cost |-> NoPrice, output |-> 0, plan |-> <<>>]
CallOf(i, recipe) ==
    [item |-> i, recipe |-> recipe, next |-> 1, sum |-> 0, direct |-> 0, best |-> NoRecipeYet]

Call == Last(calls)
TheRecipe == analysis.book[Call.recipe]
Finished == Call.next > Len(TheRecipe.ingredients)

\* The call at the bottom is that of analyze_recipe, whose item is not on the
\* stack.
AtTop == Len(calls) = 1
OnStack == {calls[k].item : k \in 2 .. Len(calls)}

\* A slip: an ingredient without a price is passed over.
PlusIfPriced(total, price, amount) == IF price = NoPrice THEN total ELSE total + price * amount

\* A cost is None as soon as one ingredient has none.
Plus(total, price, amount) ==
    IF NoPrice \in {total, price} THEN NoPrice ELSE total + price * amount

PerUnit(total, r) == IF total = NoPrice THEN NoPrice ELSE total \div r.output

\* What is decided for an item on the stack.
Bought(i) ==
    [chosen |-> analysis.price[i], output |-> 0, plan |-> <<>>,
     decision |-> IF analysis.price[i] = NoPrice THEN "unavailable" ELSE "buy"]

Cached == {i \in Items : analysis.cache[i] # NotCached}

\* What _optimal_cost returns at once.
HasAnswer(i) == i \in Cached \cup OnStack
Answer(i) == IF i \in Cached THEN analysis.cache[i] ELSE Bought(i)

\* A slip: what can be crafted is crafted.
CraftIfPossible(market, craft) == market # NoPrice /\ craft = NoPrice

Buys(market, craft) == market # NoPrice /\ (craft = NoPrice \/ market <= craft)

\* The decision for an item, given its best recipe.
Decide(i, best) ==
    IF Buys(analysis.price[i], best.cost) \/ best.cost = NoPrice
    THEN Bought(i)
    ELSE [chosen |-> best.cost, output |-> best.output, plan |-> best.plan,
          decision |-> "craft"]

\* A slip: the first recipe with a cost is taken.
FirstWithCost(cost, best) == cost # NoPrice /\ best = NoPrice

Improves(cost, best) == cost # NoPrice /\ (best = NoPrice \/ cost < best)

\* _ingredient_decisions, when every ingredient has its answer.
Decisions(r) ==
    [k \in DOMAIN r.ingredients |-> [amount |-> r.ingredients[k].amount,
                                     made |-> Answer(r.ingredients[k].item)]]

\* A slip: the decisions shown stay those of the first recipe with a cost.
PlanOfFirst(best, r) == IF best.cost = NoPrice THEN Decisions(r) ELSE best.plan

PlanOf(best, r) == Decisions(r)

\* analyze_recipe, given the cost with chosen ingredients and with bought ones.
Analyzed(r, cost, direct) ==
    LET sell == analysis.price[r.result]
        ok == sell # NoPrice /\ cost > 0
        profitable == ok /\ (sell - cost) * 100 >= MinMargin * cost
    IN  [cost |-> cost, direct |-> direct, plan |-> Decisions(r),
         recommendation |-> IF ~ok THEN "no_price" ELSE IF profitable THEN "craft" ELSE "skip",
         status |-> IF ok THEN "ok"
                    ELSE IF cost = NoPrice THEN "missing_ingredient_price"
                    ELSE "missing_price"]

-----------------------------------------------------------------------------
(* The task of the worker: run_craft_analysis, one call or return at a time. *)

\* The recipes and the prices of this moment are read; the disabled recipes are
\* left out.
BeginAnalysis ==
    /\ analysis.phase = "idle"
    /\ \E book \in RecipeBooks, price \in PriceLists :
        analysis' = [IdleAnalysis EXCEPT
                       !.phase = "analyzing",
                       !.book = book,
                       !.price = price,
                       !.recipe = After(Enabled(book), 0)]
    /\ UNCHANGED <<calls, tables>>

AnalyzeRecipe ==
    /\ analysis.phase = "analyzing" /\ calls = <<>>
    /\ analysis.recipe # NoRecipe
    /\ calls' = <<CallOf(analysis.book[analysis.recipe].result, analysis.recipe)>>
    /\ UNCHANGED <<analysis, tables>>

\* The loops of _recipe_unit_cost and _ingredient_decisions go over the same
\* ingredients with the same stack.  Above analyze_recipe the first one ends at an
\* ingredient without a cost; analyze_recipe asks for the others' too, for its
\* decisions and for the cost with bought ingredients only.
WantsIngredient ==
    /\ calls # <<>> /\ Call.recipe # NoRecipe /\ ~Finished
    /\ Call.sum # NoPrice \/ AtTop

Ingredient == TheRecipe.ingredients[Call.next]

AddIngredient ==
    /\ WantsIngredient /\ HasAnswer(Ingredient.item)
    /\ calls' = [calls EXCEPT ![Len(calls)] =
                    [Call EXCEPT !.next = @ + 1,
                                 !.sum = Plus(@, Answer(Ingredient.item).chosen,
                                              Ingredient.amount),
                                 !.direct = Plus(@, analysis.price[Ingredient.item],
                                                 Ingredient.amount)]]
    /\ UNCHANGED <<analysis, tables>>

CallOptimalCost ==
    /\ WantsIngredient /\ ~HasAnswer(Ingredient.item)
    /\ calls' = Append(calls, CallOf(Ingredient.item,
                                      After(RecipesOf(Ingredient.item), 0)))
    /\ UNCHANGED <<analysis, tables>>

\* A recipe of _optimal_cost has its cost, or none: it is the best so far or not.
EndRecipe ==
    /\ calls # <<>> /\ ~AtTop /\ Call.recipe # NoRecipe /\ ~WantsIngredient
    /\ LET cost == PerUnit(Call.sum, TheRecipe)
           best == IF Improves(cost, Call.best.cost)
                   THEN [cost |-> cost, output |-> TheRecipe.output,
                         plan |-> PlanOf(Call.best, TheRecipe)]
                   ELSE Call.best
       IN  calls' = [calls EXCEPT ![Len(calls)] =
                        [CallOf(Call.item, After(RecipesOf(Call.item), Call.recipe))
                         EXCEPT !.best = best]]
    /\ UNCHANGED <<analysis, tables>>

\* _optimal_cost caches its decision and returns.
Return ==
    /\ calls # <<>> /\ Call.recipe = NoRecipe
    /\ analysis' = [analysis EXCEPT !.cache[Call.item] = Decide(Call.item, Call.best)]
    /\ calls' = Front(calls)
    /\ UNCHANGED tables

EndAnalyzeRecipe ==
    /\ calls # <<>> /\ AtTop /\ Finished
    /\ analysis' = [analysis EXCEPT
                       !.recipe = After(Enabled(analysis.book), @),
                       !.results = Append(@, Analyzed(TheRecipe, PerUnit(Call.sum, TheRecipe),
                                                      PerUnit(Call.direct, TheRecipe)))]
    /\ calls' = <<>>
    /\ UNCHANGED tables

\* save_analysis: the run and its results in one transaction.
SaveAnalysis ==
    /\ analysis.phase = "analyzing" /\ calls = <<>>
    /\ analysis.recipe = NoRecipe
    /\ reader.at <= KeepRuns         \* bound of the model
    /\ savedRuns' = <<Len(analysis.results)>> \o savedRuns
    /\ reader' = IF reader.at = 0 THEN reader ELSE [reader EXCEPT !.at = @ + 1]
    /\ analysis' = [IdleAnalysis EXCEPT !.phase = "pruning"]
    /\ UNCHANGED <<calls, craftFaults>>

\* A slip: one run less is kept.
KeptButOne == SubSeq(savedRuns, 1, KeepRuns - 1)

\* A slip: all runs are kept.
KeptAll == savedRuns

Kept == SubSeq(savedRuns, 1, IF Len(savedRuns) < KeepRuns THEN Len(savedRuns) ELSE KeepRuns)

\* prune_old_analysis_runs, a transaction of its own.
PruneRuns ==
    /\ analysis.phase = "pruning"
    /\ savedRuns' = Kept
    /\ analysis' = IdleAnalysis
    /\ UNCHANGED <<calls, reader, craftFaults>>

\* An exception, which _run_craft_analysis logs, or a restart of the worker.
FailAnalysis ==
    /\ analysis.phase # "idle"
    /\ craftFaults < MaxCraftFaults
    /\ craftFaults' = craftFaults + 1
    /\ analysis' = IdleAnalysis /\ calls' = <<>>
    /\ UNCHANGED <<savedRuns, reader>>

-----------------------------------------------------------------------------
(* The request: read_latest_analysis. *)

\* The first SELECT: the latest run.
OpenLatest ==
    /\ reader = IdleReader
    /\ savedRuns # <<>>
    /\ reader' = [at |-> 1, promised |-> savedRuns[1]]
    /\ UNCHANGED <<analysis, calls, savedRuns, craftFaults>>

\* The results of the run the reader has loaded; the foreign key deletes them
\* with their run.
ResultsFound == IF reader.at <= Len(savedRuns) THEN savedRuns[reader.at] ELSE 0

\* The second SELECT and the reply.
ReplyLatest ==
    /\ reader # IdleReader
    /\ reader' = IdleReader
    /\ UNCHANGED <<analysis, calls, savedRuns, craftFaults>>

-----------------------------------------------------------------------------
(* Specification. *)

CraftInit ==
    /\ analysis = IdleAnalysis /\ calls = <<>>
    /\ savedRuns = <<>>
    /\ reader = IdleReader
    /\ craftFaults = 0

CraftNext ==
    \/ BeginAnalysis \/ AnalyzeRecipe
    \/ AddIngredient \/ CallOptimalCost \/ EndRecipe \/ Return
    \/ EndAnalyzeRecipe \/ SaveAnalysis \/ PruneRuns \/ FailAnalysis
    \/ OpenLatest \/ ReplyLatest

CraftSpec == CraftInit /\ [][CraftNext]_craftVars

-----------------------------------------------------------------------------
(* Reference definitions: costs by rounds instead of by recursion. *)

\* The least of a set of costs, where NoPrice is more than any.
LeastOf(costs) ==
    IF costs \subseteq {NoPrice} THEN NoPrice
    ELSE CHOOSE c \in costs \ {NoPrice} : \A d \in costs \ {NoPrice} : c <= d

\* The sums of the first elements of a sequence of numbers, and of all of them.
Sums(s) ==
    LET upTo[k \in {0} \cup DOMAIN s] == IF k = 0 THEN 0 ELSE upTo[k - 1] + s[k]
    IN  upTo

Total(s) == Sums(s)[Len(s)]

\* What the ingredients of a recipe and the recipe per unit cost if items cost
\* so much.
Worths(r, cost) ==
    [k \in DOMAIN r.ingredients |-> cost[r.ingredients[k].item] * r.ingredients[k].amount]

CostAt(r, cost) ==
    IF \E k \in DOMAIN r.ingredients : cost[r.ingredients[k].item] = NoPrice THEN NoPrice
    ELSE Total(Worths(r, cost)) \div r.output

\* What an item costs bought and by each of its recipes.
Ways(i, book, price, cost) == {price[i]} \cup {CostAt(book[j], cost) : j \in Makers(book, i)}

\* The least cost of each item with at most k crafts nested in each other.
NestedCosts(book, price) ==
    LET nested[k \in Nat] ==
            IF k = 0 THEN price
            ELSE LET inner == nested[k - 1]
                 IN  [i \in Items |-> LeastOf(Ways(i, book, price, inner))]
    IN  nested

LeastCost == NestedCosts(analysis.book, analysis.price)[Cardinality(Items)]

\* The items from which no cycle of recipes can be reached: after k rounds, those
\* whose recipes only use such items.
GroundedIn(book) ==
    LET grounded[k \in Nat] ==
            IF k = 0 THEN {}
            ELSE LET inner == grounded[k - 1]
                 IN  {i \in Items : \A j \in Makers(book, i) :
                        \A g \in DOMAIN book[j].ingredients : book[j].ingredients[g].item \in inner}
    IN  grounded

Grounded == GroundedIn(analysis.book)[Cardinality(Items)]

-----------------------------------------------------------------------------
(* Properties. *)

Costs == Nat \cup {NoPrice}

\* The kinds of value the variables hold; the table of runs holds no more than
\* KeepRuns, the latest, and one for each analysis that failed before pruning.
CraftTypeOK ==
    /\ analysis.phase \in {"idle", "analyzing", "pruning"}
    /\ \A i \in Items : analysis.cache[i].chosen \in Costs
    /\ \A k \in DOMAIN analysis.results :
        {analysis.results[k].cost, analysis.results[k].direct} \subseteq Costs
    /\ savedRuns \in Seq(Nat) /\ Len(savedRuns) <= KeepRuns + 1 + craftFaults
    /\ reader \in [at : 0 .. KeepRuns + 1, promised : Nat]
    /\ craftFaults \in 0 .. MaxCraftFaults

\* No cost is too low: what _optimal_cost has cached for an item is at least what
\* the cheapest way to buy or craft it takes, and an item it can get at all has
\* such a way, whatever was on the stack when it was computed.
NeverTooCheap ==
    LET least == LeastCost
    IN  \A i \in Cached :
            analysis.cache[i].chosen # NoPrice =>
                least[i] # NoPrice /\ analysis.cache[i].chosen >= least[i]

\* A cost is the least one, to the digit, for every item from which no cycle of
\* recipes can be reached, although cycles elsewhere in the book may have been
\* evaluated before and have left their mark in the cache.
ExactWithoutCycles ==
    LET least == LeastCost
    IN  \A i \in Cached \cap Grounded : analysis.cache[i].chosen = least[i]

\* Crafting with chosen ingredients never costs more than with bought ones, with
\* cycles too (service.py analyze_recipe reports both costs).
NeverDearerThanBuying ==
    \A k \in DOMAIN analysis.results :
        LET result == analysis.results[k]
        IN  result.direct # NoPrice => result.cost # NoPrice /\ result.cost <= result.direct

\* The decisions k levels below those in the cache.
DecisionsAt[k \in Nat] ==
    IF k = 0 THEN {analysis.cache[i] : i \in Cached}
    ELSE UNION {{d.plan[j].made : j \in DOMAIN d.plan} : d \in DecisionsAt[k - 1]}

AddsUp(d) ==
    d.decision = "craft" =>
        d.chosen * d.output = Total([k \in DOMAIN d.plan |-> d.plan[k].made.chosen * d.plan[k].amount])

\* The plan shown costs what it says: in the tree of decisions below a crafted
\* item the ingredients add up to the price at every level, although the tree is
\* put together from entries cached at different times and from second visits
\* (service.py _ingredient_decisions after _recipe_unit_cost).
PlanAddsUp == \A k \in 0 .. Cardinality(Items) : \A d \in DecisionsAt[k] : AddsUp(d)

\* A reply holds all the results its run promises or none at all, and it is left
\* without only if KeepRuns newer runs were saved between its two SELECTs
\* (service.py read_latest_analysis beside prune_old_analysis_runs).
ReplyHoldsItsResults ==
    reader # IdleReader =>
        \/ ResultsFound = reader.promised
        \/ ResultsFound = 0 /\ reader.at > KeepRuns

=============================================================================
