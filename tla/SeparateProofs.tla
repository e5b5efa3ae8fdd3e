--------------------------- MODULE SeparateProofs ---------------------------
(***************************************************************************)
(* Proofs about CraftAnalysis, FairPrice and CollectionQueues, for every   *)
(* value of their constants: recipe books, prices, lots on sale, queues.   *)
(* Each has a specification of its own; that of MCSeparate, which puts     *)
(* them side by side, implies the three.                                   *)
(***************************************************************************)
EXTENDS MCSeparate, FiniteSetTheorems, SequenceTheorems, WellFoundedInduction, TLAPS

-----------------------------------------------------------------------------
(* The least of a set of numbers. *)

\* A set of numbers that is not empty has a least element.
LEMMA LeastElement ==
    ASSUME NEW S \in SUBSET Nat, S # {}
    PROVE  Min(S) \in S /\ \A x \in S : Min(S) <= x
<1> DEFINE Below == {p \in Nat \X Nat : p[1] < p[2]}
<1>1. OpToRel(<, Nat) = Below
    BY Zenon DEF OpToRel
<1>2. IsWellFoundedOn(Below, Nat)
    BY <1>1, NatLessThanWellFounded, Zenon
<1> HIDE DEF Below
<1>3. PICK x \in S : \A y \in S : ~ (<<y, x>> \in Below)
    BY <1>2, WFMin
<1>4. ASSUME NEW y \in S, y < x  PROVE <<y, x>> \in Below
    BY <1>4 DEF Below
<1>5. ASSUME NEW y \in S  PROVE x <= y
    <2>1. ~ (y < x)
        BY <1>3, <1>4
    <2>2. x \in Nat /\ y \in Nat
        OBVIOUS
    <2> QED  BY <2>1, <2>2
<1> QED  BY <1>5 DEF Min

-----------------------------------------------------------------------------
(* Numbers one after the other, and functions by rounds. *)

\* Induction over the natural numbers, for the set of those for which it holds.
LEMMA Induction ==
    ASSUME NEW S \in SUBSET Nat, 0 \in S, \A n \in S : n + 1 \in S
    PROVE  S = Nat
<1> SUFFICES ASSUME Nat \ S # {} PROVE FALSE
    OBVIOUS
<1> DEFINE least == Min(Nat \ S)
<1>1. least \in Nat \ S /\ \A x \in Nat \ S : least <= x
    BY LeastElement
<1> HIDE DEF least
<1>2. least # 0 /\ least - 1 \in Nat /\ (least - 1) + 1 = least
    BY <1>1
<1>3. least - 1 \in S
    BY <1>1, <1>2
<1> QED  BY <1>1, <1>2, <1>3

\* A function whose values are computed in rounds, each from the one before.
ByRounds(f, v, F) == f[0] = v /\ \A k \in Nat \ {0} : f[k] = F[k][f[k - 1]]

\* There is one for any start and any rounds.
LEMMA Rounds ==
    ASSUME NEW V, NEW v \in V, NEW F \in [Nat -> [V -> V]]
    PROVE  \E f \in [Nat -> V] : ByRounds(f, v, F)
<1> DEFINE First(n) == {f \in [0 .. n -> V] : f[0] = v /\ \A k \in 1 .. n : f[k] = F[k][f[k - 1]]}
           Reached == {n \in Nat : First(n) # {}}
<1>1. Reached = Nat
    <2>1. 0 \in Reached
        <3>1. [k \in 0 .. 0 |-> v] \in First(0)
            OBVIOUS
        <3> QED  BY <3>1
    <2>2. ASSUME NEW n \in Reached  PROVE n + 1 \in Reached
        <3>1. PICK f \in First(n) : TRUE
            OBVIOUS
        <3>2. n \in Nat /\ f \in [0 .. n -> V] /\ f[0] = v /\ \A k \in 1 .. n : f[k] = F[k][f[k - 1]]
            BY <3>1
        <3> DEFINE g == [k \in 0 .. n + 1 |-> IF k <= n THEN f[k] ELSE F[n + 1][f[n]]]
        <3>3. g \in [0 .. n + 1 -> V]
            <4>1. f[n] \in V /\ F[n + 1] \in [V -> V]
                BY <3>2
            <4>2. F[n + 1][f[n]] \in V
                BY <4>1
            <4>3. ASSUME NEW k \in 0 .. n + 1  PROVE (IF k <= n THEN f[k] ELSE F[n + 1][f[n]]) \in V
                BY <3>2, <4>2
            <4> QED  BY <4>3
        <3>4. g[0] = v
            BY <3>2
        <3>5. ASSUME NEW k \in 1 .. n + 1  PROVE g[k] = F[k][g[k - 1]]
            <4>1. g[k - 1] = f[k - 1]
                BY <3>2
            <4>2. CASE k <= n
                BY <3>2, <4>1, <4>2
            <4>3. CASE k = n + 1
                BY <3>2, <4>1, <4>3
            <4> QED  BY <3>2, <4>2, <4>3
        <3> HIDE DEF g
        <3>6. g \in First(n + 1)
            BY <3>3, <3>4, <3>5
        <3> HIDE DEF First
        <3>7. First(n + 1) # {} /\ n + 1 \in Nat
            BY <3>2, <3>6
        <3> QED  BY <3>7
    <2> HIDE DEF Reached
    <2> QED  BY <2>1, <2>2, Induction DEF Reached
<1> DEFINE Agree == {k \in Nat : \A m \in Nat, n \in Nat : \A f \in First(m), g \in First(n) :
                                    k <= m /\ k <= n => f[k] = g[k]}
<1>2. Agree = Nat
    <2>1. 0 \in Agree
        OBVIOUS
    <2>2. ASSUME NEW k \in Agree  PROVE k + 1 \in Agree
        <3> HIDE DEF First
        <3> SUFFICES ASSUME NEW m \in Nat, NEW n \in Nat, NEW f \in First(m), NEW g \in First(n),
                            k + 1 <= m, k + 1 <= n
                     PROVE  f[k + 1] = g[k + 1]
            OBVIOUS
        <3> USE DEF First
        <3>1. k \in Nat /\ k <= m /\ k <= n /\ f[k] = g[k]
            <4>1. k \in Nat /\ k <= k + 1
                OBVIOUS
            <4>2. k <= m /\ k <= n
                BY <4>1
            <4> HIDE DEF First
            <4> QED  BY <4>1, <4>2
        <3>2. k + 1 \in 1 .. m /\ k + 1 \in 1 .. n /\ (k + 1) - 1 = k
            BY <3>1
        <3>3. f[k + 1] = F[k + 1][f[(k + 1) - 1]] /\ g[k + 1] = F[k + 1][g[(k + 1) - 1]]
            BY <3>2
        <3> QED  BY <3>1, <3>2, <3>3
    <2> HIDE DEF Agree
    <2> QED  BY <2>1, <2>2, Induction DEF Agree
<1> DEFINE h == [k \in Nat |-> (CHOOSE f \in First(k) : TRUE)[k]]
<1>3. ASSUME NEW k \in Nat  PROVE \E f \in First(k) : h[k] = f[k]
    <2>1. (CHOOSE f \in First(k) : TRUE) \in First(k)
        BY <1>1
    <2> QED  BY <2>1
<1> HIDE DEF h
<1>4. h \in [Nat -> V]
    <2>1. h = [k \in Nat |-> h[k]]
        BY DEF h
    <2>2. ASSUME NEW k \in Nat  PROVE h[k] \in V
        BY <1>3
    <2> QED  BY <2>1, <2>2
<1>5. h[0] = v
    BY <1>3
<1>6. ASSUME NEW k \in Nat \ {0}  PROVE h[k] = F[k][h[k - 1]]
    <2>1. PICK f \in First(k) : h[k] = f[k]
        BY <1>3
    <2>2. k - 1 \in Nat /\ k - 1 <= k /\ k - 1 <= k - 1
        OBVIOUS
    <2>3. PICK g \in First(k - 1) : h[k - 1] = g[k - 1]
        <3> HIDE DEF First
        <3> QED  BY <1>3, <2>2
    <2>4. f[k - 1] = g[k - 1]
        <3>1. k - 1 \in Agree
            <4> HIDE DEF Agree
            <4> QED  BY <1>2, <2>2
        <3> HIDE DEF First
        <3> QED  BY <2>2, <3>1
    <2>5. f[k] = F[k][f[k - 1]]
        OBVIOUS
    <2> QED  BY <2>1, <2>3, <2>4, <2>5
<1> QED  BY <1>4, <1>5, <1>6 DEF ByRounds

-----------------------------------------------------------------------------
(* The craft analysis: its invariant.  Sequences are over some set, all of *)
(* whose members are as they should be.                                    *)

\* A cost does not exceed that of buying, where there is one.
NoDearer(cost, bought) == bought # NoPrice => cost # NoPrice /\ cost <= bought

CallOk(c, book) ==
    /\ c = [item |-> c.item, recipe |-> c.recipe, next |-> c.next, sum |-> c.sum,
            direct |-> c.direct, best |-> c.best]
    /\ c.item \in Items /\ c.recipe \in {NoRecipe} \cup DOMAIN book
    /\ c.next \in Nat \ {0} /\ {c.sum, c.direct, c.best.cost} \subseteq Costs
    /\ NoDearer(c.sum, c.direct)

\* The call at the bottom has its recipe from the outset and keeps it.
CallsOk ==
    /\ \E S : calls \in Seq(S) /\ \A c \in S : CallOk(c, analysis.book)
    /\ calls # <<>> => analysis.phase = "analyzing" /\ calls[1].recipe # NoRecipe

ResultOk(r) == {r.cost, r.direct} \subseteq Costs /\ NoDearer(r.cost, r.direct)

AnalysisOk ==
    /\ analysis = [phase |-> analysis.phase, book |-> analysis.book, price |-> analysis.price,
                   cache |-> analysis.cache, recipe |-> analysis.recipe,
                   results |-> analysis.results]
    /\ analysis.phase \in {"idle", "analyzing", "pruning"}
    /\ analysis.cache = [i \in Items |-> analysis.cache[i]]
    /\ \A i \in Items : analysis.cache[i].chosen \in Costs
    /\ \E S : analysis.results \in Seq(S) /\ \A r \in S : ResultOk(r)
    /\ analysis.phase = "analyzing" =>
        /\ analysis.book \in Seq(Recipe)
        /\ analysis.price \in [Items -> Costs]
        /\ analysis.recipe \in {NoRecipe} \cup DOMAIN analysis.book
        /\ \A i \in Cached : NoDearer(analysis.cache[i].chosen, analysis.price[i])

\* The reader's run is among the latest KeepRuns or has been passed by as many.
RunsOk ==
    /\ savedRuns \in Seq(Nat) /\ craftFaults \in 0 .. MaxCraftFaults
    /\ Len(savedRuns) <= KeepRuns + craftFaults + (IF analysis.phase = "pruning" THEN 1 ELSE 0)
    /\ reader \in [at : 0 .. KeepRuns + 1, promised : Nat]
    /\ reader.at = 0 => reader = IdleReader
    /\ reader.at \in 1 .. KeepRuns => reader.at <= Len(savedRuns)
    /\ reader.at \in 1 .. Len(savedRuns) => savedRuns[reader.at] = reader.promised

CraftInv == AnalysisOk /\ CallsOk /\ RunsOk

-----------------------------------------------------------------------------
(* Lemmas about the operators of the analysis. *)

\* Division with a positive divisor keeps the order.
LEMMA QuotientsInOrder ==
    ASSUME NEW a \in Nat, NEW b \in Nat, NEW k \in Nat \ {0}, a <= b
    PROVE  a \div k \in Nat /\ b \div k \in Nat /\ a \div k <= b \div k
<1>1. /\ a \div k \in Int /\ (a \div k) * k <= a /\ a < (a \div k) * k + k
      /\ b \div k \in Int /\ (b \div k) * k <= b /\ b < (b \div k) * k + k
    OBVIOUS
<1> DEFINE p == a \div k
           q == b \div k
<1>2. p \in Int /\ q \in Int /\ p * k < (q + 1) * k /\ 0 < (p + 1) * k
    <2>1. (q + 1) * k = q * k + k /\ (p + 1) * k = p * k + k
        BY <1>1
    <2> QED  BY <1>1, <2>1
<1> HIDE DEF p, q
<1>3. p < q + 1
    <2> SUFFICES ASSUME q + 1 <= p PROVE FALSE
        BY <1>2
    <2>1. (p - (q + 1)) * k >= 0
        BY <1>2
    <2>2. (p - (q + 1)) * k = p * k - (q + 1) * k
        BY <1>2
    <2> QED  BY <1>2, <2>1, <2>2
<1>4. p + 1 > 0
    <2> SUFFICES ASSUME p + 1 <= 0 PROVE FALSE
        BY <1>2
    <2>1. (0 - (p + 1)) * k >= 0
        BY <1>2
    <2>2. (0 - (p + 1)) * k = 0 - (p + 1) * k
        BY <1>2
    <2> QED  BY <1>2, <2>1, <2>2
<1>5. p <= q /\ p >= 0
    BY <1>2, <1>3, <1>4
<1>6. q >= 0
    BY <1>2, <1>5
<1> QED  BY <1>2, <1>5, <1>6 DEF p, q

\* The next recipe is one of those asked for, or there is none.
LEMMA AfterIsOneOf ==
    ASSUME NEW recipes \in SUBSET Nat, NEW k \in Nat
    PROVE  After(recipes, k) \in {NoRecipe} \cup recipes
<1> DEFINE later == {j \in recipes : k < j}
<1>1. later # {} => Min(later) \in later
    BY LeastElement
<1> QED  BY <1>1 DEF After

\* Adding an ingredient that is no dearer than bought to a sum that is not.
LEMMA PlusKeepsNoDearer ==
    ASSUME NEW sum \in Costs, NEW direct \in Costs, NEW price \in Costs, NEW bought \in Costs,
           NEW amount \in Nat \ {0}, NoDearer(sum, direct), NoDearer(price, bought)
    PROVE  /\ Plus(sum, price, amount) \in Costs /\ Plus(direct, bought, amount) \in Costs
           /\ NoDearer(Plus(sum, price, amount), Plus(direct, bought, amount))
<1>1. ASSUME NEW x \in Nat  PROVE x * amount \in Nat
    OBVIOUS
<1>2. Plus(sum, price, amount) \in Costs /\ Plus(direct, bought, amount) \in Costs
    BY <1>1 DEF Plus, Costs, NoPrice
<1>3. ASSUME direct # NoPrice, bought # NoPrice
      PROVE  /\ sum \in Nat /\ price \in Nat /\ direct \in Nat /\ bought \in Nat
             /\ sum + price * amount <= direct + bought * amount
    <2>1. /\ sum \in Nat /\ price \in Nat /\ direct \in Nat /\ bought \in Nat
          /\ sum <= direct /\ price <= bought
        BY <1>3 DEF NoDearer, Costs
    <2>2. (bought - price) * amount >= 0 /\ (bought - price) * amount = bought * amount - price * amount
        BY <2>1
    <2>3. price * amount \in Nat /\ bought * amount \in Nat
        BY <1>1, <2>1
    <2> QED  BY <2>1, <2>2, <2>3
<1>4. NoDearer(Plus(sum, price, amount), Plus(direct, bought, amount))
    <2> SUFFICES ASSUME Plus(direct, bought, amount) # NoPrice
                 PROVE  /\ Plus(sum, price, amount) # NoPrice
                        /\ Plus(sum, price, amount) <= Plus(direct, bought, amount)
        BY DEF NoDearer
    <2>1. direct # NoPrice /\ bought # NoPrice
        BY DEF Plus
    <2>2. /\ Plus(sum, price, amount) = sum + price * amount
          /\ Plus(direct, bought, amount) = direct + bought * amount
        BY <1>3, <2>1 DEF Plus, NoPrice
    <2>3. sum + price * amount # NoPrice
        BY <1>1, <1>3, <2>1 DEF NoPrice
    <2> QED  BY <1>3, <2>1, <2>2, <2>3
<1> QED  BY <1>2, <1>4

\* Dividing by the output of a recipe.
LEMMA PerUnitKeepsNoDearer ==
    ASSUME NEW r \in Recipe, NEW sum \in Costs, NEW direct \in Costs, NoDearer(sum, direct)
    PROVE  /\ PerUnit(sum, r) \in Costs /\ PerUnit(direct, r) \in Costs
           /\ NoDearer(PerUnit(sum, r), PerUnit(direct, r))
<1>1. r.output \in Nat \ {0}
    BY DEF Recipe
<1>2. ASSUME NEW x \in Nat  PROVE x \div r.output \in Nat
    BY <1>1, QuotientsInOrder
<1>3. PerUnit(sum, r) \in Costs /\ PerUnit(direct, r) \in Costs
    BY <1>2 DEF PerUnit, Costs
<1>4. ASSUME direct # NoPrice
      PROVE  PerUnit(sum, r) # NoPrice /\ PerUnit(sum, r) <= PerUnit(direct, r)
    <2>1. sum \in Nat /\ direct \in Nat /\ sum <= direct /\ sum # NoPrice
        BY <1>4 DEF NoDearer, Costs
    <2>2. PerUnit(sum, r) = sum \div r.output /\ PerUnit(direct, r) = direct \div r.output
        BY <1>4, <2>1 DEF PerUnit
    <2>3. sum \div r.output \in Nat /\ sum \div r.output <= direct \div r.output
        BY <1>1, <2>1, QuotientsInOrder
    <2> QED  BY <2>2, <2>3 DEF NoPrice
<1> QED  BY <1>3, <1>4 DEF NoDearer, PerUnit

\* What the analyzer answers for an item, from the cache or for one on the stack,
\* is no dearer than buying it, and so is what it decides.
LEMMA AnswersNoDearer ==
    ASSUME AnalysisOk, analysis.phase = "analyzing", NEW i \in Items
    PROVE  /\ analysis.price[i] \in Costs
           /\ Answer(i).chosen \in Costs /\ NoDearer(Answer(i).chosen, analysis.price[i])
           /\ \A best : best.cost \in Costs =>
                /\ Decide(i, best).chosen \in Costs
                /\ NoDearer(Decide(i, best).chosen, analysis.price[i])
<1>1. analysis.price[i] \in Costs
    BY DEF AnalysisOk
<1>2. Bought(i).chosen = analysis.price[i] /\ NoDearer(analysis.price[i], analysis.price[i])
    BY <1>1 DEF Bought, NoDearer, Costs
<1>3. Answer(i).chosen \in Costs /\ NoDearer(Answer(i).chosen, analysis.price[i])
    BY <1>1, <1>2 DEF Answer, AnalysisOk
<1>4. ASSUME NEW best, best.cost \in Costs
      PROVE  /\ Decide(i, best).chosen \in Costs
             /\ NoDearer(Decide(i, best).chosen, analysis.price[i])
    <2>1. CASE Buys(analysis.price[i], best.cost) \/ best.cost = NoPrice
        BY <1>1, <1>2, <2>1 DEF Decide
    <2>2. CASE ~ (Buys(analysis.price[i], best.cost) \/ best.cost = NoPrice)
        <3>1. Decide(i, best).chosen = best.cost
            BY <2>2 DEF Decide
        <3>2. NoDearer(best.cost, analysis.price[i])
            BY <1>1, <1>4, <2>2 DEF Buys, NoDearer, Costs
        <3> QED  BY <1>4, <3>1, <3>2
    <2> QED  BY <2>1, <2>2
<1> QED  BY <1>1, <1>3, <1>4

-----------------------------------------------------------------------------
(* Lemmas about sequences. *)

\* The last element of a sequence and those before it.
LEMMA LastAndFront ==
    ASSUME NEW S, NEW s \in Seq(S), s # <<>>
    PROVE  /\ Len(s) \in Nat \ {0} /\ Last(s) = s[Len(s)] /\ Last(s) \in S
           /\ Front(s) \in Seq(S)
           /\ Front(s) # <<>> => Len(s) > 1 /\ Front(s)[1] = s[1]
<1>1. Len(s) \in Nat \ {0} /\ \A k \in 1 .. Len(s) : s[k] \in S
    BY EmptySeq, ElementOfSeq
<1> DEFINE n == Len(s) - 1
<1>2. n \in Int /\ \A k \in 1 .. n : s[k] \in S
    BY <1>1
<1>3. /\ SubSeq(s, 1, n) \in Seq(S)
      /\ \A k \in 1 .. n - 1 + 1 : SubSeq(s, 1, n)[k] = s[1 + k - 1]
    BY <1>2, SubSeqProperties
<1>4. ASSUME Front(s) # <<>>  PROVE Len(s) > 1 /\ Front(s)[1] = s[1]
    <2>1. n >= 1
        BY <1>1, <1>2, <1>4, SubSeqEmpty DEF Front
    <2>2. 1 \in 1 .. n - 1 + 1 /\ 1 + 1 - 1 = 1
        BY <1>2, <2>1
    <2>3. SubSeq(s, 1, n)[1] = s[1]
        BY <1>3, <2>2
    <2> QED  BY <1>1, <2>1, <2>3 DEF Front
<1> QED  BY <1>1, <1>3, <1>4 DEF Last, Front

\* A sequence whose last element is replaced.
LEMMA LastReplaced ==
    ASSUME NEW S, NEW s \in Seq(S), s # <<>>, NEW e
    PROVE  /\ [s EXCEPT ![Len(s)] = e] \in Seq(S \cup {e})
           /\ [s EXCEPT ![Len(s)] = e][1] = IF Len(s) = 1 THEN e ELSE s[1]
<1>1. Len(s) \in Nat \ {0}
    BY EmptySeq
<1>2. s \in Seq(S \cup {e})
    BY SeqMonotonic
<1>3. Len(s) \in 1 .. Len(s) /\ 1 \in 1 .. Len(s) /\ e \in S \cup {e}
    BY <1>1
<1> QED  BY <1>2, <1>3, ExceptSeq

\* A sequence to which an element is added.
LEMMA Appended ==
    ASSUME NEW S, NEW s \in Seq(S), NEW e
    PROVE  /\ Append(s, e) \in Seq(S \cup {e})
           /\ s # <<>> => Append(s, e)[1] = s[1]
<1>1. s \in Seq(S \cup {e}) /\ e \in S \cup {e}
    BY SeqMonotonic
<1>2. s # <<>> => 1 \in 1 .. Len(s)
    BY EmptySeq
<1> QED  BY <1>1, <1>2, AppendProperties

-----------------------------------------------------------------------------
(* The calls of the analyzer. *)

\* What is known of the call at the top.
LEMMA TopCall ==
    ASSUME AnalysisOk, CallsOk, calls # <<>>
    PROVE  /\ CallOk(Call, analysis.book) /\ analysis.phase = "analyzing"
           /\ Len(calls) \in Nat \ {0} /\ (AtTop => Call.recipe # NoRecipe)
           /\ Call.recipe # NoRecipe =>
                /\ TheRecipe \in Recipe /\ TheRecipe.result \in Items
                /\ ~Finished => Ingredient.item \in Items /\ Ingredient.amount \in Nat \ {0}
<1>1. PICK S : calls \in Seq(S) /\ \A c \in S : CallOk(c, analysis.book)
    BY DEF CallsOk
<1>2. Len(calls) \in Nat \ {0} /\ Call = calls[Len(calls)] /\ Call \in S
    BY <1>1, LastAndFront DEF Call
<1>3. CallOk(Call, analysis.book) /\ analysis.phase = "analyzing"
    BY <1>1, <1>2 DEF CallsOk
<1>4. AtTop => Call.recipe # NoRecipe
    BY <1>2 DEF CallsOk, AtTop
<1>5. ASSUME Call.recipe # NoRecipe
      PROVE  /\ TheRecipe \in Recipe /\ TheRecipe.result \in Items
             /\ ~Finished => Ingredient.item \in Items /\ Ingredient.amount \in Nat \ {0}
    <2>1. analysis.book \in Seq(Recipe) /\ Call.recipe \in DOMAIN analysis.book
        BY <1>3, <1>5 DEF AnalysisOk, CallOk
    <2>2. TheRecipe \in Recipe
        BY <2>1, LenProperties, ElementOfSeq DEF TheRecipe
    <2> DEFINE Ingredients == [item : Items, amount : Nat \ {0}]
    <2>3. TheRecipe.ingredients \in Seq(Ingredients) /\ TheRecipe.result \in Items
        BY <2>2 DEF Recipe
    <2>4. Len(TheRecipe.ingredients) \in Nat /\ Call.next \in Nat \ {0}
        BY <1>3, <2>3, LenProperties DEF CallOk
    <2>5. ~Finished => Call.next \in 1 .. Len(TheRecipe.ingredients)
        BY <2>4 DEF Finished
    <2>6. ~Finished => Ingredient \in Ingredients
        BY <2>3, <2>5, ElementOfSeq DEF Ingredient
    <2> QED  BY <2>2, <2>3, <2>6
<1> QED  BY <1>2, <1>3, <1>4, <1>5

\* Recipes are looked up in the book.
LEMMA RecipesAreInTheBook ==
    ASSUME AnalysisOk, analysis.phase = "analyzing", NEW i, NEW k \in Nat
    PROVE  /\ After(RecipesOf(i), k) \in {NoRecipe} \cup DOMAIN analysis.book
           /\ After(Enabled(analysis.book), k) \in {NoRecipe} \cup DOMAIN analysis.book
<1>1. DOMAIN analysis.book \in SUBSET Nat
    <2>1. analysis.book \in Seq(Recipe)
        BY DEF AnalysisOk
    <2>2. DOMAIN analysis.book = 1 .. Len(analysis.book) /\ Len(analysis.book) \in Nat
        BY <2>1, LenProperties
    <2> QED  BY <2>2
<1>2. RecipesOf(i) \subseteq DOMAIN analysis.book /\ Enabled(analysis.book) \subseteq DOMAIN analysis.book
    BY DEF RecipesOf, Makers, Enabled
<1> QED  BY <1>1, <1>2, AfterIsOneOf

\* A new call is as it should be.
LEMMA NewCall ==
    ASSUME NEW book, NEW i \in Items, NEW r \in {NoRecipe} \cup DOMAIN book
    PROVE  CallOk(CallOf(i, r), book)
BY DEF CallOk, CallOf, NoRecipeYet, NoDearer, Costs, NoPrice

\* The call at the top is replaced by one that is as it should be.
LEMMA CallReplaced ==
    ASSUME CallsOk, calls # <<>>, UNCHANGED analysis, NEW c, CallOk(c, analysis.book),
           AtTop => c.recipe # NoRecipe, calls' = [calls EXCEPT ![Len(calls)] = c]
    PROVE  CallsOk'
<1>1. PICK S : calls \in Seq(S) /\ \A d \in S : CallOk(d, analysis.book)
    BY DEF CallsOk
<1>2. /\ calls' \in Seq(S \cup {c})
      /\ calls'[1] = IF Len(calls) = 1 THEN c ELSE calls[1]
    BY <1>1, LastReplaced
<1>3. \A d \in S \cup {c} : CallOk(d, analysis.book)
    BY <1>1
<1>4. analysis'.phase = "analyzing" /\ calls'[1].recipe # NoRecipe
    BY <1>2 DEF CallsOk, AtTop
<1>5. \E T : calls' \in Seq(T) /\ \A d \in T : CallOk(d, analysis'.book)
    BY <1>2, <1>3
<1> QED  BY <1>4, <1>5 DEF CallsOk

-----------------------------------------------------------------------------
(* The steps of the analysis. *)

\* No call is open.
LEMMA NoCalls == calls = <<>> => CallsOk
<1> SUFFICES ASSUME calls = <<>> PROVE CallsOk
    OBVIOUS
<1>1. \E S : calls \in Seq(S) /\ \A c \in S : CallOk(c, analysis.book)
    <2> WITNESS {}
    <2> QED  BY EmptySeq
<1> QED  BY <1>1 DEF CallsOk

\* An analysis that has not begun or is saved.
AtRest(phase) ==
    [phase |-> phase, book |-> <<>>, price |-> <<>>,
     cache |-> [i \in Items |-> NotCached], recipe |-> NoRecipe, results |-> <<>>]

LEMMA RestIsOk == analysis \in {AtRest("idle"), AtRest("pruning")} => AnalysisOk
<1> SUFFICES ASSUME analysis \in {AtRest("idle"), AtRest("pruning")} PROVE AnalysisOk
    OBVIOUS
<1>1. analysis.phase \in {"idle", "pruning"} /\ analysis = AtRest(analysis.phase)
    BY DEF AtRest
<1>2. analysis.results = <<>> /\ analysis.cache = [i \in Items |-> NotCached]
    BY <1>1 DEF AtRest
<1>3. \A i \in Items : analysis.cache[i].chosen \in Costs
    BY <1>2 DEF NotCached, Costs
<1>4. \E S : analysis.results \in Seq(S) /\ \A r \in S : ResultOk(r)
    <2> WITNESS {}
    <2> QED  BY <1>2, EmptySeq
<1> QED  BY <1>1, <1>2, <1>3, <1>4 DEF AnalysisOk, AtRest

LEMMA IdleIsAtRest ==
    IdleAnalysis = AtRest("idle") /\ [IdleAnalysis EXCEPT !.phase = "pruning"] = AtRest("pruning")
BY DEF IdleAnalysis, AtRest

\* Initially.
LEMMA CraftStart == ASSUME CraftInit  PROVE CraftInv
<1>1. calls = <<>> /\ analysis = IdleAnalysis /\ savedRuns = <<>> /\ reader = IdleReader
      /\ craftFaults = 0
    BY DEF CraftInit
<1>2. AnalysisOk
    <2>1. analysis = AtRest("idle")
        BY <1>1, IdleIsAtRest
    <2> QED  BY <2>1, RestIsOk
<1>3. savedRuns \in Seq(Nat) /\ Len(savedRuns) = 0
    BY <1>1, EmptySeq
<1>4. RunsOk
    BY <1>1, <1>3, CraftAssumption DEF RunsOk, IdleReader, IdleAnalysis
<1> QED  BY <1>1, <1>2, <1>4, NoCalls DEF CraftInv

\* What is saved and read stays while the analysis computes.
LEMMA ComputingKeepsRuns ==
    ASSUME RunsOk, UNCHANGED tables, analysis'.phase # "pruning", analysis.phase # "pruning"
    PROVE  RunsOk'
BY DEF RunsOk, tables, IdleReader

\* The analysis begins with the recipes and the prices of the moment.
LEMMA BeginAnalysisKeepsInv == ASSUME CraftInv, BeginAnalysis  PROVE CraftInv'
<1>1. PICK book \in RecipeBooks, price \in PriceLists :
        analysis' = [IdleAnalysis EXCEPT
                       !.phase = "analyzing", !.book = book, !.price = price,
                       !.recipe = After(Enabled(book), 0)]
    BY DEF BeginAnalysis
<1>2. analysis' = [phase |-> "analyzing", book |-> book, price |-> price,
                   cache |-> [i \in Items |-> NotCached],
                   recipe |-> After(Enabled(book), 0), results |-> <<>>]
    BY <1>1 DEF IdleAnalysis
<1>3. book \in Seq(Recipe) /\ price \in [Items -> Costs]
    BY CraftAssumption DEF Costs
<1>4. After(Enabled(book), 0) \in {NoRecipe} \cup DOMAIN book
    <2>1. DOMAIN book = 1 .. Len(book) /\ Len(book) \in Nat
        BY <1>3, LenProperties
    <2>2. Enabled(book) \in SUBSET Nat /\ Enabled(book) \subseteq DOMAIN book
        BY <2>1 DEF Enabled
    <2> QED  BY <2>2, AfterIsOneOf
<1>5. AnalysisOk'
    <2>1. analysis'.results = <<>>
        BY <1>2
    <2>2. \E S : analysis'.results \in Seq(S) /\ \A r \in S : ResultOk(r)
        <3> WITNESS {}
        <3> QED  BY <2>1, EmptySeq
    <2>3. analysis'.cache = [i \in Items |-> NotCached]
        BY <1>2
    <2>4. Cached' = {} /\ \A i \in Items : analysis'.cache[i].chosen \in Costs
        BY <2>3 DEF Cached, NotCached, Costs
    <2>5. analysis'.book \in Seq(Recipe) /\ analysis'.price \in [Items -> Costs]
          /\ analysis'.recipe \in {NoRecipe} \cup DOMAIN analysis'.book
          /\ analysis'.phase = "analyzing"
        BY <1>2, <1>3, <1>4
    <2> QED  BY <1>2, <2>2, <2>3, <2>4, <2>5 DEF AnalysisOk
<1>6. calls' = <<>> /\ analysis'.phase # "pruning" /\ analysis.phase # "pruning"
    <2>1. calls = <<>>
        BY DEF BeginAnalysis, CraftInv, CallsOk
    <2> QED  BY <1>2, <2>1 DEF BeginAnalysis
<1>7. CallsOk'
    <2>1. (calls = <<>> => CallsOk)'
        BY NoCalls, PTL
    <2> QED  BY <1>6, <2>1
<1>8. RunsOk'
    BY <1>6, ComputingKeepsRuns DEF BeginAnalysis, CraftInv
<1> QED  BY <1>5, <1>7, <1>8 DEF CraftInv

\* Steps that only change the calls.
LEMMA CallsChange ==
    ASSUME CraftInv, CallsOk', UNCHANGED <<analysis, tables>>
    PROVE  CraftInv'
<1>1. AnalysisOk'
    BY DEF CraftInv, AnalysisOk, Cached
<1>2. RunsOk'
    BY DEF CraftInv, RunsOk, tables, IdleReader
<1> QED  BY <1>1, <1>2 DEF CraftInv

\* The next recipe is analyzed.
LEMMA AnalyzeRecipeKeepsInv == ASSUME CraftInv, AnalyzeRecipe  PROVE CraftInv'
<1> DEFINE call == CallOf(analysis.book[analysis.recipe].result, analysis.recipe)
<1>1. analysis.phase = "analyzing" /\ analysis' = analysis /\ calls' = <<call>>
    BY DEF AnalyzeRecipe
<1>2. analysis.book \in Seq(Recipe) /\ analysis.recipe \in DOMAIN analysis.book
    BY <1>1 DEF AnalyzeRecipe, CraftInv, AnalysisOk
<1>3. analysis.book[analysis.recipe] \in Recipe
    BY <1>2, LenProperties, ElementOfSeq
<1>4. CallOk(call, analysis.book)
    BY <1>2, <1>3, NewCall DEF Recipe
<1>5. call.recipe # NoRecipe
    BY DEF CallOf, AnalyzeRecipe
<1> HIDE DEF call
<1>6. calls' \in Seq({call}) /\ calls'[1] = call
    BY <1>1
<1>7. \E S : calls' \in Seq(S) /\ \A c \in S : CallOk(c, analysis'.book)
    <2> WITNESS {call}
    <2> QED  BY <1>1, <1>4, <1>6
<1>8. CallsOk'
    BY <1>1, <1>5, <1>6, <1>7 DEF CallsOk
<1> QED  BY <1>8, CallsChange DEF AnalyzeRecipe

\* An ingredient has its answer, which is added to both sums.
LEMMA AddIngredientKeepsInv == ASSUME CraftInv, AddIngredient  PROVE CraftInv'
<1>1. AnalysisOk /\ CallsOk /\ calls # <<>> /\ Call.recipe # NoRecipe /\ ~Finished
      /\ analysis' = analysis
    BY DEF CraftInv, AddIngredient, WantsIngredient
<1>2. /\ CallOk(Call, analysis.book) /\ analysis.phase = "analyzing"
      /\ Ingredient.item \in Items /\ Ingredient.amount \in Nat \ {0}
    BY <1>1, TopCall
<1> DEFINE i == Ingredient.item
           n == Ingredient.amount
           sum == Plus(Call.sum, Answer(i).chosen, n)
           direct == Plus(Call.direct, analysis.price[i], n)
           call == [Call EXCEPT !.next = Call.next + 1, !.sum = sum, !.direct = direct]
<1>3. calls' = [calls EXCEPT ![Len(calls)] = call]
    BY Zenon DEF AddIngredient, Call, Last
<1>4. sum \in Costs /\ direct \in Costs /\ NoDearer(sum, direct)
    <2>1. /\ Call.sum \in Costs /\ Call.direct \in Costs /\ NoDearer(Call.sum, Call.direct)
        BY <1>2 DEF CallOk
    <2>2. /\ analysis.price[i] \in Costs /\ Answer(i).chosen \in Costs
          /\ NoDearer(Answer(i).chosen, analysis.price[i])
        BY <1>1, <1>2, AnswersNoDearer
    <2> QED  BY <1>2, <2>1, <2>2, PlusKeepsNoDearer
<1> HIDE DEF sum, direct, i, n
<1>5. CallOk(call, analysis.book) /\ call.recipe # NoRecipe
    <2>1. call = [item |-> Call.item, recipe |-> Call.recipe, next |-> Call.next + 1,
                  sum |-> sum, direct |-> direct, best |-> Call.best]
        <3>1. Call = [item |-> Call.item, recipe |-> Call.recipe, next |-> Call.next,
                      sum |-> Call.sum, direct |-> Call.direct, best |-> Call.best]
            BY <1>2 DEF CallOk
        <3> DEFINE c1 == [Call EXCEPT !.next = Call.next + 1]
                   c2 == [c1 EXCEPT !.sum = sum]
        <3>2. c1 = [item |-> Call.item, recipe |-> Call.recipe, next |-> Call.next + 1,
                    sum |-> Call.sum, direct |-> Call.direct, best |-> Call.best]
            BY <3>1
        <3> HIDE DEF c1
        <3>3. c2 = [item |-> Call.item, recipe |-> Call.recipe, next |-> Call.next + 1,
                    sum |-> sum, direct |-> Call.direct, best |-> Call.best]
            BY <3>2
        <3> HIDE DEF c2
        <3>4. [c2 EXCEPT !.direct = direct]
              = [item |-> Call.item, recipe |-> Call.recipe, next |-> Call.next + 1,
                 sum |-> sum, direct |-> direct, best |-> Call.best]
            BY <3>3
        <3>5. call = [c2 EXCEPT !.direct = direct]
            BY Zenon DEF c1, c2
        <3> QED  BY <3>4, <3>5
    <2> QED  BY <1>1, <1>2, <1>4, <2>1 DEF CallOk
<1> HIDE DEF call
<1>6. CallsOk'
    BY <1>1, <1>3, <1>5, CallReplaced
<1> QED  BY <1>6, CallsChange DEF AddIngredient

\* An ingredient has no answer yet: it is asked for in a call of its own.
LEMMA CallOptimalCostKeepsInv == ASSUME CraftInv, CallOptimalCost  PROVE CraftInv'
<1> DEFINE call == CallOf(Ingredient.item, After(RecipesOf(Ingredient.item), 0))
<1>1. AnalysisOk /\ CallsOk /\ calls # <<>> /\ Call.recipe # NoRecipe /\ ~Finished
      /\ analysis' = analysis /\ calls' = Append(calls, call)
    BY DEF CraftInv, CallOptimalCost, WantsIngredient
<1>2. analysis.phase = "analyzing" /\ Ingredient.item \in Items
    BY <1>1, TopCall
<1>3. CallOk(call, analysis.book)
    BY <1>1, <1>2, RecipesAreInTheBook, NewCall
<1> HIDE DEF call
<1>4. PICK S : calls \in Seq(S) /\ \A c \in S : CallOk(c, analysis.book)
    BY <1>1 DEF CallsOk
<1>5. calls' \in Seq(S \cup {call}) /\ calls'[1] = calls[1]
    BY <1>1, <1>4, Appended
<1>6. \E T : calls' \in Seq(T) /\ \A c \in T : CallOk(c, analysis'.book)
    <2> WITNESS S \cup {call}
    <2> QED  BY <1>1, <1>3, <1>4, <1>5
<1>7. CallsOk'
    BY <1>1, <1>2, <1>5, <1>6 DEF CallsOk
<1> QED  BY <1>7, CallsChange DEF CallOptimalCost

\* A recipe has its cost: the call goes on to the next one.
LEMMA EndRecipeKeepsInv == ASSUME CraftInv, EndRecipe  PROVE CraftInv'
<1> DEFINE cost == PerUnit(Call.sum, TheRecipe)
           best == IF Improves(cost, Call.best.cost)
                   THEN [cost |-> cost, output |-> TheRecipe.output,
                         plan |-> PlanOf(Call.best, TheRecipe)]
                   ELSE Call.best
           next == CallOf(Call.item, After(RecipesOf(Call.item), Call.recipe))
           call == [next EXCEPT !.best = best]
<1>1. AnalysisOk /\ CallsOk /\ calls # <<>> /\ ~AtTop /\ Call.recipe # NoRecipe
      /\ analysis' = analysis
    BY DEF CraftInv, EndRecipe
<1>2. calls' = [calls EXCEPT ![Len(calls)] = call]
    BY DEF EndRecipe
<1>3. CallOk(Call, analysis.book) /\ analysis.phase = "analyzing" /\ TheRecipe \in Recipe
    BY <1>1, TopCall
<1>4. best.cost \in Costs
    <2>1. Call.sum \in Costs /\ Call.direct \in Costs /\ NoDearer(Call.sum, Call.direct)
          /\ Call.best.cost \in Costs
        BY <1>3 DEF CallOk
    <2>2. cost \in Costs
        BY <1>3, <2>1, PerUnitKeepsNoDearer
    <2> QED  BY <2>1, <2>2
<1>5. CallOk(next, analysis.book)
    <2>1. Call.item \in Items /\ Call.recipe \in Nat
        <3>1. Call.item \in Items /\ Call.recipe \in DOMAIN analysis.book
              /\ analysis.book \in Seq(Recipe)
            BY <1>1, <1>3 DEF CallOk, AnalysisOk
        <3>2. DOMAIN analysis.book \subseteq Nat
            BY <3>1, LenProperties
        <3> QED  BY <3>1, <3>2
    <2> QED  BY <1>1, <1>3, <2>1, RecipesAreInTheBook, NewCall
<1> HIDE DEF best, next
<1>6. call = [item |-> next.item, recipe |-> next.recipe, next |-> next.next,
              sum |-> next.sum, direct |-> next.direct, best |-> best]
    BY <1>5 DEF CallOk
<1>7. CallOk(call, analysis.book)
    BY <1>4, <1>5, <1>6 DEF CallOk
<1> HIDE DEF call
<1>8. CallsOk'
    BY <1>1, <1>2, <1>7, CallReplaced
<1> QED  BY <1>8, CallsChange DEF EndRecipe

\* A call of _optimal_cost returns what it has cached.
LEMMA ReturnKeepsInv == ASSUME CraftInv, Return  PROVE CraftInv'
<1> DEFINE i == Call.item
           made == Decide(i, Call.best)
           cache == [analysis.cache EXCEPT ![i] = made]
<1>1. AnalysisOk /\ CallsOk /\ RunsOk /\ calls # <<>> /\ Call.recipe = NoRecipe
      /\ calls' = Front(calls)
    BY DEF CraftInv, Return
<1>2. CallOk(Call, analysis.book) /\ analysis.phase = "analyzing"
    BY <1>1, TopCall
<1>3. analysis' = [phase |-> analysis.phase, book |-> analysis.book,
                   price |-> analysis.price, cache |-> cache,
                   recipe |-> analysis.recipe, results |-> analysis.results]
    <2>1. analysis = [phase |-> analysis.phase, book |-> analysis.book,
                      price |-> analysis.price, cache |-> analysis.cache,
                      recipe |-> analysis.recipe, results |-> analysis.results]
        BY <1>1 DEF AnalysisOk
    <2>2. analysis' = [analysis EXCEPT !.cache = cache]
        BY Zenon DEF Return
    <2> HIDE DEF cache
    <2> QED  BY <2>1, <2>2
<1>4. i \in Items /\ made.chosen \in Costs /\ NoDearer(made.chosen, analysis.price[i])
    <2>1. Call.item \in Items /\ Call.best.cost \in Costs
        BY <1>2 DEF CallOk
    <2> QED  BY <1>1, <1>2, <2>1, AnswersNoDearer
<1> HIDE DEF made
<1>5. /\ cache = [j \in Items |-> cache[j]]
      /\ \A j \in Items : cache[j] = IF j = i THEN made ELSE analysis.cache[j]
    <2>1. analysis.cache = [j \in Items |-> analysis.cache[j]]
        BY <1>1 DEF AnalysisOk
    <2> QED  BY <2>1, Zenon
<1> HIDE DEF cache, i
<1>6. AnalysisOk'
    <2>1. /\ analysis'.phase = "analyzing" /\ analysis'.book = analysis.book
          /\ analysis'.price = analysis.price /\ analysis'.cache = cache
          /\ analysis'.recipe = analysis.recipe /\ analysis'.results = analysis.results
        BY <1>2, <1>3
    <2>2. analysis' = [phase |-> analysis'.phase, book |-> analysis'.book,
                       price |-> analysis'.price, cache |-> analysis'.cache,
                       recipe |-> analysis'.recipe, results |-> analysis'.results]
        BY <1>2, <1>3, <2>1
    <2>3. \A j \in Items : cache[j].chosen \in Costs
        BY <1>1, <1>4, <1>5 DEF AnalysisOk
    <2>4. \A j \in Cached' : NoDearer(analysis'.cache[j].chosen, analysis'.price[j])
        <3> SUFFICES ASSUME NEW j \in Items, cache[j] # NotCached
                     PROVE  NoDearer(cache[j].chosen, analysis.price[j])
            BY <2>1 DEF Cached
        <3>1. CASE j = i
            BY <1>4, <1>5, <3>1
        <3>2. CASE j # i
            BY <1>1, <1>2, <1>5, <3>2 DEF AnalysisOk, Cached
        <3> QED  BY <3>1, <3>2
    <2>5. analysis'.cache = [j \in Items |-> analysis'.cache[j]]
        BY <1>5, <2>1
    <2>6. /\ analysis'.book \in Seq(Recipe) /\ analysis'.price \in [Items -> Costs]
          /\ analysis'.recipe \in {NoRecipe} \cup DOMAIN analysis'.book
        BY <1>1, <1>2, <2>1 DEF AnalysisOk
    <2>7. \E S : analysis'.results \in Seq(S) /\ \A r \in S : ResultOk(r)
        BY <1>1, <2>1 DEF AnalysisOk
    <2> QED  BY <2>1, <2>2, <2>3, <2>4, <2>5, <2>6, <2>7 DEF AnalysisOk
<1>7. CallsOk'
    <2>1. PICK S : calls \in Seq(S) /\ \A c \in S : CallOk(c, analysis.book)
        BY <1>1 DEF CallsOk
    <2>2. calls' \in Seq(S) /\ (calls' # <<>> => calls'[1] = calls[1])
        BY <1>1, <2>1, LastAndFront
    <2>3. \E T : calls' \in Seq(T) /\ \A c \in T : CallOk(c, analysis'.book)
        <3> WITNESS S
        <3> QED  BY <1>3, <2>1, <2>2
    <2>4. analysis'.phase = "analyzing"
        BY <1>2, <1>3
    <2> QED  BY <1>1, <2>2, <2>3, <2>4 DEF CallsOk
<1>8. RunsOk'
    <2>1. analysis'.phase = "analyzing"
        BY <1>2, <1>3
    <2> QED  BY <1>1, <1>2, <2>1, ComputingKeepsRuns DEF Return
<1> QED  BY <1>6, <1>7, <1>8 DEF CraftInv

\* A recipe has been analyzed: its result is noted.
LEMMA EndAnalyzeRecipeKeepsInv == ASSUME CraftInv, EndAnalyzeRecipe  PROVE CraftInv'
<1> DEFINE result == Analyzed(TheRecipe, PerUnit(Call.sum, TheRecipe),
                              PerUnit(Call.direct, TheRecipe))
           next == After(Enabled(analysis.book), analysis.recipe)
           results == Append(analysis.results, result)
<1>1. AnalysisOk /\ CallsOk /\ RunsOk /\ calls # <<>> /\ AtTop /\ calls' = <<>>
    BY DEF CraftInv, EndAnalyzeRecipe
<1>2. /\ CallOk(Call, analysis.book) /\ analysis.phase = "analyzing"
      /\ TheRecipe \in Recipe
    BY <1>1, TopCall
<1>3. analysis' = [phase |-> analysis.phase, book |-> analysis.book,
                   price |-> analysis.price, cache |-> analysis.cache,
                   recipe |-> next, results |-> results]
    <2> DEFINE a1 == [analysis EXCEPT !.recipe = next]
    <2>1. analysis = [phase |-> analysis.phase, book |-> analysis.book,
                      price |-> analysis.price, cache |-> analysis.cache,
                      recipe |-> analysis.recipe, results |-> analysis.results]
        BY <1>1 DEF AnalysisOk
    <2>2. analysis' = [a1 EXCEPT !.results = results]
        BY Zenon DEF EndAnalyzeRecipe
    <2> HIDE DEF next, results
    <2>3. a1 = [phase |-> analysis.phase, book |-> analysis.book,
                price |-> analysis.price, cache |-> analysis.cache,
                recipe |-> next, results |-> analysis.results]
        BY <2>1
    <2> HIDE DEF a1
    <2> QED  BY <2>2, <2>3
<1>4. ResultOk(result)
    <2>1. Call.sum \in Costs /\ Call.direct \in Costs /\ NoDearer(Call.sum, Call.direct)
        BY <1>2 DEF CallOk
    <2>2. /\ PerUnit(Call.sum, TheRecipe) \in Costs /\ PerUnit(Call.direct, TheRecipe) \in Costs
          /\ NoDearer(PerUnit(Call.sum, TheRecipe), PerUnit(Call.direct, TheRecipe))
        BY <1>2, <2>1, PerUnitKeepsNoDearer
    <2>3. /\ result.cost = PerUnit(Call.sum, TheRecipe)
          /\ result.direct = PerUnit(Call.direct, TheRecipe)
        BY DEF Analyzed
    <2> HIDE DEF result
    <2> QED  BY <2>2, <2>3 DEF ResultOk
<1>5. next \in {NoRecipe} \cup DOMAIN analysis.book
    <2>1. analysis.recipe \in {NoRecipe} \cup DOMAIN analysis.book /\ analysis.book \in Seq(Recipe)
        BY <1>1, <1>2 DEF AnalysisOk
    <2>2. analysis.recipe \in Nat
        BY <2>1, LenProperties DEF NoRecipe
    <2> QED  BY <1>1, <1>2, <2>2, RecipesAreInTheBook
<1> HIDE DEF result, next
<1>6. \E S : results \in Seq(S) /\ \A r \in S : ResultOk(r)
    <2>1. PICK S : analysis.results \in Seq(S) /\ \A r \in S : ResultOk(r)
        BY <1>1 DEF AnalysisOk
    <2> WITNESS S \cup {result}
    <2> QED  BY <1>4, <2>1, Appended
<1> HIDE DEF results
<1>7. AnalysisOk'
    <2>1. /\ analysis'.phase = "analyzing" /\ analysis'.book = analysis.book
          /\ analysis'.price = analysis.price /\ analysis'.cache = analysis.cache
          /\ analysis'.recipe = next /\ analysis'.results = results
        BY <1>2, <1>3
    <2>2. analysis' = [phase |-> analysis'.phase, book |-> analysis'.book,
                       price |-> analysis'.price, cache |-> analysis'.cache,
                       recipe |-> analysis'.recipe, results |-> analysis'.results]
        BY <1>2, <1>3, <2>1
    <2>3. Cached' = Cached
        BY <2>1 DEF Cached
    <2> QED  BY <1>1, <1>2, <1>5, <1>6, <2>1, <2>2, <2>3 DEF AnalysisOk
<1>8. CallsOk'
    <2>1. (calls = <<>> => CallsOk)'
        BY NoCalls, PTL
    <2> QED  BY <1>1, <2>1
<1>9. RunsOk'
    <2>1. analysis'.phase = "analyzing"
        BY <1>2, <1>3
    <2> QED  BY <1>1, <1>2, <2>1, ComputingKeepsRuns DEF EndAnalyzeRecipe
<1> QED  BY <1>7, <1>8, <1>9 DEF CraftInv

\* The analysis ends or fails: nothing of it is left but what is saved.
LEMMA AnalysisEnds ==
    ASSUME analysis' \in {IdleAnalysis, [IdleAnalysis EXCEPT !.phase = "pruning"]}, calls' = <<>>
    PROVE  AnalysisOk' /\ CallsOk'
<1>1. analysis' \in {AtRest("idle"), AtRest("pruning")}
    BY IdleIsAtRest
<1>2. (analysis \in {AtRest("idle"), AtRest("pruning")} => AnalysisOk)'
    BY RestIsOk, PTL
<1>3. (calls = <<>> => CallsOk)'
    BY NoCalls, PTL
<1> QED  BY <1>1, <1>2, <1>3

\* The run is saved, in front of the others.
LEMMA SaveAnalysisKeepsInv == ASSUME CraftInv, SaveAnalysis  PROVE CraftInv'
<1> DEFINE n == Len(analysis.results)
<1>1. /\ AnalysisOk /\ RunsOk /\ analysis.phase = "analyzing" /\ calls' = <<>>
      /\ reader.at <= KeepRuns /\ savedRuns' = <<n>> \o savedRuns
      /\ reader' = IF reader.at = 0 THEN reader ELSE [reader EXCEPT !.at = reader.at + 1]
      /\ craftFaults' = craftFaults
    BY DEF CraftInv, SaveAnalysis
<1>2. analysis' = [IdleAnalysis EXCEPT !.phase = "pruning"]
    BY DEF SaveAnalysis
<1>3. AnalysisOk' /\ CallsOk'
    BY <1>1, <1>2, AnalysisEnds
<1>4. n \in Nat
    BY <1>1, LenProperties DEF AnalysisOk
<1> HIDE DEF n
<1>5. /\ savedRuns \in Seq(Nat) /\ savedRuns' \in Seq(Nat) /\ Len(savedRuns) \in Nat
      /\ Len(savedRuns') = Len(savedRuns) + 1
      /\ \A k \in 1 .. Len(savedRuns) : savedRuns'[k + 1] = savedRuns[k]
    <2>1. savedRuns \in Seq(Nat)
        BY <1>1 DEF RunsOk
    <2>2. <<n>> \in Seq(Nat) /\ Len(<<n>>) = 1 /\ Len(savedRuns) \in Nat
        BY <1>4, <2>1, LenProperties
    <2>3. /\ savedRuns' \in Seq(Nat) /\ Len(savedRuns') = 1 + Len(savedRuns)
          /\ \A k \in 1 .. 1 + Len(savedRuns) :
                savedRuns'[k] = IF k <= 1 THEN <<n>>[k] ELSE savedRuns[k - 1]
        BY <1>1, <2>1, <2>2, ConcatProperties
    <2>4. ASSUME NEW k \in 1 .. Len(savedRuns)  PROVE savedRuns'[k + 1] = savedRuns[k]
        <3>1. k + 1 \in 1 .. 1 + Len(savedRuns) /\ ~ (k + 1 <= 1) /\ k + 1 - 1 = k
            BY <2>2
        <3> QED  BY <2>3, <3>1
    <2> QED  BY <2>1, <2>2, <2>3, <2>4
<1>6. RunsOk'
    <2>1. analysis'.phase = "pruning"
        BY <1>2, IdleIsAtRest DEF AtRest
    <2>2. Len(savedRuns') <= KeepRuns + craftFaults' + 1
        BY <1>1, <1>5, CraftAssumption DEF RunsOk
    <2>3. CASE reader.at = 0
        <3>1. reader' = IdleReader /\ reader'.at = 0
            BY <1>1, <2>3 DEF RunsOk
        <3> QED  BY <1>1, <1>5, <2>1, <2>2, <3>1, CraftAssumption DEF RunsOk, IdleReader
    <2>4. CASE reader.at # 0
        <3>1. reader \in [at : 0 .. KeepRuns + 1, promised : Nat]
            BY <1>1 DEF RunsOk
        <3>2. reader' = [at |-> reader.at + 1, promised |-> reader.promised]
            BY <1>1, <2>4, <3>1
        <3>3. reader.at \in 1 .. KeepRuns
            BY <1>1, <2>4, <3>1, CraftAssumption
        <3>4. reader.at \in 1 .. Len(savedRuns) /\ savedRuns[reader.at] = reader.promised
            BY <1>1, <1>5, <3>3, CraftAssumption DEF RunsOk
        <3>5. savedRuns'[reader.at + 1] = reader.promised
            BY <1>5, <3>4
        <3>6. reader' \in [at : 0 .. KeepRuns + 1, promised : Nat]
            BY <3>1, <3>2, <3>3, CraftAssumption
        <3>7. reader'.at # 0 /\ reader'.at <= Len(savedRuns')
              /\ savedRuns'[reader'.at] = reader'.promised
            BY <1>5, <3>2, <3>4, <3>5
        <3> QED  BY <1>1, <1>5, <2>1, <2>2, <3>6, <3>7 DEF RunsOk
    <2> QED  BY <2>3, <2>4
<1> QED  BY <1>3, <1>6 DEF CraftInv

\* All but the latest runs are deleted.
LEMMA PruneRunsKeepsInv == ASSUME CraftInv, PruneRuns  PROVE CraftInv'
<1>1. /\ RunsOk /\ analysis.phase = "pruning" /\ analysis' = IdleAnalysis
      /\ savedRuns' = Kept /\ reader' = reader /\ craftFaults' = craftFaults
    BY DEF CraftInv, PruneRuns
<1>2. calls = <<>>
    BY <1>1 DEF CraftInv, CallsOk
<1>3. AnalysisOk' /\ CallsOk'
    BY <1>1, <1>2, AnalysisEnds DEF PruneRuns
<1>4. savedRuns \in Seq(Nat) /\ Len(savedRuns) \in Nat /\ KeepRuns \in Nat \ {0}
    BY <1>1, LenProperties, CraftAssumption DEF RunsOk
<1> DEFINE n == IF Len(savedRuns) < KeepRuns THEN Len(savedRuns) ELSE KeepRuns
<1>5. n \in Nat /\ n <= Len(savedRuns) /\ n <= KeepRuns
      /\ \A k \in 1 .. KeepRuns : k <= Len(savedRuns) => k \in 1 .. n
    BY <1>4
<1>6. savedRuns' = SubSeq(savedRuns, 1, n)
    BY <1>1 DEF Kept
<1> HIDE DEF n
<1>7. /\ savedRuns' \in Seq(Nat) /\ Len(savedRuns') = n
      /\ \A k \in 1 .. n : savedRuns'[k] = savedRuns[k]
    <2>1. \A k \in 1 .. n : savedRuns[k] \in Nat
        BY <1>4, <1>5, ElementOfSeq
    <2>2. /\ savedRuns' \in Seq(Nat)
          /\ Len(savedRuns') = IF 1 <= n THEN n - 1 + 1 ELSE 0
          /\ \A k \in 1 .. n - 1 + 1 : savedRuns'[k] = savedRuns[1 + k - 1]
        BY <1>5, <1>6, <2>1, SubSeqProperties
    <2> QED  BY <1>5, <2>2
<1>8. RunsOk'
    <2>1. analysis'.phase = "idle"
        BY <1>1, IdleIsAtRest DEF AtRest
    <2>2. /\ reader'.at \in 1 .. KeepRuns => reader'.at <= Len(savedRuns')
          /\ reader'.at \in 1 .. Len(savedRuns') => savedRuns'[reader'.at] = reader'.promised
        BY <1>1, <1>4, <1>5, <1>7 DEF RunsOk
    <2>3. Len(savedRuns') <= KeepRuns + craftFaults'
        BY <1>1, <1>4, <1>5, <1>7 DEF RunsOk
    <2>4. craftFaults' \in Nat /\ KeepRuns \in Nat
        BY <1>1, CraftAssumption DEF RunsOk
    <2>5. Len(savedRuns') <= KeepRuns + craftFaults' + (IF analysis'.phase = "pruning" THEN 1 ELSE 0)
        BY <2>1, <2>3, <2>4
    <2> QED  BY <1>1, <1>7, <2>2, <2>5 DEF RunsOk, IdleReader
<1> QED  BY <1>3, <1>8 DEF CraftInv

\* The analysis fails.
LEMMA FailAnalysisKeepsInv == ASSUME CraftInv, FailAnalysis  PROVE CraftInv'
<1>1. /\ RunsOk /\ analysis' = IdleAnalysis /\ calls' = <<>> /\ craftFaults < MaxCraftFaults
      /\ craftFaults' = craftFaults + 1 /\ savedRuns' = savedRuns /\ reader' = reader
    BY DEF CraftInv, FailAnalysis
<1>2. AnalysisOk' /\ CallsOk'
    BY <1>1, AnalysisEnds
<1>3. analysis'.phase = "idle"
    BY <1>1, IdleIsAtRest DEF AtRest
<1>4. RunsOk'
    <2>1. Len(savedRuns) \in Nat
        BY <1>1, LenProperties DEF RunsOk
    <2> QED  BY <1>1, <1>3, <2>1, CraftAssumption DEF RunsOk, IdleReader
<1> QED  BY <1>2, <1>4 DEF CraftInv

\* The request loads the latest run, and replies.
LEMMA RequestKeepsInv == ASSUME CraftInv, OpenLatest \/ ReplyLatest  PROVE CraftInv'
<1>1. analysis' = analysis /\ calls' = calls /\ savedRuns' = savedRuns
      /\ craftFaults' = craftFaults /\ RunsOk
    BY DEF CraftInv, OpenLatest, ReplyLatest
<1>2. AnalysisOk' /\ CallsOk'
    BY <1>1 DEF CraftInv, AnalysisOk, CallsOk, Cached
<1>3. RunsOk'
    <2>1. CASE OpenLatest
        <3>1. savedRuns \in Seq(Nat) /\ savedRuns # <<>>
            BY <1>1, <2>1 DEF RunsOk, OpenLatest
        <3>2. Len(savedRuns) \in Nat \ {0} /\ savedRuns[1] \in Nat
            BY <3>1, EmptySeq, ElementOfSeq
        <3>3. reader' = [at |-> 1, promised |-> savedRuns[1]]
            BY <2>1 DEF OpenLatest
        <3> QED  BY <1>1, <3>1, <3>2, <3>3, CraftAssumption DEF RunsOk
    <2>2. CASE ReplyLatest
        <3>1. reader' = [at |-> 0, promised |-> 0]
            BY <2>2 DEF ReplyLatest, IdleReader
        <3> QED  BY <1>1, <3>1, CraftAssumption DEF RunsOk, IdleReader
    <2> QED  BY <2>1, <2>2
<1> QED  BY <1>2, <1>3 DEF CraftInv

\* Every step.
LEMMA CraftStep == ASSUME CraftInv, [CraftNext]_craftVars  PROVE CraftInv'
<1>1. CASE UNCHANGED craftVars
    <2>1. UNCHANGED <<analysis, tables>> /\ calls' = calls
        BY <1>1 DEF craftVars, tables
    <2>2. CallsOk'
        BY <2>1 DEF CraftInv, CallsOk
    <2> QED  BY <2>1, <2>2, CallsChange
<1>2. CASE CraftNext
    BY <1>2, BeginAnalysisKeepsInv, AnalyzeRecipeKeepsInv, AddIngredientKeepsInv,
       CallOptimalCostKeepsInv, EndRecipeKeepsInv, ReturnKeepsInv, EndAnalyzeRecipeKeepsInv,
       SaveAnalysisKeepsInv, PruneRunsKeepsInv, FailAnalysisKeepsInv, RequestKeepsInv
       DEF CraftNext
<1> QED  BY <1>1, <1>2

LEMMA CraftInvariant == CraftSpec => []CraftInv
<1>1. CraftInit => CraftInv
    BY CraftStart
<1>2. CraftInv /\ [CraftNext]_craftVars => CraftInv'
    BY CraftStep
<1> QED  BY <1>1, <1>2, PTL DEF CraftSpec

\* The costs the analyzer works with are numbers or missing, and the table of
\* runs stays short (service.py and worker.py, prune_old_analysis_runs).
THEOREM CraftTypeCorrect == CraftSpec => []CraftTypeOK
<1>1. CraftInv => CraftTypeOK
    <2> SUFFICES ASSUME CraftInv PROVE CraftTypeOK
        OBVIOUS
    <2>1. PICK S : analysis.results \in Seq(S) /\ \A r \in S : ResultOk(r)
        BY DEF CraftInv, AnalysisOk
    <2>2. \A k \in DOMAIN analysis.results : analysis.results[k] \in S
        BY <2>1, LenProperties, ElementOfSeq
    <2>3. \A k \in DOMAIN analysis.results :
            {analysis.results[k].cost, analysis.results[k].direct} \subseteq Costs
        BY <2>1, <2>2 DEF ResultOk
    <2>4. Len(savedRuns) <= KeepRuns + 1 + craftFaults
        <3>1. Len(savedRuns) \in Nat
            BY LenProperties DEF CraftInv, RunsOk
        <3> QED  BY <3>1, CraftAssumption DEF CraftInv, RunsOk
    <2> QED  BY <2>3, <2>4 DEF CraftInv, AnalysisOk, RunsOk, CraftTypeOK
<1> QED  BY <1>1, CraftInvariant, PTL

\* Whatever the recipes, with cycles too, and the prices: with chosen ingredients
\* a recipe costs no more than with bought ones (service.py analyze_recipe).
THEOREM ChoosingNeverCostsMore == CraftSpec => []NeverDearerThanBuying
<1>1. CraftInv => NeverDearerThanBuying
    <2> SUFFICES ASSUME CraftInv PROVE NeverDearerThanBuying
        OBVIOUS
    <2>1. PICK S : analysis.results \in Seq(S) /\ \A r \in S : ResultOk(r)
        BY DEF CraftInv, AnalysisOk
    <2>2. \A k \in DOMAIN analysis.results : analysis.results[k] \in S
        BY <2>1, LenProperties, ElementOfSeq
    <2> QED  BY <2>1, <2>2 DEF ResultOk, NoDearer, NeverDearerThanBuying
<1> QED  BY <1>1, CraftInvariant, PTL

\* A request finds all results of its run or none, and none only if KeepRuns newer
\* ones were saved between its two SELECTs (service.py read_latest_analysis).
THEOREM RepliesAreWhole == CraftSpec => []ReplyHoldsItsResults
<1>1. CraftInv => ReplyHoldsItsResults
    <2> SUFFICES ASSUME CraftInv, reader # IdleReader
                 PROVE  \/ ResultsFound = reader.promised
                        \/ ResultsFound = 0 /\ reader.at > KeepRuns
        BY DEF ReplyHoldsItsResults
    <2>1. reader.at \in 1 .. KeepRuns + 1 /\ KeepRuns \in Nat
        BY CraftAssumption DEF CraftInv, RunsOk
    <2>2. CASE reader.at \in 1 .. KeepRuns
        BY <2>2 DEF CraftInv, RunsOk, ResultsFound
    <2>3. CASE reader.at = KeepRuns + 1
        <3>1. reader.at <= Len(savedRuns) => savedRuns[reader.at] = reader.promised
            BY <2>3 DEF CraftInv, RunsOk
        <3> QED  BY <2>1, <2>3, <3>1 DEF ResultsFound
    <2> QED  BY <2>1, <2>2, <2>3
<1> QED  BY <1>1, CraftInvariant, PTL

-----------------------------------------------------------------------------
(* The craft analysis: sums, and what recipes cost. *)

\* The sums of the first numbers of a sequence.
LEMMA SumsOf ==
    ASSUME NEW n \in Nat, NEW s, DOMAIN s = 1 .. n, \A k \in 1 .. n : s[k] \in Int
    PROVE  /\ Sums(s) \in [0 .. n -> Int] /\ Sums(s)[0] = 0
           /\ \A k \in 1 .. n : Sums(s)[k] = Sums(s)[k - 1] + s[k]
<1> DEFINE F == [k \in Nat |-> [x \in Int |-> IF k \in 1 .. n THEN x + s[k] ELSE x]]
<1>1. F \in [Nat -> [Int -> Int]] /\ 0 \in Int
    OBVIOUS
<1>2. PICK f \in [Nat -> Int] : f[0] = 0 /\ \A k \in Nat \ {0} : f[k] = F[k][f[k - 1]]
    <2> HIDE DEF F
    <2>1. \E f \in [Nat -> Int] : ByRounds(f, 0, F)
        BY <1>1, Rounds
    <2> QED  BY <2>1 DEF ByRounds
<1>3. ASSUME NEW k \in 1 .. n  PROVE f[k] = f[k - 1] + s[k]
    <2>1. k \in Nat \ {0} /\ k - 1 \in Nat
        OBVIOUS
    <2> QED  BY <1>2, <2>1
<1> HIDE DEF F
<1> DEFINE g == [k \in 0 .. n |-> f[k]]
<1>4. {0} \cup DOMAIN s = 0 .. n
    OBVIOUS
<1>5. \A k \in 0 .. n : g[k] = IF k = 0 THEN 0 ELSE g[k - 1] + s[k]
    BY <1>2, <1>3
<1>6. g = [k \in {0} \cup DOMAIN s |-> IF k = 0 THEN 0 ELSE g[k - 1] + s[k]]
    <2> HIDE DEF g
    <2>1. g = [k \in {0} \cup DOMAIN s |-> g[k]]
        BY <1>4 DEF g
    <2> QED  BY <1>4, <1>5, <2>1, Zenon
<1> HIDE DEF g
<1>7. Sums(s) = [k \in {0} \cup DOMAIN s |-> IF k = 0 THEN 0 ELSE Sums(s)[k - 1] + s[k]]
    BY <1>6, Zenon DEF Sums
<1>8. \A k \in 0 .. n : Sums(s)[k] = IF k = 0 THEN 0 ELSE Sums(s)[k - 1] + s[k]
    BY <1>4, <1>7, Zenon
<1>9. Sums(s)[0] = 0 /\ \A k \in 1 .. n : Sums(s)[k] = Sums(s)[k - 1] + s[k]
    BY <1>8
<1> DEFINE Numbers == {k \in Nat : k <= n => Sums(s)[k] \in Int}
<1>10. Numbers = Nat
    <2>1. 0 \in Numbers
        BY <1>9
    <2>2. ASSUME NEW k \in Numbers  PROVE k + 1 \in Numbers
        <3> SUFFICES ASSUME k + 1 <= n PROVE Sums(s)[k + 1] \in Int
            OBVIOUS
        <3>1. k + 1 \in 1 .. n /\ (k + 1) - 1 = k /\ k <= n
            OBVIOUS
        <3> QED  BY <1>9, <3>1
    <2> HIDE DEF Numbers
    <2> QED  BY <2>1, <2>2, Induction DEF Numbers
<1>11. Sums(s) \in [0 .. n -> Int]
    <2>1. Sums(s) = [k \in 0 .. n |-> Sums(s)[k]]
        <3>1. Sums(s) = [k \in 0 .. n |-> IF k = 0 THEN 0 ELSE Sums(s)[k - 1] + s[k]]
            BY <1>4, <1>7
        <3> QED  BY <1>8, <3>1, Zenon
    <2>2. \A k \in 0 .. n : Sums(s)[k] \in Int
        BY <1>10
    <2> QED  BY <2>1, <2>2
<1> QED  BY <1>9, <1>11

\* The least of some costs.
LEMMA LeastOfCosts ==
    ASSUME NEW C \in SUBSET Costs, C # {}
    PROVE  LeastOf(C) \in C /\ \A c \in C : NoDearer(LeastOf(C), c)
<1>1. CASE C \subseteq {NoPrice}
    BY <1>1 DEF LeastOf, NoDearer
<1>2. CASE ~ (C \subseteq {NoPrice})
    <2> DEFINE S == C \ {NoPrice}
    <2>1. S \in SUBSET Nat /\ S # {}
        BY <1>2 DEF Costs
    <2>2. \E c \in S : \A d \in S : c <= d
        <3> HIDE DEF S
        <3> QED  BY <2>1, LeastElement
    <2>3. LeastOf(C) = CHOOSE c \in S : \A d \in S : c <= d
        BY <1>2 DEF LeastOf
    <2>4. LeastOf(C) \in S /\ \A d \in S : LeastOf(C) <= d
        <3> HIDE DEF S
        <3> QED  BY <2>2, <2>3, Zenon
    <2> QED  BY <2>1, <2>4 DEF NoDearer
<1> QED  BY <1>1, <1>2

\* Costs are ordered.
LEMMA NoDearerIsAnOrder ==
    ASSUME NEW x \in Costs, NEW y \in Costs
    PROVE  /\ NoDearer(x, x)
           /\ \A z \in Costs : NoDearer(x, y) /\ NoDearer(y, z) => NoDearer(x, z)
           /\ NoDearer(x, y) /\ NoDearer(y, x) => x = y
BY DEF NoDearer, Costs, NoPrice

\* What the first n ingredients of a recipe cost.
UpTo(r, cost, n) ==
    IF \E k \in 1 .. n : cost[r.ingredients[k].item] = NoPrice THEN NoPrice
    ELSE Sums(Worths(r, cost))[n]

Pricing == [Items -> Costs]

\* It is the cost of one less and of the last one.
LEMMA UpToGrows ==
    ASSUME NEW r \in Recipe, NEW cost \in Pricing
    PROVE  /\ Len(r.ingredients) \in Nat /\ UpTo(r, cost, 0) = 0
           /\ \A n \in 1 .. Len(r.ingredients) :
                /\ r.ingredients[n].item \in Items /\ r.ingredients[n].amount \in Nat \ {0}
                /\ UpTo(r, cost, n) = Plus(UpTo(r, cost, n - 1), cost[r.ingredients[n].item],
                                           r.ingredients[n].amount)
           /\ \A n \in 0 .. Len(r.ingredients) : UpTo(r, cost, n) \in Costs
           /\ CostAt(r, cost) = PerUnit(UpTo(r, cost, Len(r.ingredients)), r)
<1> DEFINE N == Len(r.ingredients)
           w == Worths(r, cost)
           Ingredients == [item : Items, amount : Nat \ {0}]
<1>1. r.ingredients \in Seq(Ingredients) /\ r.output \in Nat \ {0}
    BY DEF Recipe
<1>2. N \in Nat /\ DOMAIN r.ingredients = 1 .. N
      /\ \A n \in 1 .. N : r.ingredients[n].item \in Items /\ r.ingredients[n].amount \in Nat \ {0}
    <2>1. \A n \in 1 .. N : r.ingredients[n] \in Ingredients
        BY <1>1, ElementOfSeq
    <2> QED  BY <1>1, <2>1, LenProperties
<1>3. \A n \in 1 .. N : cost[r.ingredients[n].item] \in Costs
    BY <1>2 DEF Pricing
<1>4. DOMAIN w = 1 .. N
      /\ \A n \in 1 .. N : w[n] = cost[r.ingredients[n].item] * r.ingredients[n].amount
    BY <1>2 DEF Worths
<1>5. \A n \in 1 .. N : w[n] \in Int
    BY <1>2, <1>3, <1>4 DEF Costs, NoPrice
<1> HIDE DEF w
<1>6. /\ Sums(w) \in [0 .. N -> Int] /\ Sums(w)[0] = 0
      /\ \A k \in 1 .. N : Sums(w)[k] = Sums(w)[k - 1] + w[k]
    BY <1>2, <1>4, <1>5, SumsOf
<1>7. UpTo(r, cost, 0) = 0
    BY <1>6 DEF UpTo, w
<1> DEFINE AllPriced(n) == \A k \in 1 .. n : cost[r.ingredients[k].item] # NoPrice
<1> DEFINE Right == {n \in Nat : n <= N /\ AllPriced(n) => Sums(w)[n] \in Nat}
<1>8. Right = Nat
    <2>1. 0 \in Right
        BY <1>6
    <2>2. ASSUME NEW n \in Right  PROVE n + 1 \in Right
        <3> SUFFICES ASSUME n + 1 <= N, AllPriced(n + 1) PROVE Sums(w)[n + 1] \in Nat
            OBVIOUS
        <3>1. n + 1 \in 1 .. N /\ n \in Nat /\ n <= N /\ (n + 1) - 1 = n /\ AllPriced(n)
            BY <1>2
        <3>2. cost[r.ingredients[n + 1].item] \in Nat
            BY <1>3, <3>1 DEF Costs
        <3>3. w[n + 1] \in Nat
            BY <1>2, <1>4, <3>1, <3>2
        <3> QED  BY <1>6, <3>1, <3>3
    <2> HIDE DEF Right
    <2> QED  BY <2>1, <2>2, Induction DEF Right
<1>9. ASSUME NEW n \in 0 .. N  PROVE UpTo(r, cost, n) \in Costs
    <2>1. n \in Right
        BY <1>2, <1>8
    <2> QED  BY <2>1 DEF UpTo, Costs, w
<1>10. ASSUME NEW n \in 1 .. N
       PROVE  UpTo(r, cost, n) = Plus(UpTo(r, cost, n - 1), cost[r.ingredients[n].item],
                                      r.ingredients[n].amount)
    <2>1. n - 1 \in Nat /\ n - 1 \in 0 .. N
        BY <1>2
    <2>2. 1 .. n = (1 .. n - 1) \cup {n}
        BY <1>2
    <2>3. CASE ~ AllPriced(n - 1)
        BY <2>2, <2>3 DEF UpTo, Plus
    <2>4. CASE cost[r.ingredients[n].item] = NoPrice
        BY <2>2, <2>4 DEF UpTo, Plus
    <2>5. CASE AllPriced(n - 1) /\ cost[r.ingredients[n].item] # NoPrice
        <3>1. UpTo(r, cost, n - 1) = Sums(w)[n - 1] /\ UpTo(r, cost, n) = Sums(w)[n]
            BY <2>2, <2>5 DEF UpTo, w
        <3>2. Sums(w)[n - 1] # NoPrice
            <4>1. n - 1 \in Right
                BY <1>8, <2>1
            <4> QED  BY <1>2, <2>1, <2>5, <4>1 DEF NoPrice
        <3> QED  BY <1>4, <1>6, <2>5, <3>1, <3>2 DEF Plus
    <2> QED  BY <2>3, <2>4, <2>5
<1>11. CostAt(r, cost) = PerUnit(UpTo(r, cost, N), r)
    <2>1. Len(w) = N
        BY <1>2, <1>4
    <2>2. CASE ~ AllPriced(N)
        BY <1>2, <2>2 DEF CostAt, UpTo, PerUnit
    <2>3. CASE AllPriced(N)
        <3>1. CostAt(r, cost) = Sums(w)[N] \div r.output /\ UpTo(r, cost, N) = Sums(w)[N]
            BY <1>2, <2>1, <2>3 DEF CostAt, UpTo, Total, w
        <3>2. Sums(w)[N] # NoPrice
            BY <1>2, <1>8, <2>3 DEF NoPrice
        <3> QED  BY <3>1, <3>2 DEF PerUnit
    <2> QED  BY <2>2, <2>3
<1> QED  BY <1>2, <1>7, <1>9, <1>10, <1>11

\* It keeps the order of the costs of the items.
LEMMA UpToInOrder ==
    ASSUME NEW r \in Recipe, NEW a \in Pricing, NEW b \in Pricing, NEW n \in 0 .. Len(r.ingredients),
           \A k \in 1 .. n : NoDearer(a[r.ingredients[k].item], b[r.ingredients[k].item])
    PROVE  NoDearer(UpTo(r, a, n), UpTo(r, b, n))
<1> DEFINE N == Len(r.ingredients)
           InOrder == {m \in Nat : m <= n => NoDearer(UpTo(r, a, m), UpTo(r, b, m))}
<1>1. /\ N \in Nat /\ n \in Nat /\ n <= N
      /\ UpTo(r, a, 0) = 0 /\ UpTo(r, b, 0) = 0
    BY UpToGrows
<1>2. InOrder = Nat
    <2>1. 0 \in InOrder
        BY <1>1 DEF NoDearer
    <2>2. ASSUME NEW m \in InOrder  PROVE m + 1 \in InOrder
        <3> SUFFICES ASSUME m + 1 <= n
                     PROVE  NoDearer(UpTo(r, a, m + 1), UpTo(r, b, m + 1))
            OBVIOUS
        <3> DEFINE k == m + 1
                   i == r.ingredients[k].item
                   amount == r.ingredients[k].amount
        <3>1. m \in Nat /\ m \in 0 .. N /\ k \in 1 .. N /\ k \in 1 .. n /\ k - 1 = m /\ m <= n
            BY <1>1
        <3>2. /\ i \in Items /\ amount \in Nat \ {0}
              /\ UpTo(r, a, m) \in Costs /\ UpTo(r, b, m) \in Costs
              /\ UpTo(r, a, k) = Plus(UpTo(r, a, m), a[i], amount)
              /\ UpTo(r, b, k) = Plus(UpTo(r, b, m), b[i], amount)
            <4> HIDE DEF k, i, amount
            <4>1. /\ i \in Items /\ amount \in Nat \ {0}
                  /\ UpTo(r, a, k) = Plus(UpTo(r, a, k - 1), a[i], amount)
                  /\ UpTo(r, b, k) = Plus(UpTo(r, b, k - 1), b[i], amount)
                BY <3>1, UpToGrows DEF i, amount
            <4>2. UpTo(r, a, m) \in Costs /\ UpTo(r, b, m) \in Costs
                BY <3>1, UpToGrows
            <4> QED  BY <3>1, <4>1, <4>2
        <3>3. NoDearer(UpTo(r, a, m), UpTo(r, b, m)) /\ NoDearer(a[i], b[i])
            BY <3>1
        <3>4. a[i] \in Costs /\ b[i] \in Costs
            BY <3>2 DEF Pricing
        <3> HIDE DEF k, i, amount
        <3> DEFINE x == UpTo(r, a, m)
                   y == UpTo(r, b, m)
                   p == a[i]
                   q == b[i]
        <3>6. /\ x \in Costs /\ y \in Costs /\ p \in Costs /\ q \in Costs /\ amount \in Nat \ {0}
              /\ NoDearer(x, y) /\ NoDearer(p, q)
              /\ UpTo(r, a, k) = Plus(x, p, amount) /\ UpTo(r, b, k) = Plus(y, q, amount)
            BY <3>2, <3>3, <3>4
        <3> HIDE DEF x, y, p, q
        <3>7. NoDearer(Plus(x, p, amount), Plus(y, q, amount))
            BY <3>6, PlusKeepsNoDearer, Zenon
        <3>5. NoDearer(UpTo(r, a, k), UpTo(r, b, k))
            BY <3>6, <3>7
        <3> QED  BY <3>5 DEF k
    <2> HIDE DEF InOrder
    <2> QED  BY <2>1, <2>2, Induction DEF InOrder
<1> QED  BY <1>1, <1>2

\* It only depends on the costs of these ingredients.
LEMMA UpToAgrees ==
    ASSUME NEW r \in Recipe, NEW a \in Pricing, NEW b \in Pricing, NEW n \in 0 .. Len(r.ingredients),
           \A k \in 1 .. n : a[r.ingredients[k].item] = b[r.ingredients[k].item]
    PROVE  UpTo(r, a, n) = UpTo(r, b, n)
<1>1. Len(r.ingredients) \in Nat
    BY UpToGrows
<1>2. \A k \in 1 .. n : a[r.ingredients[k].item] \in Costs
    <2>1. \A k \in 1 .. n : k \in 1 .. Len(r.ingredients)
        BY <1>1
    <2> QED  BY <2>1, UpToGrows DEF Pricing
<1>3. \A k \in 1 .. n : /\ NoDearer(a[r.ingredients[k].item], b[r.ingredients[k].item])
                        /\ NoDearer(b[r.ingredients[k].item], a[r.ingredients[k].item])
    BY <1>2, NoDearerIsAnOrder
<1>4. NoDearer(UpTo(r, a, n), UpTo(r, b, n)) /\ NoDearer(UpTo(r, b, n), UpTo(r, a, n))
    BY <1>3, UpToInOrder
<1> QED  BY <1>4, NoDearerIsAnOrder, UpToGrows

\* An ingredient without a cost leaves the recipe without one.
LEMMA UpToStaysUnpriced ==
    ASSUME NEW r \in Recipe, NEW cost \in Pricing, NEW n \in 0 .. Len(r.ingredients),
           UpTo(r, cost, n) = NoPrice
    PROVE  UpTo(r, cost, Len(r.ingredients)) = NoPrice
<1> DEFINE N == Len(r.ingredients)
           Unpriced_ == {m \in Nat : n <= m /\ m <= N => UpTo(r, cost, m) = NoPrice}
<1>1. N \in Nat /\ n \in Nat /\ n <= N
    BY UpToGrows
<1>2. Unpriced_ = Nat
    <2>1. 0 \in Unpriced_
        <3>1. n <= 0 => n = 0
            BY <1>1
        <3> QED  BY <3>1
    <2>2. ASSUME NEW m \in Unpriced_  PROVE m + 1 \in Unpriced_
        <3> SUFFICES ASSUME n <= m + 1, m + 1 <= N PROVE UpTo(r, cost, m + 1) = NoPrice
            OBVIOUS
        <3>1. m \in Nat /\ m <= N /\ m + 1 \in 1 .. N /\ (m + 1) - 1 = m
            BY <1>1
        <3>2. CASE n = m + 1
            BY <3>2
        <3>3. CASE n # m + 1
            <4>1. n <= m
                BY <1>1, <3>1, <3>3
            <4>2. UpTo(r, cost, m) = NoPrice
                BY <3>1, <4>1
            <4>3. UpTo(r, cost, m + 1) = Plus(UpTo(r, cost, (m + 1) - 1), cost[r.ingredients[m + 1].item],
                                              r.ingredients[m + 1].amount)
                BY <3>1, UpToGrows
            <4> QED  BY <3>1, <4>2, <4>3 DEF Plus
        <3> QED  BY <3>2, <3>3
    <2> HIDE DEF Unpriced_
    <2> QED  BY <2>1, <2>2, Induction DEF Unpriced_
<1> QED  BY <1>1, <1>2

\* What a recipe costs keeps the order of the costs of the items.
LEMMA CostAtInOrder ==
    ASSUME NEW r \in Recipe, NEW a \in Pricing, NEW b \in Pricing
    PROVE  /\ CostAt(r, a) \in Costs
           /\ (\A i \in Items : NoDearer(a[i], b[i])) => NoDearer(CostAt(r, a), CostAt(r, b))
<1> DEFINE N == Len(r.ingredients)
<1>1. N \in Nat /\ N \in 0 .. N /\ UpTo(r, a, N) \in Costs /\ UpTo(r, b, N) \in Costs
    BY UpToGrows
<1>2. CostAt(r, a) = PerUnit(UpTo(r, a, N), r) /\ CostAt(r, b) = PerUnit(UpTo(r, b, N), r)
    BY UpToGrows
<1>3. CostAt(r, a) \in Costs
    BY <1>1, <1>2, PerUnitKeepsNoDearer, NoDearerIsAnOrder
<1>4. ASSUME \A i \in Items : NoDearer(a[i], b[i])  PROVE NoDearer(CostAt(r, a), CostAt(r, b))
    <2>1. \A k \in 1 .. N : NoDearer(a[r.ingredients[k].item], b[r.ingredients[k].item])
        BY <1>4, UpToGrows
    <2>2. NoDearer(UpTo(r, a, N), UpTo(r, b, N))
        BY <1>1, <2>1, UpToInOrder
    <2> QED  BY <1>1, <1>2, <2>2, PerUnitKeepsNoDearer
<1> QED  BY <1>3, <1>4

-----------------------------------------------------------------------------
(* Costs by rounds, items by rounds, and the units of costs. *)

\* The least costs with crafts nested in each other, round by round.
LEMMA NestedCostsAre ==
    ASSUME NEW book \in Seq(Recipe), NEW price \in Pricing
    PROVE  /\ NestedCosts(book, price) \in [Nat -> Pricing] /\ NestedCosts(book, price)[0] = price
           /\ \A k \in Nat : \A i \in Items :
                NestedCosts(book, price)[k + 1][i]
                    = LeastOf(Ways(i, book, price, NestedCosts(book, price)[k]))
<1> DEFINE Step(inner) == [i \in Items |-> LeastOf(Ways(i, book, price, inner))]
<1>1. \A i : \A j \in Makers(book, i) : book[j] \in Recipe
    BY LenProperties, ElementOfSeq DEF Makers, Enabled
<1>2. ASSUME NEW inner \in Pricing  PROVE Step(inner) \in Pricing
    <2> SUFFICES ASSUME NEW i \in Items PROVE LeastOf(Ways(i, book, price, inner)) \in Costs
        BY DEF Pricing
    <2>1. price[i] \in Costs /\ \A j \in Makers(book, i) : CostAt(book[j], inner) \in Costs
        BY <1>1, CostAtInOrder DEF Pricing
    <2>2. Ways(i, book, price, inner) \in SUBSET Costs /\ Ways(i, book, price, inner) # {}
        BY <2>1 DEF Ways
    <2> QED  BY <2>2, LeastOfCosts
<1> DEFINE F == [k \in Nat |-> [inner \in Pricing |-> Step(inner)]]
<1> HIDE DEF Step
<1>3. F \in [Nat -> [Pricing -> Pricing]]
    BY <1>2
<1> HIDE DEF F
<1>4. PICK f \in [Nat -> Pricing] : ByRounds(f, price, F)
    BY <1>3, Rounds
<1>5. \A k \in Nat : f[k] = IF k = 0 THEN price ELSE Step(f[k - 1])
    <2>1. f[0] = price
        BY <1>4 DEF ByRounds
    <2>2. ASSUME NEW k \in Nat \ {0}  PROVE f[k] = Step(f[k - 1])
        <3>1. k - 1 \in Nat /\ f[k - 1] \in Pricing
            OBVIOUS
        <3> QED  BY <1>4, <3>1 DEF ByRounds, F
    <2> QED  BY <2>1, <2>2
<1>6. f = [k \in Nat |-> IF k = 0 THEN price ELSE Step(f[k - 1])]
    <2>1. f = [k \in Nat |-> f[k]]
        OBVIOUS
    <2> QED  BY <1>5, <2>1, Zenon
<1> DEFINE N == NestedCosts(book, price)
<1>7. N = [k \in Nat |-> IF k = 0 THEN price ELSE Step(N[k - 1])]
    BY <1>6, Zenon DEF NestedCosts, Step
<1> HIDE DEF N
<1>8. \A k \in Nat : N[k] = IF k = 0 THEN price ELSE Step(N[k - 1])
    BY <1>7, Zenon
<1>9. \A k \in Nat : N[k + 1] = Step(N[k])
    <2> SUFFICES ASSUME NEW k \in Nat PROVE N[k + 1] = Step(N[k])
        OBVIOUS
    <2>1. k + 1 \in Nat /\ k + 1 # 0 /\ (k + 1) - 1 = k
        OBVIOUS
    <2> QED  BY <1>8, <2>1
<1> DEFINE Typed == {k \in Nat : N[k] \in Pricing}
<1>10. Typed = Nat
    <2>1. 0 \in Typed
        BY <1>8
    <2>2. ASSUME NEW k \in Typed  PROVE k + 1 \in Typed
        <3>1. k \in Nat /\ k + 1 \in Nat /\ N[k] \in Pricing
            OBVIOUS
        <3>2. N[k + 1] = Step(N[k]) /\ Step(N[k]) \in Pricing
            BY <1>2, <1>9, <3>1, Zenon
        <3> QED  BY <3>1, <3>2
    <2> HIDE DEF Typed
    <2> QED  BY <2>1, <2>2, Induction DEF Typed
<1>11. N \in [Nat -> Pricing]
    <2>1. N = [k \in Nat |-> N[k]]
        BY <1>7, <1>8, Zenon
    <2> QED  BY <1>10, <2>1
<1> QED  BY <1>8, <1>9, <1>11 DEF N, Step

\* No way to buy or craft an item is cheaper, and one is as cheap.
LEMMA NestedCostsAreLeast ==
    ASSUME NEW book \in Seq(Recipe), NEW price \in Pricing, NEW k \in Nat, NEW i \in Items
    PROVE  LET N == NestedCosts(book, price)
           IN  /\ N[k][i] \in Costs /\ N[k + 1][i] \in Costs
               /\ NoDearer(N[k + 1][i], price[i])
               /\ \A j \in Makers(book, i) :
                    book[j] \in Recipe /\ NoDearer(N[k + 1][i], CostAt(book[j], N[k]))
               /\ \A x \in Costs :
                    /\ NoDearer(x, price[i])
                    /\ \A j \in Makers(book, i) : NoDearer(x, CostAt(book[j], N[k]))
                    => NoDearer(x, N[k + 1][i])
<1> DEFINE N == NestedCosts(book, price)
           C == Ways(i, book, price, N[k])
<1>1. \A j \in Makers(book, i) : book[j] \in Recipe
    BY LenProperties, ElementOfSeq DEF Makers, Enabled
<1>2. N[k] \in Pricing /\ N[k + 1] \in Pricing /\ N[k + 1][i] = LeastOf(C)
    <2>1. k + 1 \in Nat /\ N \in [Nat -> Pricing]
        BY NestedCostsAre
    <2>2. N[k + 1][i] = LeastOf(C)
        BY NestedCostsAre
    <2> HIDE DEF N
    <2> QED  BY <2>1, <2>2
<1> HIDE DEF N
<1>3. \A j \in Makers(book, i) : CostAt(book[j], N[k]) \in Costs
    BY <1>1, <1>2, CostAtInOrder
<1>4. C \in SUBSET Costs /\ C # {}
    BY <1>3 DEF Pricing, Ways
<1>5. N[k + 1][i] \in C /\ \A c \in C : NoDearer(N[k + 1][i], c)
    <2> HIDE DEF C
    <2> QED  BY <1>2, <1>4, LeastOfCosts
<1>6. N[k][i] \in Costs
    BY <1>2 DEF Pricing
<1> QED  BY <1>1, <1>4, <1>5, <1>6 DEF N, Ways

\* With more rounds no item gets dearer.
LEMMA NestedCostsFall ==
    ASSUME NEW book \in Seq(Recipe), NEW price \in Pricing
    PROVE  \A k \in Nat : \A i \in Items :
            /\ NoDearer(NestedCosts(book, price)[k + 1][i], NestedCosts(book, price)[k][i])
            /\ NoDearer(NestedCosts(book, price)[k][i], price[i])
<1> DEFINE N == NestedCosts(book, price)
           Falls == {k \in Nat : \A i \in Items :
                        NoDearer(N[k + 1][i], N[k][i]) /\ NoDearer(N[k][i], price[i])}
<1>1. N[0] = price
    BY NestedCostsAre
<1>2. \A k \in Nat : N[k] \in Pricing
    BY NestedCostsAre
<1> HIDE DEF N
<1>3. Falls = Nat
    <2>1. 0 \in Falls
        <3> SUFFICES ASSUME NEW i \in Items
                     PROVE  NoDearer(N[0 + 1][i], N[0][i]) /\ NoDearer(N[0][i], price[i])
            OBVIOUS
        <3>1. price[i] \in Costs
            BY DEF Pricing
        <3> QED  BY <1>1, <3>1, NestedCostsAreLeast, NoDearerIsAnOrder DEF N
    <2>2. ASSUME NEW k \in Falls  PROVE k + 1 \in Falls
        <3>1. k \in Nat /\ k + 1 \in Nat /\ \A i \in Items : NoDearer(N[k + 1][i], N[k][i])
            OBVIOUS
        <3>2. ASSUME NEW i \in Items
              PROVE  NoDearer(N[k + 1 + 1][i], N[k + 1][i]) /\ NoDearer(N[k + 1][i], price[i])
            <4>1. /\ N[k + 1 + 1][i] \in Costs /\ NoDearer(N[k + 1][i], price[i])
                  /\ NoDearer(N[k + 1 + 1][i], price[i])
                  /\ \A j \in Makers(book, i) :
                        book[j] \in Recipe /\ NoDearer(N[k + 1 + 1][i], CostAt(book[j], N[k + 1]))
                BY <3>1, NestedCostsAreLeast DEF N
            <4>2. ASSUME NEW j \in Makers(book, i)
                  PROVE  NoDearer(N[k + 1 + 1][i], CostAt(book[j], N[k]))
                <5>1. N[k] \in Pricing /\ N[k + 1] \in Pricing /\ book[j] \in Recipe
                    BY <1>2, <3>1, <4>1
                <5>2. /\ NoDearer(CostAt(book[j], N[k + 1]), CostAt(book[j], N[k]))
                      /\ CostAt(book[j], N[k + 1]) \in Costs /\ CostAt(book[j], N[k]) \in Costs
                    BY <3>1, <5>1, CostAtInOrder
                <5> QED  BY <4>1, <5>2, NoDearerIsAnOrder
            <4> QED  BY <3>1, <4>1, <4>2, NestedCostsAreLeast DEF N
        <3> HIDE DEF N
        <3> QED  BY <3>1, <3>2
    <2> HIDE DEF Falls
    <2> QED  BY <2>1, <2>2, Induction DEF Falls
<1> QED  BY <1>3 DEF N

\* With more rounds no item gets dearer, however many.
LEMMA NestedCostsStayLow ==
    ASSUME NEW book \in Seq(Recipe), NEW price \in Pricing, NEW k \in Nat, NEW n \in Nat, k <= n
    PROVE  \A i \in Items : NoDearer(NestedCosts(book, price)[n][i], NestedCosts(book, price)[k][i])
<1> DEFINE N == NestedCosts(book, price)
           Low == {m \in Nat : k <= m => \A i \in Items : NoDearer(N[m][i], N[k][i])}
<1>1. ASSUME NEW m \in Nat, NEW i \in Items
      PROVE  N[m][i] \in Costs /\ NoDearer(N[m + 1][i], N[m][i]) /\ NoDearer(N[m][i], N[m][i])
    <2>1. N[m][i] \in Costs
        BY NestedCostsAreLeast
    <2>2. NoDearer(N[m + 1][i], N[m][i])
        BY NestedCostsFall
    <2> HIDE DEF N
    <2> QED  BY <2>1, <2>2, NoDearerIsAnOrder
<1> HIDE DEF N
<1>2. Low = Nat
    <2>1. 0 \in Low
        <3>1. k <= 0 => k = 0
            OBVIOUS
        <3> QED  BY <1>1, <3>1
    <2>2. ASSUME NEW m \in Low  PROVE m + 1 \in Low
        <3> SUFFICES ASSUME k <= m + 1, NEW i \in Items PROVE NoDearer(N[m + 1][i], N[k][i])
            OBVIOUS
        <3>1. m \in Nat /\ m + 1 \in Nat
            OBVIOUS
        <3>2. CASE k = m + 1
            BY <1>1, <3>2
        <3>3. CASE k # m + 1
            <4>1. k <= m
                BY <3>1, <3>3
            <4>2. NoDearer(N[m][i], N[k][i]) /\ NoDearer(N[m + 1][i], N[m][i])
                BY <1>1, <3>1, <4>1
            <4>3. N[m][i] \in Costs /\ N[m + 1][i] \in Costs /\ N[k][i] \in Costs
                BY <1>1, <3>1
            <4> QED  BY <4>2, <4>3, NoDearerIsAnOrder
        <3> QED  BY <3>2, <3>3
    <2> HIDE DEF Low
    <2> QED  BY <2>1, <2>2, Induction DEF Low
<1> QED  BY <1>2 DEF N

\* The items without cycles below them, round by round.
LEMMA GroundedInIs ==
    ASSUME NEW book
    PROVE  /\ GroundedIn(book) \in [Nat -> SUBSET Items] /\ GroundedIn(book)[0] = {}
           /\ \A k \in Nat : \A i \in Items :
                i \in GroundedIn(book)[k + 1] <=>
                    \A j \in Makers(book, i) : \A g \in DOMAIN book[j].ingredients :
                        book[j].ingredients[g].item \in GroundedIn(book)[k]
<1> DEFINE Step(inner) ==
        {i \in Items : \A j \in Makers(book, i) :
            \A g \in DOMAIN book[j].ingredients : book[j].ingredients[g].item \in inner}
<1>1. \A inner : Step(inner) \in SUBSET Items
    OBVIOUS
<1> HIDE DEF Step
<1> DEFINE F == [k \in Nat |-> [inner \in SUBSET Items |-> Step(inner)]]
<1>2. F \in [Nat -> [SUBSET Items -> SUBSET Items]] /\ {} \in SUBSET Items
    BY <1>1
<1> HIDE DEF F
<1>3. PICK f \in [Nat -> SUBSET Items] : ByRounds(f, {}, F)
    BY <1>2, Rounds
<1>4. \A k \in Nat : f[k] = IF k = 0 THEN {} ELSE Step(f[k - 1])
    <2>1. f[0] = {}
        BY <1>3 DEF ByRounds
    <2>2. ASSUME NEW k \in Nat \ {0}  PROVE f[k] = Step(f[k - 1])
        <3>1. k - 1 \in Nat /\ f[k - 1] \in SUBSET Items
            OBVIOUS
        <3> QED  BY <1>3, <3>1 DEF ByRounds, F
    <2> QED  BY <2>1, <2>2
<1>5. f = [k \in Nat |-> IF k = 0 THEN {} ELSE Step(f[k - 1])]
    <2>1. f = [k \in Nat |-> f[k]]
        OBVIOUS
    <2> QED  BY <1>4, <2>1, Zenon
<1> DEFINE G == GroundedIn(book)
<1>6. G = [k \in Nat |-> IF k = 0 THEN {} ELSE Step(G[k - 1])]
    BY <1>5, Zenon DEF GroundedIn, Step
<1> HIDE DEF G
<1>7. \A k \in Nat : G[k] = IF k = 0 THEN {} ELSE Step(G[k - 1])
    BY <1>6, Zenon
<1>8. \A k \in Nat : G[k + 1] = Step(G[k])
    <2> SUFFICES ASSUME NEW k \in Nat PROVE G[k + 1] = Step(G[k])
        OBVIOUS
    <2>1. k + 1 \in Nat /\ k + 1 # 0 /\ (k + 1) - 1 = k
        OBVIOUS
    <2> QED  BY <1>7, <2>1
<1>9. G \in [Nat -> SUBSET Items]
    <2>1. G = [k \in Nat |-> G[k]]
        BY <1>6, <1>7, Zenon
    <2>2. \A k \in Nat : G[k] \in SUBSET Items
        BY <1>1, <1>7
    <2> QED  BY <2>1, <2>2
<1>10. \A k \in Nat : \A i \in Items :
        i \in G[k + 1] <=> \A j \in Makers(book, i) : \A g \in DOMAIN book[j].ingredients :
                                book[j].ingredients[g].item \in G[k]
    BY <1>8 DEF Step
<1> QED  BY <1>7, <1>9, <1>10 DEF G

\* The ingredients of such an item are such items, one round earlier.
LEMMA GroundedBelow ==
    ASSUME NEW book, NEW k \in Nat, NEW i \in GroundedIn(book)[k], NEW j \in Makers(book, i),
           NEW g \in DOMAIN book[j].ingredients
    PROVE  k # 0 /\ book[j].ingredients[g].item \in GroundedIn(book)[k - 1]
<1>1. i \in Items /\ k # 0
    BY GroundedInIs
<1>2. k - 1 \in Nat /\ (k - 1) + 1 = k
    BY <1>1
<1> DEFINE m == k - 1
<1>3. m \in Nat /\ i \in GroundedIn(book)[m + 1]
    BY <1>2
<1> HIDE DEF m
<1>4. book[j].ingredients[g].item \in GroundedIn(book)[m]
    BY <1>1, <1>3, GroundedInIs
<1> QED  BY <1>1, <1>4 DEF m

\* There are more of them with each round.
LEMMA GroundedGrows ==
    ASSUME NEW book
    PROVE  \A k \in Nat : GroundedIn(book)[k] \subseteq GroundedIn(book)[k + 1]
<1> DEFINE G == GroundedIn(book)
           Grows == {k \in Nat : G[k] \subseteq G[k + 1]}
<1>1. G \in [Nat -> SUBSET Items] /\ G[0] = {}
    BY GroundedInIs
<1>2. \A k \in Nat : \A i \in Items :
        i \in G[k + 1] <=> \A j \in Makers(book, i) : \A g \in DOMAIN book[j].ingredients :
                                book[j].ingredients[g].item \in G[k]
    BY GroundedInIs
<1> HIDE DEF G
<1>3. Grows = Nat
    <2>1. 0 \in Grows
        BY <1>1
    <2>2. ASSUME NEW k \in Grows  PROVE k + 1 \in Grows
        <3>1. k \in Nat /\ k + 1 \in Nat /\ G[k] \subseteq G[k + 1]
            OBVIOUS
        <3>2. ASSUME NEW i \in G[k + 1]  PROVE i \in G[k + 1 + 1]
            <4>1. i \in Items
                BY <1>1, <3>1
            <4>2. \A j \in Makers(book, i) : \A g \in DOMAIN book[j].ingredients :
                    book[j].ingredients[g].item \in G[k]
                BY <1>2, <3>1, <4>1
            <4> QED  BY <1>2, <3>1, <4>1, <4>2
        <3> QED  BY <3>1, <3>2
    <2> HIDE DEF Grows
    <2> QED  BY <2>1, <2>2, Induction DEF Grows
<1> QED  BY <1>3 DEF G

\* A cost is a multiple of a unit.
InUnits(cost, unit) == cost # NoPrice => \E t \in Nat : cost = unit * t

\* Adding keeps to the unit.
LEMMA PlusInUnits ==
    ASSUME NEW unit \in Nat \ {0}, NEW sum \in Costs, NEW price \in Costs, NEW amount \in Nat \ {0},
           InUnits(sum, unit), InUnits(price, unit)
    PROVE  InUnits(Plus(sum, price, amount), unit)
<1> SUFFICES ASSUME sum # NoPrice, price # NoPrice
             PROVE  \E t \in Nat : sum + price * amount = unit * t
    BY DEF InUnits, Plus
<1>1. PICK s \in Nat, p \in Nat : sum = unit * s /\ price = unit * p
    BY DEF InUnits
<1> WITNESS s + p * amount \in Nat
<1>2. unit * (s + p * amount) = unit * s + unit * (p * amount)
    OBVIOUS
<1>3. (unit * p) * amount = unit * (p * amount)
    OBVIOUS
<1> QED  BY <1>1, <1>2, <1>3

\* The ingredients of a recipe cost multiples of the unit that theirs are in.
LEMMA UpToInUnits ==
    ASSUME NEW r \in Recipe, NEW cost \in Pricing, NEW unit \in Nat \ {0},
           \A i \in Items : InUnits(cost[i], unit)
    PROVE  \A n \in 0 .. Len(r.ingredients) : InUnits(UpTo(r, cost, n), unit)
<1> DEFINE N == Len(r.ingredients)
           Whole == {m \in Nat : m <= N => InUnits(UpTo(r, cost, m), unit)}
<1>1. N \in Nat /\ UpTo(r, cost, 0) = 0
    BY UpToGrows
<1>2. Whole = Nat
    <2>1. 0 \in Whole
        <3>1. \E t \in Nat : 0 = unit * t
            <4> WITNESS 0 \in Nat
            <4> QED  OBVIOUS
        <3> QED  BY <1>1, <3>1 DEF InUnits
    <2>2. ASSUME NEW m \in Whole  PROVE m + 1 \in Whole
        <3> SUFFICES ASSUME m + 1 <= N PROVE InUnits(UpTo(r, cost, m + 1), unit)
            OBVIOUS
        <3> DEFINE k == m + 1
                   x == UpTo(r, cost, k - 1)
                   p == cost[r.ingredients[k].item]
                   amount == r.ingredients[k].amount
        <3>1. k \in 1 .. N /\ k - 1 = m /\ k - 1 \in 0 .. N /\ m <= N
            BY <1>1
        <3> HIDE DEF k
        <3>2. /\ UpTo(r, cost, k) = Plus(x, p, amount) /\ amount \in Nat \ {0}
              /\ r.ingredients[k].item \in Items
            BY <3>1, UpToGrows
        <3>3. x \in Costs
            BY <3>1, UpToGrows
        <3>4. p \in Costs /\ InUnits(p, unit)
            BY <3>2 DEF Pricing
        <3>5. InUnits(x, unit)
            BY <3>1
        <3> HIDE DEF x, p, amount
        <3>6. InUnits(Plus(x, p, amount), unit)
            BY <3>2, <3>3, <3>4, <3>5, PlusInUnits, Zenon
        <3> QED  BY <3>2, <3>6 DEF k
    <2> HIDE DEF Whole
    <2> QED  BY <2>1, <2>2, Induction DEF Whole
<1> QED  BY <1>1, <1>2

\* In a finer unit, and divided by the output of a recipe.
LEMMA FinerUnits ==
    ASSUME NEW coarse \in Nat \ {0}, NEW fine \in Nat \ {0}, NEW output \in Nat \ {0},
           coarse % (output * fine) = 0, NEW cost \in Nat, InUnits(cost, coarse)
    PROVE  /\ InUnits(cost, fine)
           /\ cost \div output \in Nat /\ InUnits(cost \div output, fine)
           /\ (cost \div output) * output = cost
<1> DEFINE d == output * fine
           q == coarse \div d
<1>1. d \in Nat \ {0}
    OBVIOUS
<1>2. coarse = d * q /\ q \in Int
    <2>1. coarse % d = 0
        OBVIOUS
    <2> HIDE DEF d
    <2>2. coarse = d * (coarse \div d) + (coarse % d) /\ coarse \div d \in Int
        BY <1>1
    <2> HIDE DEF q
    <2>3. coarse = d * q + 0 /\ q \in Int
        BY <2>1, <2>2, Zenon DEF q
    <2> QED  BY <1>1, <2>3
<1>3. q \in Nat
    <2> HIDE DEF d
    <2> QED  BY <1>1, QuotientsInOrder
<1> HIDE DEF q
<1>4. PICK t \in Nat : cost = coarse * t
    BY DEF InUnits, NoPrice
<1> DEFINE x == fine * (q * t)
<1>5. q * t \in Nat
    BY <1>3
<1>6. x \in Nat
    BY <1>5
<1>7. cost = output * x
    <2>1. cost = ((output * fine) * q) * t
        BY <1>2, <1>4
    <2>2. ((output * fine) * q) * t = output * (fine * (q * t))
        BY <1>3
    <2> QED  BY <2>1, <2>2
<1>8. InUnits(x, fine)
    BY <1>5 DEF InUnits
<1>9. InUnits(cost, fine)
    <2>1. output * (q * t) \in Nat
        BY <1>5
    <2>2. output * (fine * (q * t)) = fine * (output * (q * t))
        BY <1>5
    <2> QED  BY <1>7, <2>1, <2>2 DEF InUnits
<1> HIDE DEF x
<1>10. cost \div output = x
    BY <1>6, <1>7
<1>11. x * output = cost
    BY <1>6, <1>7
<1> QED  BY <1>6, <1>8, <1>9, <1>10, <1>11

-----------------------------------------------------------------------------
(* The invariant of the costs and of the plans.  With k costs known, none  *)
(* is below that with k crafts nested in each other, and all are multiples *)
(* of the unit for as many.                                                *)

\* The costs that the analyzer would answer with; how many items have theirs.
Known == [i \in Items |-> Answer(i).chosen]
RoundsDone == Cardinality(Cached)

Least(k) == NestedCosts(analysis.book, analysis.price)[k]
InRound(i, k) == k \in Nat /\ i \in GroundedIn(analysis.book)[k]
Acyclic(i) == \E k \in Nat : InRound(i, k)

\* The decisions there are, and those a decision is put together from.
Nodes == {analysis.cache[i] : i \in Cached} \cup {Bought(i) : i \in Items}
Parts(d) == {d.plan[j].made : j \in DOMAIN d.plan}

NoCheaperThan(k) == \A i \in Items : NoDearer(Least(k)[i], Known[i])
WholeIn(unit) == \A i \in Items : InUnits(Known[i], unit)
AcyclicAreLeast ==
    \A i \in Cached : Acyclic(i) => \A m \in Nat : NoDearer(Known[i], Least(m)[i])
NodesAddUp == \A d \in Nodes : AddsUp(d) /\ Parts(d) \subseteq Nodes

KnownOk ==
    /\ NoCheaperThan(RoundsDone) /\ WholeIn(Units[RoundsDone])
    /\ AcyclicAreLeast /\ NodesAddUp

\* The items on the stack differ and have no answer in the cache; each is reached
\* from those below.
StackOk(s) ==
    \A b \in 2 .. Len(s) :
        /\ s[b].item \notin Cached
        /\ \A a \in 2 .. b - 1 :
            /\ s[a].item # s[b].item
            /\ \A k \in Nat : InRound(s[a].item, k) => InRound(s[b].item, k - 1)

Below(s, p) == {s[a].item : a \in 2 .. p}

\* The ingredients of the recipe that is tried so far, all with an answer that
\* will not change, cost what the call says.
SumOk(c, answered) ==
    LET r == analysis.book[c.recipe]
    IN  c.recipe # NoRecipe =>
            /\ c.next - 1 \in 0 .. Len(r.ingredients)
            /\ \A k \in 1 .. c.next - 1 : r.ingredients[k].item \in Cached \cup answered
            /\ c.sum = UpTo(r, Known, c.next - 1)

\* The best recipe so far is as a decision for it would be.
Fits(best) ==
    /\ best.cost * best.output
        = Total([k \in DOMAIN best.plan |-> best.plan[k].made.chosen * best.plan[k].amount])
    /\ Parts(best) \subseteq Nodes

LeastOfTried(c) ==
    \A j \in Makers(analysis.book, c.item) : c.recipe = NoRecipe \/ j < c.recipe =>
        \A m \in Nat : NoDearer(c.best.cost, CostAt(analysis.book[j], Least(m)))

BestOk(c) ==
    /\ c.recipe # NoRecipe => c.recipe \in Makers(analysis.book, c.item)
    /\ NoDearer(Least(RoundsDone + 1)[c.item], c.best.cost)
    /\ Acyclic(c.item) => LeastOfTried(c)
    /\ InUnits(c.best.cost, Units[RoundsDone + 1])
    /\ c.best.cost # NoPrice => Fits(c.best)

FramesOk(s) == \A p \in 1 .. Len(s) : SumOk(s[p], Below(s, p)) /\ (p > 1 => BestOk(s[p]))

PlanInv ==
    /\ analysis.phase # "analyzing" => Cached = {}
    /\ analysis.phase = "analyzing" =>
        analysis.book \in RecipeBooks /\ KnownOk /\ StackOk(calls) /\ FramesOk(calls)

\* What is known is a price or none for each item, and with it the nested costs.
LEMMA KnownIsPricing ==
    ASSUME AnalysisOk, analysis.phase = "analyzing"
    PROVE  /\ Known \in Pricing /\ \A i \in Items : Known[i] = Answer(i).chosen
           /\ analysis.book \in Seq(Recipe) /\ analysis.price \in Pricing
           /\ \A k \in Nat : Least(k) \in Pricing
<1>1. \A i \in Items : Answer(i).chosen \in Costs
    BY AnswersNoDearer
<1>2. Known \in Pricing /\ \A i \in Items : Known[i] = Answer(i).chosen
    BY <1>1 DEF Known, Pricing
<1>3. analysis.book \in Seq(Recipe) /\ analysis.price \in Pricing
    BY DEF AnalysisOk, Pricing
<1> QED  BY <1>2, <1>3, NestedCostsAre DEF Least

\* Items are counted.
LEMMA Rounding ==
    /\ Cached \subseteq Items /\ Cardinality(Items) \in Nat
    /\ RoundsDone \in 0 .. Cardinality(Items)
    /\ \A i \in Items \ Cached :
        RoundsDone + 1 \in 1 .. Cardinality(Items) /\ Cardinality(Cached \cup {i}) = RoundsDone + 1
<1>1. Cached \subseteq Items /\ IsFiniteSet(Items)
    BY CraftAssumption DEF Cached
<1>2. IsFiniteSet(Cached) /\ Cardinality(Cached) <= Cardinality(Items)
      /\ Cardinality(Items) \in Nat /\ Cardinality(Cached) \in Nat
    BY <1>1, FS_Subset, FS_CardinalityType
<1>3. ASSUME NEW i \in Items \ Cached
      PROVE  RoundsDone + 1 \in 1 .. Cardinality(Items) /\ Cardinality(Cached \cup {i}) = RoundsDone + 1
    <2>1. Cached \cup {i} \subseteq Items
        BY <1>1
    <2>2. Cardinality(Cached \cup {i}) = Cardinality(Cached) + 1
        BY <1>2, FS_AddElement
    <2>3. Cardinality(Cached \cup {i}) <= Cardinality(Items)
        BY <1>1, <2>1, FS_Subset
    <2> QED  BY <1>2, <2>2, <2>3 DEF RoundsDone
<1> QED  BY <1>1, <1>2, <1>3 DEF RoundsDone

\* What is known only changes with the recipes, the prices and the cache.
LEMMA SameCosts ==
    ASSUME analysis'.book = analysis.book, analysis'.price = analysis.price,
           analysis'.cache = analysis.cache
    PROVE  /\ Cached' = Cached /\ Known' = Known /\ RoundsDone' = RoundsDone /\ Nodes' = Nodes
           /\ KnownOk => KnownOk'
           /\ StackOk(calls') => StackOk(calls)'
           /\ FramesOk(calls') => FramesOk(calls)'
<1>1. Cached' = Cached
    BY DEF Cached
<1>2. \A i : Bought(i)' = Bought(i) /\ Answer(i)' = Answer(i)
    BY <1>1 DEF Bought, Answer
<1>3. Known' = Known /\ RoundsDone' = RoundsDone /\ Nodes' = Nodes
    BY <1>1, <1>2 DEF Known, RoundsDone, Nodes
<1>4. /\ \A k : Least(k)' = Least(k) /\ \A i : InRound(i, k)' = InRound(i, k)
      /\ \A i : Acyclic(i)' = Acyclic(i)
    BY DEF Least, InRound, Acyclic
<1>5. KnownOk => KnownOk'
    BY <1>1, <1>3, <1>4 DEF KnownOk, NoCheaperThan, WholeIn, AcyclicAreLeast, NodesAddUp
<1>6. StackOk(calls') => StackOk(calls)'
    BY <1>1, <1>4 DEF StackOk
<1>7. \A c : BestOk(c) => BestOk(c)'
    BY <1>3, <1>4 DEF BestOk, Fits, LeastOfTried
<1>8. \A c, answered : SumOk(c, answered) => SumOk(c, answered)'
    BY <1>1, <1>3 DEF SumOk
<1>9. FramesOk(calls') => FramesOk(calls)'
    BY <1>7, <1>8 DEF FramesOk, Below
<1> QED  BY <1>1, <1>3, <1>5, <1>6, <1>9

-----------------------------------------------------------------------------
(* The calls of the analyzer keep it. *)

\* The steps that change neither the analysis nor the phase.
LEMMA OnlyCallsChange ==
    ASSUME PlanInv, UNCHANGED analysis,
           analysis.phase = "analyzing" => StackOk(calls') /\ FramesOk(calls')
    PROVE  PlanInv'
<1>1. /\ analysis'.phase = analysis.phase /\ analysis'.book = analysis.book
      /\ analysis'.price = analysis.price /\ analysis'.cache = analysis.cache
    OBVIOUS
<1>2. /\ Cached' = Cached /\ (KnownOk => KnownOk')
      /\ StackOk(calls') => StackOk(calls)'
      /\ FramesOk(calls') => FramesOk(calls)'
    BY <1>1, SameCosts
<1> QED  BY <1>1, <1>2 DEF PlanInv

\* The call at the top is replaced by one for the same item.
LEMMA TopReplaced ==
    ASSUME NEW S, calls \in Seq(S), calls # <<>>, NEW c, c.item = Call.item,
           calls' = [calls EXCEPT ![Len(calls)] = c],
           StackOk(calls), FramesOk(calls),
           SumOk(c, Below(calls, Len(calls))), Len(calls) > 1 => BestOk(c)
    PROVE  StackOk(calls') /\ FramesOk(calls')
<1> DEFINE n == Len(calls)
<1>1. n \in Nat \ {0} /\ Call = calls[n] /\ DOMAIN calls = 1 .. n
    BY LastAndFront, LenProperties DEF Call
<1>2. /\ Len(calls') = n /\ calls'[n] = c
      /\ \A p \in 1 .. n : p # n => calls'[p] = calls[p]
    <2>1. calls' \in Seq(S \cup {c}) /\ n \in 1 .. n
        BY <1>1, LastReplaced
    <2>2. DOMAIN calls' = 1 .. n
        BY <1>1
    <2>3. Len(calls') \in Nat /\ DOMAIN calls' = 1 .. Len(calls')
        BY <2>1, LenProperties
    <2>4. Len(calls') = n
        <3> HIDE DEF n
        <3> QED  BY <1>1, <2>2, <2>3
    <2>5. calls'[n] = c
        BY <1>1, <2>1
    <2>6. \A p \in 1 .. n : p # n => calls'[p] = calls[p]
        BY <1>1, <2>1
    <2> HIDE DEF n
    <2> QED  BY <2>4, <2>5, <2>6
<1> HIDE DEF n
<1>3. \A p \in 1 .. n : calls'[p].item = calls[p].item
    BY <1>1, <1>2
<1>4. ASSUME NEW p \in 1 .. n  PROVE Below(calls', p) = Below(calls, p)
    <2>1. \A a \in 2 .. p : a \in 1 .. n
        BY <1>1
    <2> QED  BY <1>3, <2>1 DEF Below
<1>5. StackOk(calls')
    <2>1. \A b \in 2 .. n : b \in 1 .. n /\ \A a \in 2 .. b - 1 : a \in 1 .. n
        BY <1>1
    <2> QED  BY <1>2, <1>3, <2>1 DEF StackOk, n
<1>6. FramesOk(calls')
    <2> SUFFICES ASSUME NEW p \in 1 .. n
                 PROVE  SumOk(calls'[p], Below(calls', p)) /\ (p > 1 => BestOk(calls'[p]))
        BY <1>2 DEF FramesOk
    <2>1. CASE p = n
        BY <1>2, <1>4, <2>1 DEF n
    <2>2. CASE p # n
        BY <1>2, <1>4, <2>2 DEF FramesOk, n
    <2> QED  BY <2>1, <2>2
<1> QED  BY <1>5, <1>6

\* What the invariants say of the call at the top.
LEMMA TopFrame ==
    ASSUME CraftInv, PlanInv, calls # <<>>
    PROVE  /\ analysis.phase = "analyzing" /\ analysis.book \in RecipeBooks
           /\ KnownOk /\ StackOk(calls) /\ FramesOk(calls)
           /\ CallOk(Call, analysis.book) /\ Len(calls) \in Nat \ {0} /\ Call = calls[Len(calls)]
           /\ SumOk(Call, Below(calls, Len(calls)))
           /\ ~AtTop => BestOk(Call) /\ Call.item \notin Cached /\ Len(calls) > 1
           /\ OnStack = Below(calls, Len(calls))
<1>1. AnalysisOk /\ CallsOk
    BY DEF CraftInv
<1>2. CallOk(Call, analysis.book) /\ analysis.phase = "analyzing" /\ Len(calls) \in Nat \ {0}
    BY <1>1, TopCall
<1>3. PICK S : calls \in Seq(S)
    BY <1>1 DEF CallsOk
<1>4. Call = calls[Len(calls)] /\ Len(calls) \in 1 .. Len(calls)
    <2>1. Call = calls[Len(calls)]
        BY <1>3, LastAndFront DEF Call
    <2> QED  BY <1>2, <2>1
<1>5. KnownOk /\ StackOk(calls) /\ FramesOk(calls) /\ analysis.book \in RecipeBooks
    BY <1>2 DEF PlanInv
<1>6. SumOk(Call, Below(calls, Len(calls))) /\ (Len(calls) > 1 => BestOk(Call))
    BY <1>4, <1>5 DEF FramesOk
<1>7. ASSUME ~AtTop  PROVE Call.item \notin Cached /\ Len(calls) > 1
    <2>1. Len(calls) \in 2 .. Len(calls)
        BY <1>2, <1>7 DEF AtTop
    <2> QED  BY <1>2, <1>4, <1>5, <2>1 DEF StackOk
<1> QED  BY <1>2, <1>4, <1>5, <1>6, <1>7 DEF OnStack, Below

\* An ingredient has its answer.
LEMMA AddIngredientKeepsPlanInv == ASSUME CraftInv, PlanInv, AddIngredient  PROVE PlanInv'
<1> DEFINE i == Ingredient.item
           amount == Ingredient.amount
           n == Call.next
           r == TheRecipe
           call == [Call EXCEPT !.next = n + 1, !.sum = Plus(Call.sum, Answer(i).chosen, amount),
                                !.direct = Plus(Call.direct, analysis.price[i], amount)]
<1>1. /\ calls # <<>> /\ Call.recipe # NoRecipe /\ ~Finished /\ HasAnswer(i)
      /\ UNCHANGED analysis /\ AnalysisOk /\ CallsOk
    BY DEF AddIngredient, WantsIngredient, CraftInv
<1>2. calls' = [calls EXCEPT ![Len(calls)] = call]
    BY Zenon DEF AddIngredient, Call, Last
<1>3. /\ analysis.phase = "analyzing" /\ StackOk(calls) /\ FramesOk(calls)
      /\ CallOk(Call, analysis.book) /\ SumOk(Call, Below(calls, Len(calls)))
      /\ (~AtTop => BestOk(Call)) /\ OnStack = Below(calls, Len(calls))
    BY <1>1, TopFrame
<1>4. r \in Recipe /\ i \in Items /\ amount \in Nat \ {0}
    BY <1>1, TopCall
<1>5. call.item = Call.item /\ call.recipe = Call.recipe /\ call.best = Call.best
      /\ call.next = n + 1 /\ call.sum = Plus(Call.sum, Known[i], amount)
    <2>1. Known[i] = Answer(i).chosen
        BY <1>1, <1>3, <1>4, KnownIsPricing
    <2> DEFINE sum == Plus(Call.sum, Known[i], amount)
               direct == Plus(Call.direct, analysis.price[i], amount)
    <2>2. call = [Call EXCEPT !.next = n + 1, !.sum = sum, !.direct = direct]
        BY <2>1
    <2> HIDE DEF sum, direct, call, i, amount
    <2>3. Call = [item |-> Call.item, recipe |-> Call.recipe, next |-> Call.next, sum |-> Call.sum,
                  direct |-> Call.direct, best |-> Call.best]
        BY <1>3 DEF CallOk
    <2>4. DOMAIN Call = {"item", "recipe", "next", "sum", "direct", "best"}
        BY <2>3
    <2> HIDE DEF n
    <2>5. call.item = Call.item /\ call.recipe = Call.recipe /\ call.best = Call.best
          /\ call.next = n + 1 /\ call.sum = sum
        BY <2>2, <2>4
    <2> QED  BY <2>5 DEF sum
<1> HIDE DEF call
<1>6. /\ n \in 1 .. Len(r.ingredients) /\ Len(r.ingredients) \in Nat
      /\ i = r.ingredients[n].item /\ amount = r.ingredients[n].amount
    <2>1. Len(r.ingredients) \in Nat /\ n \in Nat \ {0}
        BY <1>3, <1>4, UpToGrows DEF CallOk
    <2> QED  BY <1>1, <2>1 DEF Finished, Ingredient
<1>7. SumOk(call, Below(calls, Len(calls)))
    <2>1. /\ \A k \in 1 .. n - 1 : r.ingredients[k].item \in Cached \cup OnStack
          /\ Call.sum = UpTo(r, Known, n - 1)
        BY <1>1, <1>3 DEF SumOk, TheRecipe
    <2>2. i \in Cached \cup OnStack
        BY <1>1 DEF HasAnswer
    <2>3. \A k \in 1 .. n : r.ingredients[k].item \in Cached \cup OnStack
        <3>1. \A k \in 1 .. n : k = n \/ k \in 1 .. n - 1
            BY <1>6
        <3> QED  BY <1>6, <2>1, <2>2, <3>1
    <2>4. call.sum = UpTo(r, Known, n)
        <3>1. Known \in Pricing
            BY <1>1, <1>3, KnownIsPricing
        <3>2. UpTo(r, Known, n) = Plus(UpTo(r, Known, n - 1), Known[r.ingredients[n].item],
                                       r.ingredients[n].amount)
            BY <1>4, <1>6, <3>1, UpToGrows
        <3> QED  BY <1>5, <1>6, <2>1, <3>2
    <2>5. call.next - 1 = n /\ n \in 0 .. Len(r.ingredients)
        BY <1>5, <1>6
    <2>6. analysis.book[call.recipe] = r
        BY <1>5 DEF TheRecipe
    <2> HIDE DEF n, r
    <2> QED  BY <1>3, <2>3, <2>4, <2>5, <2>6 DEF SumOk
<1>8. Len(calls) > 1 => BestOk(call)
    <2>1. BestOk(Call) => BestOk(call)
        BY <1>5 DEF BestOk, LeastOfTried
    <2>2. ASSUME AtTop  PROVE ~ (Len(calls) > 1)
        <3>1. ~ (1 > 1)
            OBVIOUS
        <3> QED  BY <2>2, <3>1, Zenon DEF AtTop
    <2> QED  BY <1>3, <2>1, <2>2
<1>9. StackOk(calls') /\ FramesOk(calls')
    <2>1. PICK S : calls \in Seq(S)
        BY <1>1 DEF CallsOk
    <2> QED  BY <1>1, <1>2, <1>3, <1>5, <1>7, <1>8, <2>1, TopReplaced
<1> QED  BY <1>1, <1>9, OnlyCallsChange

\* None of the recipes is passed over.
LEMMA AfterSkipsNone ==
    ASSUME NEW recipes \in SUBSET Nat, NEW k \in Nat, NEW j \in recipes, k < j
    PROVE  After(recipes, k) # NoRecipe /\ ~ (j < After(recipes, k))
<1> DEFINE later == {x \in recipes : k < x}
<1>1. later \in SUBSET Nat /\ j \in later
    OBVIOUS
<1>2. Min(later) \in later /\ Min(later) <= j
    BY <1>1, LeastElement
<1>3. After(recipes, k) = Min(later)
    BY <1>1 DEF After
<1>4. Min(later) \in Nat /\ k < Min(later) /\ j \in Nat
    BY <1>2
<1> HIDE DEF later
<1> QED  BY <1>2, <1>3, <1>4 DEF NoRecipe

\* The recipes for an item are places in the book.
LEMMA MakersAreInTheBook ==
    ASSUME NEW book \in Seq(Recipe), NEW i
    PROVE  /\ Makers(book, i) \in SUBSET (Nat \ {0})
           /\ \A j \in Makers(book, i) : j \in DOMAIN book /\ book[j] \in Recipe
<1>1. DOMAIN book = 1 .. Len(book) /\ Len(book) \in Nat /\ \A k \in 1 .. Len(book) : book[k] \in Recipe
    BY LenProperties, ElementOfSeq
<1>2. Makers(book, i) \subseteq DOMAIN book
    BY DEF Makers, Enabled
<1> QED  BY <1>1, <1>2

\* The sum for a recipe is that of all its ingredients, or it has stopped at one
\* without a price; its cost is no more than where those before cost as much.
LEMMA CostOfRecipe ==
    ASSUME NEW r \in Recipe, NEW a \in Pricing, NEW n \in 0 .. Len(r.ingredients),
           n = Len(r.ingredients) \/ UpTo(r, a, n) = NoPrice
    PROVE  /\ PerUnit(UpTo(r, a, n), r) = CostAt(r, a)
           /\ \A b \in Pricing :
                (\A k \in 1 .. n : NoDearer(a[r.ingredients[k].item], b[r.ingredients[k].item]))
                    => NoDearer(CostAt(r, a), CostAt(r, b))
<1> DEFINE L == Len(r.ingredients)
<1>1. L \in Nat /\ n \in 0 .. L
    BY UpToGrows
<1>2. UpTo(r, a, n) = UpTo(r, a, L)
    BY <1>1, UpToStaysUnpriced
<1>3. CostAt(r, a) = PerUnit(UpTo(r, a, L), r)
    BY UpToGrows
<1>4. ASSUME NEW b \in Pricing,
             \A k \in 1 .. n : NoDearer(a[r.ingredients[k].item], b[r.ingredients[k].item])
      PROVE  NoDearer(CostAt(r, a), CostAt(r, b))
    <2>1. NoDearer(UpTo(r, a, n), UpTo(r, b, n))
        BY <1>1, <1>4, UpToInOrder
    <2>2. NoDearer(UpTo(r, a, L), UpTo(r, b, L))
        <3>1. CASE n = L
            BY <2>1, <3>1
        <3>2. CASE UpTo(r, a, n) = NoPrice
            <4>1. UpTo(r, b, n) = NoPrice
                BY <2>1, <3>2 DEF NoDearer
            <4>2. UpTo(r, b, L) = NoPrice
                BY <1>1, <4>1, UpToStaysUnpriced
            <4> QED  BY <4>2 DEF NoDearer
        <3> QED  BY <3>1, <3>2
    <2>3. /\ UpTo(r, a, L) \in Costs /\ UpTo(r, b, L) \in Costs
          /\ CostAt(r, b) = PerUnit(UpTo(r, b, L), r)
        <3>1. L \in 0 .. L
            BY <1>1
        <3> QED  BY <3>1, UpToGrows
    <2> HIDE DEF L
    <2>4. NoDearer(PerUnit(UpTo(r, a, L), r), PerUnit(UpTo(r, b, L), r))
        BY <2>2, <2>3, PerUnitKeepsNoDearer, Zenon
    <2> QED  BY <1>3, <2>3, <2>4
<1> HIDE DEF L
<1> QED  BY <1>2, <1>3, <1>4

\* The recipe that is tried for an item from which no cycle can be reached: its
\* ingredients are such items too, and none of them is on the stack.
LEMMA GroundedAnswers ==
    ASSUME CraftInv, PlanInv, calls # <<>>, ~AtTop, Call.recipe # NoRecipe, Acyclic(Call.item),
           NEW g \in DOMAIN TheRecipe.ingredients
    PROVE  Acyclic(TheRecipe.ingredients[g].item) /\ TheRecipe.ingredients[g].item \notin OnStack
<1> DEFINE i == TheRecipe.ingredients[g].item
           n == Len(calls)
           rounds == {k \in Nat : InRound(Call.item, k)}
<1>1. /\ StackOk(calls) /\ BestOk(Call) /\ OnStack = Below(calls, n)
      /\ n \in Nat \ {0} /\ n > 1 /\ Call = calls[n]
    BY TopFrame
<1>2. Call.recipe \in Makers(analysis.book, Call.item)
    BY <1>1 DEF BestOk
<1>3. \A k \in Nat : InRound(Call.item, k) => k # 0 /\ InRound(i, k - 1)
    <2> SUFFICES ASSUME NEW k \in Nat, InRound(Call.item, k)  PROVE k # 0 /\ InRound(i, k - 1)
        OBVIOUS
    <2>1. Call.item \in GroundedIn(analysis.book)[k]
        BY DEF InRound
    <2>2. k # 0 /\ i \in GroundedIn(analysis.book)[k - 1]
        BY <1>2, <2>1, GroundedBelow DEF TheRecipe
    <2> QED  BY <2>2 DEF InRound
<1>4. PICK m \in rounds : \A k \in rounds : m <= k
    <2>1. rounds \in SUBSET Nat /\ rounds # {}
        BY DEF Acyclic, InRound
    <2> HIDE DEF rounds
    <2> QED  BY <2>1, LeastElement
<1>5. m \in Nat /\ InRound(Call.item, m) /\ \A k \in Nat : InRound(Call.item, k) => m <= k
    BY <1>4
<1> HIDE DEF i, rounds, n
<1>6. m # 0 /\ InRound(i, m - 1) /\ m - 1 \in Nat
    BY <1>3, <1>5
<1>7. i \notin OnStack
    <2> SUFFICES ASSUME i \in OnStack  PROVE FALSE
        OBVIOUS
    <2>1. PICK a \in 2 .. n : calls[a].item = i
        BY <1>1 DEF Below
    <2>2. CASE a = n
        <3>1. m <= m - 1
            BY <1>1, <1>5, <1>6, <2>1, <2>2
        <3> QED  BY <1>5, <3>1
    <2>3. CASE a # n
        <3>1. n \in 2 .. Len(calls) /\ a \in 2 .. n - 1
            BY <1>1, <2>1, <2>3 DEF n
        <3>2. \A k \in Nat : InRound(calls[a].item, k) => InRound(calls[n].item, k - 1)
            BY <1>1, <3>1 DEF StackOk
        <3>3. InRound(Call.item, m - 1 - 1)
            BY <1>1, <1>6, <2>1, <3>2
        <3>4. m - 1 - 1 \in Nat
            BY <3>3 DEF InRound
        <3>5. m <= m - 1 - 1
            BY <1>5, <3>3, <3>4
        <3> QED  BY <1>5, <3>5
    <2> QED  BY <2>2, <2>3
<1>8. Acyclic(i)
    BY <1>6 DEF Acyclic
<1> QED  BY <1>7, <1>8 DEF i

\* A call on top of the others.
LEMMA CallOnTop ==
    ASSUME NEW S, calls \in Seq(S), NEW c, calls' = Append(calls, c),
           StackOk(calls), FramesOk(calls), SumOk(c, Below(calls', Len(calls) + 1)),
           calls # <<>> => BestOk(c) /\ c.item \notin Cached,
           \A a \in 2 .. Len(calls) :
                /\ calls[a].item # c.item
                /\ \A k \in Nat : InRound(calls[a].item, k) => InRound(c.item, k - 1)
    PROVE  StackOk(calls') /\ FramesOk(calls')
<1> DEFINE n == Len(calls)
<1>1. /\ n \in Nat /\ Len(calls') = n + 1 /\ calls'[n + 1] = c
      /\ \A p \in 1 .. n : calls'[p] = calls[p]
    <2>1. calls \in Seq(S \cup {c}) /\ c \in S \cup {c}
        BY SeqMonotonic
    <2> QED  BY <2>1, AppendProperties, LenProperties
<1>2. n = 0 \/ calls # <<>>
    BY <1>1, EmptySeq
<1> HIDE DEF n
<1>3. ASSUME NEW p \in 1 .. n  PROVE Below(calls', p) = Below(calls, p)
    <2>1. \A a \in 2 .. p : a \in 1 .. n
        BY <1>1
    <2> QED  BY <1>1, <2>1 DEF Below
<1>4. StackOk(calls')
    <2> SUFFICES ASSUME NEW b \in 2 .. n + 1
                 PROVE  /\ calls'[b].item \notin Cached
                        /\ \A a \in 2 .. b - 1 :
                            /\ calls'[a].item # calls'[b].item
                            /\ \A k \in Nat : InRound(calls'[a].item, k) => InRound(calls'[b].item, k - 1)
        BY <1>1 DEF StackOk
    <2>1. \A a \in 2 .. b - 1 : a \in 1 .. n /\ a \in 2 .. n
        BY <1>1
    <2>2. CASE b = n + 1
        <3>1. n # 0
            BY <1>1, <2>2
        <3> QED  BY <1>1, <1>2, <2>1, <2>2, <3>1 DEF n
    <2>3. CASE b # n + 1
        <3>1. b \in 2 .. n /\ b \in 1 .. n
            BY <1>1, <2>3
        <3> QED  BY <1>1, <2>1, <3>1 DEF StackOk, n
    <2> QED  BY <2>2, <2>3
<1>5. FramesOk(calls')
    <2> SUFFICES ASSUME NEW p \in 1 .. n + 1
                 PROVE  SumOk(calls'[p], Below(calls', p)) /\ (p > 1 => BestOk(calls'[p]))
        BY <1>1 DEF FramesOk
    <2>1. CASE p = n + 1
        <3>1. p > 1 => n # 0
            BY <1>1, <2>1
        <3> QED  BY <1>1, <1>2, <2>1, <3>1 DEF n
    <2>2. CASE p # n + 1
        <3>1. p \in 1 .. n
            BY <1>1, <2>2
        <3> QED  BY <1>1, <1>3, <3>1 DEF FramesOk, n
    <2> QED  BY <2>1, <2>2
<1> QED  BY <1>4, <1>5

\* A call begins with none of the ingredients.
LEMMA NothingSummed ==
    ASSUME AnalysisOk, analysis.phase = "analyzing", NEW k \in {NoRecipe} \cup DOMAIN analysis.book,
           NEW answered, NEW c, c.recipe = k, c.next = 1, c.sum = 0
    PROVE  SumOk(c, answered)
<1> SUFFICES ASSUME k # NoRecipe  PROVE SumOk(c, answered)
    BY DEF SumOk
<1>1. analysis.book \in Seq(Recipe) /\ Known \in Pricing
    BY KnownIsPricing
<1>2. analysis.book[k] \in Recipe
    BY <1>1, LenProperties, ElementOfSeq
<1>3. Len(analysis.book[k].ingredients) \in Nat /\ UpTo(analysis.book[k], Known, 0) = 0
    BY <1>1, <1>2, UpToGrows
<1> QED  BY <1>3 DEF SumOk

\* An ingredient has no answer yet: it is asked for in a call of its own.
LEMMA CallOptimalCostKeepsPlanInv == ASSUME CraftInv, PlanInv, CallOptimalCost  PROVE PlanInv'
<1> DEFINE i == Ingredient.item
           c == CallOf(i, After(RecipesOf(i), 0))
           n == Len(calls)
<1>1. /\ calls # <<>> /\ Call.recipe # NoRecipe /\ ~Finished /\ ~HasAnswer(i)
      /\ UNCHANGED analysis /\ AnalysisOk /\ CallsOk /\ calls' = Append(calls, c)
    BY DEF CallOptimalCost, WantsIngredient, CraftInv
<1>2. /\ analysis.phase = "analyzing" /\ StackOk(calls) /\ FramesOk(calls)
      /\ CallOk(Call, analysis.book) /\ n \in Nat \ {0} /\ Call = calls[n]
      /\ (~AtTop => BestOk(Call)) /\ OnStack = Below(calls, n)
    BY <1>1, TopFrame
<1>3. /\ c.item = i /\ c.recipe = After(RecipesOf(i), 0) /\ c.next = 1 /\ c.sum = 0
      /\ c.best.cost = NoPrice
    BY DEF CallOf, NoRecipeYet
<1>4. TheRecipe \in Recipe /\ i \in Items /\ i \notin Cached /\ i \notin OnStack
    BY <1>1, TopCall DEF HasAnswer
<1>5. analysis.book \in Seq(Recipe)
    BY <1>1, <1>2 DEF AnalysisOk
<1>6. /\ RecipesOf(i) \in SUBSET (Nat \ {0}) /\ RecipesOf(i) = Makers(analysis.book, i)
    BY <1>5, MakersAreInTheBook DEF RecipesOf
<1> HIDE DEF c, i, n
<1>7. BestOk(c)
    <2>1. c.recipe # NoRecipe => c.recipe \in Makers(analysis.book, i)
        BY <1>3, <1>6, AfterIsOneOf
    <2>2. NoDearer(Least(RoundsDone + 1)[c.item], c.best.cost)
        BY <1>3 DEF NoDearer
    <2>3. LeastOfTried(c)
        <3> SUFFICES ASSUME NEW j \in Makers(analysis.book, i), c.recipe = NoRecipe \/ j < c.recipe
                     PROVE  FALSE
            BY <1>3 DEF LeastOfTried
        <3>1. j \in RecipesOf(i) /\ 0 < j /\ RecipesOf(i) \in SUBSET Nat
            BY <1>6
        <3> QED  BY <1>3, <3>1, AfterSkipsNone
    <2>4. InUnits(c.best.cost, Units[RoundsDone + 1])
        BY <1>3 DEF InUnits
    <2> QED  BY <1>3, <2>1, <2>2, <2>3, <2>4 DEF BestOk
<1>8. SumOk(c, Below(calls', n + 1))
    <2>1. After(RecipesOf(i), 0) \in {NoRecipe} \cup DOMAIN analysis.book
        BY <1>1, <1>2, RecipesAreInTheBook
    <2> QED  BY <1>1, <1>2, <1>3, <2>1, NothingSummed
<1>9. ASSUME NEW a \in 2 .. n
      PROVE  /\ calls[a].item # c.item
             /\ \A k \in Nat : InRound(calls[a].item, k) => InRound(c.item, k - 1)
    <2>1. calls[a].item # i
        BY <1>2, <1>4 DEF Below
    <2>2. \A k \in Nat : InRound(Call.item, k) => InRound(i, k - 1)
        <3>1. ~AtTop
            BY <1>2 DEF AtTop, n
        <3>2. Call.recipe \in Makers(analysis.book, Call.item)
            BY <1>1, <1>2, <3>1 DEF BestOk
        <3>3. PICK g \in DOMAIN TheRecipe.ingredients : i = TheRecipe.ingredients[g].item
            <4>1. Len(TheRecipe.ingredients) \in Nat /\ Call.next \in Nat \ {0}
                BY <1>2, <1>4, UpToGrows DEF CallOk
            <4>2. DOMAIN TheRecipe.ingredients = 1 .. Len(TheRecipe.ingredients)
                BY <1>4, LenProperties DEF Recipe
            <4>3. Call.next \in DOMAIN TheRecipe.ingredients
                BY <1>1, <4>1, <4>2 DEF Finished
            <4> QED  BY <4>3 DEF i, Ingredient
        <3> SUFFICES ASSUME NEW k \in Nat, InRound(Call.item, k)  PROVE InRound(i, k - 1)
            OBVIOUS
        <3>4. k # 0 /\ i \in GroundedIn(analysis.book)[k - 1]
            BY <3>2, <3>3, GroundedBelow DEF InRound, TheRecipe
        <3> QED  BY <3>4 DEF InRound
    <2>3. \A k \in Nat : InRound(i, k - 1) => InRound(i, k)
        <3> SUFFICES ASSUME NEW k \in Nat, InRound(i, k - 1)  PROVE InRound(i, k)
            OBVIOUS
        <3>1. k - 1 \in Nat /\ i \in GroundedIn(analysis.book)[k - 1] /\ k - 1 + 1 = k
            BY DEF InRound
        <3> QED  BY <3>1, GroundedGrows DEF InRound
    <2>4. CASE a = n
        BY <1>2, <1>3, <2>1, <2>2, <2>4
    <2>5. CASE a # n
        <3>1. n \in 2 .. Len(calls) /\ a \in 2 .. n - 1
            BY <1>2, <2>5 DEF n
        <3>2. \A k \in Nat : InRound(calls[a].item, k) => InRound(Call.item, k - 1)
            BY <1>2, <3>1 DEF StackOk
        <3>3. \A k \in Nat : InRound(Call.item, k - 1) => InRound(i, k - 1 - 1)
            BY <2>2 DEF InRound
        <3>4. \A k \in Nat : InRound(i, k - 1 - 1) => InRound(i, k - 1)
            BY <2>3 DEF InRound
        <3> QED  BY <1>3, <2>1, <3>2, <3>3, <3>4
    <2> QED  BY <2>4, <2>5
<1>10. StackOk(calls') /\ FramesOk(calls')
    <2>1. PICK S : calls \in Seq(S)
        BY <1>1 DEF CallsOk
    <2> QED  BY <1>1, <1>2, <1>3, <1>4, <1>7, <1>8, <1>9, <2>1, CallOnTop DEF n
<1> QED  BY <1>1, <1>10, OnlyCallsChange

-----------------------------------------------------------------------------
(* The end of a recipe keeps it. *)

\* A unit and the next one.
LEMMA UnitsFit ==
    ASSUME NEW n \in Nat, n + 1 \in 1 .. Cardinality(Items), NEW book \in RecipeBooks
    PROVE  /\ Units[n] \in Nat \ {0} /\ Units[n + 1] \in Nat \ {0}
           /\ \A k \in DOMAIN book : \A cost \in Nat :
                LET output == book[k].output
                IN  InUnits(cost, Units[n]) =>
                        /\ InUnits(cost, Units[n + 1])
                        /\ cost \div output \in Nat /\ InUnits(cost \div output, Units[n + 1])
                        /\ (cost \div output) * output = cost
<1>1. (n + 1) - 1 = n /\ n \in 0 .. Cardinality(Items) /\ n + 1 \in 0 .. Cardinality(Items)
    <2>1. Cardinality(Items) \in Nat
        BY Rounding
    <2> QED  BY <2>1
<1>2. Units[n] \in Nat \ {0} /\ Units[n + 1] \in Nat \ {0}
    BY <1>1, UnitsAssumption
<1>3. ASSUME NEW k \in DOMAIN book, NEW cost \in Nat, InUnits(cost, Units[n])
      PROVE  LET output == book[k].output
             IN  /\ InUnits(cost, Units[n + 1])
                 /\ cost \div output \in Nat /\ InUnits(cost \div output, Units[n + 1])
                 /\ (cost \div output) * output = cost
    <2> DEFINE output == book[k].output
    <2>1. Units[n] % (output * Units[n + 1]) = 0
        <3>1. Units[(n + 1) - 1] % (output * Units[n + 1]) = 0
            BY UnitsAssumption
        <3> QED  BY <1>1, <3>1, Zenon
    <2>2. output \in Nat \ {0}
        <3>1. book[k] \in Recipe
            BY CraftAssumption, LenProperties, ElementOfSeq
        <3> QED  BY <3>1 DEF Recipe
    <2> HIDE DEF output
    <2>3. /\ InUnits(cost, Units[n + 1])
          /\ cost \div output \in Nat /\ InUnits(cost \div output, Units[n + 1])
          /\ (cost \div output) * output = cost
        BY <1>2, <1>3, <2>1, <2>2, FinerUnits
    <2> QED  BY <2>3 DEF output
<1> QED  BY <1>2, <1>3

\* The decisions for the ingredients of a recipe are such as there are, and add
\* up to its cost.
LEMMA DecisionsAddUp ==
    ASSUME AnalysisOk, analysis.phase = "analyzing", NEW r \in Recipe
    PROVE  /\ UpTo(r, Known, Len(r.ingredients)) # NoPrice =>
                UpTo(r, Known, Len(r.ingredients))
                    = Total([k \in DOMAIN Decisions(r) |->
                                Decisions(r)[k].made.chosen * Decisions(r)[k].amount])
           /\ {Decisions(r)[k].made : k \in DOMAIN Decisions(r)} \subseteq Nodes
<1> DEFINE d == Decisions(r)
           s == [k \in DOMAIN d |-> d[k].made.chosen * d[k].amount]
           N == Len(r.ingredients)
<1>1. Known \in Pricing /\ \A i \in Items : Known[i] = Answer(i).chosen
    BY KnownIsPricing
<1>2. N \in Nat /\ DOMAIN r.ingredients = 1 .. N /\ \A k \in 1 .. N : r.ingredients[k].item \in Items
    BY <1>1, UpToGrows, LenProperties DEF Recipe
<1>3. DOMAIN d = 1 .. N
      /\ \A k \in 1 .. N : d[k].made = Answer(r.ingredients[k].item)
                           /\ d[k].amount = r.ingredients[k].amount
    BY <1>2 DEF Decisions
<1> HIDE DEF d
<1>4. s = Worths(r, Known)
    <2>1. \A k \in 1 .. N : d[k].made.chosen * d[k].amount
                            = Known[r.ingredients[k].item] * r.ingredients[k].amount
        BY <1>1, <1>2, <1>3
    <2> QED  BY <1>2, <1>3, <2>1 DEF Worths
<1>5. Len(s) = N
    BY <1>2, <1>3
<1>6. UpTo(r, Known, N) # NoPrice => UpTo(r, Known, N) = Total(s)
    <2> HIDE DEF s
    <2> QED  BY <1>4, <1>5 DEF UpTo, Total
<1>7. \A i \in Items : Answer(i) \in Nodes
    BY DEF Answer, Nodes
<1> QED  BY <1>2, <1>3, <1>6, <1>7 DEF d

\* What the better of two recipes costs.
LEMMA TheBetter ==
    ASSUME NEW cost \in Costs, NEW best, best.cost \in Costs, NEW output, NEW plan, NEW c,
           c = IF Improves(cost, best.cost)
               THEN [cost |-> cost, output |-> output, plan |-> plan] ELSE best
    PROVE  /\ NoDearer(c.cost, cost) /\ NoDearer(c.cost, best.cost)
           /\ \/ c = best
              \/ /\ cost # NoPrice /\ c.cost = cost /\ c.output = output /\ c.plan = plan
BY DEF Improves, NoDearer, Costs, NoPrice

\* A recipe has its cost: the call goes on to the next one.
LEMMA EndRecipeKeepsPlanInv == ASSUME CraftInv, PlanInv, EndRecipe  PROVE PlanInv'
<1> DEFINE i == Call.item
           k == Call.recipe
           r == TheRecipe
           n == Call.next - 1
           K == RoundsDone
           cost == PerUnit(Call.sum, r)
           best == IF Improves(cost, Call.best.cost)
                   THEN [cost |-> cost, output |-> r.output, plan |-> PlanOf(Call.best, r)]
                   ELSE Call.best
           next == CallOf(i, After(RecipesOf(i), k))
           c == [next EXCEPT !.best = best]
<1>1. /\ calls # <<>> /\ ~AtTop /\ k # NoRecipe /\ (Finished \/ Call.sum = NoPrice)
      /\ UNCHANGED analysis /\ AnalysisOk /\ CallsOk
      /\ calls' = [calls EXCEPT ![Len(calls)] = c]
    BY DEF EndRecipe, WantsIngredient, CraftInv
<1>2. /\ analysis.phase = "analyzing" /\ analysis.book \in RecipeBooks
      /\ KnownOk /\ StackOk(calls) /\ FramesOk(calls)
      /\ CallOk(Call, analysis.book) /\ SumOk(Call, Below(calls, Len(calls)))
      /\ BestOk(Call) /\ i \notin Cached /\ OnStack = Below(calls, Len(calls))
    BY <1>1, TopFrame
<1>3. /\ c.item = i /\ c.recipe = After(RecipesOf(i), k) /\ c.next = 1 /\ c.sum = 0
      /\ c.best = best
    <2> HIDE DEF best
    <2> QED  BY DEF CallOf
<1>4. /\ Known \in Pricing /\ analysis.book \in Seq(Recipe) /\ analysis.price \in Pricing
      /\ \A m \in Nat : Least(m) \in Pricing
    BY <1>1, <1>2, KnownIsPricing
<1>5. /\ r \in Recipe /\ i \in Items /\ k \in Nat \ {0} /\ k \in RecipesOf(i)
      /\ RecipesOf(i) \in SUBSET Nat /\ RecipesOf(i) = Makers(analysis.book, i)
      /\ k \in DOMAIN analysis.book /\ r = analysis.book[k]
    <2>1. k \in Makers(analysis.book, i)
        BY <1>1, <1>2 DEF BestOk
    <2>2. Makers(analysis.book, i) \in SUBSET (Nat \ {0}) /\ k \in DOMAIN analysis.book
        BY <1>4, <2>1, MakersAreInTheBook
    <2>3. r \in Recipe /\ i \in Items
        BY <1>1, <1>2, TopCall DEF CallOk
    <2> QED  BY <2>1, <2>2, <2>3 DEF RecipesOf, TheRecipe
<1>6. /\ n \in 0 .. Len(r.ingredients) /\ Call.sum = UpTo(r, Known, n)
      /\ \A g \in 1 .. n : r.ingredients[g].item \in Cached \cup OnStack
    BY <1>1, <1>2 DEF SumOk, TheRecipe
<1>7. n = Len(r.ingredients) \/ Call.sum = NoPrice
    <2>1. Len(r.ingredients) \in Nat /\ Call.next \in Nat \ {0}
        BY <1>2, <1>4, <1>5, UpToGrows DEF CallOk
    <2>2. Finished => n = Len(r.ingredients)
        BY <1>6, <2>1 DEF Finished
    <2> QED  BY <1>1, <2>2
<1>8. /\ cost = CostAt(r, Known) /\ cost \in Costs
      /\ \A b \in Pricing :
            (\A g \in 1 .. n : NoDearer(Known[r.ingredients[g].item], b[r.ingredients[g].item]))
                => NoDearer(cost, CostAt(r, b))
    <2>1. n = Len(r.ingredients) \/ UpTo(r, Known, n) = NoPrice
        BY <1>6, <1>7
    <2>2. cost = PerUnit(UpTo(r, Known, n), r)
        BY <1>6
    <2> HIDE DEF cost, n, r
    <2>3. PerUnit(UpTo(r, Known, n), r) = CostAt(r, Known)
        BY <1>4, <1>5, <1>6, <2>1, CostOfRecipe
    <2>4. \A b \in Pricing :
            (\A g \in 1 .. n : NoDearer(Known[r.ingredients[g].item], b[r.ingredients[g].item]))
                => NoDearer(CostAt(r, Known), CostAt(r, b))
        BY <1>4, <1>5, <1>6, <2>1, CostOfRecipe
    <2>5. CostAt(r, Known) \in Costs
        BY <1>4, <1>5, CostAtInOrder
    <2> QED  BY <2>2, <2>3, <2>4, <2>5
<1>9. Call.best.cost \in Costs
    BY <1>2 DEF CallOk
<1> HIDE DEF i, k, r, n, cost, next, c
<1>10. /\ NoDearer(best.cost, cost) /\ NoDearer(best.cost, Call.best.cost)
       /\ \/ best = Call.best
          \/ cost # NoPrice /\ best.cost = cost /\ best.output = r.output /\ best.plan = Decisions(r)
    <2>1. best = IF Improves(cost, Call.best.cost)
                 THEN [cost |-> cost, output |-> r.output, plan |-> Decisions(r)] ELSE Call.best
        BY Zenon DEF PlanOf
    <2> HIDE DEF best
    <2> QED  BY <1>8, <1>9, <2>1, TheBetter
<1> HIDE DEF best
<1>11. best.cost \in Costs
    BY <1>8, <1>9, <1>10
<1>12. K \in Nat /\ Least(K) \in Pricing /\ Least(K + 1) \in Pricing
    <2>1. K \in Nat
        BY Rounding
    <2> QED  BY <1>4, <2>1
<1>13. c.recipe # NoRecipe => c.recipe \in Makers(analysis.book, c.item)
    BY <1>3, <1>5, AfterIsOneOf
<1>14. NoDearer(Least(K + 1)[i], best.cost)
    <2> DEFINE x == Least(K + 1)[i]
               y == CostAt(r, Least(K))
    <2>1. x \in Costs /\ y \in Costs
        BY <1>5, <1>12, CostAtInOrder DEF Pricing
    <2>2. NoDearer(x, y)
        BY <1>4, <1>5, <1>12, NestedCostsAreLeast DEF Least
    <2>3. NoDearer(y, cost)
        <3>1. \A g \in Items : NoDearer(Least(K)[g], Known[g])
            BY <1>2 DEF KnownOk, NoCheaperThan
        <3> QED  BY <1>4, <1>5, <1>8, <1>12, <3>1, CostAtInOrder
    <2>4. NoDearer(x, Call.best.cost)
        BY <1>2 DEF BestOk, i
    <2> HIDE DEF x, y
    <2>5. NoDearer(x, cost)
        BY <1>8, <2>1, <2>2, <2>3, NoDearerIsAnOrder, Zenon
    <2>6. NoDearer(x, best.cost)
        BY <1>10, <2>4, <2>5
    <2> QED  BY <2>6 DEF x
<1>15. ASSUME Acyclic(i), NEW j \in Makers(analysis.book, i), c.recipe = NoRecipe \/ j < c.recipe,
              NEW m \in Nat
       PROVE  NoDearer(best.cost, CostAt(analysis.book[j], Least(m)))
    <2> DEFINE x == CostAt(analysis.book[j], Least(m))
    <2>1. x \in Costs /\ j \in Nat
        <3>1. analysis.book[j] \in Recipe /\ j \in Nat
            BY <1>4, MakersAreInTheBook
        <3> QED  BY <1>4, <3>1, CostAtInOrder
    <2>2. ~ (k < j)
        BY <1>3, <1>5, <1>15, AfterSkipsNone
    <2>3. CASE j = k
        <3>1. NoDearer(cost, x)
            <4>1. ASSUME NEW g \in 1 .. n
                  PROVE  NoDearer(Known[r.ingredients[g].item], Least(m)[r.ingredients[g].item])
                <5>1. g \in DOMAIN r.ingredients
                    <6>1. DOMAIN r.ingredients = 1 .. Len(r.ingredients) /\ Len(r.ingredients) \in Nat
                        BY <1>5, LenProperties DEF Recipe
                    <6> QED  BY <1>6, <6>1
                <5>2. Acyclic(r.ingredients[g].item) /\ r.ingredients[g].item \notin OnStack
                    BY <1>1, <1>15, <5>1, GroundedAnswers DEF i, k, r
                <5>3. r.ingredients[g].item \in Cached
                    BY <1>6, <5>2
                <5> QED  BY <1>2, <5>2, <5>3 DEF KnownOk, AcyclicAreLeast
            <4> QED  BY <1>4, <1>5, <1>8, <2>3, <4>1
        <3> HIDE DEF x
        <3>2. NoDearer(best.cost, x)
            BY <1>8, <1>10, <1>11, <2>1, <3>1, NoDearerIsAnOrder, Zenon
        <3> QED  BY <3>2 DEF x
    <2>4. CASE j # k
        <3>1. j < k
            BY <1>5, <2>1, <2>2, <2>4
        <3>2. NoDearer(Call.best.cost, x)
            BY <1>2, <1>15, <3>1 DEF BestOk, LeastOfTried, i, k
        <3> HIDE DEF x
        <3>3. NoDearer(best.cost, x)
            BY <1>9, <1>10, <1>11, <2>1, <3>2, NoDearerIsAnOrder, Zenon
        <3> QED  BY <3>3 DEF x
    <2> QED  BY <2>3, <2>4
<1>16. InUnits(best.cost, Units[K + 1]) /\ (best.cost # NoPrice => Fits(best))
    <2>1. CASE best = Call.best
        BY <1>2, <2>1 DEF BestOk
    <2>2. CASE /\ cost # NoPrice /\ best.cost = cost /\ best.output = r.output
               /\ best.plan = Decisions(r)
        <3> DEFINE N == Len(r.ingredients)
                   total == UpTo(r, Known, N)
        <3>1. N \in Nat /\ total \in Costs /\ cost = PerUnit(total, r)
            <4>1. N \in Nat /\ N \in 0 .. N
                BY <1>4, <1>5, UpToGrows
            <4>2. total \in Costs /\ CostAt(r, Known) = PerUnit(total, r)
                BY <1>4, <1>5, <4>1, UpToGrows
            <4> QED  BY <1>8, <4>1, <4>2
        <3>2. K + 1 \in 1 .. Cardinality(Items) /\ Units[K] \in Nat \ {0}
            <4>1. K + 1 \in 1 .. Cardinality(Items)
                BY <1>2, <1>5, Rounding
            <4> QED  BY <1>2, <1>12, <4>1, UnitsFit
        <3>3. InUnits(total, Units[K])
            <4>1. \A g \in Items : InUnits(Known[g], Units[K])
                BY <1>2 DEF KnownOk, WholeIn
            <4>2. N \in 0 .. N
                BY <3>1
            <4> QED  BY <1>4, <1>5, <3>2, <4>1, <4>2, UpToInUnits
        <3>4. /\ total # NoPrice => total = Total([g \in DOMAIN best.plan |->
                                             best.plan[g].made.chosen * best.plan[g].amount])
              /\ Parts(best) \subseteq Nodes
            BY <1>1, <1>2, <1>5, <2>2, DecisionsAddUp DEF Parts
        <3> HIDE DEF total, N
        <3>5. total \in Nat /\ total # NoPrice /\ cost = total \div r.output
            BY <2>2, <3>1 DEF PerUnit, Costs
        <3>6. InUnits(cost, Units[K + 1]) /\ cost * r.output = total
            BY <1>2, <1>5, <1>12, <3>2, <3>3, <3>5, UnitsFit
        <3> QED  BY <2>2, <3>4, <3>5, <3>6 DEF Fits
    <2> QED  BY <1>10, <2>1, <2>2
<1>17. BestOk(c)
    <2>1. Acyclic(c.item) => LeastOfTried(c)
        BY <1>3, <1>15 DEF LeastOfTried
    <2> QED  BY <1>3, <1>13, <1>14, <1>16, <2>1 DEF BestOk
<1>18. SumOk(c, Below(calls, Len(calls)))
    <2>1. c.recipe \in {NoRecipe} \cup DOMAIN analysis.book
        BY <1>1, <1>2, <1>3, <1>5, RecipesAreInTheBook
    <2> QED  BY <1>1, <1>2, <1>3, <2>1, NothingSummed
<1>19. StackOk(calls') /\ FramesOk(calls')
    <2>1. PICK S : calls \in Seq(S)
        BY <1>1 DEF CallsOk
    <2>2. c.item = Call.item
        BY <1>3 DEF i
    <2> QED  BY <1>1, <1>2, <1>17, <1>18, <2>1, <2>2, TopReplaced
<1> QED  BY <1>1, <1>19, OnlyCallsChange

-----------------------------------------------------------------------------
(* A return keeps it. *)

\* An item is bought, or crafted as its best recipe says, and costs the less of both.
LEMMA DecisionIs ==
    ASSUME AnalysisOk, analysis.phase = "analyzing", NEW i \in Items, NEW best, best.cost \in Costs
    PROVE  /\ NoDearer(Decide(i, best).chosen, analysis.price[i])
           /\ NoDearer(Decide(i, best).chosen, best.cost)
           /\ \/ Decide(i, best) = Bought(i)
              \/ /\ best.cost # NoPrice /\ Decide(i, best).decision = "craft"
                 /\ Decide(i, best).chosen = best.cost /\ Decide(i, best).output = best.output
                 /\ Decide(i, best).plan = best.plan
           /\ Decide(i, best) # NotCached
<1>1. analysis.price[i] \in Costs /\ Bought(i).chosen = analysis.price[i]
    BY AnswersNoDearer DEF Bought
<1>2. NoDearer(Decide(i, best).chosen, analysis.price[i])
    BY AnswersNoDearer
<1>3. Bought(i) # NotCached
    BY DEF Bought, NotCached
<1>4. CASE Buys(analysis.price[i], best.cost) \/ best.cost = NoPrice
    <2>1. Decide(i, best) = Bought(i)
        BY <1>4 DEF Decide
    <2> HIDE DEF NotCached
    <2>2. NoDearer(analysis.price[i], best.cost)
        BY <1>1, <1>4 DEF Buys, NoDearer, Costs
    <2> QED  BY <1>1, <1>2, <1>3, <2>1, <2>2
<1>5. CASE ~ (Buys(analysis.price[i], best.cost) \/ best.cost = NoPrice)
    <2>1. Decide(i, best) = [chosen |-> best.cost, output |-> best.output, plan |-> best.plan,
                             decision |-> "craft"]
        BY <1>5 DEF Decide
    <2>2. /\ Decide(i, best).decision = "craft" /\ Decide(i, best).chosen = best.cost
          /\ Decide(i, best).output = best.output /\ Decide(i, best).plan = best.plan
        BY <2>1
    <2>3. Decide(i, best) # NotCached
        BY <2>2 DEF NotCached
    <2>4. NoDearer(best.cost, best.cost)
        BY DEF NoDearer, Costs, NoPrice
    <2> QED  BY <1>2, <1>5, <2>2, <2>3, <2>4
<1> QED  BY <1>4, <1>5

\* What a return changes.
LEMMA Returned ==
    ASSUME CraftInv, PlanInv, Return
    PROVE  LET i == Call.item
               made == Decide(i, Call.best)
           IN  /\ analysis'.phase = analysis.phase /\ analysis'.book = analysis.book
               /\ analysis'.price = analysis.price
               /\ ~AtTop /\ i \in Items \ Cached /\ Call.best.cost \in Costs
               /\ Cached' = Cached \cup {i} /\ RoundsDone' = RoundsDone + 1
               /\ Known' \in Pricing
               /\ \A j \in Items : Known'[j] = IF j = i THEN made.chosen ELSE Known[j]
               /\ Known[i] = analysis.price[i] /\ Bought(i) \in Nodes
               /\ Nodes' = Nodes \cup {made}
               /\ \A k : Least(k)' = Least(k)
               /\ \A j, k : InRound(j, k)' = InRound(j, k)
               /\ \A j : Acyclic(j)' = Acyclic(j)
<1> DEFINE i == Call.item
           made == Decide(i, Call.best)
           cache == [analysis.cache EXCEPT ![i] = made]
<1>1. AnalysisOk /\ CallsOk /\ calls # <<>> /\ Call.recipe = NoRecipe
    BY DEF CraftInv, Return
<1>2. /\ analysis.phase = "analyzing" /\ ~AtTop
      /\ i \in Items \ Cached /\ Call.best.cost \in Costs
    <2>1. AtTop => Call.recipe # NoRecipe
        BY <1>1, TopCall
    <2>2. i \in Items /\ Call.best.cost \in Costs /\ analysis.phase = "analyzing"
        BY <1>1, TopFrame DEF CallOk
    <2>3. ~AtTop => i \notin Cached
        BY <1>1, TopFrame
    <2> QED  BY <1>1, <2>1, <2>2, <2>3
<1>3. /\ analysis'.phase = analysis.phase /\ analysis'.book = analysis.book
      /\ analysis'.price = analysis.price /\ analysis'.cache = cache
    <2>1. analysis = [phase |-> analysis.phase, book |-> analysis.book,
                      price |-> analysis.price, cache |-> analysis.cache,
                      recipe |-> analysis.recipe, results |-> analysis.results]
        BY <1>1 DEF AnalysisOk
    <2>2. analysis' = [analysis EXCEPT !.cache = cache]
        BY Zenon DEF Return
    <2> HIDE DEF cache
    <2> QED  BY <2>1, <2>2
<1>4. made # NotCached /\ made.chosen \in Costs
    BY <1>1, <1>2, DecisionIs, AnswersNoDearer
<1> HIDE DEF made
<1>5. \A j \in Items : cache[j] = IF j = i THEN made ELSE analysis.cache[j]
    <2>1. analysis.cache = [j \in Items |-> analysis.cache[j]]
        BY <1>1 DEF AnalysisOk
    <2> QED  BY <2>1, Zenon
<1> HIDE DEF cache, i
<1>6. Cached' = Cached \cup {i}
    <2>1. Cached' = {j \in Items : cache[j] # NotCached}
        BY <1>3 DEF Cached
    <2>2. Cached = {j \in Items : analysis.cache[j] # NotCached}
        BY DEF Cached
    <2> HIDE DEF NotCached, Cached
    <2> QED  BY <1>2, <1>4, <1>5, <2>1, <2>2
<1>7. RoundsDone' = RoundsDone + 1
    BY <1>2, <1>6, Rounding DEF RoundsDone
<1>8. \A j : Bought(j)' = Bought(j)
    BY <1>3 DEF Bought
<1>9. \A j \in Items : Answer(j)' = IF j = i THEN made ELSE Answer(j)
    BY <1>2, <1>3, <1>5, <1>6, <1>8 DEF Answer
<1>10. /\ \A j \in Items : Known'[j] = IF j = i THEN made.chosen ELSE Known[j]
       /\ Known' \in Pricing
    <2>1. \A j \in Items : Known'[j] = IF j = i THEN made.chosen ELSE Known[j]
        BY <1>9 DEF Known
    <2>2. Known \in Pricing
        BY <1>1, <1>2, KnownIsPricing
    <2>3. \A j \in Items : Known'[j] \in Costs
        BY <1>4, <2>1, <2>2 DEF Pricing
    <2> QED  BY <2>1, <2>3 DEF Known, Pricing
<1>11. Known[i] = analysis.price[i] /\ Bought(i) \in Nodes
    BY <1>2 DEF Known, Answer, Bought, Nodes
<1>12. Nodes' = Nodes \cup {made}
    <2>1. Nodes' = {cache[j] : j \in Cached \cup {i}} \cup {Bought(j) : j \in Items}
        BY <1>3, <1>6, <1>8 DEF Nodes
    <2>2. \A j \in Cached : cache[j] = analysis.cache[j]
        BY <1>2, <1>5 DEF Cached
    <2>3. cache[i] = made
        BY <1>2, <1>5
    <2>4. {cache[j] : j \in Cached \cup {i}} = {analysis.cache[j] : j \in Cached} \cup {made}
        BY <2>2, <2>3
    <2> QED  BY <2>1, <2>4 DEF Nodes
<1>13. /\ \A k : Least(k)' = Least(k) /\ \A j : InRound(j, k)' = InRound(j, k)
       /\ \A j : Acyclic(j)' = Acyclic(j)
    BY <1>3 DEF Least, InRound, Acyclic
<1> QED  BY <1>2, <1>3, <1>6, <1>7, <1>10, <1>11, <1>12, <1>13 DEF i, made

\* A cost in a unit is one in the next unit.
LEMMA NextUnit ==
    ASSUME AnalysisOk, CallsOk, analysis.phase = "analyzing", analysis.book \in RecipeBooks,
           calls # <<>>, NEW n \in Nat, n + 1 \in 1 .. Cardinality(Items),
           NEW cost \in Costs, InUnits(cost, Units[n])
    PROVE  InUnits(cost, Units[n + 1])
<1>1. PICK S : calls \in Seq(S) /\ \A c \in S : CallOk(c, analysis.book)
    BY DEF CallsOk
<1>2. calls[1] \in S
    <2>1. 1 \in 1 .. Len(calls)
        BY <1>1, EmptySeq
    <2> QED  BY <1>1, <2>1, ElementOfSeq
<1>3. calls[1].recipe \in DOMAIN analysis.book
    BY <1>1, <1>2 DEF CallsOk, CallOk
<1>4. CASE cost = NoPrice
    BY <1>4 DEF InUnits
<1>5. CASE cost # NoPrice
    <2>1. cost \in Nat
        BY <1>5 DEF Costs
    <2> QED  BY <1>3, <2>1, UnitsFit
<1> QED  BY <1>4, <1>5

\* What was known and what is decided together are as they should be.
LEMMA ReturnKeepsKnown == ASSUME CraftInv, PlanInv, Return  PROVE KnownOk'
<1> DEFINE i == Call.item
           made == Decide(i, Call.best)
           K == RoundsDone
<1>1. /\ calls # <<>> /\ Call.recipe = NoRecipe /\ AnalysisOk /\ CallsOk
    BY DEF Return, CraftInv
<1>2. /\ analysis.phase = "analyzing" /\ analysis.book \in RecipeBooks /\ KnownOk
      /\ (~AtTop => BestOk(Call))
    BY <1>1, TopFrame
<1>3. /\ i \in Items \ Cached /\ Call.best.cost \in Costs /\ BestOk(Call)
      /\ Cached' = Cached \cup {i} /\ RoundsDone' = K + 1 /\ Known' \in Pricing
      /\ \A j \in Items : Known'[j] = IF j = i THEN made.chosen ELSE Known[j]
      /\ Known[i] = analysis.price[i] /\ Bought(i) \in Nodes /\ Nodes' = Nodes \cup {made}
    BY <1>2, Returned
<1>4. /\ \A k : Least(k)' = Least(k) /\ \A j : InRound(j, k)' = InRound(j, k)
      /\ \A j : Acyclic(j)' = Acyclic(j)
    BY Returned
<1>5. /\ Known \in Pricing /\ analysis.book \in Seq(Recipe) /\ analysis.price \in Pricing
      /\ \A k \in Nat : Least(k) \in Pricing
    BY <1>1, <1>2, KnownIsPricing
<1>6. K \in Nat /\ K + 1 \in Nat /\ K + 1 \in 1 .. Cardinality(Items)
    <2>1. K + 1 \in 1 .. Cardinality(Items)
        BY <1>3, Rounding
    <2>2. K \in 0 .. Cardinality(Items)
        BY Rounding
    <2> HIDE DEF K
    <2> QED  BY <2>1, <2>2
<1>7. made.chosen \in Costs
    BY <1>1, <1>2, <1>3, AnswersNoDearer
<1>8. /\ NoDearer(made.chosen, analysis.price[i]) /\ NoDearer(made.chosen, Call.best.cost)
      /\ \/ made = Bought(i)
         \/ /\ Call.best.cost # NoPrice /\ made.decision = "craft"
            /\ made.chosen = Call.best.cost /\ made.output = Call.best.output
            /\ made.plan = Call.best.plan
    BY <1>1, <1>2, <1>3, DecisionIs
<1>9. made = Bought(i) => made.chosen = analysis.price[i]
    BY DEF Bought
<1> HIDE DEF i, made, K
<1>10. NoCheaperThan(RoundsDone)'
    <2> SUFFICES ASSUME NEW j \in Items  PROVE NoDearer(Least(K + 1)[j], Known'[j])
        BY <1>3, <1>4 DEF NoCheaperThan
    <2>1. CASE j = i
        <3>1. NoDearer(Least(K + 1)[i], analysis.price[i])
            BY <1>3, <1>5, <1>6, NestedCostsAreLeast DEF Least
        <3>2. NoDearer(Least(K + 1)[i], Call.best.cost)
            BY <1>3 DEF BestOk, i, K
        <3> QED  BY <1>3, <1>8, <1>9, <2>1, <3>1, <3>2
    <2>2. CASE j # i
        <3> DEFINE x == Least(K + 1)[j]
                   y == Least(K)[j]
                   z == Known[j]
        <3>1. x \in Costs /\ y \in Costs /\ z \in Costs
            BY <1>5, <1>6 DEF Pricing
        <3>2. NoDearer(x, y)
            BY <1>5, <1>6, NestedCostsFall DEF Least
        <3>3. NoDearer(y, z)
            BY <1>2 DEF KnownOk, NoCheaperThan, K
        <3>4. Known'[j] = z
            BY <1>3, <2>2
        <3> HIDE DEF x, y, z
        <3>5. NoDearer(x, z)
            BY <3>1, <3>2, <3>3, NoDearerIsAnOrder, Zenon
        <3> QED  BY <3>4, <3>5 DEF x
    <2> QED  BY <2>1, <2>2
<1>11. WholeIn(Units[RoundsDone])'
    <2> SUFFICES ASSUME NEW j \in Items  PROVE InUnits(Known'[j], Units[K + 1])
        BY <1>3 DEF WholeIn
    <2>1. ASSUME NEW g \in Items  PROVE InUnits(Known[g], Units[K + 1])
        <3>1. InUnits(Known[g], Units[K])
            BY <1>2 DEF KnownOk, WholeIn, K
        <3>2. Known[g] \in Costs
            BY <1>5 DEF Pricing
        <3> DEFINE x == Known[g]
        <3> HIDE DEF x
        <3>3. InUnits(x, Units[K + 1])
            BY <1>1, <1>2, <1>6, <3>1, <3>2, NextUnit DEF x
        <3> QED  BY <3>3 DEF x
    <2>2. CASE j = i
        <3>1. InUnits(Call.best.cost, Units[K + 1])
            BY <1>3 DEF BestOk, K
        <3>2. InUnits(Known[i], Units[K + 1])
            BY <1>3, <2>1
        <3> QED  BY <1>3, <1>8, <1>9, <2>2, <3>1, <3>2
    <2>3. CASE j # i
        BY <1>3, <2>1, <2>3
    <2> QED  BY <2>2, <2>3
<1>12. AcyclicAreLeast'
    <2> SUFFICES ASSUME NEW j \in Cached \cup {i}, Acyclic(j), NEW m \in Nat
                 PROVE  NoDearer(Known'[j], Least(m)[j])
        BY <1>3, <1>4 DEF AcyclicAreLeast
    <2>1. CASE j = i
        <3>1. CASE m = 0
            <4>1. Least(0)[i] = analysis.price[i]
                BY <1>5, NestedCostsAre DEF Least
            <4> QED  BY <1>3, <1>8, <2>1, <3>1, <4>1
        <3>2. CASE m # 0
            <4> DEFINE p == m - 1
            <4>1. p \in Nat /\ p + 1 = m
                BY <3>2
            <4>2. \A jj \in Makers(analysis.book, i) :
                    NoDearer(Call.best.cost, CostAt(analysis.book[jj], Least(p)))
                BY <1>1, <1>3, <2>1, <4>1 DEF BestOk, LeastOfTried, i
            <4> HIDE DEF p
            <4>3. \A jj \in Makers(analysis.book, i) :
                    NoDearer(made.chosen, CostAt(analysis.book[jj], Least(p)))
                <5> SUFFICES ASSUME NEW jj \in Makers(analysis.book, i)
                             PROVE  NoDearer(made.chosen, CostAt(analysis.book[jj], Least(p)))
                    OBVIOUS
                <5> DEFINE x == made.chosen
                           y == Call.best.cost
                           z == CostAt(analysis.book[jj], Least(p))
                <5>1. analysis.book[jj] \in Recipe
                    BY <1>5, MakersAreInTheBook
                <5>2. x \in Costs /\ y \in Costs /\ z \in Costs
                    BY <1>3, <1>5, <1>7, <4>1, <5>1, CostAtInOrder
                <5>3. NoDearer(x, y) /\ NoDearer(y, z)
                    BY <1>8, <4>2
                <5> HIDE DEF x, y, z
                <5>4. NoDearer(x, z)
                    BY <5>2, <5>3, NoDearerIsAnOrder, Zenon
                <5> QED  BY <5>4 DEF x, z
            <4>4. NoDearer(made.chosen, Least(p + 1)[i])
                BY <1>3, <1>5, <1>7, <1>8, <4>1, <4>3, NestedCostsAreLeast DEF Least
            <4> QED  BY <1>3, <2>1, <4>1, <4>4
        <3> QED  BY <3>1, <3>2
    <2>2. CASE j # i
        <3>1. j \in Cached /\ j \in Items
            BY <2>2 DEF Cached
        <3>2. NoDearer(Known[j], Least(m)[j])
            BY <1>2, <3>1 DEF KnownOk, AcyclicAreLeast
        <3> QED  BY <1>3, <2>2, <3>1, <3>2
    <2> QED  BY <2>1, <2>2
<1>13. NodesAddUp'
    <2>1. \A d \in Nodes : AddsUp(d) /\ Parts(d) \subseteq Nodes
        BY <1>2 DEF KnownOk, NodesAddUp
    <2>2. AddsUp(made) /\ Parts(made) \subseteq Nodes
        <3>1. CASE made = Bought(i)
            BY <1>3, <2>1, <3>1
        <3>2. CASE /\ Call.best.cost # NoPrice /\ made.decision = "craft"
                   /\ made.chosen = Call.best.cost /\ made.output = Call.best.output
                   /\ made.plan = Call.best.plan
            <4>1. Fits(Call.best)
                BY <1>3, <3>2 DEF BestOk
            <4> QED  BY <3>2, <4>1 DEF Fits, AddsUp, Parts
        <3> QED  BY <1>8, <3>1, <3>2
    <2>3. \A d \in Nodes' : AddsUp(d) /\ Parts(d) \subseteq Nodes'
        BY <1>3, <2>1, <2>2
    <2> QED  BY <2>3 DEF NodesAddUp
<1> QED  BY <1>10, <1>11, <1>12, <1>13 DEF KnownOk

\* The calls below the one at the top.
LEMMA BelowTheTop ==
    ASSUME NEW S, calls \in Seq(S), calls # <<>>
    PROVE  /\ Len(Front(calls)) = Len(calls) - 1
           /\ \A p \in 1 .. Len(calls) - 1 : Front(calls)[p] = calls[p]
<1> DEFINE n == Len(calls) - 1
<1>1. n \in Nat /\ \A k \in 1 .. n : calls[k] \in S
    <2>1. Len(calls) \in Nat \ {0} /\ \A k \in 1 .. Len(calls) : calls[k] \in S
        BY EmptySeq, ElementOfSeq
    <2> QED  BY <2>1
<1>2. /\ SubSeq(calls, 1, n) \in Seq(S)
      /\ Len(SubSeq(calls, 1, n)) = IF 1 <= n THEN n - 1 + 1 ELSE 0
      /\ \A k \in 1 .. n - 1 + 1 : SubSeq(calls, 1, n)[k] = calls[1 + k - 1]
    BY <1>1, SubSeqProperties
<1>3. \A p \in 1 .. n : SubSeq(calls, 1, n)[p] = calls[p]
    <2> SUFFICES ASSUME NEW p \in 1 .. n  PROVE SubSeq(calls, 1, n)[p] = calls[p]
        OBVIOUS
    <2>1. p \in 1 .. n - 1 + 1 /\ 1 + p - 1 = p
        BY <1>1
    <2> HIDE DEF n
    <2> QED  BY <1>2, <2>1
<1>4. Len(SubSeq(calls, 1, n)) = n
    <2> HIDE DEF n
    <2> QED  BY <1>1, <1>2
<1>5. Front(calls) = SubSeq(calls, 1, n)
    BY DEF Front
<1> HIDE DEF n
<1> QED  BY <1>3, <1>4, <1>5 DEF n

\* A call of _optimal_cost returns what it has cached.
LEMMA ReturnKeepsPlanInv == ASSUME CraftInv, PlanInv, Return  PROVE PlanInv'
<1> DEFINE i == Call.item
           n == Len(calls)
           K == RoundsDone
<1>1. /\ calls # <<>> /\ Call.recipe = NoRecipe /\ AnalysisOk /\ CallsOk /\ calls' = Front(calls)
    BY DEF Return, CraftInv
<1>2. /\ analysis.phase = "analyzing" /\ analysis.book \in RecipeBooks /\ KnownOk
      /\ StackOk(calls) /\ FramesOk(calls) /\ Call = calls[n] /\ n \in Nat \ {0}
      /\ (~AtTop => n > 1)
    BY <1>1, TopFrame
<1>3. /\ i \in Items \ Cached
      /\ Cached' = Cached \cup {i} /\ RoundsDone' = K + 1 /\ Known' \in Pricing
      /\ \A j \in Items : j # i => Known'[j] = Known[j]
      /\ Nodes \subseteq Nodes' /\ n > 1
      /\ analysis'.phase = "analyzing" /\ analysis'.book = analysis.book
    BY <1>2, Returned
<1>4. /\ \A k : Least(k)' = Least(k) /\ \A j : InRound(j, k)' = InRound(j, k)
      /\ \A j : Acyclic(j)' = Acyclic(j)
    BY Returned
<1>5. /\ Known \in Pricing /\ analysis.book \in Seq(Recipe) /\ analysis.price \in Pricing
      /\ \A k \in Nat : Least(k) \in Pricing
    BY <1>1, <1>2, KnownIsPricing
<1>6. K \in Nat /\ K + 1 \in Nat /\ Cardinality(Items) \in Nat
    <2>1. K \in 0 .. Cardinality(Items) /\ Cardinality(Items) \in Nat
        BY Rounding
    <2> HIDE DEF K
    <2> QED  BY <2>1
<1>7. PICK S : calls \in Seq(S) /\ \A c \in S : CallOk(c, analysis.book)
    BY <1>1 DEF CallsOk
<1>8. Len(calls') = n - 1 /\ \A p \in 1 .. n - 1 : calls'[p] = calls[p]
    BY <1>1, <1>7, BelowTheTop
<1>9. \A p \in 1 .. n : CallOk(calls[p], analysis.book)
    BY <1>7, ElementOfSeq
<1> HIDE DEF i, n, K
<1>10. n \in 2 .. n /\ n - 1 \in Nat /\ \A p \in 1 .. n - 1 : p \in 1 .. n
    BY <1>2, <1>3
<1>11. \A b \in 2 .. n - 1 : calls[b].item \notin Cached \cup {i}
    <2> SUFFICES ASSUME NEW b \in 2 .. n - 1  PROVE calls[b].item \notin Cached \cup {i}
        OBVIOUS
    <2>1. b \in 2 .. n
        BY <1>10
    <2>2. calls[b].item # calls[n].item
        BY <1>2, <1>10 DEF StackOk, n
    <2> QED  BY <1>2, <2>1, <2>2 DEF StackOk, i, n
<1>12. StackOk(calls)'
    <2> SUFFICES ASSUME NEW b \in 2 .. n - 1
                 PROVE  /\ calls'[b].item \notin Cached'
                        /\ \A a \in 2 .. b - 1 :
                            /\ calls'[a].item # calls'[b].item
                            /\ \A k \in Nat : InRound(calls'[a].item, k) => InRound(calls'[b].item, k - 1)
        BY <1>4, <1>8 DEF StackOk
    <2>1. b \in 2 .. n /\ b \in 1 .. n - 1 /\ \A a \in 2 .. b - 1 : a \in 1 .. n - 1
        BY <1>10
    <2> QED  BY <1>2, <1>3, <1>8, <1>11, <2>1 DEF StackOk, n
<1>13. ASSUME NEW p \in 1 .. n - 1  PROVE SumOk(calls[p], Below(calls, p))'
    <2> DEFINE c == calls[p]
               r == analysis.book[c.recipe]
               answered == Cached \cup Below(calls, p)
    <2>1. p \in 1 .. n /\ calls'[p] = c /\ CallOk(c, analysis.book)
        BY <1>8, <1>9, <1>10
    <2>2. SumOk(c, Below(calls, p))
        BY <1>2, <2>1 DEF FramesOk, n
    <2>3. Below(calls', p) = Below(calls, p)
        <3>1. \A a \in 2 .. p : a \in 1 .. n - 1
            BY <1>10
        <3> QED  BY <1>8, <3>1 DEF Below
    <2>4. i \notin answered
        <3>1. \A a \in 2 .. p : a \in 2 .. n - 1
            BY <1>10
        <3> QED  BY <1>3, <1>11, <3>1 DEF Below
    <2> SUFFICES ASSUME c.recipe # NoRecipe
                 PROVE  /\ c.next - 1 \in 0 .. Len(r.ingredients)
                        /\ \A k \in 1 .. c.next - 1 : r.ingredients[k].item \in Cached' \cup Below(calls, p)
                        /\ c.sum = UpTo(r, Known', c.next - 1)
        BY <1>3, <2>1, <2>3 DEF SumOk
    <2>5. /\ c.next - 1 \in 0 .. Len(r.ingredients)
          /\ \A k \in 1 .. c.next - 1 : r.ingredients[k].item \in answered
          /\ c.sum = UpTo(r, Known, c.next - 1)
        BY <2>2 DEF SumOk
    <2>6. r \in Recipe
        <3>1. c.recipe \in DOMAIN analysis.book
            BY <2>1 DEF CallOk
        <3> QED  BY <1>5, <3>1, LenProperties, ElementOfSeq
    <2>7. ASSUME NEW k \in 1 .. c.next - 1
          PROVE  Known'[r.ingredients[k].item] = Known[r.ingredients[k].item]
        <3>1. k \in 1 .. Len(r.ingredients)
            <4>1. Len(r.ingredients) \in Nat
                BY <1>5, <2>6, UpToGrows
            <4> QED  BY <2>5, <4>1
        <3>2. r.ingredients[k].item \in Items
            BY <1>5, <2>6, <3>1, UpToGrows
        <3>3. r.ingredients[k].item # i
            BY <2>4, <2>5
        <3> QED  BY <1>3, <3>2, <3>3
    <2> DEFINE m == c.next - 1
    <2> HIDE DEF c, r, m
    <2>8. UpTo(r, Known', m) = UpTo(r, Known, m)
        BY <1>3, <1>5, <2>5, <2>6, <2>7, UpToAgrees DEF m
    <2> QED  BY <1>3, <2>5, <2>8 DEF m
<1>14. ASSUME NEW p \in 1 .. n - 1, p > 1  PROVE BestOk(calls[p])'
    <2> DEFINE c == calls[p]
    <2>1. p \in 1 .. n /\ calls'[p] = c /\ CallOk(c, analysis.book) /\ p \in 2 .. n - 1
        BY <1>8, <1>9, <1>10, <1>14
    <2>2. BestOk(c)
        BY <1>2, <1>14, <2>1 DEF FramesOk, n
    <2>3. c.item \in Items /\ c.item \notin Cached \cup {i} /\ c.best.cost \in Costs
        BY <1>11, <2>1 DEF CallOk
    <2> HIDE DEF c
    <2>4. NoDearer(Least(K + 1 + 1)[c.item], c.best.cost)
        <3> DEFINE x == Least(K + 1 + 1)[c.item]
                   y == Least(K + 1)[c.item]
                   z == c.best.cost
        <3>1. x \in Costs /\ y \in Costs /\ z \in Costs
            <4>1. K + 1 + 1 \in Nat
                BY <1>6
            <4> QED  BY <1>5, <1>6, <2>3, <4>1 DEF Pricing
        <3>2. NoDearer(x, y)
            BY <1>5, <1>6, <2>3, NestedCostsFall DEF Least
        <3>3. NoDearer(y, z)
            BY <2>2 DEF BestOk, K
        <3> HIDE DEF x, y, z
        <3>4. NoDearer(x, z)
            BY <3>1, <3>2, <3>3, NoDearerIsAnOrder, Zenon
        <3> QED  BY <3>4 DEF x, z
    <2>5. InUnits(c.best.cost, Units[K + 1 + 1])
        <3>1. InUnits(c.best.cost, Units[K + 1])
            BY <2>2 DEF BestOk, K
        <3>2. K + 1 + 1 \in 1 .. Cardinality(Items)
            <4>1. Cached \cup {i, c.item} \subseteq Items /\ IsFiniteSet(Items)
                BY <1>3, <2>3, CraftAssumption DEF Cached
            <4>2. Cardinality(Cached \cup {i}) = K + 1
                BY <1>3, Rounding DEF K
            <4>3. IsFiniteSet(Cached \cup {i}) /\ IsFiniteSet(Cached \cup {i, c.item})
                BY <4>1, FS_Subset
            <4>4. Cached \cup {i, c.item} = (Cached \cup {i}) \cup {c.item}
                OBVIOUS
            <4>5. Cardinality(Cached \cup {i, c.item}) = K + 1 + 1
                BY <2>3, <4>2, <4>3, <4>4, FS_AddElement
            <4>6. Cardinality(Cached \cup {i, c.item}) <= Cardinality(Items)
                BY <4>1, FS_Subset
            <4> QED  BY <1>6, <4>5, <4>6
        <3> QED  BY <1>1, <1>2, <1>6, <2>3, <3>1, <3>2, NextUnit
    <2>6. Fits(c.best) => Fits(c.best)'
        BY <1>3, <2>1 DEF Fits, c
    <2> QED  BY <1>3, <1>4, <2>1, <2>2, <2>4, <2>5, <2>6 DEF BestOk, LeastOfTried, c
<1>15. FramesOk(calls)'
    BY <1>8, <1>13, <1>14 DEF FramesOk
<1>16. KnownOk'
    BY ReturnKeepsKnown
<1> QED  BY <1>2, <1>3, <1>12, <1>15, <1>16 DEF PlanInv

-----------------------------------------------------------------------------
(* So does every step. *)

\* No call is open.
LEMMA NoFrames == calls = <<>> => StackOk(calls) /\ FramesOk(calls)
<1> SUFFICES ASSUME calls = <<>>  PROVE StackOk(calls) /\ FramesOk(calls)
    OBVIOUS
<1>1. Len(calls) = 0
    OBVIOUS
<1>2. 2 .. 0 = {} /\ 1 .. 0 = {}
    OBVIOUS
<1> QED  BY <1>1, <1>2 DEF StackOk, FramesOk

\* A run begins with the prices that it has read.
LEMMA BeginAnalysisKeepsPlanInv == ASSUME CraftInv, BeginAnalysis  PROVE PlanInv'
<1>1. PICK book \in RecipeBooks, price \in PriceLists :
        analysis' = [IdleAnalysis EXCEPT
                       !.phase = "analyzing", !.book = book, !.price = price,
                       !.recipe = After(Enabled(book), 0)]
    BY DEF BeginAnalysis
<1>2. /\ analysis'.phase = "analyzing" /\ analysis'.book = book /\ analysis'.price = price
      /\ analysis'.cache = [i \in Items |-> NotCached]
    BY <1>1 DEF IdleAnalysis
<1>3. book \in Seq(Recipe) /\ price \in Pricing
    <2>1. book \in Seq(Recipe) /\ price \in [Items -> Nat \cup {NoPrice}]
        BY CraftAssumption
    <2> QED  BY <2>1 DEF Pricing, Costs
<1>4. Cached' = {} /\ RoundsDone' = 0
    <2>1. Cached' = {}
        BY <1>2 DEF Cached
    <2> QED  BY <2>1, FS_EmptySet DEF RoundsDone
<1>5. \A i \in Items : Bought(i)'.chosen = price[i] /\ Bought(i)'.decision # "craft"
                       /\ Bought(i)'.plan = <<>>
    BY <1>2 DEF Bought
<1>6. \A i \in Items : Known'[i] = price[i]
    BY <1>4, <1>5 DEF Known, Answer
<1>7. \A i \in Items : Least(0)'[i] = price[i] /\ price[i] \in Costs
    BY <1>2, <1>3, NestedCostsAre DEF Least, Pricing
<1>8. NoCheaperThan(RoundsDone)'
    BY <1>4, <1>6, <1>7, NoDearerIsAnOrder DEF NoCheaperThan
<1>9. WholeIn(Units[RoundsDone])'
    <2> SUFFICES ASSUME NEW i \in Items  PROVE InUnits(price[i], Units[0])
        BY <1>4, <1>6 DEF WholeIn
    <2> DEFINE x == price[i]
               unit == Units[0]
    <2>1. unit \in Nat \ {0}
        <3>1. 0 \in 0 .. Cardinality(Items)
            BY Rounding
        <3> QED  BY <3>1, UnitsAssumption
    <2>2. x # NoPrice => x \in Nat /\ x % unit = 0
        BY <1>7, UnitsAssumption DEF Costs
    <2> HIDE DEF x, unit
    <2>3. ASSUME x # NoPrice  PROVE \E t \in Nat : x = unit * t
        <3>1. x \in Nat /\ x % unit = 0
            BY <2>2, <2>3
        <3>2. x = unit * (x \div unit) + (x % unit) /\ x \div unit \in Int
            BY <2>1, <3>1
        <3> DEFINE t == x \div unit
        <3>3. t \in Nat
            BY <2>1, <3>1, QuotientsInOrder
        <3> HIDE DEF t
        <3>4. x = unit * t
            BY <2>1, <3>1, <3>2, <3>3 DEF t
        <3> QED  BY <3>3, <3>4
    <2> QED  BY <2>3 DEF InUnits, x, unit
<1>10. AcyclicAreLeast'
    BY <1>4 DEF AcyclicAreLeast
<1>11. NodesAddUp'
    <2>1. Nodes' = {Bought(i)' : i \in Items}
        BY <1>4 DEF Nodes
    <2>2. \A d \in Nodes' : d.decision # "craft" /\ d.plan = <<>>
        BY <1>5, <2>1
    <2>3. \A d \in Nodes' : AddsUp(d) /\ Parts(d) \subseteq Nodes'
        BY <2>2 DEF AddsUp, Parts
    <2> QED  BY <2>3 DEF NodesAddUp
<1>12. StackOk(calls)' /\ FramesOk(calls)'
    <2>1. calls' = <<>>
        BY DEF BeginAnalysis, CraftInv, CallsOk
    <2>2. (calls = <<>> => StackOk(calls) /\ FramesOk(calls))'
        BY NoFrames, PTL
    <2> QED  BY <2>1, <2>2
<1> QED  BY <1>2, <1>8, <1>9, <1>10, <1>11, <1>12 DEF PlanInv, KnownOk

\* The next recipe is analyzed.
LEMMA AnalyzeRecipeKeepsPlanInv == ASSUME CraftInv, PlanInv, AnalyzeRecipe  PROVE PlanInv'
<1> DEFINE c == CallOf(analysis.book[analysis.recipe].result, analysis.recipe)
<1>1. /\ analysis.phase = "analyzing" /\ UNCHANGED analysis /\ calls = <<>> /\ calls' = <<c>>
      /\ AnalysisOk /\ StackOk(calls) /\ FramesOk(calls)
    BY DEF AnalyzeRecipe, CraftInv, PlanInv
<1>2. c.recipe = analysis.recipe /\ c.next = 1 /\ c.sum = 0
    BY DEF CallOf
<1>3. analysis.recipe \in {NoRecipe} \cup DOMAIN analysis.book
    BY <1>1 DEF AnalysisOk
<1> HIDE DEF c
<1>4. SumOk(c, Below(calls', Len(calls) + 1))
    BY <1>1, <1>2, <1>3, NothingSummed
<1>5. calls \in Seq({}) /\ calls' = Append(calls, c)
    BY <1>1
<1>6. \A a \in 2 .. Len(calls) : FALSE
    BY <1>1
<1>7. StackOk(calls') /\ FramesOk(calls')
    BY <1>1, <1>4, <1>5, <1>6, CallOnTop
<1> QED  BY <1>1, <1>7, OnlyCallsChange

\* A recipe has been analyzed.
LEMMA EndAnalyzeRecipeKeepsPlanInv == ASSUME CraftInv, PlanInv, EndAnalyzeRecipe  PROVE PlanInv'
<1>1. /\ calls # <<>> /\ calls' = <<>> /\ AnalysisOk
    BY DEF EndAnalyzeRecipe, CraftInv
<1>2. analysis.phase = "analyzing" /\ analysis.book \in RecipeBooks /\ KnownOk
    BY <1>1, TopFrame
<1>3. /\ analysis'.phase = analysis.phase /\ analysis'.book = analysis.book
      /\ analysis'.price = analysis.price /\ analysis'.cache = analysis.cache
    <2> DEFINE a1 == [analysis EXCEPT !.recipe = After(Enabled(analysis.book), analysis.recipe)]
               results == Append(analysis.results,
                                 Analyzed(TheRecipe, PerUnit(Call.sum, TheRecipe),
                                          PerUnit(Call.direct, TheRecipe)))
    <2>1. analysis = [phase |-> analysis.phase, book |-> analysis.book,
                      price |-> analysis.price, cache |-> analysis.cache,
                      recipe |-> analysis.recipe, results |-> analysis.results]
        BY <1>1 DEF AnalysisOk
    <2>2. analysis' = [a1 EXCEPT !.results = results]
        BY Zenon DEF EndAnalyzeRecipe
    <2>3. /\ a1.phase = analysis.phase /\ a1.book = analysis.book
          /\ a1.price = analysis.price /\ a1.cache = analysis.cache
          /\ DOMAIN a1 = {"phase", "book", "price", "cache", "recipe", "results"}
        BY <2>1
    <2> HIDE DEF a1, results
    <2> QED  BY <2>2, <2>3
<1>4. StackOk(calls)' /\ FramesOk(calls)'
    <2>1. (calls = <<>> => StackOk(calls) /\ FramesOk(calls))'
        BY NoFrames, PTL
    <2> QED  BY <1>1, <2>1
<1>5. KnownOk'
    BY <1>2, <1>3, SameCosts
<1> QED  BY <1>2, <1>3, <1>4, <1>5 DEF PlanInv

\* No run is in flight.
LEMMA RestKeepsPlanInv == analysis \in {AtRest("idle"), AtRest("pruning")} => PlanInv
<1> SUFFICES ASSUME analysis \in {AtRest("idle"), AtRest("pruning")}  PROVE PlanInv
    OBVIOUS
<1>1. analysis.phase # "analyzing" /\ analysis.cache = [i \in Items |-> NotCached]
    BY DEF AtRest
<1>2. Cached = {}
    BY <1>1 DEF Cached
<1> QED  BY <1>1, <1>2 DEF PlanInv

\* Initially no run is in flight.
LEMMA PlanStart == ASSUME CraftInit  PROVE PlanInv
BY IdleIsAtRest, RestKeepsPlanInv DEF CraftInit

\* Every step keeps the invariant.
LEMMA PlanStep == ASSUME CraftInv, PlanInv, [CraftNext]_craftVars  PROVE PlanInv'
<1>1. CASE BeginAnalysis
    BY <1>1, BeginAnalysisKeepsPlanInv
<1>2. CASE AnalyzeRecipe
    BY <1>2, AnalyzeRecipeKeepsPlanInv
<1>3. CASE AddIngredient
    BY <1>3, AddIngredientKeepsPlanInv
<1>4. CASE CallOptimalCost
    BY <1>4, CallOptimalCostKeepsPlanInv
<1>5. CASE EndRecipe
    BY <1>5, EndRecipeKeepsPlanInv
<1>6. CASE Return
    BY <1>6, ReturnKeepsPlanInv
<1>7. CASE EndAnalyzeRecipe
    BY <1>7, EndAnalyzeRecipeKeepsPlanInv
<1>8. CASE SaveAnalysis \/ PruneRuns \/ FailAnalysis
    <2>1. analysis' \in {IdleAnalysis, [IdleAnalysis EXCEPT !.phase = "pruning"]}
        BY <1>8 DEF SaveAnalysis, PruneRuns, FailAnalysis
    <2>2. (analysis \in {AtRest("idle"), AtRest("pruning")} => PlanInv)'
        BY RestKeepsPlanInv, PTL
    <2> QED  BY <2>1, <2>2, IdleIsAtRest
<1>9. CASE OpenLatest \/ ReplyLatest \/ UNCHANGED craftVars
    <2>1. UNCHANGED analysis /\ calls' = calls
        BY <1>9 DEF OpenLatest, ReplyLatest, craftVars
    <2> QED  BY <2>1, OnlyCallsChange DEF PlanInv
<1> QED  BY <1>1, <1>2, <1>3, <1>4, <1>5, <1>6, <1>7, <1>8, <1>9 DEF CraftNext

\* The costs and the plans are as they should be at all times.
LEMMA PlanInvariant == CraftSpec => [](CraftInv /\ PlanInv)
<1>1. CraftInit => CraftInv /\ PlanInv
    BY CraftStart, PlanStart
<1>2. CraftInv /\ PlanInv /\ [CraftNext]_craftVars => (CraftInv /\ PlanInv)'
    BY CraftStep, PlanStep
<1> QED  BY <1>1, <1>2, PTL DEF CraftSpec

-----------------------------------------------------------------------------
(* What follows for the costs and the plans. *)

\* Every level of the decisions shown is of decisions there are, in a run.
LEMMA DecisionsAreNodes ==
    ASSUME PlanInv
    PROVE  \A k \in Nat : \A d \in DecisionsAt[k] : d \in Nodes /\ analysis.phase = "analyzing"
<1> DEFINE V == IF analysis.phase = "analyzing" THEN SUBSET Nodes ELSE {{}}
           First == {analysis.cache[i] : i \in Cached}
           Step(X) == UNION {{d.plan[j].made : j \in DOMAIN d.plan} : d \in X}
           F == [k \in Nat |-> [X \in V |-> Step(X)]]
<1>1. First \in V /\ \A X \in V : Step(X) \in V
    <2>1. CASE analysis.phase = "analyzing"
        <3>1. \A d \in Nodes : {d.plan[j].made : j \in DOMAIN d.plan} \subseteq Nodes
            BY <2>1 DEF PlanInv, KnownOk, NodesAddUp, Parts
        <3>2. First \subseteq Nodes
            BY DEF Nodes
        <3> QED  BY <2>1, <3>1, <3>2
    <2>2. CASE analysis.phase # "analyzing"
        <3>1. Cached = {}
            BY <2>2 DEF PlanInv
        <3> QED  BY <2>2, <3>1
    <2> QED  BY <2>1, <2>2
<1>2. \A X \in V : \A d \in X : d \in Nodes /\ analysis.phase = "analyzing"
    OBVIOUS
<1> HIDE DEF V, First, Step
<1>3. F \in [Nat -> [V -> V]]
    BY <1>1
<1> HIDE DEF F
<1>4. PICK f \in [Nat -> V] : ByRounds(f, First, F)
    BY <1>1, <1>3, Rounds
<1>5. \A k \in Nat : f[k] = IF k = 0 THEN First ELSE Step(f[k - 1])
    <2>1. f[0] = First
        BY <1>4 DEF ByRounds
    <2>2. ASSUME NEW k \in Nat \ {0}  PROVE f[k] = Step(f[k - 1])
        <3>1. k - 1 \in Nat /\ f[k - 1] \in V
            OBVIOUS
        <3> QED  BY <1>4, <3>1 DEF ByRounds, F
    <2> QED  BY <2>1, <2>2
<1>6. f = [k \in Nat |-> IF k = 0 THEN First ELSE Step(f[k - 1])]
    <2>1. f = [k \in Nat |-> f[k]]
        OBVIOUS
    <2> QED  BY <1>5, <2>1, Zenon
<1>7. DecisionsAt = [k \in Nat |-> IF k = 0 THEN First ELSE Step(DecisionsAt[k - 1])]
    BY <1>6, Zenon DEF DecisionsAt, First, Step
<1>8. \A k \in Nat : DecisionsAt[k] = IF k = 0 THEN First ELSE Step(DecisionsAt[k - 1])
    BY <1>7, Zenon
<1> DEFINE Right == {k \in Nat : DecisionsAt[k] \in V}
<1>9. Right = Nat
    <2>1. 0 \in Right
        BY <1>1, <1>8
    <2>2. ASSUME NEW k \in Right  PROVE k + 1 \in Right
        <3>1. k + 1 \in Nat /\ k + 1 # 0 /\ (k + 1) - 1 = k
            OBVIOUS
        <3>2. DecisionsAt[k + 1] = Step(DecisionsAt[k])
            BY <1>8, <3>1
        <3> QED  BY <1>1, <3>1, <3>2
    <2> HIDE DEF Right
    <2> QED  BY <2>1, <2>2, Induction DEF Right
<1> QED  BY <1>2, <1>9

\* What the costs of nested crafts say of the cache.
LEMMA KnownBounds ==
    ASSUME CraftInv, PlanInv, NEW i \in Cached
    PROVE  /\ analysis.cache[i].chosen \in Costs /\ LeastCost[i] \in Costs
           /\ NoDearer(LeastCost[i], analysis.cache[i].chosen)
           /\ i \in Grounded => NoDearer(analysis.cache[i].chosen, LeastCost[i])
<1> DEFINE n == Cardinality(Items)
           K == RoundsDone
<1>1. analysis.phase = "analyzing" /\ KnownOk /\ AnalysisOk /\ i \in Items
    BY DEF PlanInv, CraftInv, Cached
<1>2. /\ Known \in Pricing /\ analysis.book \in Seq(Recipe) /\ analysis.price \in Pricing
      /\ \A k \in Nat : Least(k) \in Pricing
    BY <1>1, KnownIsPricing
<1>3. n \in Nat /\ K \in Nat /\ K <= n
    <2>1. n \in Nat /\ K \in 0 .. n
        BY Rounding
    <2> HIDE DEF K, n
    <2> QED  BY <2>1
<1>4. Known[i] = analysis.cache[i].chosen /\ LeastCost = Least(n)
    BY <1>1 DEF Known, Answer, LeastCost, Least
<1> HIDE DEF n, K
<1> DEFINE x == Least(n)[i]
           y == Least(K)[i]
           z == Known[i]
<1>5. x \in Costs /\ y \in Costs /\ z \in Costs
    BY <1>1, <1>2, <1>3 DEF Pricing
<1>6. NoDearer(x, y)
    BY <1>1, <1>2, <1>3, NestedCostsStayLow DEF Least
<1>7. NoDearer(y, z)
    BY <1>1 DEF KnownOk, NoCheaperThan, K
<1>8. ASSUME i \in Grounded  PROVE NoDearer(z, x)
    <2>1. Acyclic(i)
        BY <1>3, <1>8 DEF Grounded, Acyclic, InRound, n
    <2> QED  BY <1>1, <1>3, <2>1 DEF KnownOk, AcyclicAreLeast
<1> HIDE DEF x, y, z
<1>9. NoDearer(x, z)
    BY <1>5, <1>6, <1>7, NoDearerIsAnOrder, Zenon
<1> QED  BY <1>4, <1>5, <1>8, <1>9 DEF x, z

\* No cost in the cache is below that of the cheapest way to buy or craft the
\* item, and an item with a cost has such a way, whatever was on the stack when
\* the cost was computed: for every book of recipes and all prices.
THEOREM NoCostIsTooLow == CraftSpec => []NeverTooCheap
<1>1. CraftInv /\ PlanInv => NeverTooCheap
    BY KnownBounds DEF NeverTooCheap, NoDearer
<1> QED  BY <1>1, PlanInvariant, PTL

\* A cost is the least one for every item from which no cycle of recipes can be
\* reached, for every book of recipes, with cycles elsewhere or without.
THEOREM CostsAreExact == CraftSpec => []ExactWithoutCycles
<1>1. ASSUME CraftInv, PlanInv  PROVE ExactWithoutCycles
    <2> SUFFICES ASSUME NEW i \in Cached, i \in Grounded
                 PROVE  analysis.cache[i].chosen = LeastCost[i]
        BY DEF ExactWithoutCycles
    <2> DEFINE x == analysis.cache[i].chosen
               y == LeastCost[i]
    <2>1. x \in Costs /\ y \in Costs /\ NoDearer(x, y) /\ NoDearer(y, x)
        BY <1>1, KnownBounds
    <2> HIDE DEF x, y
    <2>2. x = y
        BY <2>1, NoDearerIsAnOrder, Zenon
    <2> QED  BY <2>2 DEF x, y
<1> QED  BY <1>1, PlanInvariant, PTL

\* The plan shown costs what it says: at every level of the tree of decisions the
\* ingredients of a crafted item add up to its cost, for every book of recipes.
THEOREM PlansAddUp == CraftSpec => []PlanAddsUp
<1>1. ASSUME CraftInv, PlanInv  PROVE PlanAddsUp
    <2> SUFFICES ASSUME NEW k \in 0 .. Cardinality(Items), NEW d \in DecisionsAt[k]
                 PROVE  AddsUp(d)
        BY DEF PlanAddsUp
    <2>1. d \in Nodes /\ analysis.phase = "analyzing"
        <3>1. k \in Nat
            BY Rounding
        <3> QED  BY <1>1, <3>1, DecisionsAreNodes
    <2> QED  BY <1>1, <2>1 DEF PlanInv, KnownOk, NodesAddUp
<1> QED  BY <1>1, PlanInvariant, PTL

-----------------------------------------------------------------------------
(* The queues of the lots and of the backfill. *)

Delays == {SnapshotInterval, ClaimLease, RetryDelay, ErrorCap}
DueTime == (-QueueLength .. 0) \cup UNION {1 .. d : d \in Delays}

Snapshots == [claimed : QueuedItem \cup {NoItem}, due : [QueuedItem -> DueTime],
              errors : [QueuedItem -> 0 .. MaxLotErrors]]
Chunks == [claimed : QueuedItem \cup {NoItem}, due : [QueuedItem -> DueTime],
           left : [QueuedItem -> 0 .. MaxChunks]]

\* What is claimed for a download is not complete.
QueuesInv ==
    /\ status \in [QueuedItem -> Watched \cup {Ignored}]
    /\ statusChanges \in 0 .. MaxStatusChanges /\ queueFaults \in 0 .. MaxQueueFaults
    /\ snapshots \in Snapshots /\ chunks \in Chunks
    /\ chunks.claimed # NoItem => chunks.left[chunks.claimed] > 0

\* Every delay the loops set is a due time, and so is now.
LEMMA DelaysAreDueTimes ==
    /\ DueTime \subseteq Int
    /\ {0, SnapshotInterval, ClaimLease, RetryDelay} \subseteq DueTime
    /\ \A errors \in Nat : ErrorDelay(errors) \in DueTime
<1>1. Delays \subseteq Nat \ {0} /\ QueueLength \in Nat
    BY QueuesAssumption DEF Delays
<1>2. ASSUME NEW d \in Delays  PROVE d \in DueTime
    <2>1. d \in 1 .. d /\ 1 .. d \in {1 .. e : e \in Delays}
        BY <1>1
    <2> QED  BY <2>1 DEF DueTime
<1>3. ASSUME NEW errors \in Nat  PROVE ErrorDelay(errors) \in DueTime
    <2>1. ErrorBase * 2 ^ errors \in Int /\ ErrorCap \in Nat \ {0} /\ RetryDelay \in Nat \ {0}
        BY QueuesAssumption, SMT
    <2>2. ErrorDelay(errors) = RetryDelay \/ ErrorDelay(errors) \in 1 .. ErrorCap
        BY <2>1, SMT DEF ErrorDelay
    <2> QED  BY <1>2, <2>2 DEF DueTime, Delays
<1>4. 0 \in DueTime /\ DueTime \subseteq Int
    BY <1>1 DEF DueTime
<1> QED  BY <1>2, <1>3, <1>4 DEF Delays

\* One tick later the due times are due times: those that are overdue are ranked.
LEMMA LaterIsDueTime ==
    ASSUME NEW due \in [QueuedItem -> DueTime]
    PROVE  Later(due) \in [QueuedItem -> DueTime]
<1> DEFINE left(i) == due[i] - 1
           overdue(i) == {k \in QueuedItem : left(i) <= left(k) /\ left(k) < 0}
           rank(i) == Cardinality({left(j) : j \in overdue(i)})
<1>1. Later(due) = [i \in QueuedItem |-> IF left(i) >= 0 THEN left(i) ELSE -rank(i)]
    BY Zenon DEF Later
<1>2. ASSUME NEW i \in QueuedItem  PROVE rank(i) \in 0 .. QueueLength
    <2>1. overdue(i) \in SUBSET QueuedItem
        OBVIOUS
    <2> DEFINE T == {left(j) : j \in overdue(i)}
               f == [j \in overdue(i) |-> left(j)]
    <2>2. f \in Surjection(overdue(i), T)
        BY DEF Surjection
    <2> HIDE DEF overdue, left, f
    <2>3. IsFiniteSet(QueuedItem) /\ Cardinality(QueuedItem) = QueueLength
        BY FS_Interval, QueuesAssumption DEF QueuedItem
    <2>4. IsFiniteSet(overdue(i)) /\ Cardinality(overdue(i)) <= QueueLength
        BY <2>1, <2>3, FS_Subset
    <2> HIDE DEF T
    <2>5. IsFiniteSet(T) /\ Cardinality(T) <= Cardinality(overdue(i))
        BY <2>2, <2>4, FS_Surjection
    <2>6. Cardinality(T) \in Nat /\ Cardinality(overdue(i)) \in Nat
        BY <2>4, <2>5, FS_CardinalityType
    <2>7. Cardinality(T) \in 0 .. QueueLength
        BY <2>4, <2>5, <2>6, QueuesAssumption
    <2> QED  BY <2>7 DEF T
<1>3. ASSUME NEW i \in QueuedItem
      PROVE  (IF left(i) >= 0 THEN left(i) ELSE -rank(i)) \in DueTime
    <2>1. due[i] \in DueTime /\ QueueLength \in Nat /\ Delays \subseteq Nat \ {0}
        BY QueuesAssumption DEF Delays
    <2>2. CASE left(i) >= 0
        <3>0. due[i] \in Int
            BY <2>1, DelaysAreDueTimes, Zenon
        <3>1. due[i] \in Int /\ due[i] >= 1
            BY <2>2, <3>0
        <3>2. PICK d \in Delays : due[i] \in 1 .. d
            BY <2>1, <3>1 DEF DueTime
        <3>3. left(i) = 0 \/ left(i) \in 1 .. d
            BY <2>1, <3>1, <3>2
        <3>4. left(i) \in DueTime
            BY <3>3, DelaysAreDueTimes DEF DueTime
        <3> QED  BY <2>2, <3>4
    <2>3. CASE ~ (left(i) >= 0)
        <3>1. rank(i) \in 0 .. QueueLength
            BY <1>2
        <3> HIDE DEF rank
        <3>2. -rank(i) \in -QueueLength .. 0
            BY <2>1, <3>1
        <3> QED  BY <2>3, <3>2 DEF DueTime
    <2> QED  BY <2>2, <2>3
<1> HIDE DEF left, rank
<1> QED  BY <1>1, <1>3

\* What the loops write keeps their rows as they should be.
LEMMA SnapshotsWritten ==
    ASSUME NEW s \in Snapshots
    PROVE  /\ \A c \in QueuedItem \cup {NoItem} : [s EXCEPT !.claimed = c] \in Snapshots
           /\ \A due \in [QueuedItem -> DueTime] : [s EXCEPT !.due = due] \in Snapshots
           /\ \A i \in QueuedItem, t \in DueTime : [s EXCEPT !.due[i] = t] \in Snapshots
           /\ \A i \in QueuedItem, e \in 0 .. MaxLotErrors :
                [s EXCEPT !.errors[i] = e] \in Snapshots
BY DEF Snapshots

LEMMA ChunksWritten ==
    ASSUME NEW s \in Chunks
    PROVE  /\ \A c \in QueuedItem \cup {NoItem} :
                /\ [s EXCEPT !.claimed = c] \in Chunks
                /\ [s EXCEPT !.claimed = c].claimed = c /\ [s EXCEPT !.claimed = c].left = s.left
           /\ \A due \in [QueuedItem -> DueTime] :
                /\ [s EXCEPT !.due = due] \in Chunks
                /\ [s EXCEPT !.due = due].claimed = s.claimed
                /\ [s EXCEPT !.due = due].left = s.left
           /\ \A i \in QueuedItem, t \in DueTime :
                /\ [s EXCEPT !.due[i] = t] \in Chunks
                /\ [s EXCEPT !.due[i] = t].claimed = s.claimed
                /\ [s EXCEPT !.due[i] = t].left = s.left
           /\ \A i \in QueuedItem, n \in 0 .. MaxChunks :
                /\ [s EXCEPT !.left[i] = n] \in Chunks
                /\ [s EXCEPT !.left[i] = n].claimed = s.claimed
BY DEF Chunks

\* Initially.
LEMMA QueuesStart == ASSUME QueuesInit  PROVE QueuesInv
<1>1. /\ QueueLength \in Nat /\ {MaxLotErrors, MaxStatusChanges, MaxQueueFaults} \subseteq Nat
      /\ 0 \in DueTime /\ MaxChunks \in Nat
    BY QueuesAssumption, DelaysAreDueTimes
<1> QED  BY <1>1 DEF QueuesInit, QueuesInv, Snapshots, Chunks

\* Every step of the queues.
LEMMA QueuesStep == ASSUME QueuesInv, [QueuesNext]_queueVars  PROVE QueuesInv'
<1> USE DEF QueuesInv
<1>0. /\ {0, SnapshotInterval, ClaimLease, RetryDelay} \subseteq DueTime
      /\ {MaxLotErrors, MaxStatusChanges, MaxQueueFaults, MaxChunks} \subseteq Nat
      /\ \A i \in QueuedItem : i # NoItem
    BY DelaysAreDueTimes, QueuesAssumption DEF QueuedItem, NoItem
<1>1. CASE UNCHANGED queueVars
    BY <1>1 DEF queueVars
<1>2. CASE StatusChange
    BY <1>0, <1>2 DEF StatusChange
<1>3. CASE QueueTick
    <2>1. Later(snapshots.due) \in [QueuedItem -> DueTime]
          /\ Later(chunks.due) \in [QueuedItem -> DueTime]
        BY LaterIsDueTime DEF Snapshots, Chunks
    <2>2. snapshots' = [snapshots EXCEPT !.due = Later(snapshots.due)]
          /\ chunks' = [chunks EXCEPT !.due = Later(chunks.due)]
        BY <1>3 DEF QueueTick
    <2>3. snapshots' \in Snapshots
        BY <2>1, <2>2, SnapshotsWritten
    <2>4. chunks' \in Chunks /\ chunks'.claimed = chunks.claimed /\ chunks'.left = chunks.left
        BY <2>1, <2>2, ChunksWritten
    <2> QED  BY <1>3, <2>3, <2>4 DEF QueueTick
<1>4. CASE QueuesRestart
    <2>1. snapshots' \in Snapshots /\ chunks' \in Chunks /\ chunks'.claimed = NoItem
        BY <1>4, SnapshotsWritten, ChunksWritten DEF QueuesRestart
    <2>2. queueFaults' \in 0 .. MaxQueueFaults
        BY <1>0, <1>4 DEF QueuesRestart
    <2> QED  BY <1>4, <2>1, <2>2 DEF QueuesRestart
<1>5. CASE ClaimNextLot
    <2>1. PICK i \in QueuedItem :
            snapshots' = [snapshots EXCEPT !.claimed = i, !.due[i] = ClaimLease]
        BY <1>5 DEF ClaimNextLot, DueForLots
    <2> DEFINE s1 == [snapshots EXCEPT !.claimed = i]
    <2>2. s1 \in Snapshots /\ ClaimLease \in DueTime
        BY <1>0, SnapshotsWritten
    <2>3. snapshots' = [s1 EXCEPT !.due[i] = ClaimLease]
        BY <2>1, Zenon
    <2> HIDE DEF s1
    <2>4. snapshots' \in Snapshots
        BY <2>2, <2>3, SnapshotsWritten
    <2> QED  BY <1>5, <2>4 DEF ClaimNextLot
<1>6. CASE SnapshotSaved
    <2> DEFINE i == snapshots.claimed
               s1 == [snapshots EXCEPT !.claimed = NoItem]
               s2 == [s1 EXCEPT !.errors[i] = 0]
    <2>1. i \in QueuedItem /\ SnapshotInterval \in DueTime /\ 0 \in 0 .. MaxLotErrors
        BY <1>0, <1>6 DEF SnapshotSaved, Snapshots
    <2>2. snapshots' = [s2 EXCEPT !.due[i] = SnapshotInterval]
        BY <1>6, Zenon DEF SnapshotSaved
    <2> HIDE DEF i
    <2>3. s1 \in Snapshots
        BY <2>1, SnapshotsWritten
    <2> HIDE DEF s1
    <2>4. s2 \in Snapshots
        BY <2>1, <2>3, SnapshotsWritten
    <2> HIDE DEF s2
    <2>5. snapshots' \in Snapshots
        BY <2>1, <2>2, <2>4, SnapshotsWritten
    <2> QED  BY <1>6, <2>5 DEF SnapshotSaved
<1>7. CASE SnapshotFailed
    <2> DEFINE i == snapshots.claimed
               errors == IF snapshots.errors[i] < MaxLotErrors THEN snapshots.errors[i] + 1
                         ELSE MaxLotErrors
               s1 == [snapshots EXCEPT !.claimed = NoItem]
               s2 == [s1 EXCEPT !.errors[i] = errors]
    <2>1. i \in QueuedItem
        BY <1>7 DEF SnapshotFailed, Snapshots
    <2>2. errors \in 0 .. MaxLotErrors /\ errors \in Nat
        <3>1. snapshots.errors[i] \in 0 .. MaxLotErrors
            BY <2>1 DEF Snapshots
        <3> QED  BY <1>0, <3>1
    <2>3. ErrorDelay(errors) \in DueTime
        BY <2>2, DelaysAreDueTimes
    <2>4. snapshots' = [s2 EXCEPT !.due[i] = ErrorDelay(errors)]
        BY <1>7, Zenon DEF SnapshotFailed
    <2> HIDE DEF i, errors
    <2>5. s1 \in Snapshots
        BY <2>1, SnapshotsWritten
    <2> HIDE DEF s1
    <2>6. s2 \in Snapshots
        BY <2>1, <2>2, <2>5, SnapshotsWritten
    <2> HIDE DEF s2
    <2>7. snapshots' \in Snapshots
        BY <2>1, <2>3, <2>4, <2>6, SnapshotsWritten
    <2> QED  BY <1>7, <2>7 DEF SnapshotFailed
<1>8. CASE \E i \in QueuedItem : LotsRequested(i)
    <2>1. 0 \in 0 .. MaxLotErrors
        BY <1>0
    <2>2. snapshots' \in Snapshots
        BY <1>8, <2>1, SnapshotsWritten DEF LotsRequested
    <2> QED  BY <1>8, <2>2 DEF LotsRequested
<1>9. CASE ClaimNextChunk
    <2>1. PICK i \in QueuedItem :
            /\ chunks.left[i] > 0
            /\ chunks' = [chunks EXCEPT !.claimed = i, !.due[i] = ClaimLease]
        BY <1>9 DEF ClaimNextChunk, DueForBackfill
    <2> DEFINE c1 == [chunks EXCEPT !.claimed = i]
    <2>2. c1 \in Chunks /\ c1.claimed = i /\ c1.left = chunks.left /\ ClaimLease \in DueTime
        BY <1>0, ChunksWritten
    <2>3. chunks' = [c1 EXCEPT !.due[i] = ClaimLease]
        BY <2>1, Zenon
    <2> HIDE DEF c1
    <2>4. chunks' \in Chunks /\ chunks'.claimed = i /\ chunks'.left = chunks.left
        BY <2>2, <2>3, ChunksWritten
    <2> QED  BY <1>9, <2>1, <2>4 DEF ClaimNextChunk
<1>10. CASE ChunkSaved
    <2> DEFINE i == chunks.claimed
               n == chunks.left[i] - 1
               c1 == [chunks EXCEPT !.claimed = NoItem]
               c2 == [c1 EXCEPT !.left[i] = n]
    <2>1. i \in QueuedItem /\ 0 \in DueTime /\ i # NoItem
        BY <1>0, <1>10 DEF ChunkSaved
    <2>2. n \in 0 .. MaxChunks
        <3>1. chunks.left[i] \in 0 .. MaxChunks /\ chunks.left[i] > 0 /\ MaxChunks \in Nat
            BY <1>0, <2>1 DEF Chunks
        <3> QED  BY <3>1
    <2>3. c1 \in Chunks /\ c1.claimed = NoItem /\ c1.left = chunks.left
        BY <2>1, ChunksWritten
    <2>4. chunks' = [c2 EXCEPT !.due[i] = 0]
        <3>1. chunks' = [[[chunks EXCEPT !.claimed = NoItem] EXCEPT !.left[i] = chunks.left[i] - 1]
                         EXCEPT !.due[i] = 0]
            BY <1>10, <2>3, Zenon DEF ChunkSaved
        <3> QED  BY <3>1, Zenon
    <2> HIDE DEF i, n, c1
    <2>5. c2 \in Chunks /\ c2.claimed = NoItem
        BY <2>1, <2>2, <2>3, ChunksWritten
    <2> HIDE DEF c2
    <2>6. chunks' \in Chunks /\ chunks'.claimed = NoItem
        BY <2>1, <2>4, <2>5, ChunksWritten
    <2> QED  BY <1>10, <2>6 DEF ChunkSaved
<1>11. CASE ChunkFailed
    <2> DEFINE i == chunks.claimed
               c1 == [chunks EXCEPT !.claimed = NoItem]
    <2>1. i \in QueuedItem /\ RetryDelay \in DueTime
        BY <1>0, <1>11 DEF ChunkFailed, Chunks
    <2>2. chunks' = [c1 EXCEPT !.due[i] = RetryDelay]
        BY <1>11, Zenon DEF ChunkFailed
    <2> HIDE DEF i
    <2>3. c1 \in Chunks /\ c1.claimed = NoItem
        BY <2>1, ChunksWritten
    <2> HIDE DEF c1
    <2>4. chunks' \in Chunks /\ chunks'.claimed = NoItem
        BY <2>1, <2>2, <2>3, ChunksWritten
    <2>5. queueFaults' \in 0 .. MaxQueueFaults
        BY <1>0, <1>11 DEF ChunkFailed
    <2> QED  BY <1>11, <2>4, <2>5 DEF ChunkFailed
<1> QED  BY <1>1, <1>2, <1>3, <1>4, <1>5, <1>6, <1>7, <1>8, <1>9, <1>10, <1>11 DEF QueuesNext

\* Statuses, claims, errors and due times stay in their ranges, for queues of any
\* length: no item waits longer than an interval, a lease or the cap.
THEOREM QueuesTypeCorrect == QueuesSpec => []QueuesTypeOK
<1>1. QueuesInit => QueuesInv
    BY QueuesStart
<1>2. QueuesInv /\ [QueuesNext]_queueVars => QueuesInv'
    BY QueuesStep
<1>3. QueuesInv => QueuesTypeOK
    BY DEF QueuesInv, QueuesTypeOK, Snapshots, Chunks, DueTime, Delays
<1> QED  BY <1>1, <1>2, <1>3, PTL DEF QueuesSpec

-----------------------------------------------------------------------------
(* The fair prices. *)

Sales == [Variants -> 0 .. MaxSold]
Price == {Unpriced} \cup Period

RequestOf(period, wanted, remainingExact, remainingItems, exact, fallback, seen) ==
    [period |-> period, wanted |-> wanted, remainingExact |-> remainingExact,
     remainingItems |-> remainingItems, exact |-> exact, fallback |-> fallback, seen |-> seen]

RequestOk ==
    /\ request = RequestOf(request.period, request.wanted, request.remainingExact,
                           request.remainingItems, request.exact, request.fallback,
                           request.seen)
    /\ request.period \in 0 .. 4
    /\ request.wanted \subseteq Variants /\ request.remainingExact \subseteq request.wanted
    /\ request.remainingItems \subseteq ItemsOf(request.wanted)
    /\ request.exact \in [Variants -> Price] /\ request.fallback \in [ItemsOf(Variants) -> Price]
    /\ request.seen \in [Period -> Sales]

\* An item is asked for until it has its price, a variant until it has its own.
PricesOk ==
    /\ \A i \in ItemsOf(request.wanted) :
        /\ request.fallback[i] = SettlingPeriod(i)
        /\ i \in request.remainingItems <=> SettlingPeriod(i) = Unpriced
    /\ \A v \in request.wanted :
        LET p == SettlingPeriod(ItemOf(v))
        IN  /\ request.exact[v] = IF p # Unpriced /\ Seen(p, v) >= MinSales THEN p ELSE Unpriced
            /\ p = Unpriced => v \in request.remainingExact

FairInv ==
    /\ hourly \in [Variants -> Windows] /\ rowChanges \in 0 .. MaxRowChanges
    /\ RequestOk /\ PricesOk

\* The sales of an item are no fewer than those of one of its variants, and none
\* where none of its variants has any.
LEMMA SalesOfItem ==
    ASSUME NEW s \in Sales, NEW i
    PROVE  /\ SoldOf(i, s) \in Nat
           /\ \A v \in Variants : ItemOf(v) = i => s[v] <= SoldOf(i, s)
           /\ (\A v \in Variants : ItemOf(v) = i => s[v] = 0) => SoldOf(i, s) = 0
<1> DEFINE sold == {x \in Variants \X (1 .. MaxSold) : ItemOf(x[1]) = i /\ x[2] <= s[x[1]]}
<1>1. SoldOf(i, s) = Cardinality(sold)
    BY DEF SoldOf
<1>2. IsFiniteSet(Variants) /\ MaxSold \in Nat
    BY FairAssumption
<1>3. IsFiniteSet(sold)
    <2>1. IsFiniteSet(1 .. MaxSold)
        BY <1>2, FS_Interval
    <2>2. IsFiniteSet(Variants \X (1 .. MaxSold))
        BY <1>2, <2>1, FS_Product
    <2> QED  BY <2>2, FS_Subset
<1>4. Cardinality(sold) \in Nat
    BY <1>3, FS_CardinalityType
<1>5. ASSUME NEW v \in Variants, ItemOf(v) = i  PROVE s[v] <= Cardinality(sold)
    <2>1. s[v] \in 0 .. MaxSold
        BY DEF Sales
    <2> DEFINE f == [n \in 1 .. s[v] |-> <<v, n>>]
    <2>2. f \in Injection(1 .. s[v], sold)
        <3>1. ASSUME NEW n \in 1 .. s[v]  PROVE <<v, n>> \in sold
            BY <1>2, <1>5, <2>1
        <3> HIDE DEF sold
        <3>2. f \in [1 .. s[v] -> sold]
            BY <3>1
        <3>3. \A a, b \in 1 .. s[v] : f[a] = f[b] => a = b
            OBVIOUS
        <3> QED  BY <3>2, <3>3 DEF Injection, IsInjective
    <2> HIDE DEF f, sold
    <2>3. Cardinality(1 .. s[v]) <= Cardinality(sold)
        BY <1>3, <2>2, FS_Injection
    <2>4. Cardinality(1 .. s[v]) = s[v]
        BY <2>1, FS_Interval
    <2> QED  BY <2>3, <2>4
<1>6. ASSUME \A v \in Variants : ItemOf(v) = i => s[v] = 0  PROVE Cardinality(sold) = 0
    <2>1. sold = {}
        <3> SUFFICES ASSUME NEW x \in sold  PROVE FALSE
            OBVIOUS
        <3>1. x[1] \in Variants /\ x[2] \in 1 .. MaxSold /\ ItemOf(x[1]) = i /\ x[2] <= s[x[1]]
            OBVIOUS
        <3>2. s[x[1]] = 0
            BY <1>6, <3>1
        <3> QED  BY <1>2, <3>1, <3>2
    <2> QED  BY <2>1, FS_EmptySet
<1> HIDE DEF sold
<1> QED  BY <1>1, <1>4, <1>5, <1>6

\* The periods so far in which an item has enough sales.
Enough(i) == {p \in Period : p < request.period /\ SeenOfItem(p, i) >= MinSales}

SettlesFirst ==
    \A i : SettlingPeriod(i) = IF Enough(i) = {} THEN Unpriced ELSE Min(Enough(i))

LEMMA SettlingIs == SettlesFirst
BY Zenon DEF SettlesFirst, SettlingPeriod, Enough

\* It is the first of them.
LEMMA Settling ==
    /\ \A i : SettlingPeriod(i) = Unpriced <=> Enough(i) = {}
    /\ \A i : SettlingPeriod(i) # Unpriced =>
        SettlingPeriod(i) \in Period /\ SettlingPeriod(i) < request.period
    /\ \A p \in Nat : Min({p}) = p
<1>1. \A i : SettlingPeriod(i) = IF Enough(i) = {} THEN Unpriced ELSE Min(Enough(i))
    BY SettlingIs DEF SettlesFirst
<1>2. ASSUME NEW i, Enough(i) # {}
      PROVE  Min(Enough(i)) \in Period /\ Min(Enough(i)) < request.period
    <2>1. Enough(i) \in SUBSET Nat
        BY DEF Enough, Period
    <2>2. Min(Enough(i)) \in Enough(i)
        BY <1>2, <2>1, LeastElement
    <2> QED  BY <2>2 DEF Enough
<1>3. ASSUME NEW p \in Nat  PROVE Min({p}) = p
    <2>1. {p} \in SUBSET Nat /\ {p} # {}
        OBVIOUS
    <2>2. Min({p}) \in {p}
        BY <2>1, LeastElement
    <2> QED  BY <2>2
<1> QED  BY <1>1, <1>2, <1>3 DEF Period, Unpriced

\* What a query returns.
LEMMA QueryResult ==
    ASSUME FairInv, request.period \in Period
    PROVE  /\ SoldInPeriod \in Sales
           /\ \A v \in Variants : ItemOf(v) \notin request.remainingItems => SoldInPeriod[v] = 0
<1>1. \A v \in Variants : hourly[v][request.period] \in 0 .. MaxSold
    BY DEF FairInv, Windows
<1>2. 0 \in 0 .. MaxSold
    BY FairAssumption
<1> QED  BY <1>1, <1>2 DEF SoldInPeriod, Sales

\* Initially, and after a reply.
LEMMA IdleIsFair ==
    ASSUME request' = IdleRequest, hourly' = NoHourly, rowChanges' = 0
    PROVE  FairInv'
<1>1. 0 \in 0 .. MaxSold /\ 0 \in 0 .. MaxRowChanges
    BY FairAssumption
<1>2. hourly' \in [Variants -> Windows]
    <2>1. [p \in Period |-> 0] \in Windows
        BY <1>1 DEF Windows, Period
    <2> QED  BY <2>1 DEF NoHourly
<1>3. RequestOk'
    <2>1. request' = RequestOf(0, {}, {}, {}, [v \in Variants |-> Unpriced],
                               [i \in ItemsOf(Variants) |-> Unpriced],
                               [p \in Period |-> [v \in Variants |-> 0]])
        BY DEF IdleRequest, RequestOf
    <2>2. [p \in Period |-> [v \in Variants |-> 0]] \in [Period -> Sales]
        BY <1>1 DEF Sales
    <2> QED  BY <2>1, <2>2 DEF RequestOk, RequestOf, Price
<1>4. PricesOk'
    <2>1. request'.wanted = {}
        BY DEF IdleRequest
    <2> QED  BY <2>1 DEF PricesOk, ItemsOf
<1> QED  BY <1>1, <1>2, <1>3, <1>4 DEF FairInv

LEMMA FairStart == ASSUME FairInit  PROVE FairInv
<1>1. request = IdleRequest /\ hourly = NoHourly /\ rowChanges = 0
    BY DEF FairInit
<1>2. 0 \in 0 .. MaxSold /\ 0 \in 0 .. MaxRowChanges
    BY FairAssumption
<1>3. hourly \in [Variants -> Windows]
    <2>1. [p \in Period |-> 0] \in Windows
        BY <1>2 DEF Windows, Period
    <2> QED  BY <1>1, <2>1 DEF NoHourly
<1>4. RequestOk
    <2>1. request = RequestOf(0, {}, {}, {}, [v \in Variants |-> Unpriced],
                              [i \in ItemsOf(Variants) |-> Unpriced],
                              [p \in Period |-> [v \in Variants |-> 0]])
        BY <1>1 DEF IdleRequest, RequestOf
    <2>2. [p \in Period |-> [v \in Variants |-> 0]] \in [Period -> Sales]
        BY <1>2 DEF Sales
    <2> QED  BY <2>1, <2>2 DEF RequestOk, RequestOf, Price
<1>5. PricesOk
    <2>1. request.wanted = {}
        BY <1>1 DEF IdleRequest
    <2> QED  BY <2>1 DEF PricesOk, ItemsOf
<1> QED  BY <1>1, <1>2, <1>3, <1>4, <1>5 DEF FairInv

\* The rows change between two queries: nothing that was read does.
LEMMA ChangeRowsKeepsInv == ASSUME FairInv, ChangeRows  PROVE FairInv'
<1>1. request' = request
    BY DEF ChangeRows
<1>2. hourly' \in [Variants -> Windows]
    BY DEF FairInv, ChangeRows
<1>3. rowChanges' \in 0 .. MaxRowChanges
    BY FairAssumption DEF FairInv, ChangeRows
<1>4. RequestOk' /\ PricesOk'
    BY <1>1 DEF FairInv, RequestOk, PricesOk, SettlingPeriod, Seen, SeenOfItem
<1> QED  BY <1>2, <1>3, <1>4 DEF FairInv

\* A request begins: nothing has a price.
LEMMA OpenRequestKeepsInv == ASSUME FairInv, OpenRequest  PROVE FairInv'
<1>1. PICK wanted \in SUBSET Variants :
        request' = [IdleRequest EXCEPT !.period = 1, !.wanted = wanted,
                                       !.remainingExact = wanted,
                                       !.remainingItems = ItemsOf(wanted)]
    BY DEF OpenRequest
<1>2. request' = RequestOf(1, wanted, wanted, ItemsOf(wanted), [v \in Variants |-> Unpriced],
                           [i \in ItemsOf(Variants) |-> Unpriced],
                           [p \in Period |-> [v \in Variants |-> 0]])
    BY <1>1 DEF IdleRequest, RequestOf
<1>3. /\ request'.period = 1 /\ request'.wanted = wanted /\ request'.remainingExact = wanted
      /\ request'.remainingItems = ItemsOf(wanted)
      /\ request'.exact = [v \in Variants |-> Unpriced]
      /\ request'.fallback = [i \in ItemsOf(Variants) |-> Unpriced]
      /\ request'.seen = [p \in Period |-> [v \in Variants |-> 0]]
    BY <1>2 DEF RequestOf
<1>4. ItemsOf(wanted) \subseteq ItemsOf(Variants) /\ \A v \in wanted : ItemOf(v) \in ItemsOf(wanted)
    BY DEF ItemsOf
<1>5. RequestOk'
    <2>1. 0 \in 0 .. MaxSold
        BY FairAssumption
    <2>2. request'.seen \in [Period -> Sales]
        BY <1>3, <2>1 DEF Sales
    <2>3. request' = RequestOf(request'.period, request'.wanted, request'.remainingExact,
                               request'.remainingItems, request'.exact, request'.fallback,
                               request'.seen)
        BY <1>2, <1>3
    <2>4. /\ request'.exact \in [Variants -> Price]
          /\ request'.fallback \in [ItemsOf(Variants) -> Price]
        BY <1>3 DEF Price
    <2> QED  BY <1>3, <2>2, <2>3, <2>4 DEF RequestOk
<1>6. PricesOk'
    <2>1. \A i : Enough(i)' = {}
        BY <1>3 DEF Enough, Period
    <2>2. SettlesFirst'
        BY SettlingIs, PTL
    <2>3. \A i : SettlingPeriod(i)' = Unpriced
        BY <2>1, <2>2 DEF SettlesFirst
    <2> QED  BY <1>3, <1>4, <2>3 DEF PricesOk
<1>7. hourly' \in [Variants -> Windows] /\ rowChanges' \in 0 .. MaxRowChanges
    BY FairAssumption DEF OpenRequest
<1> QED  BY <1>5, <1>6, <1>7 DEF FairInv

\* The request after a period has been read.
LEMMA PeriodRead ==
    ASSUME FairInv, ReadPeriod
    PROVE  request' = RequestOf(
             request.period + 1, request.wanted, {v \in request.remainingExact : ~ExactSettled(v)},
             RemainingItems(request.remainingItems),
             [v \in Variants |-> IF ExactSettled(v) THEN request.period ELSE request.exact[v]],
             [i \in ItemsOf(Variants) |-> IF ItemSettled(i) THEN request.period
                                          ELSE request.fallback[i]],
             [request.seen EXCEPT ![request.period] = SoldInPeriod])
<1> DEFINE p == request.period
           remaining == {v \in request.remainingExact : ~ExactSettled(v)}
           items == RemainingItems(request.remainingItems)
           exact == [v \in Variants |-> IF ExactSettled(v) THEN p ELSE request.exact[v]]
           fallback == [i \in ItemsOf(Variants) |-> IF ItemSettled(i) THEN p
                                                    ELSE request.fallback[i]]
           seen == [request.seen EXCEPT ![p] = SoldInPeriod]
           r1 == [request EXCEPT !.period = p + 1]
           r2 == [r1 EXCEPT !.remainingExact = remaining]
           r3 == [r2 EXCEPT !.remainingItems = items]
           r4 == [r3 EXCEPT !.exact = exact]
           r5 == [r4 EXCEPT !.fallback = fallback]
           r6 == [r5 EXCEPT !.seen = seen]
           old == request
<1>1. request = RequestOf(old.period, old.wanted, old.remainingExact, old.remainingItems,
                          old.exact, old.fallback, old.seen)
    BY DEF FairInv, RequestOk
<1>2. request' = r6
    BY Zenon DEF ReadPeriod
<1> HIDE DEF remaining, items, exact, fallback, seen
<1>3. r1 = RequestOf(p + 1, old.wanted, old.remainingExact, old.remainingItems,
                     old.exact, old.fallback, old.seen)
    BY <1>1 DEF RequestOf
<1> HIDE DEF r1
<1>4. r2 = RequestOf(p + 1, old.wanted, remaining, old.remainingItems,
                     old.exact, old.fallback, old.seen)
    BY <1>3 DEF RequestOf
<1> HIDE DEF r2
<1>5. r3 = RequestOf(p + 1, old.wanted, remaining, items, old.exact, old.fallback, old.seen)
    BY <1>4 DEF RequestOf
<1> HIDE DEF r3
<1>6. r4 = RequestOf(p + 1, old.wanted, remaining, items, exact, old.fallback, old.seen)
    BY <1>5 DEF RequestOf
<1> HIDE DEF r4
<1>7. r5 = RequestOf(p + 1, old.wanted, remaining, items, exact, fallback, old.seen)
    BY <1>6 DEF RequestOf
<1> HIDE DEF r5
<1>8. r6 = RequestOf(p + 1, old.wanted, remaining, items, exact, fallback, seen)
    BY <1>7 DEF RequestOf
<1> QED  BY <1>2, <1>8, Zenon DEF remaining, items, exact, fallback, seen

\* An item gets its price in the first period with enough sales of it, and the
\* variants that have enough there get theirs.
LEMMA ReadPeriodKeepsInv == ASSUME FairInv, ReadPeriod  PROVE FairInv'
<1> DEFINE p == request.period
           now == SoldInPeriod
<1>1. /\ p \in Period /\ RequestOk /\ PricesOk /\ MinSales \in Nat \ {0}
      /\ now \in Sales
      /\ \A v \in Variants : ItemOf(v) \notin request.remainingItems => now[v] = 0
    BY QueryResult, FairAssumption DEF FairInv, ReadPeriod
<1>2. /\ request'.period = p + 1 /\ request'.wanted = request.wanted
      /\ request'.remainingExact = {v \in request.remainingExact : ~ExactSettled(v)}
      /\ request'.remainingItems = RemainingItems(request.remainingItems)
      /\ request'.exact = [v \in Variants |-> IF ExactSettled(v) THEN p ELSE request.exact[v]]
      /\ request'.fallback = [i \in ItemsOf(Variants) |-> IF ItemSettled(i) THEN p
                                                          ELSE request.fallback[i]]
      /\ request'.seen = [request.seen EXCEPT ![p] = now]
    BY PeriodRead DEF RequestOf
<1>3. /\ \A q \in Period : request'.seen[q] = IF q = p THEN now ELSE request.seen[q]
      /\ request'.seen \in [Period -> Sales]
    BY <1>1, <1>2 DEF RequestOk
<1>4. RequestOk'
    <2>1. request' = RequestOf(request'.period, request'.wanted, request'.remainingExact,
                               request'.remainingItems, request'.exact, request'.fallback,
                               request'.seen)
        BY <1>2, PeriodRead, Zenon
    <2>2. p \in Price /\ p + 1 \in 0 .. 4
        BY <1>1 DEF Price, Period
    <2>3. request'.exact \in [Variants -> Price]
        BY <1>1, <1>2, <2>2 DEF RequestOk
    <2>4. request'.fallback \in [ItemsOf(Variants) -> Price]
        BY <1>1, <1>2, <2>2 DEF RequestOk
    <2>5. /\ request'.remainingExact \subseteq request.wanted
          /\ request'.remainingItems \subseteq ItemsOf(request.wanted)
        BY <1>1, <1>2 DEF RequestOk, RemainingItems
    <2> QED  BY <1>1, <1>2, <1>3, <2>1, <2>2, <2>3, <2>4, <2>5 DEF RequestOk
<1>5. ASSUME NEW i
      PROVE  Enough(i)' = Enough(i) \cup (IF SoldOf(i, now) >= MinSales THEN {p} ELSE {})
    <2>1. \A q \in Period : SeenOfItem(q, i)' = IF q = p THEN SoldOf(i, now) ELSE SeenOfItem(q, i)
        BY <1>3 DEF SeenOfItem
    <2>2. \A q \in Period : q < p + 1 <=> q < p \/ q = p
        BY <1>1 DEF Period
    <2>3. p \in Period /\ ~ (p < p)
        BY <1>1 DEF Period
    <2> HIDE DEF p, now
    <2>4. Enough(i)' = {q \in Period : q < p + 1 /\ SeenOfItem(q, i)' >= MinSales}
        BY <1>2 DEF Enough
    <2>5. Enough(i) = {q \in Period : q < p /\ SeenOfItem(q, i) >= MinSales}
        BY DEF Enough, p
    <2> QED  BY <2>1, <2>2, <2>3, <2>4, <2>5
<1> DEFINE settling(i) == SettlingPeriod(i)
           settling2(i) == SettlingPeriod(i)'
<1>6. ASSUME NEW i \in ItemsOf(request.wanted), i \notin request.remainingItems
      PROVE  /\ settling2(i) = settling(i) /\ settling(i) # Unpriced
             /\ settling(i) \in Period /\ settling(i) < p
             /\ ~ItemSettled(i)
    <2>1. SoldOf(i, now) = 0
        BY <1>1, <1>6, SalesOfItem
    <2>2. ~ (SoldOf(i, now) >= MinSales)
        BY <1>1, <2>1
    <2>3. Enough(i)' = Enough(i)
        BY <1>5, <2>2
    <2>4. settling2(i) = settling(i)
        <3>1. SettlesFirst'
            BY SettlingIs, PTL
        <3> QED  BY <2>3, <3>1, SettlingIs DEF SettlesFirst
    <2>5. settling(i) # Unpriced
        BY <1>1, <1>6 DEF PricesOk
    <2> QED  BY <1>6, <2>4, <2>5, Settling DEF ItemSettled
<1>7. ASSUME NEW i \in ItemsOf(request.wanted), i \in request.remainingItems
      PROVE  /\ settling(i) = Unpriced
             /\ ItemSettled(i) <=> SoldOf(i, now) >= MinSales
             /\ settling2(i) = IF ItemSettled(i) THEN p ELSE Unpriced
    <2>1. settling(i) = Unpriced /\ (ItemSettled(i) <=> SoldOf(i, now) >= MinSales)
        BY <1>1, <1>7 DEF PricesOk, ItemSettled
    <2>2. Enough(i) = {}
        BY <2>1, Settling
    <2>3. Enough(i)' = IF ItemSettled(i) THEN {p} ELSE {}
        BY <1>5, <2>1, <2>2
    <2>4. Min({p}) = p
        BY <1>1, Settling DEF Period
    <2>5. SettlesFirst'
        BY SettlingIs, PTL
    <2> QED  BY <2>1, <2>3, <2>4, <2>5 DEF SettlesFirst
<1>8. ItemsOf(request.wanted) \subseteq ItemsOf(Variants) /\ request.wanted \subseteq Variants
      /\ \A v \in request.wanted : ItemOf(v) \in ItemsOf(request.wanted)
    BY <1>1 DEF RequestOk, ItemsOf
<1>9. p # Unpriced
    BY <1>1 DEF Period, Unpriced
<1>10. ASSUME NEW i \in ItemsOf(request.wanted)
       PROVE  /\ request'.fallback[i] = settling2(i)
              /\ i \in request'.remainingItems <=> settling2(i) = Unpriced
    <2>1. /\ request'.fallback[i] = IF ItemSettled(i) THEN p ELSE request.fallback[i]
          /\ i \in request'.remainingItems <=> i \in request.remainingItems /\ ~ItemSettled(i)
          /\ request.fallback[i] = settling(i)
        BY <1>1, <1>2, <1>8 DEF RemainingItems, PricesOk
    <2> HIDE DEF p, settling, settling2
    <2>2. CASE i \in request.remainingItems
        BY <1>7, <1>9, <2>1, <2>2
    <2>3. CASE i \notin request.remainingItems
        BY <1>6, <2>1, <2>3
    <2> QED  BY <2>2, <2>3
<1>11. ASSUME NEW v \in request.wanted
       PROVE  LET q == settling2(ItemOf(v))
              IN  /\ request'.exact[v] = IF q # Unpriced /\ request'.seen[q][v] >= MinSales
                                         THEN q ELSE Unpriced
                  /\ q = Unpriced => v \in request'.remainingExact
    <2> DEFINE i == ItemOf(v)
    <2>1. /\ request'.exact[v] = IF ExactSettled(v) THEN p ELSE request.exact[v]
          /\ v \in request'.remainingExact <=> v \in request.remainingExact /\ ~ExactSettled(v)
          /\ ExactSettled(v) <=> v \in request.remainingExact /\ now[v] >= MinSales
          /\ i \in ItemsOf(request.wanted) /\ v \in Variants
        BY <1>2, <1>8 DEF ExactSettled
    <2>2. /\ request.exact[v] = IF settling(i) # Unpriced /\ request.seen[settling(i)][v] >= MinSales
                                THEN settling(i) ELSE Unpriced
          /\ settling(i) = Unpriced => v \in request.remainingExact
        BY <1>1 DEF PricesOk, Seen
    <2>3. CASE i \notin request.remainingItems
        <3>1. ~ (now[v] >= MinSales)
            BY <1>1, <2>1, <2>3
        <3>2. /\ settling2(i) = settling(i) /\ settling(i) # Unpriced
              /\ request'.seen[settling(i)] = request.seen[settling(i)]
            <4>1. /\ settling2(i) = settling(i) /\ settling(i) # Unpriced
                  /\ settling(i) \in Period /\ settling(i) < p
                BY <1>6, <2>1, <2>3
            <4>2. settling(i) # p
                BY <1>1, <4>1 DEF Period
            <4> QED  BY <1>3, <4>1, <4>2
        <3> HIDE DEF settling, settling2, now, p
        <3> QED  BY <2>1, <2>2, <3>1, <3>2
    <2>4. CASE i \in request.remainingItems
        <3>1. /\ settling(i) = Unpriced /\ (ItemSettled(i) <=> SoldOf(i, now) >= MinSales)
              /\ settling2(i) = IF ItemSettled(i) THEN p ELSE Unpriced
            BY <1>7, <2>1, <2>4
        <3>2. now[v] >= MinSales => ItemSettled(i)
            <4>1. now[v] <= SoldOf(i, now) /\ SoldOf(i, now) \in Nat /\ now[v] \in Nat
                <5>1. now[v] \in 0 .. MaxSold /\ MaxSold \in Nat
                    BY <1>1, <2>1, FairAssumption DEF Sales
                <5> QED  BY <1>1, <2>1, <5>1, SalesOfItem
            <4> HIDE DEF now
            <4> QED  BY <1>1, <3>1, <4>1
        <3>3. request'.seen[p] = now
            BY <1>1, <1>3
        <3> HIDE DEF settling, settling2, now, p
        <3> QED  BY <1>9, <2>1, <2>2, <3>1, <3>2, <3>3
    <2> QED  BY <2>3, <2>4
<1>12. PricesOk'
    BY <1>2, <1>10, <1>11 DEF PricesOk, Seen
<1>13. hourly' \in [Variants -> Windows] /\ rowChanges' \in 0 .. MaxRowChanges
    BY DEF FairInv, ReadPeriod
<1> QED  BY <1>4, <1>12, <1>13 DEF FairInv

\* Every step.
LEMMA FairStep == ASSUME FairInv, [FairNext]_fairVars  PROVE FairInv'
<1>1. CASE UNCHANGED fairVars
    BY <1>1 DEF fairVars, FairInv, RequestOk, PricesOk, SettlingPeriod, Seen, SeenOfItem
<1>2. CASE FairNext
    BY <1>2, ChangeRowsKeepsInv, OpenRequestKeepsInv, ReadPeriodKeepsInv, IdleIsFair
       DEF FairNext, ReplyCheapLots
<1> QED  BY <1>1, <1>2

LEMMA FairInvariant == FairPriceSpec => []FairInv
<1>1. FairInit => FairInv
    BY FairStart
<1>2. FairInv /\ [FairNext]_fairVars => FairInv'
    BY FairStep
<1> QED  BY <1>1, <1>2, PTL DEF FairPriceSpec

\* The request keeps asking only about what is on sale (market/service.py
\* _read_fair_prices).
THEOREM FairTypeCorrect == FairPriceSpec => []FairTypeOK
<1>1. FairInv => FairTypeOK
    BY DEF FairInv, RequestOk, FairTypeOK, Price
<1> QED  BY <1>1, FairInvariant, PTL

\* Whatever is on sale and however the rows change between the queries of the
\* periods, each lot is compared with the price of the shortest period in which
\* its item has enough sales, of its variant if that has enough there
\* (market/service.py read_cheap_lots, _read_fair_prices).
THEOREM ShortestPeriodPrices == FairPriceSpec => []PricedByShortestPeriod
<1>1. FairInv => PricedByShortestPeriod
    <2> SUFFICES ASSUME FairInv, NEW v \in request.wanted
                 PROVE  LET p == SettlingPeriod(ItemOf(v))
                        IN  /\ request.fallback[ItemOf(v)] = p
                            /\ request.exact[v] = IF p # Unpriced /\ Seen(p, v) >= MinSales
                                                  THEN p ELSE Unpriced
        BY DEF PricedByShortestPeriod
    <2>1. ItemOf(v) \in ItemsOf(request.wanted)
        BY DEF ItemsOf
    <2> QED  BY <2>1 DEF FairInv, PricesOk
<1> QED  BY <1>1, FairInvariant, PTL

-----------------------------------------------------------------------------
(* The three side by side. *)

\* What is explored together is a behavior of each of them.
THEOREM EachOnItsOwn == Spec => CraftSpec /\ FairPriceSpec /\ QueuesSpec
<1>1. Init => CraftInit /\ FairInit /\ QueuesInit
    BY DEF Init, RequestsRest
<1>2. [Next]_<<craftVars, fairVars, queueVars>>
      => [CraftNext]_craftVars /\ [FairNext]_fairVars /\ [QueuesNext]_queueVars
    BY Zenon DEF Next
<1> QED  BY <1>1, <1>2, PTL DEF Spec, CraftSpec, FairPriceSpec, QueuesSpec

\* The kinds of value of all three.
THEOREM TypeCorrect == Spec => []TypeOK
<1>1. CraftTypeOK /\ FairTypeOK /\ QueuesTypeOK => TypeOK
    BY DEF TypeOK
<1> QED  BY <1>1, EachOnItsOwn, CraftTypeCorrect, FairTypeCorrect, QueuesTypeCorrect, PTL

=============================================================================
