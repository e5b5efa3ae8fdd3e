------------------------- MODULE RequestBudgetProofs -------------------------
(***************************************************************************)
(* Proofs about RequestBudget, for all intervals: every task keeps its     *)
(* share, the backfill yields to a backlog, nobody waits long.             *)
(*                                                                         *)
(* The argument about the shares.  After it has passed a limiter a task    *)
(* owes the limiter its interval; what it owes and the age of its last     *)
(* request make up for each other while time passes.  So the n-th last     *)
(* request is n - 1 intervals ago, less what the task owes still, and n    *)
(* intervals once the task has paid for the next one and queues.           *)
(***************************************************************************)
EXTENDS RequestBudget, SequenceTheorems, TLAPS

-----------------------------------------------------------------------------
(* The invariant. *)

\* Only who queues has waited.  Everyone before it in the queue costs it an interval
\* of the shared limiter, on top of what that one demands now.
WaitsInTurn ==
    /\ \A t \in Task : task[t].phase # "queued" => task[t].waited = 0
    /\ \A i \in DOMAIN queue :
           task[queue[i]].waited + total + (i - 1) * TotalInterval <= 3 * TotalInterval

\* A task's requests are in the order of their ages, newest first, and the shared
\* limiter demands what is left of its interval since the newest of all.
InOrder ==
    \A t \in Task :
        /\ \A i, j \in DOMAIN ages[t] : i < j => ages[t][i] < ages[t][j]
        /\ ages[t] # <<>> => ages[t][1] + total >= TotalInterval

\* Of the requests of the last ticks, the i-th newest is i - n intervals ago, or will
\* be once the task has paid what it owes.
Ahead(passes, owed, n, interval, ticks) ==
    \A i \in DOMAIN passes : passes[i] < ticks => passes[i] + owed >= (i - n) * interval

Paced(passes, owed, phase, interval, ticks) ==
    /\ Spaced(passes, interval, ticks)
    /\ Ahead(passes, owed, 1, interval, ticks)
    /\ phase = "queued" => /\ Ahead(passes, 0, 1, interval, ticks)
                           /\ Ahead(passes, owed, 0, interval, ticks)

\* The least a task pays for a request.
Least(t) ==
    CASE t = "live" -> LiveInterval
      [] t = "lots" -> LotsInterval
      [] t = "backfill" -> FastInterval

SharesArePaced ==
    \A t \in Task : /\ Paced(ages[t], own[t], task[t].phase, Least(t), Remembered)
                    /\ task[t].phase = "waiting" => task[t].interval >= Least(t)

\* Once a request has gone out in the backlog the next one is paid for at the slow rate.
BacklogIsPaced ==
    LET backfill == task["backfill"]
        passes   == ages["backfill"]
    IN  backlog =>
            /\ Paced(passes, own["backfill"], backfill.phase, SlowInterval, busy)
            /\ backfill.phase = "waiting" /\ passes # <<>> /\ passes[1] < busy =>
                   backfill.interval = SlowInterval

Inv == TypeOK /\ WaitsInTurn /\ InOrder /\ SharesArePaced /\ BacklogIsPaced

-----------------------------------------------------------------------------
(* Lemmas about the operators. *)

Ages == 0 .. Window

Growing(passes) == \A i, j \in DOMAIN passes : i < j => passes[i] < passes[j]

\* The ages a task's requests are remembered with.
LEMMA AgesAreNumbers ==
    ASSUME NEW passes \in Seq(Ages)
    PROVE  /\ DOMAIN passes = 1 .. Len(passes) /\ Len(passes) \in Nat
           /\ \A i \in DOMAIN passes : i \in Nat /\ passes[i] \in Nat /\ passes[i] <= Window
<1>1. DOMAIN passes = 1 .. Len(passes) /\ Len(passes) \in Nat
    BY LenProperties
<1>2. ASSUME NEW i \in DOMAIN passes
      PROVE  i \in Nat /\ passes[i] \in Nat /\ passes[i] <= Window
    <2>1. passes[i] \in Ages
        BY <1>1, ElementOfSeq
    <2> QED  BY <1>1, <2>1, IntervalsAssumption DEF Ages
<1> QED  BY <1>1, <1>2

\* A new request comes before all the others.
LEMMA Pushed ==
    ASSUME NEW passes \in Seq(Ages)
    PROVE  LET after == <<0>> \o passes
           IN  /\ after \in Seq(Ages)
               /\ DOMAIN after = 1 .. Len(passes) + 1
               /\ DOMAIN passes = 1 .. Len(passes) /\ Len(passes) \in Nat
               /\ after[1] = 0 /\ after # <<>>
               /\ \A i \in DOMAIN passes : after[i + 1] = passes[i]
               /\ \A i \in DOMAIN after : i # 1 => i - 1 \in DOMAIN passes /\ after[i] = passes[i - 1]
<1> DEFINE after == <<0>> \o passes
<1>1. <<0>> \in Seq(Ages) /\ Len(<<0>>) = 1 /\ <<0>>[1] = 0
    BY IntervalsAssumption DEF Ages
<1>2. /\ after \in Seq(Ages)
      /\ Len(after) = 1 + Len(passes)
      /\ \A i \in 1 .. 1 + Len(passes) : after[i] = IF i <= 1 THEN <<0>>[i] ELSE passes[i - 1]
    BY <1>1, ConcatProperties
<1>3. Len(passes) \in Nat /\ DOMAIN passes = 1 .. Len(passes) /\ DOMAIN after = 1 .. Len(after)
    BY <1>2, LenProperties
<1> HIDE DEF after
<1>4. \A i \in DOMAIN passes : after[i + 1] = passes[i]
    BY <1>2, <1>3
<1>5. \A i \in DOMAIN after : i # 1 => i - 1 \in DOMAIN passes /\ after[i] = passes[i - 1]
    BY <1>2, <1>3
<1>6. after[1] = 0 /\ after # <<>>
    BY <1>1, <1>2, <1>3
<1> QED  BY <1>2, <1>3, <1>4, <1>5, <1>6 DEF after

\* When time passes every request that is remembered still gets older.
LEMMA Aged ==
    ASSUME NEW passes \in Seq(Ages), Growing(passes)
    PROVE  LET after == Older(Recent(passes))
           IN  /\ after \in Seq(Ages)
               /\ DOMAIN after \subseteq DOMAIN passes
               /\ \A i \in DOMAIN after : after[i] = passes[i] + 1 /\ passes[i] < Window
               /\ after # <<>> => passes # <<>> /\ 1 \in DOMAIN after
<1> DEFINE kept == Recent(passes)
           after == Older(kept)
<1>1. Len(passes) \in Nat /\ DOMAIN passes = 1 .. Len(passes) /\ \A i \in DOMAIN passes : passes[i] \in Ages
    BY AgesAreNumbers, LenProperties, ElementOfSeq
<1>2. /\ kept \in Seq(Ages) /\ Len(kept) <= Len(passes)
      /\ \A i \in 1 .. Len(kept) : kept[i] = passes[i] /\ passes[i] < Window
    <2>1. CASE passes # <<>> /\ Last(passes) = Window
        <3>1. kept = SubSeq(passes, 1, Len(passes) - 1) /\ Len(passes) > 0 /\ passes[Len(passes)] = Window
            BY <2>1, <1>1 DEF Recent, Front, Last
        <3>2. \A i \in 1 .. Len(passes) - 1 : passes[i] \in Ages
            BY <1>1
        <3>3. /\ kept \in Seq(Ages) /\ Len(kept) = Len(passes) - 1
              /\ \A i \in 1 .. Len(passes) - 1 : kept[i] = passes[i]
            <4> HIDE DEF kept
            <4>1. Len(passes) - 1 \in Int /\ 1 \in Int
                BY <1>1
            <4>2. /\ SubSeq(passes, 1, Len(passes) - 1) \in Seq(Ages)
                  /\ Len(SubSeq(passes, 1, Len(passes) - 1)) =
                         IF 1 <= Len(passes) - 1 THEN Len(passes) - 1 - 1 + 1 ELSE 0
                  /\ \A i \in 1 .. Len(passes) - 1 - 1 + 1 :
                         SubSeq(passes, 1, Len(passes) - 1)[i] = passes[1 + i - 1]
                BY <4>1, <3>2, SubSeqProperties
            <4> QED  BY <4>2, <3>1, <1>1
        <3>4. \A i \in 1 .. Len(passes) - 1 : passes[i] < Window
            BY <3>1, <1>1 DEF Growing
        <3> HIDE DEF kept
        <3> QED  BY <3>1, <3>3, <3>4, <1>1
    <2>2. CASE passes = <<>>
        BY <2>2, <1>1 DEF Recent
    <2>3. CASE passes # <<>> /\ Last(passes) # Window
        <3>1. kept = passes /\ Len(passes) \in DOMAIN passes /\ passes[Len(passes)] # Window
            BY <2>3, <1>1 DEF Recent, Last
        <3>2. passes[Len(passes)] < Window
            BY <3>1, <1>1, IntervalsAssumption DEF Ages
        <3>3. ASSUME NEW i \in 1 .. Len(passes) PROVE passes[i] < Window
            <4>1. i \in Nat /\ Len(passes) \in Nat /\ i <= Len(passes)
                BY LenProperties
            <4>2. i < Len(passes) => passes[i] < passes[Len(passes)]
                BY <1>1 DEF Growing
            <4>3. passes[i] \in Nat /\ passes[Len(passes)] \in Nat /\ Window \in Nat
                BY <3>1, <1>1, AgesAreNumbers, IntervalsAssumption
            <4> QED  BY <3>2, <4>1, <4>2, <4>3
        <3> QED  BY <3>1, <3>3
    <2> QED  BY <2>1, <2>2, <2>3
<1> HIDE DEF kept
<1>3. Len(kept) \in Nat /\ DOMAIN kept = 1 .. Len(kept) /\ DOMAIN after = 1 .. Len(kept)
    BY <1>2, LenProperties DEF Older
<1>4. \A i \in DOMAIN after : after[i] = passes[i] + 1 /\ passes[i] < Window /\ i \in DOMAIN passes
    BY <1>1, <1>2, <1>3 DEF Older
<1>5. \A i \in 1 .. Len(kept) : after[i] \in Ages
    BY <1>1, <1>3, <1>4, IntervalsAssumption DEF Ages
<1>6. after \in Seq(Ages)
    BY <1>3, <1>5 DEF Older
<1>7. after # <<>> => passes # <<>> /\ 1 \in DOMAIN after
    <2> SUFFICES ASSUME after # <<>> PROVE passes # <<>> /\ 1 \in DOMAIN after
        OBVIOUS
    <2>1. Len(kept) # 0
        <3>1. Len(kept) = 0 => after = <<>>
            <4>1. Len(after) = Len(kept)
                BY <1>3, <1>6, LenProperties
            <4> HIDE DEF after
            <4> QED  BY <1>6, <4>1, EmptySeq
        <3> QED  BY <3>1
    <2> QED  BY <2>1, <1>1, <1>2, <1>3
<1> QED  BY <1>4, <1>6, <1>7 DEF kept

\* A task that pays its interval, or has no request behind it that counts.
LEMMA PacedPays ==
    ASSUME NEW passes \in Seq(Ages), NEW owed \in Nat, NEW interval \in Nat, NEW ticks \in Nat,
           Paced(passes, 0, "waiting", interval, ticks),
           owed >= interval \/ \A i \in DOMAIN passes : passes[i] >= ticks
    PROVE  Paced(passes, owed, "queued", interval, ticks)
<1>1. /\ DOMAIN passes = 1 .. Len(passes) /\ Len(passes) \in Nat
      /\ \A i \in DOMAIN passes : passes[i] \in Nat
    BY AgesAreNumbers
<1>2. Ahead(passes, owed, 1, interval, ticks)
    BY <1>1 DEF Paced, Ahead
<1>3. Ahead(passes, owed, 0, interval, ticks)
    <2> SUFFICES ASSUME NEW i \in DOMAIN passes, passes[i] < ticks
                 PROVE  passes[i] + owed >= (i - 0) * interval
        BY DEF Ahead
    <2>1. passes[i] + 0 >= (i - 1) * interval /\ i \in Nat /\ passes[i] \in Nat
        BY <1>1 DEF Paced, Ahead
    <2>2. owed >= interval
        BY <2>1
    <2>3. (i - 0) * interval = (i - 1) * interval + interval
        BY <2>1
    <2>4. (i - 1) * interval \in Int
        BY <2>1
    <2> QED  BY <2>1, <2>2, <2>3, <2>4
<1> QED  BY <1>2, <1>3 DEF Paced

\* A request goes out.
LEMMA PacedGoesOut ==
    ASSUME NEW passes \in Seq(Ages), NEW owed \in Nat, NEW interval \in Nat, NEW ticks \in Nat,
           Paced(passes, owed, "queued", interval, ticks)
    PROVE  Paced(<<0>> \o passes, owed, "sent", interval, ticks)
<1> DEFINE after == <<0>> \o passes
<1>1. /\ DOMAIN passes = 1 .. Len(passes) /\ Len(passes) \in Nat /\ DOMAIN after = 1 .. Len(passes) + 1
      /\ \A i \in DOMAIN passes : passes[i] \in Nat
      /\ after[1] = 0
      /\ \A i \in DOMAIN after : i # 1 => i - 1 \in DOMAIN passes /\ after[i] = passes[i - 1]
    BY Pushed, AgesAreNumbers
<1> HIDE DEF after
<1>2. Spaced(after, interval, ticks)
    <2> SUFFICES ASSUME NEW i \in DOMAIN after, NEW j \in DOMAIN after, i < j, after[j] < ticks
                 PROVE  after[j] - after[i] >= (j - i - 1) * interval
        BY DEF Spaced
    <2>1. j - 1 \in DOMAIN passes /\ after[j] = passes[j - 1] /\ i \in Nat /\ j \in Nat
        BY <1>1
    <2>2. CASE i = 1
        <3>1. passes[j - 1] + 0 >= ((j - 1) - 1) * interval
            BY <2>1 DEF Paced, Ahead
        <3> QED  BY <2>1, <2>2, <3>1, <1>1
    <2>3. CASE i # 1
        <3>1. i - 1 \in DOMAIN passes /\ after[i] = passes[i - 1] /\ i - 1 < j - 1
            BY <2>1, <2>3, <1>1
        <3>2. passes[j - 1] - passes[i - 1] >= ((j - 1) - (i - 1) - 1) * interval
            BY <2>1, <3>1 DEF Paced, Spaced
        <3>3. (j - 1) - (i - 1) - 1 = j - i - 1
            BY <2>1
        <3> QED  BY <2>1, <3>1, <3>2, <3>3
    <2> QED  BY <2>2, <2>3
<1>3. Ahead(after, owed, 1, interval, ticks)
    <2> SUFFICES ASSUME NEW i \in DOMAIN after, after[i] < ticks
                 PROVE  after[i] + owed >= (i - 1) * interval
        BY DEF Ahead
    <2>1. CASE i = 1
        BY <2>1, <1>1
    <2>2. CASE i # 1
        <3>1. i - 1 \in DOMAIN passes /\ after[i] = passes[i - 1]
            BY <2>2, <1>1
        <3>2. passes[i - 1] + owed >= ((i - 1) - 0) * interval
            BY <3>1 DEF Paced, Ahead
        <3>3. (i - 1) - 0 = i - 1
            BY <1>1
        <3> QED  BY <3>1, <3>2, <3>3
    <2> QED  BY <2>1, <2>2
<1> QED  BY <1>2, <1>3 DEF Paced, after

\* Time passes: what is owed shrinks as fast as the requests age.
LEMMA AheadAges ==
    ASSUME NEW passes \in Seq(Ages), Growing(passes), NEW owed \in Nat, NEW n \in 0 .. 1,
           NEW interval \in Nat, NEW ticks \in Nat, NEW later \in Nat, later <= ticks + 1,
           Ahead(passes, owed, n, interval, ticks)
    PROVE  Ahead(Older(Recent(passes)), Less(owed), n, interval, later)
<1> DEFINE after == Older(Recent(passes))
<1>1. /\ DOMAIN after \subseteq DOMAIN passes
      /\ \A i \in DOMAIN after : after[i] = passes[i] + 1
    BY Aged
<1>2. \A i \in DOMAIN passes : passes[i] \in Nat /\ i \in Nat
    BY AgesAreNumbers
<1> HIDE DEF after
<1> SUFFICES ASSUME NEW i \in DOMAIN after, after[i] < later
             PROVE  after[i] + Less(owed) >= (i - n) * interval
    BY DEF Ahead, after
<1>3. passes[i] < ticks
    BY <1>1, <1>2
<1>4. passes[i] + owed >= (i - n) * interval
    BY <1>1, <1>3 DEF Ahead
<1>5. after[i] + Less(owed) >= passes[i] + owed /\ after[i] + Less(owed) \in Nat
    BY <1>1, <1>2 DEF Less
<1>6. (i - n) * interval \in Int
    BY <1>1, <1>2
<1> QED  BY <1>1, <1>2, <1>4, <1>5, <1>6

LEMMA PacedAges ==
    ASSUME NEW passes \in Seq(Ages), Growing(passes), NEW owed \in Nat, NEW phase,
           NEW interval \in Nat, NEW ticks \in Nat, NEW later \in Nat, later <= ticks + 1,
           Paced(passes, owed, phase, interval, ticks)
    PROVE  Paced(Older(Recent(passes)), Less(owed), phase, interval, later)
<1> DEFINE after == Older(Recent(passes))
<1>1. Spaced(after, interval, later)
    <2>1. /\ DOMAIN after \subseteq DOMAIN passes
          /\ \A i \in DOMAIN after : after[i] = passes[i] + 1
        BY Aged
    <2>2. \A i \in DOMAIN passes : passes[i] \in Nat /\ i \in Nat
        BY AgesAreNumbers
    <2> HIDE DEF after
    <2> SUFFICES ASSUME NEW i \in DOMAIN after, NEW j \in DOMAIN after, i < j, after[j] < later
                 PROVE  after[j] - after[i] >= (j - i - 1) * interval
        BY DEF Spaced
    <2>3. passes[j] < ticks /\ after[j] - after[i] = passes[j] - passes[i]
        BY <2>1, <2>2
    <2>4. passes[j] - passes[i] >= (j - i - 1) * interval
        BY <2>1, <2>3 DEF Paced, Spaced
    <2> QED  BY <2>3, <2>4
<1>2. Ahead(after, Less(owed), 1, interval, later)
    BY AheadAges DEF Paced
<1>3. ASSUME phase = "queued"
      PROVE  Ahead(after, 0, 1, interval, later) /\ Ahead(after, Less(owed), 0, interval, later)
    <2>1. Less(0) = 0
        BY DEF Less
    <2>2. Ahead(after, Less(0), 1, interval, later)
        BY <1>3, AheadAges DEF Paced
    <2> QED  BY <1>3, <2>1, <2>2, AheadAges DEF Paced
<1> QED  BY <1>1, <1>2, <1>3 DEF Paced

\* Who joins the queue finds at most the two others there.
LEMMA Queues ==
    ASSUME NEW line \in Seq(Task), IsInjective(line), NEW t \in Task, t \notin ToSet(line)
    PROVE  LET after == Append(line, t)
           IN  /\ after \in Seq(Task) /\ IsInjective(after)
               /\ ToSet(after) = ToSet(line) \cup {t}
               /\ DOMAIN after = 1 .. Len(line) + 1 /\ DOMAIN line = 1 .. Len(line)
               /\ after[Len(line) + 1] = t
               /\ \A i \in DOMAIN line : after[i] = line[i]
               /\ Len(line) \in 0 .. 2
<1> DEFINE after == Append(line, t)
<1>1. /\ Len(line) \in Nat /\ DOMAIN line = 1 .. Len(line)
      /\ \A i \in DOMAIN line : line[i] \in Task \ {t}
    <2>1. Len(line) \in Nat /\ DOMAIN line = 1 .. Len(line)
        BY LenProperties
    <2>2. \A i \in DOMAIN line : line[i] \in Task
        BY <2>1, ElementOfSeq
    <2> QED  BY <2>1, <2>2 DEF ToSet
<1>2. /\ after \in Seq(Task) /\ Len(after) = Len(line) + 1
      /\ \A i \in 1 .. Len(line) + 1 : after[i] = IF i <= Len(line) THEN line[i] ELSE t
    BY AppendProperties
<1>3. DOMAIN after = 1 .. Len(line) + 1
    BY <1>2, LenProperties
<1> HIDE DEF after
<1>4. after[Len(line) + 1] = t /\ \A i \in DOMAIN line : after[i] = line[i]
    BY <1>1, <1>2
<1>5. DOMAIN after = DOMAIN line \cup {Len(line) + 1}
    BY <1>1, <1>3
<1>6. ToSet(after) = ToSet(line) \cup {t}
    BY <1>4, <1>5 DEF ToSet
<1>7. IsInjective(after)
    BY <1>1, <1>4, <1>5 DEF IsInjective
<1>8. Len(line) <= 2
    <2> SUFFICES ASSUME Len(line) >= 3 PROVE FALSE
        BY <1>1
    <2>1. 1 \in DOMAIN line /\ 2 \in DOMAIN line /\ 3 \in DOMAIN line
        BY <1>1
    <2>2. line[1] # line[2] /\ line[1] # line[3] /\ line[2] # line[3]
        BY <2>1 DEF IsInjective
    <2> QED  BY <2>1, <2>2, <1>1 DEF Task
<1> QED  BY <1>1, <1>2, <1>3, <1>4, <1>6, <1>7, <1>8 DEF after

\* Who leaves it was its head, and is in it no more.
LEMMA Leaves ==
    ASSUME NEW line \in Seq(Task), IsInjective(line), line # <<>>
    PROVE  LET after == Tail(line)
           IN  /\ Head(line) \in Task /\ Head(line) = line[1]
               /\ after \in Seq(Task) /\ IsInjective(after)
               /\ ToSet(after) = ToSet(line) \ {Head(line)}
               /\ \A i \in DOMAIN after : i \in Nat /\ i + 1 \in DOMAIN line /\ after[i] = line[i + 1]
<1> DEFINE after == Tail(line)
<1>1. Len(line) \in Nat \ {0} /\ DOMAIN line = 1 .. Len(line)
    BY EmptySeq, LenProperties
<1>2. /\ Head(line) \in Task
      /\ after \in Seq(Task) /\ Len(after) = Len(line) - 1
      /\ \A i \in 1 .. Len(after) : after[i] = line[i + 1]
    BY HeadTailProperties
<1>3. DOMAIN after = 1 .. Len(line) - 1
    BY <1>2, LenProperties
<1>4. Head(line) = line[1]
    BY <1>1
<1> HIDE DEF after
<1>5. \A i \in DOMAIN after : i \in Nat /\ i + 1 \in DOMAIN line /\ after[i] = line[i + 1]
    BY <1>1, <1>2, <1>3
<1>6. \A i \in DOMAIN line : i = 1 \/ (i - 1 \in DOMAIN after /\ after[i - 1] = line[i])
    <2> SUFFICES ASSUME NEW i \in DOMAIN line, i # 1
                 PROVE  i - 1 \in DOMAIN after /\ after[i - 1] = line[i]
        OBVIOUS
    <2>1. i - 1 \in DOMAIN after
        BY <1>1, <1>3
    <2>2. after[i - 1] = line[(i - 1) + 1] /\ (i - 1) + 1 = i
        BY <2>1, <1>1, <1>5
    <2> QED  BY <2>1, <2>2
<1>7. ToSet(after) = ToSet(line) \ {Head(line)}
    <2>1. 1 \in DOMAIN line
        BY <1>1
    <2>2. \A i \in DOMAIN after : line[i + 1] # line[1]
        BY <2>1, <1>5 DEF IsInjective
    <2> QED  BY <2>2, <1>4, <1>5, <1>6 DEF ToSet
<1>8. IsInjective(after)
    <2> SUFFICES ASSUME NEW i \in DOMAIN after, NEW j \in DOMAIN after, after[i] = after[j]
                 PROVE  i = j
        BY DEF IsInjective
    <2>1. i + 1 = j + 1
        BY <1>5 DEF IsInjective
    <2> QED  BY <2>1, <1>5
<1> QED  BY <1>2, <1>4, <1>5, <1>7, <1>8 DEF after

-----------------------------------------------------------------------------
(* The types. *)

LEMMA Intervals ==
    /\ {TotalInterval, LiveInterval, LotsInterval, FastInterval, SlowInterval} \subseteq Nat
    /\ TotalInterval > 0 /\ Window \in Nat
    /\ \A t \in Task : Least(t) \in Nat /\ Interval(t) \in Nat /\ Interval(t) >= Least(t)
BY IntervalsAssumption DEF Task, Least, Interval, SelectBackfillRate

Phase == {"idle", "waiting", "queued", "sent"}
Process == [phase : Phase, interval : Nat, waited : Nat]

LEMMA InitType == Init => TypeOK
<1> SUFFICES ASSUME Init PROVE TypeOK
    OBVIOUS
<1>1. queue \in Seq(Task) /\ ToSet(queue) = {} /\ IsInjective(queue)
    BY DEF Init, ToSet, IsInjective
<1>2. ages \in [Task -> Seq(0 .. Window)]
    BY DEF Init
<1> QED  BY <1>1, <1>2, Intervals DEF Init, TypeOK, IdleTask

LEMMA TypeStep ==
    ASSUME TypeOK, InOrder, [Next]_vars
    PROVE  TypeOK'
<1> USE DEF Phase
<1>1. /\ own \in [Task -> Nat] /\ total \in 0 .. TotalInterval
      /\ queue \in Seq(Task) /\ IsInjective(queue)
      /\ task \in [Task -> [phase : Phase, interval : Nat, waited : Nat]]
      /\ \A t \in Task : task[t].phase = "queued" <=> t \in ToSet(queue)
      /\ backlog \in BOOLEAN /\ busy \in 0 .. Window
      /\ ages \in [Task -> Seq(0 .. Window)]
    BY DEF TypeOK
<1>2. CASE UNCHANGED vars
    BY <1>2, <1>1 DEF TypeOK, vars, limiters, history
<1>3. ASSUME NEW t \in Task, Begin(t) PROVE TypeOK'
    BY <1>1, <1>3, Intervals DEF TypeOK, Begin, limiters, history
<1>4. ASSUME NEW t \in Task, PassOwn(t) PROVE TypeOK'
    <2>1. t \notin ToSet(queue)
        BY <1>1, <1>4 DEF PassOwn
    <2>2. queue' \in Seq(Task) /\ IsInjective(queue') /\ ToSet(queue') = ToSet(queue) \cup {t}
        BY <1>1, <1>4, <2>1, Queues DEF PassOwn, Joins
    <2>3. own' \in [Task -> Nat]
        BY <1>1, <1>4 DEF PassOwn, Spent
    <2>4. /\ task' \in [Task -> [phase : Phase, interval : Nat, waited : Nat]]
          /\ \A u \in Task : task'[u].phase = IF u = t THEN "queued" ELSE task[u].phase
        BY <1>1, <1>4 DEF PassOwn
    <2>5. \A u \in Task : task'[u].phase = "queued" <=> u \in ToSet(queue')
        BY <1>1, <2>2, <2>4
    <2>6. UNCHANGED <<total, backlog, busy, ages>>
        BY <1>4 DEF PassOwn, history
    <2> QED  BY <1>1, <2>2, <2>3, <2>4, <2>5, <2>6 DEF TypeOK
<1>5. ASSUME NEW t \in Task, PassShared(t) PROVE TypeOK'
    <2>1. queue' \in Seq(Task) /\ IsInjective(queue') /\ ToSet(queue') = ToSet(queue) \ {t}
        BY <1>1, <1>5, Leaves DEF PassShared, Served
    <2>2. /\ task' \in [Task -> [phase : Phase, interval : Nat, waited : Nat]]
          /\ \A u \in Task : task'[u].phase = IF u = t THEN "sent" ELSE task[u].phase
        BY <1>1, <1>5 DEF PassShared
    <2>3. \A u \in Task : task'[u].phase = "queued" <=> u \in ToSet(queue')
        BY <1>1, <2>1, <2>2
    <2>4. ages' \in [Task -> Seq(0 .. Window)]
        <3>1. <<0>> \o ages[t] \in Seq(0 .. Window)
            BY <1>1, Pushed DEF Ages
        <3> QED  BY <1>1, <1>5, <3>1 DEF PassShared
    <2>5. total' \in 0 .. TotalInterval /\ UNCHANGED <<own, backlog, busy>>
        BY <1>5, Intervals DEF PassShared
    <2> QED  BY <1>1, <2>1, <2>2, <2>3, <2>4, <2>5 DEF TypeOK
<1>6. ASSUME NEW t \in Task, End(t) PROVE TypeOK'
    BY <1>1, <1>6 DEF TypeOK, End, IdleTask, limiters, history
<1>7. CASE BacklogChanges
    BY <1>1, <1>7, Intervals DEF TypeOK, BacklogChanges, limiters
<1>8. CASE Tick
    <2>1. own' \in [Task -> Nat] /\ total' \in 0 .. TotalInterval
        <3>1. own' = [u \in Task |-> Less(own[u])] /\ total' = Less(total)
            BY <1>8 DEF Tick
        <3>2. \A u \in Task : Less(own[u]) \in Nat
            BY <1>1 DEF Less
        <3>3. Less(total) \in 0 .. TotalInterval
            BY <1>1, Intervals DEF Less
        <3> QED  BY <3>1, <3>2, <3>3
    <2>2. /\ task' \in [Task -> [phase : Phase, interval : Nat, waited : Nat]]
          /\ \A u \in Task : task'[u].phase = task[u].phase
        <3>1. task' = [u \in Task |-> IF task[u].phase = "queued"
                                     THEN [task[u] EXCEPT !.waited = @ + 1] ELSE task[u]]
            BY <1>8 DEF Tick
        <3>2. ASSUME NEW u \in Task
              PROVE  /\ task'[u] \in [phase : Phase, interval : Nat, waited : Nat]
                     /\ task'[u].phase = task[u].phase
            <4>1. task[u] \in [phase : Phase, interval : Nat, waited : Nat]
                BY <1>1
            <4> QED  BY <3>1, <4>1
        <3>3. DOMAIN task' = Task /\ task' = [u \in Task |-> task'[u]]
            BY <3>1
        <3> QED  BY <3>2, <3>3
    <2>3. busy' \in 0 .. Window
        BY <1>1, <1>8, Intervals DEF Tick
    <2>4. ages' \in [Task -> Seq(0 .. Window)]
        <3>1. \A u \in Task : Older(Recent(ages[u])) \in Seq(0 .. Window)
            BY <1>1, Aged DEF Ages, Growing, InOrder
        <3> QED  BY <1>8, <3>1 DEF Tick
    <2>5. UNCHANGED <<queue, backlog>>
        BY <1>8 DEF Tick
    <2> QED  BY <1>1, <2>1, <2>2, <2>3, <2>4, <2>5 DEF TypeOK
<1> QED  BY <1>2, <1>3, <1>4, <1>5, <1>6, <1>7, <1>8 DEF Next

-----------------------------------------------------------------------------
(* The invariant is kept. *)

\* What time does to each task.
LEMMA TimePasses ==
    ASSUME TypeOK, Tick, NEW t \in Task
    PROVE  /\ task'[t].phase = task[t].phase /\ task'[t].interval = task[t].interval
           /\ task'[t].waited = IF task[t].phase = "queued" THEN task[t].waited + 1 ELSE task[t].waited
           /\ own'[t] = Less(own[t])
           /\ ages'[t] = Older(Recent(ages[t]))
<1>1. task[t] \in [phase : Phase, interval : Nat, waited : Nat]
    BY DEF TypeOK, Phase
<1>2. task'[t] = IF task[t].phase = "queued"
                 THEN [task[t] EXCEPT !.waited = @ + 1] ELSE task[t]
    BY DEF Tick
<1>3. own'[t] = Less(own[t]) /\ ages'[t] = Older(Recent(ages[t]))
    BY DEF Tick
<1> QED  BY <1>1, <1>2, <1>3

LEMMA InitInv == Init => Inv
<1> SUFFICES ASSUME Init PROVE Inv
    OBVIOUS
<1>1. /\ \A t \in Task : task[t] = IdleTask /\ ages[t] = <<>>
      /\ queue = <<>> /\ busy = 0
      /\ DOMAIN queue = {}
    BY DEF Init
<1>2. \A passes \in {<<>>} : DOMAIN passes = {}
    OBVIOUS
<1>3. WaitsInTurn
    BY <1>1 DEF WaitsInTurn, IdleTask
<1>4. InOrder
    BY <1>1, <1>2 DEF InOrder
<1>5. ASSUME NEW t \in Task, NEW interval, NEW ticks
      PROVE  Paced(ages[t], own[t], task[t].phase, interval, ticks)
    BY <1>1, <1>2 DEF Paced, Spaced, Ahead, IdleTask
<1>6. SharesArePaced
    BY <1>1, <1>5 DEF SharesArePaced, IdleTask
<1>7. BacklogIsPaced
    BY <1>1, <1>5 DEF BacklogIsPaced, IdleTask, Task
<1> QED  BY <1>3, <1>4, <1>6, <1>7, InitType DEF Inv

LEMMA WaitsStep ==
    ASSUME TypeOK, WaitsInTurn, [Next]_vars
    PROVE  WaitsInTurn'
<1>1. /\ total \in 0 .. TotalInterval /\ TotalInterval \in Nat /\ TotalInterval > 0
      /\ queue \in Seq(Task) /\ IsInjective(queue)
      /\ DOMAIN queue = 1 .. Len(queue) /\ Len(queue) \in Nat
      /\ \A t \in Task : task[t].waited \in Nat
      /\ \A i \in DOMAIN queue : i \in Nat /\ queue[i] \in Task /\ task[queue[i]].phase = "queued"
    <2>1. /\ total \in 0 .. TotalInterval /\ TotalInterval \in Nat /\ TotalInterval > 0
          /\ queue \in Seq(Task) /\ IsInjective(queue)
          /\ \A t \in Task : task[t].waited \in Nat
          /\ \A t \in Task : task[t].phase = "queued" <=> t \in ToSet(queue)
        BY Intervals DEF TypeOK
    <2>2. DOMAIN queue = 1 .. Len(queue) /\ Len(queue) \in Nat
        BY <2>1, LenProperties
    <2>3. \A i \in DOMAIN queue : i \in Nat /\ queue[i] \in Task /\ queue[i] \in ToSet(queue)
        BY <2>1, <2>2, ElementOfSeq DEF ToSet
    <2> QED  BY <2>1, <2>2, <2>3
<1>2. CASE UNCHANGED <<task, queue, total>>
    BY <1>2 DEF WaitsInTurn
<1>3. ASSUME NEW t \in Task, Begin(t) \/ End(t) PROVE WaitsInTurn'
    <2>1. /\ UNCHANGED <<queue, total>> /\ task[t].phase # "queued"
          /\ task'[t].phase # "queued" /\ task'[t].waited = 0
          /\ \A u \in Task \ {t} : task'[u] = task[u]
        BY <1>3 DEF Begin, End, limiters, IdleTask, TypeOK, WaitsInTurn
    <2>2. \A i \in DOMAIN queue : queue[i] # t
        BY <1>1, <2>1
    <2> QED  BY <1>1, <2>1, <2>2 DEF WaitsInTurn
<1>4. ASSUME NEW t \in Task, PassOwn(t) PROVE WaitsInTurn'
    <2>1. /\ queue' = Append(queue, t) /\ total' = total
          /\ task[t].phase = "waiting" /\ task'[t].phase = "queued" /\ task'[t].waited = 0
          /\ \A u \in Task \ {t} : task'[u] = task[u]
        <3>1. task[t] \in Process /\ task \in [Task -> Process]
            BY DEF TypeOK, Phase, Process
        <3> QED  BY <1>4, <3>1 DEF PassOwn, Joins, WaitsInTurn, Process
    <2>2. /\ DOMAIN queue' = 1 .. Len(queue) + 1 /\ queue'[Len(queue) + 1] = t
          /\ \A i \in DOMAIN queue : queue'[i] = queue[i]
          /\ Len(queue) \in 0 .. 2
        <3>1. t \notin ToSet(queue)
            BY <2>1 DEF TypeOK
        <3> QED  BY <1>1, <2>1, <3>1, Queues
    <2>3. ASSUME NEW i \in DOMAIN queue'
          PROVE  task'[queue'[i]].waited + total' + (i - 1) * TotalInterval <= 3 * TotalInterval
        <3>1. CASE i = Len(queue) + 1
            <4>1. CASE Len(queue) = 0
                BY <1>1, <2>1, <2>2, <3>1, <4>1
            <4>2. CASE Len(queue) = 1
                BY <1>1, <2>1, <2>2, <3>1, <4>2
            <4>3. CASE Len(queue) = 2
                BY <1>1, <2>1, <2>2, <3>1, <4>3
            <4> QED  BY <2>2, <4>1, <4>2, <4>3
        <3>2. CASE i # Len(queue) + 1
            <4>1. i \in DOMAIN queue /\ queue'[i] = queue[i] /\ queue[i] # t
                BY <1>1, <2>1, <2>2, <3>2
            <4>2. task'[queue'[i]] = task[queue[i]]
                BY <1>1, <2>1, <4>1
            <4> QED  BY <2>1, <4>1, <4>2 DEF WaitsInTurn
        <3> QED  BY <3>1, <3>2
    <2>4. \A u \in Task : task'[u].phase # "queued" => task'[u].waited = 0
        BY <2>1 DEF WaitsInTurn
    <2> QED  BY <2>3, <2>4 DEF WaitsInTurn
<1>5. ASSUME NEW t \in Task, PassShared(t) PROVE WaitsInTurn'
    <2>1. /\ queue # <<>> /\ t = Head(queue) /\ queue' = Tail(queue)
          /\ total = 0 /\ total' = TotalInterval
          /\ task'[t].phase = "sent" /\ task'[t].waited = 0
          /\ \A u \in Task \ {t} : task'[u] = task[u]
        BY <1>5 DEF PassShared, Served, TypeOK
    <2>2. /\ ToSet(queue') = ToSet(queue) \ {t}
          /\ \A i \in DOMAIN queue' : i \in Nat /\ i + 1 \in DOMAIN queue /\ queue'[i] = queue[i + 1]
        BY <1>1, <2>1, Leaves
    <2>3. ASSUME NEW i \in DOMAIN queue'
          PROVE  task'[queue'[i]].waited + total' + (i - 1) * TotalInterval <= 3 * TotalInterval
        <3>1. i \in Nat /\ i + 1 \in DOMAIN queue /\ queue'[i] = queue[i + 1]
            BY <2>2
        <3>2. queue'[i] # t /\ queue'[i] \in Task
            BY <1>1, <2>2, <3>1 DEF ToSet
        <3>3. task[queue[i + 1]].waited + total + ((i + 1) - 1) * TotalInterval <= 3 * TotalInterval
            BY <3>1 DEF WaitsInTurn
        <3>4. ((i + 1) - 1) * TotalInterval = TotalInterval + (i - 1) * TotalInterval
            BY <1>1, <3>1
        <3>5. task'[queue'[i]].waited = task[queue[i + 1]].waited /\ task[queue[i + 1]].waited \in Nat
            BY <1>1, <2>1, <3>1, <3>2
        <3>6. (i - 1) * TotalInterval \in Int
            BY <1>1, <3>1
        <3> QED  BY <1>1, <2>1, <3>3, <3>4, <3>5, <3>6
    <2>4. \A u \in Task : task'[u].phase # "queued" => task'[u].waited = 0
        BY <2>1 DEF WaitsInTurn
    <2> QED  BY <2>3, <2>4 DEF WaitsInTurn
<1>6. CASE Tick
    <2>1. queue' = queue /\ total' = Less(total) /\ (queue # <<>> => total > 0)
        BY <1>6 DEF Tick
    <2>2. \A u \in Task : /\ task'[u].phase = task[u].phase
                          /\ task'[u].waited = IF task[u].phase = "queued"
                                               THEN task[u].waited + 1 ELSE task[u].waited
        BY <1>6, TimePasses
    <2>3. ASSUME NEW i \in DOMAIN queue'
          PROVE  task'[queue'[i]].waited + total' + (i - 1) * TotalInterval <= 3 * TotalInterval
        <3>1. i \in DOMAIN queue /\ queue[i] \in Task /\ task[queue[i]].phase = "queued" /\ i \in Nat
            BY <1>1, <2>1
        <3>2. task[queue[i]].waited + total + (i - 1) * TotalInterval <= 3 * TotalInterval
            BY <3>1 DEF WaitsInTurn
        <3>3. total > 0 /\ total' = total - 1
            <4>1. queue # <<>>
                BY <3>1
            <4> QED  BY <1>1, <2>1, <4>1 DEF Less
        <3>4. task'[queue'[i]].waited = task[queue[i]].waited + 1 /\ task[queue[i]].waited \in Nat
            BY <1>1, <2>1, <2>2, <3>1
        <3>5. (i - 1) * TotalInterval \in Int
            BY <1>1, <3>1
        <3> QED  BY <1>1, <3>2, <3>3, <3>4, <3>5
    <2>4. \A u \in Task : task'[u].phase # "queued" => task'[u].waited = 0
        BY <2>2 DEF WaitsInTurn
    <2> QED  BY <2>3, <2>4 DEF WaitsInTurn
<1> QED
    BY <1>2, <1>3, <1>4, <1>5, <1>6 DEF Next, vars, limiters, BacklogChanges

LEMMA OrderStep ==
    ASSUME TypeOK, InOrder, [Next]_vars
    PROVE  InOrder'
<1>1. /\ total \in 0 .. TotalInterval /\ TotalInterval \in Nat /\ TotalInterval > 0
      /\ \A t \in Task : ages[t] \in Seq(Ages) /\ Growing(ages[t])
    BY Intervals DEF TypeOK, Ages, Growing, InOrder
<1>2. CASE UNCHANGED <<ages, total>>
    BY <1>2 DEF InOrder
<1>3. ASSUME NEW t \in Task, PassShared(t) PROVE InOrder'
    <2>1. /\ total = 0 /\ total' = TotalInterval
          /\ \A u \in Task : ages'[u] = IF u = t THEN <<0>> \o ages[t] ELSE ages[u]
        BY <1>3 DEF PassShared, TypeOK
    <2>2. ASSUME NEW u \in Task \ {t}
          PROVE  /\ \A i, j \in DOMAIN ages'[u] : i < j => ages'[u][i] < ages'[u][j]
                 /\ ages'[u] # <<>> => ages'[u][1] + total' >= TotalInterval
        <3>1. ages'[u] = ages[u] /\ ages[u] \in Seq(Ages)
            BY <1>1, <2>1
        <3>2. ages[u] # <<>> => ages[u][1] \in Nat
            <4>1. ages[u] # <<>> => 1 \in DOMAIN ages[u]
                BY <3>1, LenProperties, EmptySeq
            <4> QED  BY <3>1, <4>1, AgesAreNumbers
        <3> QED  BY <1>1, <2>1, <3>1, <3>2 DEF InOrder
    <2>3. /\ \A i, j \in DOMAIN ages'[t] : i < j => ages'[t][i] < ages'[t][j]
          /\ ages'[t] # <<>> => ages'[t][1] + total' >= TotalInterval
        <3> DEFINE passes == ages[t]
                   after == <<0>> \o passes
        <3>1. /\ passes \in Seq(Ages) /\ Growing(passes)
              /\ passes # <<>> => passes[1] >= TotalInterval
            <4>1. passes # <<>> => passes[1] \in Nat /\ passes[1] + 0 >= TotalInterval
                <5>1. passes # <<>> => 1 \in DOMAIN passes
                    BY <1>1, LenProperties, EmptySeq
                <5> QED  BY <1>1, <2>1, <5>1, AgesAreNumbers DEF InOrder
            <4> QED  BY <1>1, <4>1
        <3> HIDE DEF passes
        <3>2. /\ DOMAIN passes = 1 .. Len(passes) /\ Len(passes) \in Nat
              /\ \A i \in DOMAIN passes : i \in Nat /\ passes[i] \in Nat
            BY <3>1, AgesAreNumbers
        <3>3. /\ DOMAIN after = 1 .. Len(passes) + 1 /\ after[1] = 0
              /\ \A i \in DOMAIN after : i # 1 => i - 1 \in DOMAIN passes /\ after[i] = passes[i - 1]
            BY <3>1, Pushed
        <3> HIDE DEF after
        <3>4. ASSUME NEW k \in DOMAIN passes PROVE passes[k] > 0
            <4>1. passes # <<>> /\ 1 \in DOMAIN passes
                BY <3>1, <3>2, EmptySeq
            <4>2. k = 1 \/ passes[1] < passes[k]
                BY <3>1, <3>2, <4>1 DEF Growing
            <4> QED  BY <1>1, <3>1, <3>2, <4>1, <4>2
        <3>5. \A i, j \in DOMAIN after : i < j => after[i] < after[j]
            <4> SUFFICES ASSUME NEW i \in DOMAIN after, NEW j \in DOMAIN after, i < j
                         PROVE  after[i] < after[j]
                OBVIOUS
            <4>1. j - 1 \in DOMAIN passes /\ after[j] = passes[j - 1]
                BY <3>2, <3>3
            <4>2. CASE i = 1
                BY <3>3, <3>4, <4>1, <4>2
            <4>3. CASE i # 1
                <5>1. i - 1 \in DOMAIN passes /\ after[i] = passes[i - 1] /\ i - 1 < j - 1
                    BY <3>2, <3>3, <4>3
                <5> QED  BY <3>1, <4>1, <5>1 DEF Growing
            <4> QED  BY <4>2, <4>3
        <3>6. ages'[t] = after
            BY <2>1 DEF after, passes
        <3> QED  BY <1>1, <2>1, <3>3, <3>5, <3>6
    <2> QED  BY <2>2, <2>3 DEF InOrder
<1>4. CASE Tick
    <2> SUFFICES ASSUME NEW t \in Task
                 PROVE  /\ \A i, j \in DOMAIN ages'[t] : i < j => ages'[t][i] < ages'[t][j]
                        /\ ages'[t] # <<>> => ages'[t][1] + total' >= TotalInterval
        BY DEF InOrder
    <2>1. ages'[t] = Older(Recent(ages[t])) /\ ages[t] \in Seq(Ages) /\ Growing(ages[t])
        BY <1>1, <1>4, TimePasses
    <2>2. /\ DOMAIN ages'[t] \subseteq DOMAIN ages[t]
          /\ \A i \in DOMAIN ages'[t] : ages'[t][i] = ages[t][i] + 1
          /\ ages'[t] # <<>> => ages[t] # <<>> /\ 1 \in DOMAIN ages'[t]
        BY <2>1, Aged
    <2>3. \A i \in DOMAIN ages[t] : ages[t][i] \in Nat
        BY <2>1, AgesAreNumbers
    <2>4. \A i, j \in DOMAIN ages'[t] : i < j => ages'[t][i] < ages'[t][j]
        BY <2>1, <2>2, <2>3 DEF Growing
    <2>5. ASSUME ages'[t] # <<>> PROVE ages'[t][1] + total' >= TotalInterval
        <3>1. /\ ages'[t][1] = ages[t][1] + 1 /\ ages[t][1] \in Nat
              /\ ages[t][1] + total >= TotalInterval
            BY <2>2, <2>3, <2>5 DEF InOrder
        <3>2. total' \in Nat /\ total' + 1 >= total
            BY <1>1, <1>4 DEF Tick, Less
        <3> QED  BY <1>1, <3>1, <3>2
    <2> QED  BY <2>4, <2>5
<1> QED
    BY <1>2, <1>3, <1>4
    DEF Next, vars, limiters, history, Begin, PassOwn, End, BacklogChanges

\* What is paced stays paced, if the next request is paid for at this rate.
LEMMA PacedStep ==
    ASSUME TypeOK, InOrder, [Next]_vars,
           NEW t \in Task, NEW interval \in Nat, NEW ticks \in Nat, NEW later \in Nat,
           Paced(ages[t], own[t], task[t].phase, interval, ticks),
           task[t].phase = "waiting" => \/ task[t].interval >= interval
                                        \/ \A i \in DOMAIN ages[t] : ages[t][i] >= ticks,
           later = ticks \/ (Tick /\ later <= ticks + 1)
    PROVE  Paced(ages'[t], own'[t], task'[t].phase, interval, later)
<1>1. /\ ages[t] \in Seq(Ages) /\ Growing(ages[t]) /\ own[t] \in Nat
      /\ task \in [Task -> Process] /\ task[t] \in Process
      /\ ages \in [Task -> Seq(Ages)] /\ own \in [Task -> Nat]
    BY DEF TypeOK, Ages, Growing, InOrder, Process, Phase
<1>2. CASE Tick
    <2>1. ages'[t] = Older(Recent(ages[t])) /\ own'[t] = Less(own[t]) /\ task'[t].phase = task[t].phase
        BY <1>2, TimePasses
    <2>2. later <= ticks + 1
        OBVIOUS
    <2> QED  BY <1>1, <2>1, <2>2, PacedAges
<1>3. CASE ~Tick
    <2>0. later = ticks
        BY <1>3
    <2>1. CASE UNCHANGED <<ages[t], own[t], task[t]>>
        BY <2>0, <2>1
    <2>2. CASE UNCHANGED <<ages, own, task>>
        BY <2>0, <2>2
    <2>3. CASE Begin(t) \/ End(t)
        <3>1. ages' = ages /\ own' = own /\ task'[t].phase # "queued"
            BY <1>1, <2>3 DEF Begin, End, limiters, history, IdleTask, Process
        <3> QED  BY <2>0, <3>1 DEF Paced
    <2>4. CASE PassOwn(t)
        <3>1. /\ ages' = ages /\ own[t] = 0 /\ own'[t] = task[t].interval
              /\ task[t].phase = "waiting" /\ task'[t].phase = "queued"
            BY <1>1, <2>4 DEF PassOwn, Spent, history, Process
        <3>2. task[t].interval \in Nat
            BY <1>1 DEF Process
        <3>3. Paced(ages[t], 0, "waiting", interval, ticks)
            BY <3>1
        <3>4. Paced(ages[t], task[t].interval, "queued", interval, ticks)
            BY <1>1, <3>1, <3>2, <3>3, PacedPays
        <3> QED  BY <2>0, <3>1, <3>4
    <2>5. CASE PassShared(t)
        <3>1. t \in ToSet(queue)
            <4>1. queue \in Seq(Task) /\ IsInjective(queue) /\ queue # <<>> /\ t = Head(queue)
                BY <2>5 DEF PassShared, TypeOK
            <4>2. 1 \in DOMAIN queue
                BY <4>1, LenProperties, EmptySeq
            <4> QED  BY <4>1, <4>2, Leaves DEF ToSet
        <3>2. /\ ages'[t] = <<0>> \o ages[t] /\ own' = own
              /\ task[t].phase = "queued" /\ task'[t].phase = "sent"
            BY <1>1, <2>5, <3>1 DEF PassShared, TypeOK, Process
        <3>3. Paced(<<0>> \o ages[t], own[t], "sent", interval, ticks)
            BY <1>1, <3>2, PacedGoesOut
        <3> QED  BY <2>0, <3>2, <3>3
    <2>6. ASSUME NEW u \in Task, u # t, Begin(u) \/ PassOwn(u) \/ PassShared(u) \/ End(u)
          PROVE  UNCHANGED <<ages[t], own[t], task[t]>>
        BY <1>1, <2>6 DEF Begin, PassOwn, PassShared, End, limiters, history
    <2> QED
        BY <1>3, <2>1, <2>2, <2>3, <2>4, <2>5, <2>6 DEF Next, vars, limiters, history, BacklogChanges
<1> QED  BY <1>2, <1>3

LEMMA SharesStep ==
    ASSUME TypeOK, InOrder, SharesArePaced, [Next]_vars
    PROVE  SharesArePaced'
<1> SUFFICES ASSUME NEW t \in Task
             PROVE  /\ Paced(ages'[t], own'[t], task'[t].phase, Least(t), Remembered)
                    /\ task'[t].phase = "waiting" => task'[t].interval >= Least(t)
    BY DEF SharesArePaced
<1>1. Remembered \in Nat /\ Least(t) \in Nat
    BY Intervals DEF Remembered
<1>2. Paced(ages'[t], own'[t], task'[t].phase, Least(t), Remembered)
    BY <1>1, PacedStep DEF SharesArePaced
<1>3. task'[t].phase = "waiting" => task'[t].interval >= Least(t)
    <2>1. task \in [Task -> Process] /\ (task[t].phase = "waiting" => task[t].interval >= Least(t))
        BY DEF TypeOK, Process, Phase, SharesArePaced
    <2>2. CASE UNCHANGED task
        BY <2>1, <2>2
    <2>3. CASE Tick
        BY <2>1, <2>3, TimePasses
    <2>4. ASSUME NEW u \in Task, u # t, Begin(u) \/ PassOwn(u) \/ PassShared(u) \/ End(u)
          PROVE  task'[t] = task[t]
        BY <2>1, <2>4 DEF Begin, PassOwn, PassShared, End
    <2>5. CASE Begin(t)
        <3>1. task'[t].interval = Interval(t)
            BY <2>1, <2>5 DEF Begin, Process
        <3> QED  BY <3>1, Intervals
    <2>6. CASE PassOwn(t) \/ PassShared(t) \/ End(t)
        BY <2>1, <2>6 DEF PassOwn, PassShared, End, IdleTask, Process
    <2> QED  BY <2>1, <2>2, <2>3, <2>4, <2>5, <2>6 DEF Next, vars, BacklogChanges
<1> QED  BY <1>2, <1>3

LEMMA BacklogStep ==
    ASSUME TypeOK, InOrder, BacklogIsPaced, [Next]_vars
    PROVE  BacklogIsPaced'
<1> DEFINE b == "backfill"
           passes == ages[b]
<1>1. /\ b \in Task /\ task \in [Task -> Process] /\ passes \in Seq(Ages) /\ Growing(passes)
      /\ busy \in Nat /\ SlowInterval \in Nat
    BY Intervals DEF TypeOK, Process, Phase, Task, Ages, Growing, InOrder
<1>2. CASE BacklogChanges
    <2>1. busy' = 0 /\ UNCHANGED <<own, task, ages>>
        BY <1>2 DEF BacklogChanges, limiters
    <2>2. \A i \in DOMAIN passes : passes[i] >= 0
        BY <1>1, AgesAreNumbers
    <2>3. Paced(passes, own[b], task[b].phase, SlowInterval, 0)
        <3>1. \A i \in DOMAIN passes : ~(passes[i] < 0)
            BY <1>1, AgesAreNumbers
        <3> QED  BY <3>1 DEF Paced, Spaced, Ahead
    <2>4. passes # <<>> => ~(passes[1] < 0)
        <3>1. passes # <<>> => 1 \in DOMAIN passes
            BY <1>1, LenProperties, EmptySeq
        <3> QED  BY <1>1, <3>1, AgesAreNumbers
    <2> QED  BY <2>1, <2>3, <2>4 DEF BacklogIsPaced
<1>3. CASE ~BacklogChanges
    <2> SUFFICES ASSUME backlog'
                 PROVE  /\ Paced(ages'[b], own'[b], task'[b].phase, SlowInterval, busy')
                        /\ task'[b].phase = "waiting" /\ ages'[b] # <<>> /\ ages'[b][1] < busy' =>
                               task'[b].interval = SlowInterval
        BY DEF BacklogIsPaced
    <2>1. backlog /\ (busy' = busy \/ (Tick /\ busy' <= busy + 1)) /\ busy' \in Nat
        <3>1. CASE Tick
            <4>1. backlog' = backlog /\ (busy' = busy + 1 \/ busy' = busy)
                BY <3>1 DEF Tick
            <4>2. busy' \in Nat /\ busy' <= busy + 1
                BY <1>1, <4>1
            <4> QED  BY <3>1, <4>1, <4>2
        <3>2. CASE UNCHANGED <<backlog, busy>>
            BY <1>1, <3>2
        <3> QED
            BY <1>3, <3>1, <3>2
            DEF Next, vars, history, Begin, PassOwn, PassShared, End
    <2>2. /\ Paced(passes, own[b], task[b].phase, SlowInterval, busy)
          /\ task[b].phase = "waiting" /\ passes # <<>> /\ passes[1] < busy =>
                 task[b].interval = SlowInterval
        BY <2>1 DEF BacklogIsPaced
    <2>3. task[b].phase = "waiting" => \/ task[b].interval >= SlowInterval
                                       \/ \A i \in DOMAIN passes : passes[i] >= busy
        <3> SUFFICES ASSUME task[b].phase = "waiting", NEW i \in DOMAIN passes, passes[i] < busy
                     PROVE  task[b].interval = SlowInterval
            BY <1>1, AgesAreNumbers
        <3>1. passes # <<>> /\ 1 \in DOMAIN passes /\ i \in DOMAIN passes
            BY <1>1, LenProperties, EmptySeq
        <3>2. passes[1] <= passes[i] /\ passes[1] \in Nat /\ passes[i] \in Nat
            BY <1>1, <3>1, AgesAreNumbers DEF Growing
        <3> QED  BY <1>1, <2>2, <3>1, <3>2
    <2>4. Paced(ages'[b], own'[b], task'[b].phase, SlowInterval, busy')
        BY <1>1, <2>1, <2>2, <2>3, PacedStep
    <2>5. ASSUME task'[b].phase = "waiting", ages'[b] # <<>>, ages'[b][1] < busy'
          PROVE  task'[b].interval = SlowInterval
        <3>1. CASE UNCHANGED <<task, ages, busy>>
            BY <2>2, <2>5, <3>1
        <3>2. CASE Tick
            <4>1. /\ task'[b].phase = task[b].phase /\ task'[b].interval = task[b].interval
                  /\ ages'[b] = Older(Recent(passes))
                BY <1>1, <3>2, TimePasses
            <4>2. passes # <<>> /\ ages'[b][1] = passes[1] + 1 /\ 1 \in DOMAIN passes
                BY <1>1, <2>5, <4>1, Aged
            <4>3. passes[1] < busy
                <5>1. passes[1] \in Nat
                    BY <1>1, <4>2, AgesAreNumbers
                <5> QED  BY <1>1, <2>1, <2>5, <4>2, <5>1
            <4> QED  BY <2>2, <2>5, <4>1, <4>2, <4>3
        <3>3. ASSUME NEW u \in Task, u # b, Begin(u) \/ PassOwn(u) \/ PassShared(u) \/ End(u)
              PROVE  task'[b] = task[b] /\ ages'[b] = ages[b] /\ busy' = busy
            BY <1>1, <3>3 DEF Begin, PassOwn, PassShared, End, history, TypeOK
        <3>4. CASE Begin(b)
            <4>1. task'[b].interval = Interval(b)
                BY <1>1, <3>4 DEF Begin, Process
            <4> QED  BY <2>1, <4>1 DEF Interval, SelectBackfillRate
        <3>5. CASE PassOwn(b) \/ PassShared(b) \/ End(b)
            <4>1. PassOwn(b) => task'[b].phase = "queued"
                BY <1>1 DEF PassOwn, Process
            <4>2. PassShared(b) => task'[b].phase = "sent"
                BY <1>1 DEF PassShared, Process
            <4>3. End(b) => task'[b].phase = "idle"
                BY <1>1 DEF End, IdleTask, Process
            <4> QED  BY <2>5, <3>5, <4>1, <4>2, <4>3
        <3> QED
            BY <1>3, <2>2, <2>5, <3>1, <3>2, <3>3, <3>4, <3>5 DEF Next, vars, history
    <2> QED  BY <2>4, <2>5
<1> QED  BY <1>2, <1>3

LEMMA InvStep == Inv /\ [Next]_vars => Inv'
BY TypeStep, WaitsStep, OrderStep, SharesStep, BacklogStep DEF Inv

-----------------------------------------------------------------------------
(* Theorems. *)

\* It holds in every reachable state.
LEMMA Invariant == Spec => []Inv
BY InitInv, InvStep, PTL DEF Spec

\* The variables keep their types; in particular the queue of the shared limiter
\* holds just the tasks that wait for it, once each.
THEOREM TypeCorrect == Spec => []TypeOK
<1>1. Inv => TypeOK
    BY DEF Inv
<1> QED  BY <1>1, Invariant, PTL

\* Whatever the intervals, every task keeps to its own rate, though its requests
\* queue behind the others' (worker.py _acquire_live_request and its like).
THEOREM TasksKeepTheirShares == Spec => []SharesAreKept
<1>1. Inv => SharesAreKept
    BY DEF Inv, SharesAreKept, SharesArePaced, Paced, Least, Task
<1> QED  BY <1>1, Invariant, PTL

\* Whatever the intervals, the backfill keeps to its slow rate from the first request
\* after items have piled up (worker.py _select_backfill_rate).
THEOREM BackfillSlowsDown == Spec => []BackfillYields
<1>1. Inv => BackfillYields
    BY DEF Inv, BackfillYields, BacklogIsPaced, Paced
<1> QED  BY <1>1, Invariant, PTL

\* No task waits for the shared limiter longer than three of its intervals: it is
\* fair because asyncio.Lock is (worker.py UniformRateLimiter).
THEOREM NobodyWaitsLong == Spec => []WaitIsShort
<1>1. Inv => WaitIsShort
    <2> SUFFICES ASSUME Inv, NEW t \in Task
                 PROVE  task[t].waited <= 3 * TotalInterval
        BY DEF WaitIsShort
    <2>1. CASE task[t].phase # "queued"
        BY <2>1, Intervals DEF Inv, WaitsInTurn
    <2>2. CASE task[t].phase = "queued"
        <3>1. PICK i \in DOMAIN queue : queue[i] = t
            BY <2>2 DEF Inv, TypeOK, ToSet
        <3>2. i \in Nat /\ i >= 1
            BY LenProperties DEF Inv, TypeOK
        <3>3. (i - 1) * TotalInterval >= 0 /\ (i - 1) * TotalInterval \in Int
            BY <3>2, Intervals
        <3>4. task[t].waited + total + (i - 1) * TotalInterval <= 3 * TotalInterval
            BY <3>1 DEF Inv, WaitsInTurn
        <3>5. total \in Nat /\ task[t].waited \in Nat
            BY Intervals DEF Inv, TypeOK
        <3> QED  BY <3>3, <3>4, <3>5, Intervals
    <2> QED  BY <2>1, <2>2
<1> QED  BY <1>1, Invariant, PTL

=============================================================================
