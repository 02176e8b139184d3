------------------------- MODULE NameTruncationProofs -------------------------
(* Proofs about NameTruncation, for every limit and every component length. *)
EXTENDS NameTruncation, TLAPS

\* What holds of a component's budget that is now smaller than its length: it
\* is within one of the longest, and level with it when a sweep is due.
Cut(k) == budgets[k] < lengths[k]

Fits == pc # "named" => Total(budgets) >= MaxBody

SweepInv == pc = "sweep" =>
    /\ over = Total(budgets) - MaxBody
    /\ largest > 0
    /\ \A k \in Parts : budgets[k] <= largest /\ (k < i => budgets[k] < largest)
    /\ \A k \in Parts : Cut(k) => budgets[k] >= largest - 1

LevelInv == pc = "outer" =>
    \A j, k \in Parts : Cut(j) =>
        /\ budgets[k] <= budgets[j] + 1
        /\ Total(budgets) > MaxBody => budgets[k] <= budgets[j]

\* The inductive invariant.  NothingWasted and CutEvenly speak of the loop's
\* exit only; SweepInv and LevelInv say how far each sweep has come.
IInv ==
    /\ TypeOK
    /\ \A k \in Parts : budgets[k] <= lengths[k]
    /\ Fits /\ SweepInv /\ LevelInv
    /\ NothingWasted /\ CutEvenly /\ NameFits

LEMMA PartsAre == Parts = {1, 2, 3}
  BY DEF Parts

LEMMA TotalIsNat ==
    ASSUME NEW b \in [Parts -> Nat]
    PROVE  Total(b) \in Nat
  BY PartsAre DEF Total

LEMMA LargestIs ==
    ASSUME NEW b \in [Parts -> 0..MaxLength]
    PROVE  /\ Largest(b) \in 0..MaxLength
           /\ \A k \in Parts : b[k] <= Largest(b)
           /\ Largest(b) = 0 => Total(b) = 0
<1>1. \E x \in {b[k] : k \in Parts} : \A k \in Parts : b[k] <= x
  BY PartsAre, LengthsAssumption
<1>2. /\ Largest(b) \in {b[k] : k \in Parts}
      /\ \A k \in Parts : b[k] <= Largest(b)
  BY <1>1 DEF Largest
<1> QED
  BY <1>2, PartsAre, LengthsAssumption DEF Total

LEMMA InitIInv == Init => IInv
<1> SUFFICES ASSUME Init PROVE IInv
  OBVIOUS
<1>1. TypeOK
  BY LengthsAssumption DEF Init, TypeOK
<1>2. \A k \in Parts : budgets[k] = lengths[k] /\ lengths[k] \in Nat
  BY LengthsAssumption DEF Init
<1>3. Total(lengths) \in Nat
  BY <1>2, TotalIsNat, LengthsAssumption DEF Init
<1> QED
  BY <1>1, <1>2, <1>3, LengthsAssumption
  DEF Init, IInv, Fits, SweepInv, LevelInv, Cut, NothingWasted, CutEvenly,
      NameFits, fixedLen, maxNameLen

LEMMA MeasureStep == IInv /\ Measure => IInv'
<1> SUFFICES ASSUME IInv, Measure PROVE IInv'
  OBVIOUS
<1>1. /\ pc = "outer" /\ budgets \in [Parts -> 0..MaxLength]
      /\ UNCHANGED <<lengths, budgets, final>>
      /\ over' = Total(budgets) - MaxBody
      /\ \A k \in Parts : budgets[k] \in Nat /\ lengths[k] \in Nat
      /\ Total(budgets) \in Nat /\ Total(budgets) >= MaxBody
  BY TotalIsNat, LengthsAssumption DEF IInv, TypeOK, Measure, Fits
<1>2. CASE pc' = "cut" /\ UNCHANGED <<largest, i>>
  <2>1. Total(budgets) = MaxBody
    BY <1>1, <1>2, LargestIs, LengthsAssumption DEF Measure
  <2>2. TypeOK'
    BY <1>1, <1>2, LengthsAssumption DEF IInv, TypeOK
  <2> QED
    BY <1>1, <1>2, <2>1, <2>2, LengthsAssumption
    DEF IInv, Fits, SweepInv, LevelInv, Cut, NothingWasted, CutEvenly,
        NameFits, Total
<1>3. CASE /\ pc' = "sweep" /\ largest' = Largest(budgets) /\ i' = 1
           /\ over' > 0 /\ Largest(budgets) # 0
  <2>1. /\ largest' \in 0..MaxLength /\ largest' > 0
        /\ \A k \in Parts : budgets[k] <= largest'
    BY <1>1, <1>3, LargestIs, LengthsAssumption
  <2>2. TypeOK'
    BY <1>1, <1>3, <2>1, LengthsAssumption DEF IInv, TypeOK
  <2>3. \A k \in Parts : Cut(k) => budgets[k] >= largest'
    <3>1. \E m \in Parts : largest' = budgets[m]
      <4>1. \E x \in {budgets[k] : k \in Parts} :
                \A k \in Parts : budgets[k] <= x
        BY <1>1, PartsAre
      <4> QED
        BY <1>3, <4>1 DEF Largest
    <3> QED
      BY <1>1, <1>3, <3>1, LengthsAssumption DEF IInv, LevelInv
  <2>4. SweepInv'
    BY <1>1, <1>3, <2>1, <2>3, PartsAre, LengthsAssumption
    DEF SweepInv, Cut, Total
  <2> QED
    BY <1>1, <1>3, <2>2, <2>4, LengthsAssumption
    DEF IInv, Fits, LevelInv, NothingWasted, CutEvenly, NameFits, Total
<1> QED
  BY <1>1, <1>2, <1>3, LargestIs, LengthsAssumption DEF Measure

LEMMA SweepKeepsIInv == IInv /\ Sweep => IInv'
<1> SUFFICES ASSUME IInv, Sweep PROVE IInv'
  OBVIOUS
<1>1. /\ pc = "sweep" /\ budgets \in [Parts -> 0..MaxLength] /\ i \in 1..4
      /\ UNCHANGED <<lengths, largest, final>>
      /\ \A k \in Parts : budgets[k] \in Nat /\ lengths[k] \in Nat
      /\ over = Total(budgets) - MaxBody
      /\ largest \in Nat /\ largest > 0 /\ Total(budgets) >= MaxBody
      /\ Total(budgets) \in Nat
  BY TotalIsNat, LengthsAssumption
  DEF IInv, TypeOK, Sweep, SweepStep, Fits, SweepInv
<1>2. CASE /\ i \notin Parts \/ over <= 0
           /\ pc' = "outer" /\ UNCHANGED <<budgets, over, i>>
  <2>1. TypeOK'
    BY <1>1, <1>2 DEF IInv, TypeOK
  <2>2. \A j, k \in Parts : Cut(j) =>
            /\ budgets[k] <= budgets[j] + 1
            /\ Total(budgets) > MaxBody => budgets[k] <= budgets[j]
    <3>1. CASE i \notin Parts
      <4>1. i = 4
        BY <1>1, <3>1 DEF Parts
      <4> QED
        BY <1>1, <4>1 DEF IInv, SweepInv, Parts
    <3>2. CASE over <= 0
      BY <1>1, <3>2, LengthsAssumption DEF IInv, SweepInv
    <3> QED
      BY <1>2, <3>1, <3>2
  <2> QED
    BY <1>1, <1>2, <2>1, <2>2
    DEF IInv, Fits, SweepInv, LevelInv, Cut, NothingWasted, CutEvenly,
        NameFits, Total
<1>3. CASE /\ i \in Parts /\ over > 0 /\ budgets[i] # largest
           /\ UNCHANGED <<budgets, over, pc>> /\ i' = i + 1
  <2>1. TypeOK'
    BY <1>1, <1>3 DEF IInv, TypeOK, Parts
  <2>2. SweepInv'
    BY <1>1, <1>3, PartsAre DEF IInv, SweepInv, Cut, Total
  <2> QED
    BY <1>1, <1>3, <2>1, <2>2
    DEF IInv, Fits, LevelInv, NothingWasted, CutEvenly, NameFits, Total
<1>4. CASE /\ i \in Parts /\ over > 0 /\ budgets[i] = largest
           /\ budgets' = [budgets EXCEPT ![i] = @ - 1] /\ over' = over - 1
           /\ UNCHANGED pc /\ i' = i + 1
  <2>1. /\ budgets'[i] = budgets[i] - 1 /\ budgets[i] - 1 \in 0..MaxLength
        /\ \A k \in Parts : k # i => budgets'[k] = budgets[k]
    BY <1>1, <1>4, LengthsAssumption DEF IInv, TypeOK
  <2>2. TypeOK'
    BY <1>1, <1>4, <2>1 DEF IInv, TypeOK, Parts
  <2>3. Total(budgets') = Total(budgets) - 1
    BY <1>1, <1>4, <2>1, PartsAre DEF Total
  <2>4. \A k \in Parts : budgets'[k] <= lengths'[k]
    BY <1>1, <1>4, <2>1 DEF IInv
  <2>5. \A k \in Parts : /\ budgets'[k] <= largest
                         /\ k < i + 1 => budgets'[k] < largest
    BY <1>1, <1>4, <2>1, PartsAre DEF IInv, SweepInv
  <2>6. \A k \in Parts : budgets'[k] < lengths'[k] => budgets'[k] >= largest - 1
    BY <1>1, <1>4, <2>1, PartsAre DEF IInv, SweepInv, Cut
  <2>7. over' = Total(budgets') - MaxBody /\ Total(budgets') >= MaxBody
    BY <1>1, <1>4, <2>3, LengthsAssumption
  <2> QED
    BY <1>1, <1>4, <2>2, <2>4, <2>5, <2>6, <2>7
    DEF IInv, Fits, SweepInv, LevelInv, Cut, NothingWasted, CutEvenly,
        NameFits, Total
<1> QED
  BY <1>1, <1>2, <1>3, <1>4, LengthsAssumption DEF Sweep, SweepStep

LEMMA FormatStep == IInv /\ Format => IInv'
<1> SUFFICES ASSUME IInv, Format PROVE IInv'
  OBVIOUS
<1>1. /\ pc = "cut" /\ pc' = "named"
      /\ UNCHANGED <<lengths, budgets, over, largest, i>>
      /\ \A k \in Parts : /\ budgets[k] \in 0..MaxLength
                          /\ lengths[k] \in 0..MaxLength
                          /\ budgets[k] <= lengths[k]
  BY DEF IInv, TypeOK, Format
<1>2. \A k \in Parts : final'[k] \in TrimmedLengths(k)
  <2>1. PICK a \in TrimmedLengths(1), b \in TrimmedLengths(2),
             c \in TrimmedLengths(3) :
             final' = [k \in Parts |-> IF k = 1 THEN a ELSE IF k = 2 THEN b ELSE c]
    BY DEF Format
  <2>2. final'[1] = a /\ final'[2] = b /\ final'[3] = c
    BY <2>1, PartsAre
  <2> QED
    BY <2>2, PartsAre
<1>3. \A k \in Parts : final'[k] \in 0..budgets[k]
  <2> SUFFICES ASSUME NEW k \in Parts PROVE final'[k] \in 0..budgets[k]
    OBVIOUS
  <2>1. budgets[k] \in Nat /\ lengths[k] \in Nat /\ budgets[k] <= lengths[k]
    BY <1>1, LengthsAssumption
  <2>2. CASE budgets[k] < lengths[k]
    BY <1>2, <2>2 DEF TrimmedLengths
  <2>3. CASE ~(budgets[k] < lengths[k])
    <3>1. final'[k] = lengths[k]
      BY <1>2, <2>3 DEF TrimmedLengths
    <3>2. budgets[k] = lengths[k]
      BY <2>1, <2>3
    <3> QED
      BY <2>1, <3>1, <3>2
  <2> QED
    BY <2>2, <2>3
<1>4. final' \in [Parts -> 0..MaxLength]
  <2>1. final' = [k \in Parts |-> final'[k]]
    BY DEF Format
  <2> QED
    BY <1>1, <1>3, <2>1, LengthsAssumption
<1>5. Total(final') <= MaxBody
  BY <1>1, <1>3, PartsAre, LengthsAssumption DEF IInv, NothingWasted, Total
<1>6. Total(final') \in Nat
  BY <1>1, <1>3, PartsAre DEF Total
<1> QED
  BY <1>1, <1>4, <1>5, <1>6, LengthsAssumption
  DEF IInv, TypeOK, Fits, SweepInv, LevelInv, NothingWasted, CutEvenly,
      NameFits, Total, fixedLen, maxNameLen

LEMMA Invariance == Spec => []IInv
<1>1. IInv /\ UNCHANGED vars => IInv'
  BY DEF vars, IInv, TypeOK, Fits, SweepInv, LevelInv, Cut, NothingWasted,
         CutEvenly, NameFits, Total
<1>2. IInv /\ [Next]_vars => IInv'
  BY <1>1, MeasureStep, SweepKeepsIInv, FormatStep DEF Next, Named
<1> QED
  BY InitIInv, <1>2, PTL DEF Spec

\* A DataUpload's or DataDownload's name never exceeds the limit Kubernetes
\* sets, whatever the lengths of the names it is made of.
THEOREM NamesFit == Spec => []NameFits
  BY Invariance, PTL DEF IInv

\* The distribution cuts exactly what does not fit.
THEOREM ExactBudget == Spec => []NothingWasted
  BY Invariance, PTL DEF IInv

\* The distribution is even: only the longest components are cut, to within
\* one character of each other.
THEOREM EvenBudget == Spec => []CutEvenly
  BY Invariance, PTL DEF IInv

-------------------------------------------------------------------------------
(* The loop ends: Remaining is a natural number that every step lowers.        *)

LEMMA LargestAfterSweep ==
    ASSUME IInv, pc = "sweep", over > 0, i \notin Parts
    PROVE  Largest(budgets) <= largest - 1
<1>1. budgets \in [Parts -> 0..MaxLength] /\ largest \in Nat /\ i = 4
  BY LengthsAssumption DEF IInv, TypeOK, Parts
<1>2. \A k \in Parts : budgets[k] < largest
  BY <1>1, PartsAre DEF IInv, SweepInv
<1>3. \E k \in Parts : Largest(budgets) = budgets[k]
  <2>1. \E x \in {budgets[k] : k \in Parts} : \A k \in Parts : budgets[k] <= x
    BY <1>1, PartsAre, LengthsAssumption
  <2> QED
    BY <2>1 DEF Largest
<1> QED
  BY <1>1, <1>2, <1>3, LengthsAssumption

LEMMA MeasureLowers ==
    ASSUME IInv, Measure
    PROVE  Remaining' \in Nat /\ Remaining' < Remaining
<1>1. /\ pc = "outer" /\ budgets' = budgets
      /\ Total(budgets) \in Nat /\ MaxBody \in Nat
      /\ Largest(budgets) \in Nat
      /\ Largest(budgets) = 0 => Total(budgets) = 0
  BY LargestIs, TotalIsNat, LengthsAssumption DEF IInv, TypeOK, Measure
<1>2. Remaining = IF Total(budgets) <= MaxBody
                  THEN 2 ELSE 2 + 6 * Largest(budgets)
  BY <1>1 DEF Remaining
<1>3. CASE pc' = "cut"
  <2>1. Remaining' = 1
    BY <1>3 DEF Remaining
  <2>2. Remaining \in Nat /\ Remaining >= 2
    BY <1>1, <1>2
  <2> QED
    BY <2>1, <2>2
<1>4. CASE /\ pc' = "sweep" /\ largest' = Largest(budgets) /\ i' = 1
           /\ Total(budgets) > MaxBody /\ Largest(budgets) # 0
  <2>1. Remaining' = 2 + 6 * Largest(budgets) - 1
    BY <1>1, <1>4 DEF Remaining
  <2> QED
    BY <1>1, <1>2, <1>4, <2>1
<1> QED
  BY <1>1, <1>3, <1>4 DEF Measure

LEMMA SweepLowers ==
    ASSUME IInv, Sweep
    PROVE  Remaining' \in Nat /\ Remaining' < Remaining
<1>1. /\ pc = "sweep" /\ largest' = largest /\ largest \in Nat /\ largest > 0
      /\ i \in 1..4 /\ budgets \in [Parts -> 0..MaxLength] /\ over \in Int
      /\ over = Total(budgets) - MaxBody
      /\ Total(budgets) \in Nat /\ MaxBody \in Nat
  BY TotalIsNat, LengthsAssumption
  DEF IInv, TypeOK, SweepInv, Sweep, SweepStep
<1>2. Remaining = 2 + 6 * largest - i
  BY <1>1 DEF Remaining
<1>3. CASE pc' = "sweep" /\ i' = i + 1 /\ i \in Parts
  <2>1. Remaining' = 2 + 6 * largest - (i + 1)
    BY <1>1, <1>3 DEF Remaining
  <2> QED
    BY <1>1, <1>2, <2>1
<1>4. CASE pc' = "outer" /\ budgets' = budgets /\ over <= 0
  <2>1. Remaining' = 2
    BY <1>1, <1>4 DEF Remaining
  <2> QED
    BY <1>1, <1>2, <2>1
<1>5. CASE pc' = "outer" /\ budgets' = budgets /\ over > 0 /\ i \notin Parts
  <2>1. Largest(budgets) \in Nat /\ Largest(budgets) <= largest - 1
    BY <1>1, <1>5, LargestAfterSweep, LargestIs, LengthsAssumption
  <2>2. Remaining' = 2 + 6 * Largest(budgets)
    BY <1>1, <1>5 DEF Remaining
  <2> QED
    BY <1>1, <1>2, <2>1, <2>2
<1> QED
  BY <1>1, <1>3, <1>4, <1>5 DEF Sweep, SweepStep

\* distributeTruncationBudget ends on every input: each iteration of either
\* loop lowers a natural number.
THEOREM LoopEnds == Spec => EveryStepGetsCloser
<1> DEFINE Lowers == Remaining' \in Nat /\ Remaining' < Remaining
<1>1. IInv /\ [Next]_vars => [Lowers]_vars
  <2>1. ASSUME Format PROVE Lowers
    BY <2>1 DEF Format, Remaining
  <2> QED
    BY <2>1, MeasureLowers, SweepLowers DEF Next, Named
<1> QED
  BY <1>1, Invariance, PTL DEF Spec, EveryStepGetsCloser
===============================================================================
