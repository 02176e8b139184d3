---------------------------- MODULE NameTruncation ----------------------------
(* generateDataUploadName (vm/backup.go) and generateDataDownloadName          *)
(* (pvc/restore.go) fit three name components into the 253 characters of a     *)
(* Kubernetes name.  Both share distributeTruncationBudget, a nested loop,     *)
(* modelled here iteration by iteration on the lengths of the components.      *)
EXTENDS Integers

CONSTANTS
    MaxBody,     \* room for the components: 253 - fixedLen in the code
    MaxLength    \* bound: length of a component

fixedLen == 14   \* "du-", three separators and the 8-character hash
maxNameLen == fixedLen + MaxBody   \* 253 in the code
Parts    == 1..3

ASSUME LengthsAssumption == MaxBody \in Nat /\ MaxLength \in Nat

VARIABLES
    pc,        \* "outer": the head of the outer loop; "sweep": the inner loop;
               \* "cut": budgets returned; "named": the name is formatted
    lengths,   \* len(p) of each component
    budgets,   \* the lengths granted so far
    over,      \* characters still to take off
    largest,   \* the longest budget when the sweep began
    i,         \* the sweep's index
    final      \* the components' lengths in the name

vars == <<pc, lengths, budgets, over, largest, i, final>>

Total(b) == b[1] + b[2] + b[3]

Largest(b) == CHOOSE x \in {b[k] : k \in Parts} : \A k \in Parts : b[k] <= x

\* The callers skip the distribution when everything fits.
Init ==
    /\ lengths \in [Parts -> 0..MaxLength]
    /\ budgets = lengths /\ final = lengths
    /\ over = 0 /\ largest = 0 /\ i = 1
    /\ pc = IF Total(lengths) > MaxBody THEN "outer" ELSE "named"

\* The head of the outer loop: return, or start a sweep.
Measure ==
    /\ pc = "outer"
    /\ over' = Total(budgets) - MaxBody
    /\ IF over' <= 0 \/ Largest(budgets) = 0
       THEN pc' = "cut" /\ UNCHANGED <<largest, i>>
       ELSE pc' = "sweep" /\ largest' = Largest(budgets) /\ i' = 1
    /\ UNCHANGED <<lengths, budgets, final>>

\* One iteration of the inner loop, which breaks off when stop holds and takes
\* a character off component i when hit does.
SweepStep(stop, hit) ==
    /\ pc = "sweep"
    /\ IF i \notin Parts \/ stop
       THEN pc' = "outer" /\ UNCHANGED <<budgets, over, i>>
       ELSE /\ IF hit
               THEN /\ budgets' = [budgets EXCEPT ![i] = @ - 1]
                    /\ over' = over - 1
               ELSE UNCHANGED <<budgets, over>>
            /\ i' = i + 1
            /\ UNCHANGED pc
    /\ UNCHANGED <<lengths, largest, final>>

\* Mutants: no break when enough is taken off; every component is cut; the
\* comparison with the longest is wrong.
SweepToTheEnd   == SweepStep(FALSE, budgets[i] = largest)
SweepEverything == SweepStep(over <= 0, budgets[i] > 0)
SweepNothing    == SweepStep(over <= 0, budgets[i] > largest)

Sweep == SweepStep(over <= 0, budgets[i] = largest)

\* Mutant: the budget is computed and not applied.
Untruncated(k) == {lengths[k]}

\* strings.TrimRight drops any number of '-' and '.' at the end of a component
\* that was cut, and touches no other.
TrimmedLengths(k) == IF budgets[k] < lengths[k] THEN 0..budgets[k]
                                                ELSE {lengths[k]}

Format ==
    /\ pc = "cut" /\ pc' = "named"
    /\ \E a \in TrimmedLengths(1), b \in TrimmedLengths(2),
          c \in TrimmedLengths(3) :
           final' = [k \in Parts |-> IF k = 1 THEN a
                                     ELSE IF k = 2 THEN b ELSE c]
    /\ UNCHANGED <<lengths, budgets, over, largest, i>>

\* The name is returned: the one state without a further step.
Named == pc = "named" /\ UNCHANGED vars

Next == Measure \/ Sweep \/ Format \/ Named

Spec == Init /\ [][Next]_vars

-------------------------------------------------------------------------------
(* Properties.                                                                 *)

TypeOK ==
    /\ pc \in {"outer", "sweep", "cut", "named"}
    /\ lengths \in [Parts -> 0..MaxLength]
    /\ budgets \in [Parts -> 0..MaxLength]
    /\ over \in Int /\ largest \in 0..MaxLength /\ i \in 1..4
    /\ final \in [Parts -> 0..MaxLength]

\* "the total fits" (generateDataUploadName: names over 253 characters are
\* truncated): whatever the components, the name obeys the limit.
NameFits ==
    pc = "named" => fixedLen + Total(final) <= maxNameLen

\* The budgets use all the room there is: not one character more is cut than
\* the limit asks for, however the sweeps divide the deficit.
NothingWasted ==
    pc = "cut" => Total(budgets) = MaxBody

\* "any deficit is taken evenly off the longest part(s)": a component that was
\* cut is among the longest of what is left, up to one character, and a
\* shorter one has kept its full length.
CutEvenly ==
    pc \in {"cut", "named"} =>
        \A j, k \in Parts : budgets[j] < lengths[j] =>
            budgets[k] <= budgets[j] + 1

\* How far the name is from being formatted: the longest component must still
\* come down, or be found short enough, and each sweep has three steps to do it.
Remaining ==
    CASE pc = "named" -> 0
      [] pc = "cut"   -> 1
      [] pc = "outer" -> IF Total(budgets) <= MaxBody
                         THEN 2 ELSE 2 + 6 * Largest(budgets)
      [] pc = "sweep" -> 2 + 6 * largest - i

\* No step of the nested loop is for nothing: each brings the name closer, by a
\* measure that cannot fall for ever, so that no input makes the loop spin
\* ("repeated until the total fits").  As TLC finds no deadlock, there is also
\* always a next step until the name is returned.
EveryStepGetsCloser ==
    [][Remaining' \in Nat /\ Remaining' < Remaining]_vars

===============================================================================
