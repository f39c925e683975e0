------------------------------- MODULE DeltaTest -------------------------------
(***************************************************************************)
(* delta_test (nic/nat/nat_utils.py): which rule a NAT gives ports by.     *)
(*                                                                         *)
(* Two rounds of STUN requests, from random local ports and then from      *)
(* successive ones, give pairs of a local and a mapped port; some requests *)
(* get no answer.  The pairs are compared with the ones before them in the *)
(* list, and a rule that enough of them follow is the verdict.             *)
(***************************************************************************)
EXTENDS Integers, Sequences, FiniteSets, FiniteSetsExt

CONSTANTS TestNo,     \* test_no
          LastPort,    \* MAX_PORT
          Local,      \* the random local ports (a bound)
          Start,      \* where the second round starts
          MaxLost,    \* answers lost in a round (a bound)
          Rule        \* the NATs: [delta, value]

Test == 1 .. TestNo
Threshold == TestNo \div 2 - 1   \* as do_load_nat sets it

\* Ports are counted on by less than half of them: by more, it is backwards.
ASSUME DeltaTestAssumption ==
  /\ TestNo \in Nat \ (0 .. 3) /\ LastPort \in Nat /\ Local \subseteq 1 .. LastPort
  /\ Start \in 1 .. LastPort - TestNo
  /\ Rule \subseteq [delta : {"equal", "preserv", "independent", "dependent"}, value : Nat]
  /\ \A r \in Rule : CASE r.delta = "equal" -> r.value = 0
                      [] r.delta = "preserv" -> r.value \in 1 .. LastPort - 1
                      [] r.delta = "independent" -> 2 * r.value <= LastPort
                      [] r.delta = "dependent" -> r.value # 1 /\ 2 * r.value <= LastPort

NoAnswer == {}

VARIABLES
  rule,     \* the NAT
  results,  \* per round, and test in it: {} or {[local, mapped]}
  round,    \* 1 or 2, and 3 when there is a verdict
  delta     \* delta_info

deltavars == <<rule, results, round, delta>>

-----------------------------------------------------------------------------
(* The NAT, which handles the requests of a round in their order. *)

Wrap(p) == ((p - 1) % LastPort) + 1

\* A NAT whose ports depend on the local ones counts on only with them.
MappedBy(r, local, i) ==
  CASE r.delta = "equal" -> local[i]
    [] r.delta = "preserv" -> Wrap(local[i] + r.value)
    [] r.delta = "independent" -> Wrap(1 + i * r.value)
    [] r.delta = "dependent" -> Wrap((local[i] - local[1]) * r.value + 1)

Losses == {lost \in SUBSET Test : Cardinality(lost) <= MaxLost}

Answers(r, local, lost) ==
  [i \in Test |-> IF i \in lost THEN NoAnswer
                  ELSE {[local |-> local[i], mapped |-> MappedBy(r, local, i)]}]

DeltaInit ==
  /\ rule \in Rule /\ round = 1 /\ delta = <<>>
  /\ \E local \in [Test -> Local], lost \in Losses :
       results = <<Answers(rule, local, lost)>>

-----------------------------------------------------------------------------
(* get_delta_value. *)

\* field_dist without its sign: the shorter way round.
FieldDist(x, y) ==
  LET d == IF x < y THEN y - x ELSE x - y IN Min({d, LastPort - d})

\* A bug: a pair also needs the one after it.
CountedBetween(rs) == {i \in Test : /\ rs[i] # NoAnswer
                                   /\ \A j \in {i - 1, i + 1} \cap Test : rs[j] # NoAnswer}

\* A pair counts if the test before it was answered; else the look at that
\* raises, and nothing of the pair is counted.
Counted(rs) == {i \in Test : rs[i] # NoAnswer /\ (i = 1 \/ rs[i - 1] # NoAnswer)}
Compared(rs) == Counted(rs) \ {1}

Pair(rs, i) == CHOOSE x \in rs[i] : TRUE
LocalDist(rs, i) == FieldDist(Pair(rs, i).local, Pair(rs, i - 1).local)
MappedDist(rs, i) == FieldDist(Pair(rs, i).mapped, Pair(rs, i - 1).mapped)

Equal(rs) == {i \in Counted(rs) : Pair(rs, i).local = Pair(rs, i).mapped}
SameDist(rs) == {i \in Compared(rs) : MappedDist(rs, i) = LocalDist(rs, i)}
Preserving(rs) == SameDist(rs) \ Equal(rs)

\* dist_no and local_dist: the comparisons of ports that are not next to each
\* other, and of ports that are.
DistNo(rs) == {i \in Compared(rs) \ SameDist(rs) : LocalDist(rs, i) # 1}
LocalNo(rs) == {i \in Compared(rs) \ SameDist(rs) : LocalDist(rs, i) = 1}

\* The distances that enough of them mapped, and the first of those there was.
Frequent(rs, is) ==
  {MappedDist(rs, i) : i \in {j \in is :
     Cardinality({k \in is : MappedDist(rs, k) = MappedDist(rs, j)}) >= Threshold}}
FirstOf(rs, is) ==
  MappedDist(rs, Min({i \in is : MappedDist(rs, i) \in Frequent(rs, is)}))

\* Distances that are all the same show nothing.
PreservSeen(rs) ==
  /\ Cardinality({MappedDist(rs, i) : i \in Preserving(rs)}) > 1
  /\ Cardinality(Preserving(rs)) >= Threshold

DeltaInfo(type, value) == <<type, value>>

\* The verdict of the first round, if there is one.
FirstVerdict(rs) ==
  IF Cardinality(Equal(rs)) >= Threshold THEN DeltaInfo("equal", 0)
  ELSE IF PreservSeen(rs) THEN DeltaInfo("preserv", 0)
  ELSE IF Frequent(rs, DistNo(rs)) # {} THEN DeltaInfo("independent", FirstOf(rs, DistNo(rs)))
  ELSE <<>>

FirstRound ==
  /\ round = 1 /\ delta' = FirstVerdict(results[1])
  /\ IF delta' = <<>>
       THEN /\ round' = 2
            /\ \E lost \in Losses :
                 results' = Append(results,
                   Answers(rule, [i \in Test |-> Start + i - 1], lost))
       ELSE round' = 3 /\ UNCHANGED results
  /\ UNCHANGED rule

SecondRound ==
  LET is == LocalNo(results[2]) IN
  /\ round = 2 /\ round' = 3
  /\ delta' = IF Frequent(results[2], is) # {}
                THEN DeltaInfo("dependent", FirstOf(results[2], is))
                ELSE DeltaInfo("random", 0)
  /\ UNCHANGED <<rule, results>>

DeltaNext == FirstRound \/ SecondRound
DeltaSpec == DeltaInit /\ [][DeltaNext]_deltavars

-----------------------------------------------------------------------------
(* Properties. *)

\* Each answer that is lost takes at most itself and the next pair.
Enough(rs) ==
  TestNo - 1 - 2 * Cardinality({i \in Test : rs[i] = NoAnswer}) >= Threshold

\* Random local ports that look like another rule than the NAT's.
Chance(rs) ==
  CASE rule.delta = "equal" -> FALSE
    [] rule.delta = "preserv" ->
         Cardinality({MappedDist(rs, i) : i \in Preserving(rs)}) = 1
    [] rule.delta = "independent" ->
         \/ Equal(rs) # {} \/ SameDist(rs) # {} \/ LocalNo(rs) # {}
    [] OTHER -> FirstVerdict(rs) # <<>>

\* Barring chance, and if not too many answers are lost, the verdict is the
\* rule of the NAT, with its value: an answer that is lost makes no distance
\* of its own.  (A value is found without its sign, and one that is 1 only if
\* local ports do not matter.)
DeltaFound ==
  round = 3 /\ ~Chance(results[1]) /\ (\A r \in DOMAIN results : Enough(results[r])) =>
    delta = DeltaInfo(rule.delta, rule.value * (IF rule.delta = "preserv" THEN 0 ELSE 1))
===============================================================================
