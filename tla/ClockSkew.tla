------------------------------- MODULE ClockSkew -------------------------------
(***************************************************************************)
(* The clock skew of a node (protocol/ntp/clock_skew.py), which the time   *)
(* two nodes punch at rests on: answers of many NTP servers, some of them  *)
(* wrong, some lost, cleaned of what is more than a standard deviation     *)
(* away from their average, in up to three rounds.                         *)
(*                                                                         *)
(* The answers are whole numbers, and comparisons are multiplied out: with *)
(* n answers, their sum s and sum of squares q, (n*v - s)^2 <= n*q - s^2   *)
(* is |v - avg| <= sdev.                                                   *)
(***************************************************************************)
EXTENDS Integers, Functions, FiniteSets

CONSTANTS Right,       \* offsets that servers with the right time give
          Wrong,       \* other offsets
          EnoughData,  \* requests of a round: enough_data + 10
          MinData,     \* min_data
          MaxSdev      \* max_sdev

Offset == Right \cup Wrong

ASSUME ClockSkewAssumption ==
  /\ Right \subseteq Int /\ Wrong \subseteq Int /\ Right \cap Wrong = {}
  /\ IsFiniteSet(Offset)
  /\ EnoughData \in Nat /\ MinData \in Nat \ (0 .. 1) /\ MaxSdev \in Nat

VARIABLES
  asked,  \* rounds that were begun
  data,   \* data_points: how often there is each offset
  got,    \* every answer so far
  skew,   \* clock_skew: {} while it is 0, or the points it is the average of
  state   \* "start", "done", or "raised"

skewvars == <<asked, data, got, skew, state>>

Nothing == [o \in Offset |-> 0]

SkewInit ==
  asked = 0 /\ data = Nothing /\ got = Nothing /\ skew = {} /\ state = "start"

SumOver(f) == FoldFunction(+, 0, f)
Number(d) == SumOver(d)
Total(d) == SumOver([o \in Offset |-> o * d[o]])
Squares(d) == SumOver([o \in Offset |-> o * o * d[o]])

\* The square of n * sdev.
Spread(d) == Number(d) * Squares(d) - Total(d) * Total(d)

\* A bug: the deviation is not compared.
SteadyAlways(d) == TRUE

Steady(d) == Spread(d) <= MaxSdev * MaxSdev * Number(d) * Number(d)

\* Keep only the sigma range around the average.
Cleaned(d) ==
  LET n == Number(d)
      sum == Total(d)
      spread == Spread(d) IN
  [o \in Offset |-> IF (n * o - sum) * (n * o - sum) <= spread THEN d[o] ELSE 0]

\* The loop ends after clean_steps, or before.
Finished(d) == Number(d) < 2 \/ Steady(d) \/ Number(d) < MinData

Cleanest(d) ==
  LET d1 == Cleaned(d)
      d2 == Cleaned(d1) IN
  IF Finished(d1) THEN d1 ELSE IF Finished(d2) THEN d2 ELSE Cleaned(d2)

Added(d, e) == [o \in Offset |-> d[o] + e[o]]

\* collect_data_points and calculate_clock_skew, with the answers that came.
\* The deviation of one point raises, and start with it.
Round(answers) ==
  LET points == Added(data, answers)
      clean == Cleanest(points) IN
  /\ state = "start" /\ asked < 3 /\ asked' = asked + 1
  /\ got' = Added(got, answers)
  /\ IF Number(points) = 0 THEN UNCHANGED <<data, skew, state>>
     ELSE IF Number(points) = 1 THEN data' = points /\ state' = "raised" /\ UNCHANGED skew
     ELSE /\ data' = clean
          /\ IF Steady(clean) /\ Number(clean) >= MinData /\ Total(clean) # 0
               THEN skew' = {clean} /\ state' = "done"
               ELSE UNCHANGED <<skew, state>>

\* Three rounds have not been enough: the skew stays 0.
GiveUpSkew == state = "start" /\ asked = 3 /\ state' = "done" /\ UNCHANGED <<asked, data, got, skew>>

SkewNext ==
  \/ \E answers \in [Offset -> 0 .. EnoughData] :
       Number(answers) <= EnoughData /\ Round(answers)
  \/ GiveUpSkew

SkewSpec == SkewInit /\ [][SkewNext]_skewvars

-----------------------------------------------------------------------------
(* Properties. *)

Count(d, os) == FoldFunctionOnSet(+, 0, d, os)

\* A wrong offset and a right one make a deviation above MaxSdev, whatever the
\* rest of three rounds' answers is.
Far == \A r \in Right, o \in Wrong : (o - r) * (o - r) > 6 * MaxSdev * MaxSdev * EnoughData

\* As long as fewer than MinData of all the answers were wrong, and far from the
\* right ones, a skew that is taken is an average of right ones only: what is kept
\* of an earlier round, cleaned or not, does not get wrong ones in.
SkewIsRight ==
  \A d \in skew : Far /\ Count(got, Wrong) < MinData => \A o \in Wrong : d[o] = 0
===============================================================================
