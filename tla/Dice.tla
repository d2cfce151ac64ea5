-------------------------------- MODULE Dice --------------------------------
(***************************************************************************)
(* exercise04/dice.c with players.c: in each round every player rolls two  *)
(* dice, the list is sorted by the sums, those with the best sum win, and  *)
(* the list is sorted by wins.  Both sorts are g_list_sort, which is       *)
(* stable.                                                                 *)
(***************************************************************************)
EXTENDS Integers, Sequences, SequencesExt, FiniteSets

CONSTANTS
  MaxPlayers,   \* MAX_PLAYERS
  MaxRoll,      \* MAX_ROLL
  Counts,       \* what atoi makes of the argument
  MaxRounds     \* bound: after so many rounds the user types q

DiceAssumption == {MaxPlayers, MaxRoll, MaxRounds} \subseteq Nat \ {0} /\ Counts \subseteq Int

VARIABLES
  stage,     \* "start", "roll", "win", "rank", "ask", "over" or "crash"
  players,   \* the list: the players, numbered as they were created
  roll,      \* the sum of current_roll of each
  wins,      \* win_count of each
  order,     \* history: the list as it was before the last round
  rounds     \* history: the rolls of each round so far

vars == <<stage, players, roll, wins, order, rounds>>

Sums == {a + b : a \in 1..MaxRoll, b \in 1..MaxRoll}
Created == 1..Len(players)

\* g_list_sort, from the highest value to the lowest, which keeps the order of equal ones:
\* in the k-th place is the one that k - 1 others go before.
Place(list, p) == CHOOSE k \in DOMAIN list : list[k] = p
Before(list, value, p, q) ==
  \/ value[p] > value[q]
  \/ value[p] = value[q] /\ Place(list, p) < Place(list, q)
Ahead(list, value, p) == {q \in ToSet(list) : Before(list, value, q, p)}
Sorted(list, value) ==
  [k \in DOMAIN list |-> CHOOSE p \in ToSet(list) : Cardinality(Ahead(list, value, p)) = k - 1]

\* max_score, of the first in the sorted list (mutant: of the first before the sort).
Mut_MaxScore(list) == roll[Head(players)]
MaxScore(list) == roll[Head(list)]

\* create_player_list: no list at all for too many players.
Create ==
  /\ stage = "start" /\ stage' = "roll"
  /\ \E count \in Counts :
       LET n == IF count > MaxPlayers \/ count < 0 THEN 0 ELSE count IN
       /\ players' = [i \in 1..n |-> i]
       /\ roll' = [i \in 1..n |-> 0]
       /\ wins' = [i \in 1..n |-> 0]
  /\ UNCHANGED <<order, rounds>>

\* roll_round.
Roll ==
  /\ stage = "roll" /\ stage' = "win"
  /\ roll' \in [Created -> Sums]
  /\ order' = players /\ rounds' = Append(rounds, roll')
  /\ UNCHANGED <<players, wins>>

\* The sort by rolls, max_score of the first in the list, update_leaderboard.
Win ==
  /\ stage = "win"
  /\ players' = Sorted(players, roll)
  /\ IF players' = <<>>
     THEN stage' = "crash" /\ wins' = wins
     ELSE /\ stage' = "rank"
          /\ wins' = [p \in Created |-> wins[p] + IF roll[p] = MaxScore(players') THEN 1 ELSE 0]
  /\ UNCHANGED <<roll, order, rounds>>

\* The sort by wins.
Rank ==
  /\ stage = "rank" /\ stage' = "ask"
  /\ players' = Sorted(players, wins)
  /\ UNCHANGED <<roll, wins, order, rounds>>

\* Any character but q starts another round.
Ask ==
  /\ stage = "ask"
  /\ \/ stage' = "over"
     \/ Len(rounds) < MaxRounds /\ stage' = "roll"
  /\ UNCHANGED <<players, roll, wins, order, rounds>>

Init == /\ stage = "start" /\ players = <<>> /\ roll = <<>> /\ wins = <<>>
        /\ order = <<>> /\ rounds = <<>>

Halted == stage \in {"over", "crash"} /\ UNCHANGED vars

Next == Create \/ Roll \/ Win \/ Rank \/ Ask \/ Halted

Spec == Init /\ [][Next]_vars

-----------------------------------------------------------------------------
(* Property *)

Won(p) == Cardinality({r \in 1..Len(rounds) : \A q \in Created : rounds[r][q] <= rounds[r][p]})
Above(p, q) == \/ wins[p] > wins[q]
               \/ wins[p] = wins[q] /\ roll[p] > roll[q]
               \/ wins[p] = wins[q] /\ roll[p] = roll[q] /\ Place(order, p) < Place(order, q)

\* After each round the list holds the same players, each with as many wins as rounds in
\* which nobody rolled more, by wins, among equals by the last roll, among equals as before;
\* the game crashes only when there is nobody to play.
BoardInOrder ==
  /\ stage = "ask" =>
       /\ ToSet(players) = Created
       /\ \A p \in Created : wins[p] = Won(p)
       /\ \A i, j \in Created : i < j => Above(players[i], players[j])
  /\ stage = "crash" => players = <<>>

=============================================================================
