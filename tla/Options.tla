------------------------------ MODULE Options ------------------------------
(***************************************************************************)
(* The options of one round: each player is shown them in an order of his  *)
(* own (shuffle.go), chooses by position in it, and is told afterwards, in *)
(* the positions of that order, what he chose, what the other chose and    *)
(* what was right.  This is the part of playRound that GameSession takes   *)
(* for granted when it has answers that are right or not.                  *)
(***************************************************************************)
EXTENDS Integers

CONSTANTS
  Size,       \* number of options of the question
  Correct,    \* its CorrectIndex
  Choices,    \* bound: the choices players send, of an option or of none
  None        \* nil

ASSUME OptionsAssumption ==
  /\ Size \in Nat
  /\ Correct \in 0..(Size - 1)
  /\ Choices \subseteq Int
  /\ None \notin Int

VARIABLES
  shuffle,    \* p1Map and p2Map: the canonical index at each position
  choice,     \* the choice of the answer taken from each player, if any
  told        \* each player's round_result, once the round has been scored

vars == <<shuffle, choice, told>>

Player == 1..2
Other(p) == 3 - p
Index == 0..(Size - 1)

-----------------------------------------------------------------------------
(* Slips a maintainer could make, variants of the definitions below.       *)

ReceiverMap_Senders(p) == shuffle[Other(p)]
NoChoice_First == 0

-----------------------------------------------------------------------------
(* shuffle.go.                                                             *)

(* ShuffleOptions: any order of the options.                               *)
Shuffle == {map \in [Index -> Index] : \A s, t \in Index : map[s] = map[t] => s = t}

(* A Go map gives 0 for a key that it does not have.                       *)
MapChoiceToCanonical(c, map) == IF c \in Index THEN map[c] ELSE 0

MapCanonicalToShuffled(k, map) ==
  IF \E s \in Index : map[s] = k THEN CHOOSE s \in Index : map[s] = k ELSE -1

-----------------------------------------------------------------------------
(* playRound.                                                              *)

Answered(p) == choice[p] # None

(* scorePlayer: a player without an answer is not right.                   *)
Canonical(p) == MapChoiceToCanonical(choice[p], shuffle[p])
IsCorrect(p) == Answered(p) /\ Canonical(p) = Correct

(* The order in which a player is told things.                             *)
ReceiverMap(p) == shuffle[p]
NoChoice == -1

YourChoice(p) == IF Answered(p) THEN choice[p] ELSE NoChoice
TheirChoice(p) ==
  IF Answered(Other(p))
    THEN MapCanonicalToShuffled(Canonical(Other(p)), ReceiverMap(p))
    ELSE NoChoice

Result(p) ==
  [your_choice |-> YourChoice(p), your_correct |-> IsCorrect(p),
   their_choice |-> TheirChoice(p), their_correct |-> IsCorrect(Other(p)),
   correct_index |-> MapCanonicalToShuffled(Correct, ReceiverMap(p))]

Waiting == \A p \in Player : told[p] = None

(* The question is sent to each player in an order drawn for him.          *)
Init ==
  /\ shuffle \in [Player -> Shuffle]
  /\ choice = [p \in Player |-> None]
  /\ told = [p \in Player |-> None]

(* awaitAnswers takes one answer of a player, as long as the round lasts.  *)
TakeAnswer(p, c) ==
  /\ Waiting /\ ~Answered(p)
  /\ choice' = [choice EXCEPT ![p] = c]
  /\ UNCHANGED <<shuffle, told>>

(* It returns, with both answers or without, and the round is scored.      *)
ScoreRound ==
  /\ Waiting
  /\ told' = [p \in Player |-> Result(p)]
  /\ UNCHANGED <<shuffle, choice>>

Next ==
  \/ \E p \in Player, c \in Choices : TakeAnswer(p, c)
  \/ ScoreRound

Spec == Init /\ [][Next]_vars

-----------------------------------------------------------------------------
(* Properties.                                                             *)

ResultMsg ==
  [your_choice : Int, your_correct : BOOLEAN, their_choice : Index \cup {-1},
   their_correct : BOOLEAN, correct_index : Index]

TypeOK ==
  /\ shuffle \in [Player -> Shuffle]
  /\ choice \in [Player -> Choices \cup {None}]
  /\ told \in [Player -> ResultMsg \cup {None}]

(* Through two orders that have nothing to do with each other, a player is *)
(* shown the very option that the other chose, and the right one.          *)
SameOption ==
  \A p \in Player : told[p] # None =>
    /\ shuffle[p][told[p].correct_index] = Correct
    /\ choice[Other(p)] \in Index =>
         shuffle[p][told[p].their_choice] = shuffle[Other(p)][choice[Other(p)]]

(* What a player sees of an answer - its option, the right option, and     *)
(* whether it is said to be right - fits together: always for the other's  *)
(* answer, and for his own unless its choice is none of the options, which *)
(* is taken for canonical option 0 while it is shown as it was sent.       *)
VerdictFits ==
  \A p \in Player : told[p] # None =>
    LET t == told[p] IN
    /\ t.their_correct <=> t.their_choice = t.correct_index
    /\ choice[p] \in Index \cup {None} =>
         (t.your_correct <=> t.your_choice = t.correct_index)

=============================================================================
