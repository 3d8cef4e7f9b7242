---------------------------- MODULE OptionsProofs ----------------------------
(***************************************************************************)
(* What is proved of Options for questions of every number of options and  *)
(* for every choice a player may send.                                     *)
(***************************************************************************)
EXTENDS Options, FiniteSetTheorems, TLAPS

-----------------------------------------------------------------------------
(* An order of the options and its inverse.                                *)

(* No option is left out of an order: one that never shows the same option *)
(* twice has, there being as many positions as options, room for all.      *)
LEMMA EverythingShown ==
  ASSUME NEW map \in Shuffle, NEW k \in Index
  PROVE  \E s \in Index : map[s] = k
<1>1. IsFiniteSet(Index)
  BY FS_Interval, OptionsAssumption DEF Index
<1>2. map \in Injection(Index, Index)
  BY DEF Shuffle, Injection, IsInjective
<1>3. map \in Surjection(Index, Index)
  BY <1>1, <1>2, FS_Injection
<1> QED
  BY <1>3 DEF Surjection

(* The position of an option shows that option, ...                        *)
LEMMA PositionShows ==
  ASSUME NEW map \in Shuffle, NEW k \in Index
  PROVE  /\ MapCanonicalToShuffled(k, map) \in Index
         /\ map[MapCanonicalToShuffled(k, map)] = k
BY EverythingShown DEF MapCanonicalToShuffled

(* ... and no other position does.                                         *)
LEMMA PositionIsTheOnly ==
  ASSUME NEW map \in Shuffle, NEW k \in Index, NEW s \in Index
  PROVE  map[s] = k <=> s = MapCanonicalToShuffled(k, map)
BY PositionShows DEF Shuffle

(* Whatever a player sends, it is taken for a choice of some option.       *)
LEMMA ChoiceIsOfAnOption ==
  ASSUME NEW map \in Shuffle, NEW c
  PROVE  MapChoiceToCanonical(c, map) \in Index
<1>1. 0 \in Index
  BY OptionsAssumption DEF Index
<1> QED
  BY <1>1 DEF MapChoiceToCanonical, Shuffle

-----------------------------------------------------------------------------
(* The invariant: what has been told is the result of what was taken.      *)

ToldResult == \A p \in Player : told[p] # None => told[p] = Result(p)

IInv == TypeOK /\ ToldResult

(* What a player is told is a message.                                     *)
LEMMA ResultType ==
  ASSUME TypeOK, NEW p \in Player
  PROVE  Result(p) \in ResultMsg
<1>1. Other(p) \in Player
  BY DEF Other, Player
<1>2. shuffle[p] \in Shuffle /\ shuffle[Other(p)] \in Shuffle
  BY <1>1 DEF TypeOK
<1>3. Correct \in Index
  BY OptionsAssumption DEF Index
<1>4. YourChoice(p) \in Int
  <2>1. choice[p] \in Choices \cup {None}
    BY DEF TypeOK
  <2>2. choice[p] # None => choice[p] \in Int
    BY <2>1, OptionsAssumption
  <2>3. NoChoice \in Int
    BY DEF NoChoice
  <2> QED
    BY <2>2, <2>3 DEF YourChoice, Answered
<1>5. Canonical(Other(p)) \in Index
  BY <1>2, ChoiceIsOfAnOption DEF Canonical
<1>6. TheirChoice(p) \in Index \cup {-1}
  BY <1>2, <1>5, PositionShows DEF TheirChoice, NoChoice, ReceiverMap
<1>7. MapCanonicalToShuffled(Correct, ReceiverMap(p)) \in Index
  BY <1>2, <1>3, PositionShows DEF ReceiverMap
<1>8. IsCorrect(p) \in BOOLEAN /\ IsCorrect(Other(p)) \in BOOLEAN
  BY DEF IsCorrect, Answered
<1> QED
  BY <1>4, <1>6, <1>7, <1>8 DEF Result, ResultMsg

LEMMA InitEstablishes == Init => IInv
BY DEF Init, IInv, TypeOK, ToldResult

LEMMA NextPreserves == IInv /\ [Next]_vars => IInv'
<1> SUFFICES ASSUME IInv, [Next]_vars PROVE IInv'
  OBVIOUS
<1> USE DEF IInv
<1>1. ASSUME NEW p \in Player, NEW c \in Choices, TakeAnswer(p, c) PROVE IInv'
  <2>1. TypeOK'
    BY <1>1 DEF TakeAnswer, TypeOK
  <2>2. ToldResult'
    BY <1>1 DEF TakeAnswer, Waiting, ToldResult
  <2> QED
    BY <2>1, <2>2
<1>2. CASE ScoreRound
  <2>1. UNCHANGED <<shuffle, choice>> /\ told' = [p \in Player |-> Result(p)]
    BY <1>2 DEF ScoreRound
  <2>2. TypeOK'
    BY <2>1, ResultType DEF TypeOK
  <2>3. \A p \in Player : Result(p)' = Result(p)
    BY <2>1 DEF Result, YourChoice, TheirChoice, IsCorrect, Canonical, Answered, ReceiverMap
  <2> QED
    BY <2>1, <2>2, <2>3 DEF ToldResult
<1>3. CASE UNCHANGED vars
  <2>1. \A p \in Player : Result(p)' = Result(p)
    BY <1>3 DEF vars, Result, YourChoice, TheirChoice, IsCorrect, Canonical, Answered,
                ReceiverMap
  <2> QED
    BY <1>3, <2>1 DEF vars, TypeOK, ToldResult
<1> QED
  BY <1>1, <1>2, <1>3 DEF Next

-----------------------------------------------------------------------------
(* What follows from it.                                                   *)

(* IInv is an invariant of the specification.                              *)
THEOREM Invariance == Spec => []IInv
BY InitEstablishes, NextPreserves, PTL DEF Spec

(* Both players are shown the option that the other chose and the right    *)
(* one, for every number of options and every two orders of them.          *)
THEOREM PlayersSeeTheSameOption == Spec => []SameOption
<1>1. IInv => SameOption
  <2> SUFFICES ASSUME IInv, NEW p \in Player, told[p] # None
               PROVE  /\ shuffle[p][told[p].correct_index] = Correct
                      /\ choice[Other(p)] \in Index =>
                           shuffle[p][told[p].their_choice]
                             = shuffle[Other(p)][choice[Other(p)]]
    BY DEF SameOption
  <2>1. told[p] = Result(p)
    BY DEF IInv, ToldResult
  <2>2. Other(p) \in Player
    BY DEF Other, Player
  <2>3. shuffle[p] \in Shuffle /\ shuffle[Other(p)] \in Shuffle
    BY <2>2 DEF IInv, TypeOK
  <2>4. shuffle[p][told[p].correct_index] = Correct
    BY <2>1, <2>3, PositionShows, OptionsAssumption DEF Result, ReceiverMap, Index
  <2>5. ASSUME choice[Other(p)] \in Index
        PROVE  shuffle[p][told[p].their_choice] = shuffle[Other(p)][choice[Other(p)]]
    <3>1. Answered(Other(p))
      BY <2>5, OptionsAssumption DEF Answered, Index
    <3>2. Canonical(Other(p)) = shuffle[Other(p)][choice[Other(p)]]
      BY <2>5 DEF Canonical, MapChoiceToCanonical
    <3>3. Canonical(Other(p)) \in Index
      BY <2>3, ChoiceIsOfAnOption DEF Canonical
    <3>4. told[p].their_choice = MapCanonicalToShuffled(Canonical(Other(p)), shuffle[p])
      BY <2>1, <3>1 DEF Result, TheirChoice, ReceiverMap
    <3> QED
      BY <2>3, <3>2, <3>3, <3>4, PositionShows
  <2> QED
    BY <2>4, <2>5
<1> QED
  BY <1>1, Invariance, PTL

(* What a player is told of an answer fits together.                       *)
THEOREM VerdictsFit == Spec => []VerdictFits
<1>1. IInv => VerdictFits
  <2> SUFFICES ASSUME IInv, NEW p \in Player, told[p] # None
               PROVE  /\ told[p].their_correct <=>
                           told[p].their_choice = told[p].correct_index
                      /\ choice[p] \in Index \cup {None} =>
                           (told[p].your_correct <=>
                              told[p].your_choice = told[p].correct_index)
    BY DEF VerdictFits
  <2> DEFINE right == MapCanonicalToShuffled(Correct, shuffle[p])
  <2>1. told[p] = Result(p)
    BY DEF IInv, ToldResult
  <2>2. /\ told[p].their_correct = IsCorrect(Other(p))
        /\ told[p].their_choice = TheirChoice(p)
        /\ told[p].your_correct = IsCorrect(p)
        /\ told[p].your_choice = YourChoice(p)
        /\ told[p].correct_index = right
    BY <2>1 DEF Result, ReceiverMap
  <2>3. Other(p) \in Player
    BY DEF Other, Player
  <2>4. shuffle[p] \in Shuffle /\ shuffle[Other(p)] \in Shuffle
    BY <2>3 DEF IInv, TypeOK
  <2>5. Correct \in Index /\ right \in Index /\ shuffle[p][right] = Correct
    BY <2>4, PositionShows, OptionsAssumption DEF Index
  <2>6. IsCorrect(Other(p)) <=> TheirChoice(p) = right
    <3>1. CASE ~Answered(Other(p))
      <4>1. right # -1
        BY <2>5, OptionsAssumption DEF Index
      <4> QED
        BY <3>1, <4>1 DEF IsCorrect, TheirChoice, NoChoice
    <3>2. CASE Answered(Other(p))
      <4>1. Canonical(Other(p)) \in Index
        BY <2>4, ChoiceIsOfAnOption DEF Canonical
      <4>2. TheirChoice(p) = MapCanonicalToShuffled(Canonical(Other(p)), shuffle[p])
        BY <3>2 DEF TheirChoice, ReceiverMap
      <4>3. shuffle[p][TheirChoice(p)] = Canonical(Other(p))
        BY <2>4, <4>1, <4>2, PositionShows
      <4> QED
        BY <2>5, <3>2, <4>2, <4>3 DEF IsCorrect
    <3> QED
      BY <3>1, <3>2
  <2>7. ASSUME choice[p] \in Index \cup {None}
        PROVE  IsCorrect(p) <=> YourChoice(p) = right
    <3>1. CASE choice[p] = None
      <4>1. right # -1
        BY <2>5, OptionsAssumption DEF Index
      <4> QED
        BY <3>1, <4>1 DEF IsCorrect, YourChoice, Answered, NoChoice
    <3>2. CASE choice[p] \in Index
      <4>1. Answered(p) /\ YourChoice(p) = choice[p]
        BY <3>2, OptionsAssumption DEF Answered, YourChoice, Index
      <4>2. Canonical(p) = shuffle[p][choice[p]]
        BY <3>2 DEF Canonical, MapChoiceToCanonical
      <4> QED
        BY <2>4, <2>5, <3>2, <4>1, <4>2, PositionIsTheOnly DEF IsCorrect
    <3> QED
      BY <2>7, <3>1, <3>2
  <2> QED
    BY <2>2, <2>6, <2>7
<1> QED
  BY <1>1, Invariance, PTL

=============================================================================
