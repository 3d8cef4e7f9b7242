----------------------------- MODULE MCOptions -----------------------------
(* Instances of Options: a question with four options, as they all are in  *)
(* seeds/002_questions.sql, and choices of each of them or of none.        *)
EXTENDS Options

MCChoices == -1..4

=============================================================================
