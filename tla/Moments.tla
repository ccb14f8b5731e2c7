------------------------------- MODULE Moments -------------------------------
(***************************************************************************)
(* What the remembering functions of the library remember their results    *)
(* for: a date and an accuracy.  Two dates of Times are told apart by      *)
(* novas_time_equals() and by the comparisons that are its copies.         *)
(***************************************************************************)

CONSTANTS
    Times,          \* dates
    Accuracies,     \* NOVAS_FULL_ACCURACY, NOVAS_REDUCED_ACCURACY
    Full,           \* the first of these
    NoTime          \* the NAN or 0.0 that stands for no date yet

ASSUME MomentAssumption ==
    /\ Full \in Accuracies
    /\ NoTime \notin Times

=============================================================================
