------------------------------ MODULE Selections ------------------------------
(***************************************************************************)
(* The loops of the GUI that take the rows of a table that fulfil a        *)
(* condition.  They are SelectSeq with a set for the condition, in a form  *)
(* that can be proved about.                                               *)
(***************************************************************************)
EXTENDS Integers, Sequences

(* The elements of s that are in S, in their order: among the first n, and *)
(* among all.                                                              *)
OnlyUpTo(s, S) ==
    LET only[n \in 0..Len(s)] ==
            IF n = 0 THEN <<>>
            ELSE IF s[n] \in S THEN Append(only[n - 1], s[n]) ELSE only[n - 1]
    IN only
Only(s, S) == OnlyUpTo(s, S)[Len(s)]
=============================================================================
