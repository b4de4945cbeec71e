------------------------------- MODULE Loops -------------------------------
(***************************************************************************)
(* Two loops over a sequence that several components run, as functions of  *)
(* the number of elements gone through.                                    *)
(***************************************************************************)
EXTENDS Integers, Sequences

\* The elements of s at the positions in K, in their order.
Chosen(s, K) ==
    LET upto[n \in 0..Len(s)] == IF n = 0 THEN <<>>
                                 ELSE IF n \in K THEN Append(upto[n - 1], s[n])
                                 ELSE upto[n - 1]
    IN  upto[Len(s)]

\* The sum of a sequence of numbers.
Total(s) ==
    LET upto[n \in 0..Len(s)] == IF n = 0 THEN 0 ELSE upto[n - 1] + s[n]
    IN  upto[Len(s)]

=============================================================================
