------------------------------ MODULE Sifting ------------------------------
(***************************************************************************)
(* What a list comprehension or a filter keeps of a list, with a set for   *)
(* the test, and the sum of numbers: with recursive functions for the      *)
(* loops, so that what is computed with them can be proved about.          *)
(***************************************************************************)
EXTENDS Naturals, Sequences

\* The elements of s that are in S, in their order.
Sifted(s, S) ==
    LET sift[i \in 0..Len(s)] ==
            IF i = 0 THEN <<>>
            ELSE IF s[i] \in S THEN Append(sift[i - 1], s[i]) ELSE sift[i - 1]
    IN  sift[Len(s)]

\* The sum of numbers.
Total(numbers) ==
    LET sum[i \in 0..Len(numbers)] == IF i = 0 THEN 0 ELSE sum[i - 1] + numbers[i]
    IN  sum[Len(numbers)]
===========================================================================
