---------------------------------- MODULE Sums ----------------------------------
(* The sum of a sequence of numbers: what the loops over stacks add up. *)
EXTENDS Integers, Sequences

Total(numbers) ==
  LET sum[n \in 0..Len(numbers)] == IF n = 0 THEN 0 ELSE sum[n - 1] + numbers[n]
  IN  sum[Len(numbers)]

=============================================================================
