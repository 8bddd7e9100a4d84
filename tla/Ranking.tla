------------------------------ MODULE Ranking ------------------------------
(***************************************************************************)
(* Sorting and picking as the retrieval and analysis code does it: sorted  *)
(* with reverse=True keeps the order of equal elements, a comprehension    *)
(* keeps the elements it wants in their order, a loop takes elements until *)
(* it has enough and skips texts it has already taken.  A weight is a      *)
(* function of the positions of the sequence that is sorted.               *)
(***************************************************************************)
EXTENDS Integers, FiniteSets, Sequences, SequencesExt

AtLeast(n, m) == IF n < m THEN m ELSE n
NoMoreThan(n, m) == IF n < m THEN n ELSE m

\* The sum of a sequence of numbers.
Total(numbers) ==
  LET sum[n \in 0..Len(numbers)] == IF n = 0 THEN 0 ELSE sum[n - 1] + numbers[n]
  IN sum[Len(numbers)]

\* The key of a text without a word in it: such texts never count as equal.
Blank == "blank"

\* The positions in S by falling weight, earlier first among equals.
Order(S, weight) ==
  LET place == [i \in S |-> Cardinality({j \in S : \/ weight[j] > weight[i]
                                                   \/ weight[j] = weight[i] /\ j <= i})]
  IN [k \in 1..Cardinality(S) |-> CHOOSE i \in S : place[i] = k]

\* The positions in S as they stand.
InPlace(S) == Order(S, [i \in S |-> 0])

\* The elements of seq at the positions an order lists.
Arranged(seq, order) == [k \in DOMAIN order |-> seq[order[k]]]

Ranked(seq, weight) == Arranged(seq, Order(DOMAIN seq, weight))
Picked(seq, S) == Arranged(seq, InPlace(S))

AtMost(n, seq) == [i \in 1..NoMoreThan(n, Len(seq)) |-> seq[i]]

\* The positions whose key no earlier one has.
FirstOfKey(keys) == {i \in DOMAIN keys : \A j \in 1..(i - 1) : keys[j] # keys[i]}

\* The first limit elements of seq, of equal texts only the first.
FirstDistinct(seq, limit) ==
  LET keys == [i \in DOMAIN seq |-> seq[i].key]
  IN AtMost(limit, Picked(seq, FirstOfKey(keys) \cup {i \in DOMAIN seq : keys[i] = Blank}))

\* The first element of greatest weight, as max(seq, key=...) returns it.
Heaviest(seq, weight) == Ranked(seq, weight)[1]
=============================================================================
