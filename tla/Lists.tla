-------------------------------- MODULE Lists --------------------------------
(* What CrewContext does to the lists it keeps in memory: it bounds logs, sorts
   rules by priority and filters.  The results are given by their positions. *)
EXTENDS Naturals, Sequences, FiniteSets

\* Mutant: the slice keeps the first n.
First(s, n) == IF Len(s) > n THEN SubSeq(s, 1, n) ELSE s

(* Appending to a bounded log keeps its last n entries
   ("if len(log) > n: log = log[-n:]"). *)
Latest(s, n) == IF Len(s) > n THEN SubSeq(s, Len(s) - n + 1, Len(s)) ELSE s

(* A list comprehension: the elements at the positions P, in order. *)
Rank(P, i) == Cardinality({j \in P : j <= i})
Kept(s, P) == [k \in 1 .. Cardinality(P) |-> s[CHOOSE i \in P : Rank(P, i) = k]]

\* Mutant: a new rule comes before those of its priority.
InsertedFirst(s, r) ==
    LET n == Cardinality({i \in DOMAIN s : s[i].priority > r.priority})
    IN  SubSeq(s, 1, n) \o <<r>> \o SubSeq(s, n + 1, Len(s))

(* append(r) and sort(key=lambda r: -r.priority) of a list that was sorted: the
   sort is stable, so a new rule comes after those of its priority. *)
Inserted(s, r) ==
    LET n == Cardinality({i \in DOMAIN s : s[i].priority >= r.priority})
    IN  SubSeq(s, 1, n) \o <<r>> \o SubSeq(s, n + 1, Len(s))
===============================================================================
