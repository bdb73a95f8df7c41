------------------------------ MODULE Orderings ------------------------------
(***************************************************************************)
(* Lists as the code builds them: comprehensions with a condition and      *)
(* stable sorts.  The conditions and orders are sets, where the operators  *)
(* of the libraries take operators, so that one lemma serves every use.    *)
(***************************************************************************)
EXTENDS Naturals, Sequences, FiniteSets

Elements(s) == {s[i] : i \in DOMAIN s}

IsSeq(s) == s \in Seq(Elements(s))

Distinct(s) == \A i, j \in DOMAIN s : s[i] = s[j] => i = j

(* A finite set of numbers in their order: sorted(set(...)).               *)
Ascending(S) ==
  [n \in 1..Cardinality(S) |->
     CHOOSE x \in S : Cardinality({y \in S : y <= x}) = n]

(* [s[i] for i in range(len(s)) if i in places].                           *)
Selected(s, places) ==
  LET order == Ascending(places) IN [n \in DOMAIN order |-> s[order[n]]]

(* A stable sort by an order of positions, which may leave some tied.      *)
Sorted(s, before) ==
  LET place(i) == Cardinality({j \in DOMAIN s :
                    <<j, i>> \in before \/ (j <= i /\ <<i, j>> \notin before)})
  IN [n \in DOMAIN s |-> s[CHOOSE i \in DOMAIN s : place(i) = n]]

(* Events and rows by time.                                                *)
Earlier(s) == {p \in (DOMAIN s) \X (DOMAIN s) : s[p[1]].time < s[p[2]].time}

ByTime(s) == Sorted(s, Earlier(s))

(* s[:bound].                                                              *)
Cut(s, bound) == SubSeq(s, 1, IF bound < Len(s) THEN bound ELSE Len(s))
=============================================================================
