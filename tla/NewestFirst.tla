---------------------------- MODULE NewestFirst ----------------------------
(***************************************************************************)
(* The lists of the two pages: ids are given in the order of insertion,    *)
(* rows are read newest first and a page at a time, and an element of a    *)
(* list is dropped by its id.  Sorting is stated by its result, a CHOOSE   *)
(* over the enumerations of a set, so that it can be reasoned about.       *)
(***************************************************************************)
EXTENDS Naturals, Sequences, FiniteSets, SequencesExt

Descends(s) == \A i, j \in DOMAIN s : i < j => s[i] > s[j]

\* ORDER BY id DESC.
Descending(S) == CHOOSE s \in [1..Cardinality(S) -> S] : Descends(s)

\* ORDER BY id DESC LIMIT n.
Newest(S, n) ==
  SubSeq(Descending(S), 1, IF Cardinality(S) < n THEN Cardinality(S) ELSE n)

\* s.filter((x) => x.id !== e): the elements at the indices that are kept.
Without(s, e) ==
  LET kept == Reverse(Descending({i \in DOMAIN s : s[i] # e}))
  IN  [j \in DOMAIN kept |-> s[kept[j]]]
=============================================================================
