---------------------------- MODULE Arrangements ----------------------------
(***************************************************************************)
(* Parts of a sequence, and sorting, written without an operator for an    *)
(* argument that SelectSeq, SortSeq and FoldLeft take: what they make can  *)
(* be stated once, for any sequence (ArrangementProofs).                   *)
(***************************************************************************)
EXTENDS Naturals, FiniteSets, Sequences, SequencesExt

\* A list of anything.
Sequence(s) == s \in Seq(Range(s))

\* The elements of s at the positions key is defined on, in the order of their keys.
Arranged(s, key) ==
    LET rank(i) == Cardinality({j \in DOMAIN key : key[j] <= key[i]})
    IN  [k \in 1 .. Cardinality(DOMAIN key) |-> s[CHOOSE i \in DOMAIN key : rank(i) = k]]

At(s, positions) == Arranged(s, [i \in positions |-> i])

\* The elements that pass a test.
Having(s, Test(_)) == At(s, {i \in DOMAIN s : Test(s[i])})

\* if entry not in entries: entries.append(entry)
Distinct(s) == At(s, {i \in DOMAIN s : \A j \in 1 .. i - 1 : s[j] # s[i]})

\* The elements of a finite set, each after those that come before it.
InOrder(S, before(_, _)) ==
    [k \in 1 .. Cardinality(S) |-> CHOOSE x \in S : Cardinality({y \in S : before(y, x)}) = k - 1]

\* At most the first n elements.
FirstOf(s, n) == SubSeq(s, 1, IF n < Len(s) THEN n ELSE Len(s))
=============================================================================
