---------------------------- MODULE Subsequences ----------------------------
(***************************************************************************)
(* Erasing elements from a C++ container while keeping the order of the    *)
(* rest.  valoserveri does it in three places: the tag filter erases       *)
(* characters, deleteFD erases pollfd entries, and the scan of pollfds     *)
(* copies the ready entries to processFDs.  Subsequence(s, K) is           *)
(* SelectSeq by a set K of positions instead of a predicate, in a closed   *)
(* form, so that what it returns can be proved (SubsequencesProofs).       *)
(***************************************************************************)
EXTENDS Integers, Sequences, FiniteSets

\* How many of the positions K are at or before position i.
Rank(K, i) == Cardinality({j \in K : j <= i})

\* The position of the k-th element that is kept.
Pos(K, k) == CHOOSE i \in K : Rank(K, i) = k

\* The elements of s at the positions K, in the order of s.
Subsequence(s, K) == [k \in 1..Cardinality(K) |-> s[Pos(K, k)]]

=============================================================================
