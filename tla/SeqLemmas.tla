----------------------------- MODULE SeqLemmas -----------------------------
(***************************************************************************)
(* Facts about the sequence operators the models of src/pkg/util are      *)
(* built from: the bounded argument lists they enumerate, Append and       *)
(* ToSet.  Stated once here and cited by the proof modules.                *)
(***************************************************************************)
EXTENDS Naturals, Sequences, SequencesExt, SequenceTheorems, TLAPS

\* A member of the argument lists of at most N entries over S is a
\* sequence over S of at most N entries.
LEMMA BoundedSeqs ==
    ASSUME NEW S, NEW N \in Nat, NEW l \in UNION {[1..m -> S] : m \in 0..N}
    PROVE  l \in Seq(S) /\ Len(l) \in 0..N
<1>1. PICK m \in 0..N : l \in [1..m -> S]
  OBVIOUS
<1>2. l \in Seq(S)
  BY <1>1, IsASeq
<1>3. Len(l) = m
  BY <1>1, <1>2, LenProperties
<1>4. QED
  BY <1>2, <1>3

\* The elements of a sequence over S lie in S.
LEMMA SeqToSet ==
    ASSUME NEW S, NEW s \in Seq(S)
    PROVE  ToSet(s) \subseteq S
BY ElementOfSeq, LenProperties DEF ToSet

\* Appending e to s adds e to the set of its elements.
LEMMA AppendToSet ==
    ASSUME NEW S, NEW s \in Seq(S), NEW e \in S
    PROVE  /\ Append(s, e) \in Seq(S)
           /\ ToSet(Append(s, e)) = ToSet(s) \cup {e}
           /\ \A j \in DOMAIN Append(s, e) : Append(s, e)[j] \in ToSet(s) \cup {e}
<1>1. /\ Append(s, e) \in Seq(S)
      /\ Len(Append(s, e)) = Len(s) + 1
      /\ \A j \in 1..Len(s) : Append(s, e)[j] = s[j]
      /\ Append(s, e)[Len(s) + 1] = e
  BY AppendProperties
<1>2. DOMAIN Append(s, e) = 1..Len(s) + 1 /\ DOMAIN s = 1..Len(s)
  BY <1>1, LenProperties
<1>3. QED
  BY <1>1, <1>2 DEF ToSet

=============================================================================
