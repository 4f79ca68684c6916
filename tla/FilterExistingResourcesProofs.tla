------------------ MODULE FilterExistingResourcesProofs -------------------
(***************************************************************************)
(* Proofs about FilterExistingResources, for every set of resources and    *)
(* every bound on the list: the loop of util.FilterExistingResources       *)
(* (src/pkg/util/util.go:59-85) is type correct and its result accounts    *)
(* for every resource, whatever the cluster does while it runs.            *)
(***************************************************************************)
EXTENDS FilterExistingResources, SeqLemmas

\* The loop invariant: every index below i went to exactly one of the
\* kept and the failed indices, or was skipped as NotFound, which only a
\* resource the cluster did not hold throughout the call can be; and the
\* return, once made, is the one line 80-84 computes from them.
Accounted ==
    /\ \A j \in DOMAIN existing : existing[j] < i
    /\ \A j \in DOMAIN errs : errs[j] < i
    /\ ToSet(existing) \cap ToSet(errs) = {}
    /\ alwaysLive \subseteq live
    /\ \A n \in 1..i - 1 :
          list[n] \in alwaysLive => n \in ToSet(existing) \cup ToSet(errs)

Returned ==
    ret.done => /\ i = Len(list) + 1
                /\ ret.kept = [n \in DOMAIN existing |-> list[existing[n]]]
                /\ ret.err = (errs # <<>>)

\* The strengthening of ResultAccountsForEveryResource that is inductive.
IInv == TypeOK /\ Accounted /\ Returned

-----------------------------------------------------------------------------
(***************************************************************************)
(* Lemmas about the operators the model is built from.                     *)
(***************************************************************************)

\* A resources argument is a sequence of at most MaxList entries.
LEMMA ListsAreSeqs ==
    ASSUME NEW l \in Lists
    PROVE  l \in Seq(Infos) /\ Len(l) \in 0..MaxList
BY MaxListAssumption, BoundedSeqs DEF Lists

-----------------------------------------------------------------------------
(***************************************************************************)
(* The inductive invariant.                                               *)
(***************************************************************************)

\* The initial states satisfy it.
LEMMA IInvInit == Init => IInv
<1> SUFFICES ASSUME Init PROVE IInv
  OBVIOUS
<1>1. list \in Seq(Infos) /\ Len(list) \in 0..MaxList
  BY ListsAreSeqs DEF Init
<1>2. <<>> \in Seq(Indices) /\ <<>> \in Seq(Infos)
  BY EmptySeq
<1>3. TypeOK
  BY <1>1, <1>2 DEF Init, TypeOK
<1>4. Accounted
  BY DEF Init, Accounted, ToSet
<1>5. Returned
  BY DEF Init, Returned
<1>6. QED
  BY <1>3, <1>4, <1>5 DEF IInv

\* What holds before any Get: the entry i exists and is in no index set.
LEMMA GetPre ==
    ASSUME IInv, Running
    PROVE  /\ list \in Seq(Infos)
           /\ i \in 1..Len(list) /\ i \in Indices /\ list[i] \in Infos
           /\ existing \in Seq(Indices) /\ errs \in Seq(Indices)
           /\ \A e \in ToSet(existing) \cup ToSet(errs) : e < i
           /\ i \notin ToSet(existing) \cup ToSet(errs)
<1>1. list \in Seq(Infos) /\ Len(list) \in 0..MaxList
  BY ListsAreSeqs DEF IInv, TypeOK
<1>2. i \in 1..Len(list) /\ i \in Indices
  <2>1. i \in 1..Len(list) + 1
    BY DEF IInv, TypeOK
  <2>2. QED
    BY <1>1, <2>1, MaxListAssumption, SMTT(20) DEF Running, Indices
<1>3. list[i] \in Infos
  BY <1>1, <1>2, ElementOfSeq
<1>4. \A e \in ToSet(existing) \cup ToSet(errs) : e < i
  BY DEF IInv, Accounted, ToSet
<1>5. QED
  BY <1>1, <1>2, <1>3, <1>4 DEF IInv, TypeOK

\* An index appended to one of the index sets: the sets stay disjoint, every
\* index stays below i + 1 and every entry below i + 1 is accounted for.
LEMMA AppendIndex ==
    ASSUME IInv, Running,
           NEW s \in Seq(Indices), NEW t \in Seq(Indices),
           \/ s = existing /\ t = errs
           \/ s = errs /\ t = existing
    PROVE  LET s2 == Append(s, i)
           IN  /\ s2 \in Seq(Indices)
               /\ \A j \in DOMAIN s2 : s2[j] < i + 1
               /\ \A j \in DOMAIN t : t[j] < i + 1
               /\ ToSet(s2) \cap ToSet(t) = {}
               /\ \A n \in 1..i :
                     list[n] \in alwaysLive => n \in ToSet(s2) \cup ToSet(t)
<1> DEFINE s2 == Append(s, i)
<1>1. /\ i \in Indices /\ i \in Nat
      /\ \A e \in ToSet(s) \cup ToSet(t) : e < i
      /\ i \notin ToSet(s) \cup ToSet(t)
  BY GetPre DEF Indices
<1>9. ToSet(s) \subseteq Nat /\ ToSet(t) \subseteq Nat
  <2>1. ToSet(s) \subseteq Indices /\ ToSet(t) \subseteq Indices
    BY SeqToSet
  <2>2. QED
    BY <2>1, MaxListAssumption DEF Indices
<1>2. s2 \in Seq(Indices) /\ ToSet(s2) = ToSet(s) \cup {i}
      /\ \A j \in DOMAIN s2 : s2[j] \in ToSet(s) \cup {i}
  BY <1>1, AppendToSet
<1>3. \A j \in DOMAIN s2 : s2[j] < i + 1
  BY <1>1, <1>2, <1>9
<1>4. \A j \in DOMAIN t : t[j] < i + 1
  <2>1. \A j \in DOMAIN t : t[j] \in ToSet(t)
    BY DEF ToSet
  <2>2. QED
    BY <1>1, <1>9, <2>1
<1>5. ToSet(s2) \cap ToSet(t) = {}
  BY <1>1, <1>2 DEF IInv, Accounted
<1>6. \A n \in 1..i - 1 : list[n] \in alwaysLive => n \in ToSet(s) \cup ToSet(t)
  BY DEF IInv, Accounted
<1>7. \A n \in 1..i : list[n] \in alwaysLive => n \in ToSet(s2) \cup ToSet(t)
  BY <1>1, <1>2, <1>6
<1>8. QED
  BY <1>2, <1>3, <1>4, <1>5, <1>7

\* The three outcomes of one Get: each appends the index i to at most one of
\* the kept and the failed indices and moves to the next entry.
LEMMA IInvGet ==
    ASSUME IInv, GetFound \/ GetNotFound \/ GetFails
    PROVE  IInv'
<1>1. Running /\ ~ret.done /\ UNCHANGED <<list, live, alwaysLive, ret>>
      /\ i' = i + 1
  BY DEF GetFound, GetNotFound, GetFails, Running
<1>2. /\ list \in Seq(Infos)
      /\ i \in 1..Len(list) /\ i \in Indices /\ list[i] \in Infos
      /\ existing \in Seq(Indices) /\ errs \in Seq(Indices)
  BY <1>1, GetPre
<1>3. i' \in 1..Len(list') + 1
  BY <1>1, <1>2
<1>4. Returned'
  BY <1>1 DEF Returned
<1>5. CASE GetFound
  <2>1. /\ Append(existing, i) \in Seq(Indices)
        /\ \A j \in DOMAIN Append(existing, i) : Append(existing, i)[j] < i + 1
        /\ \A j \in DOMAIN errs : errs[j] < i + 1
        /\ ToSet(Append(existing, i)) \cap ToSet(errs) = {}
        /\ \A n \in 1..i : list[n] \in alwaysLive =>
                            n \in ToSet(Append(existing, i)) \cup ToSet(errs)
    BY <1>1, <1>2, AppendIndex
  <2>2. existing' = Append(existing, i) /\ errs' = errs
    BY <1>5 DEF GetFound
  <2>3. alwaysLive \subseteq live /\ i \in Nat
    BY <1>2 DEF IInv, Accounted
  <2>4. Accounted'
    BY <1>1, <2>1, <2>2, <2>3 DEF Accounted
  <2>5. QED
    BY <1>1, <1>2, <1>3, <1>4, <2>1, <2>2, <2>4 DEF IInv, TypeOK
<1>6. CASE GetFails
  <2>1. /\ Append(errs, i) \in Seq(Indices)
        /\ \A j \in DOMAIN Append(errs, i) : Append(errs, i)[j] < i + 1
        /\ \A j \in DOMAIN existing : existing[j] < i + 1
        /\ ToSet(Append(errs, i)) \cap ToSet(existing) = {}
        /\ \A n \in 1..i : list[n] \in alwaysLive =>
                            n \in ToSet(Append(errs, i)) \cup ToSet(existing)
    BY <1>1, <1>2, AppendIndex
  <2>2. errs' = Append(errs, i) /\ existing' = existing
    BY <1>6 DEF GetFails
  <2>3. alwaysLive \subseteq live /\ i \in Nat
    BY <1>2 DEF IInv, Accounted
  <2>4. Accounted'
    BY <1>1, <2>1, <2>2, <2>3 DEF Accounted
  <2>5. QED
    BY <1>1, <1>2, <1>3, <1>4, <2>1, <2>2, <2>4 DEF IInv, TypeOK
<1>7. CASE GetNotFound
  <2>1. list[i] \notin alwaysLive
    BY <1>7 DEF GetNotFound, IInv, Accounted
  <2>2. \A n \in 1..i :
           list[n] \in alwaysLive => n \in ToSet(existing) \cup ToSet(errs)
    BY <2>1, <1>2 DEF IInv, Accounted
  <2>3. UNCHANGED <<existing, errs>> /\ i \in Nat
    BY <1>2, <1>7 DEF GetNotFound
  <2>4. /\ \A j \in DOMAIN existing : existing[j] < i + 1
        /\ \A j \in DOMAIN errs : errs[j] < i + 1
    <3>1. ToSet(existing) \subseteq Indices /\ ToSet(errs) \subseteq Indices
      BY <1>2, SeqToSet
    <3>2. /\ \A j \in DOMAIN existing : existing[j] \in ToSet(existing)
          /\ \A j \in DOMAIN errs : errs[j] \in ToSet(errs)
      BY DEF ToSet
    <3>3. QED
      BY <2>3, <3>1, <3>2, MaxListAssumption DEF IInv, Accounted, Indices
  <2>5. Accounted'
    BY <1>1, <2>2, <2>3, <2>4 DEF IInv, Accounted
  <2>6. QED
    BY <1>1, <1>3, <1>4, <1>7, <2>5 DEF GetNotFound, IInv, TypeOK
<1>8. QED
  BY <1>5, <1>6, <1>7

\* The return computes the result from the indices; another actor's change
\* to the cluster only shrinks the resources held throughout the call.
LEMMA IInvStep == IInv /\ [Next]_vars => IInv'
<1> SUFFICES ASSUME IInv, [Next]_vars PROVE IInv'
  OBVIOUS
<1> USE DEF IInv
<1>1. CASE GetFound \/ GetNotFound \/ GetFails
  BY <1>1, IInvGet
<1>2. CASE Return
  <2>1. list \in Seq(Infos) /\ existing \in Seq(Indices)
    BY ListsAreSeqs DEF TypeOK
  <2>2. ASSUME NEW n \in DOMAIN existing PROVE existing[n] \in 1..Len(list)
    <3>1. n \in 1..Len(existing)
      BY <2>1, LenProperties
    <3>2. existing[n] \in Indices
      BY <3>1, <2>1, ElementOfSeq
    <3>3. QED
      BY <3>2, <1>2 DEF Accounted, Return, Indices
  <2>3. [n \in DOMAIN existing |-> list[existing[n]]] \in Seq(Infos)
    <3>1. DOMAIN existing = 1..Len(existing)
      BY <2>1, LenProperties
    <3>2. \A n \in 1..Len(existing) : list[existing[n]] \in Infos
      BY <2>1, <2>2, <3>1, ElementOfSeq
    <3>3. QED
      BY <3>1, <3>2, <2>1, LenProperties, IsASeq
  <2>4. QED
    BY <1>2, <2>3 DEF Return, TypeOK, Accounted, Returned
<1>3. CASE \E x \in Infos : ClusterChange(x)
  BY <1>3 DEF ClusterChange, TypeOK, Accounted, Returned
<1>4. CASE UNCHANGED vars
  BY <1>4 DEF vars, TypeOK, Accounted, Returned
<1>5. QED
  BY <1>1, <1>2, <1>3, <1>4 DEF Next

\* The inductive invariant gives the property: with no error every index
\* whose resource the cluster held throughout went to the kept indices, and
\* the kept list holds that resource at the same position.
LEMMA IInvAccounts == IInv => ResultAccountsForEveryResource
<1> SUFFICES ASSUME IInv, ret.done
             PROVE  ResultAccountsForEveryResource
  BY DEF ResultAccountsForEveryResource
<1>1. ToSet(existing) \cap ToSet(errs) = {}
  BY DEF IInv, Accounted
<1>2. ASSUME ~ret.err, NEW k \in DOMAIN list, list[k] \in alwaysLive
      PROVE  Contains(ret.kept, list[k])
  <2>1. list \in Seq(Infos) /\ existing \in Seq(Indices)
        /\ ret.kept \in Seq(Infos)
    BY ListsAreSeqs DEF IInv, TypeOK
  <2>2. i = Len(list) + 1 /\ errs = <<>>
        /\ ret.kept = [n \in DOMAIN existing |-> list[existing[n]]]
    BY <1>2 DEF IInv, Returned
  <2>3. k \in 1..i - 1
    BY <2>1, <2>2, LenProperties
  <2>4. k \in ToSet(existing)
    BY <1>2, <2>2, <2>3 DEF IInv, Accounted, ToSet
  <2>5. PICK j \in DOMAIN existing : existing[j] = k
    BY <2>4 DEF ToSet
  <2>6. j \in 1..Len(ret.kept) /\ ret.kept[j] = list[k]
    <3>1. DOMAIN ret.kept = DOMAIN existing
      BY <2>2
    <3>2. QED
      BY <2>1, <2>2, <2>5, <3>1, LenProperties
  <2>7. QED
    BY <2>6 DEF Contains
<1>3. QED
  BY <1>1, <1>2 DEF ResultAccountsForEveryResource

\* util.FilterExistingResources keeps its slices and its return well typed
\* in every run, for every set of resources and every bound on the list.
THEOREM TypeCorrect == Spec => []TypeOK
<1>1. IInv => TypeOK
  BY DEF IInv
<1>2. QED
  BY IInvInit, IInvStep, <1>1, PTL DEF Spec

\* The result of util.FilterExistingResources accounts for every resource:
\* no list entry is both kept and reported as failed, and a nil error means
\* every resource the cluster held throughout the loop was returned, for
\* every set of resources, every list and every interleaving of the Gets
\* with other actors' creates and deletes.
THEOREM ResultAccounts == Spec => []ResultAccountsForEveryResource
BY IInvInit, IInvStep, IInvAccounts, PTL DEF Spec

=============================================================================
