---------------------- MODULE ManifestTransformProofs ----------------------
(***************************************************************************)
(* Proofs about ManifestTransform, for every bound on the documents and    *)
(* every number of transforms: util.Transform (src/pkg/util/util.go:       *)
(* 223-239) is type correct and returns objects only when the whole        *)
(* manifest was parsed and every transform ran.                            *)
(***************************************************************************)
EXTENDS ManifestTransform, SeqLemmas

\* The transforms that completed are exactly 1..t-1, in order.
AppliedPrefix == applied = [j \in 1..t - 1 |-> j]

\* Every Item came from a document already read that unmarshalled into a
\* non-empty map.
ItemsFromMaps ==
    \A n \in ToSet(items) : n < k /\ docs[n] \in {"object", "kindless"}

\* The transforms start only after the last document was read, and a
\* return with objects is made only after the last transform.
Phases ==
    /\ t > 1 \/ ret.done => ~Parsing
    /\ ret.done /\ ret.ok => t = NumTransforms + 1

\* The document indices, named so that the sequence lemmas apply to them.
DocIndices == 1..MaxDocs

\* The strengthening of TransformAllOrNothing that is inductive.
TInv == TypeOK /\ AppliedPrefix /\ ItemsFromMaps /\ Phases

-----------------------------------------------------------------------------
(***************************************************************************)
(* Lemmas about the operators the model is built from.                     *)
(***************************************************************************)

\* A manifest is a sequence of at most MaxDocs documents.
LEMMA ManifestsAreSeqs ==
    ASSUME NEW d \in Manifests
    PROVE  d \in Seq(DocKinds) /\ Len(d) \in 0..MaxDocs
BY MaxDocsAssumption, BoundedSeqs DEF Manifests

\* Only a map (with or without kind) leaves a non-empty Object behind.
LEMMA OutcomeObj ==
    ASSUME NEW d \in DocKinds, NEW u \in UnmarshalOutcomes(d)
    PROVE  u.obj => d \in {"object", "kindless"}
<1>1. CASE d = "object"
  BY <1>1 DEF UnmarshalOutcomes
<1>2. CASE d = "kindless"
  BY <1>2 DEF UnmarshalOutcomes
<1>3. CASE d = "null"
  BY <1>3 DEF UnmarshalOutcomes
<1>4. CASE d \in {"emptyMap", "notMap"}
  BY <1>4 DEF UnmarshalOutcomes
<1>5. QED
  BY <1>1, <1>2, <1>3, <1>4 DEF DocKinds

\* Appending t to the transforms 1..t-1 gives the transforms 1..t.
LEMMA AppendNext ==
    ASSUME NEW n \in Nat \ {0}
    PROVE  /\ Append([j \in 1..n - 1 |-> j], n) = [j \in 1..n |-> j]
           /\ [j \in 1..n |-> j] \in Seq(1..n)
<1> DEFINE p == [j \in 1..n - 1 |-> j]
           q == [j \in 1..n |-> j]
<1>1. p \in Seq(1..n) /\ q \in Seq(1..n)
  BY IsASeq
<1>2. Len(p) = n - 1 /\ Len(q) = n
  BY <1>1, LenProperties
<1>3. Append(p, n) \in Seq(1..n) /\ Len(Append(p, n)) = n
      /\ \A i \in 1..n - 1 : Append(p, n)[i] = i
      /\ Append(p, n)[n] = n
  BY <1>1, <1>2, AppendProperties
<1>4. \A i \in 1..n : Append(p, n)[i] = q[i]
  BY <1>3
<1>5. QED
  BY <1>1, <1>2, <1>3, <1>4, SeqEqual

-----------------------------------------------------------------------------
(***************************************************************************)
(* The inductive invariant.                                               *)
(***************************************************************************)

\* The initial states satisfy it.
LEMMA TInvInit == Init => TInv
<1> SUFFICES ASSUME Init PROVE TInv
  OBVIOUS
<1>1. docs \in Seq(DocKinds) /\ Len(docs) \in 0..MaxDocs
  BY ManifestsAreSeqs DEF Init
<1>2. <<>> \in Seq(1..MaxDocs) /\ <<>> \in Seq(1..NumTransforms)
  BY EmptySeq
<1>3. applied = [j \in 1..0 |-> j]
  BY DEF Init
<1>4. QED
  BY <1>1, <1>2, <1>3, NumTransformsAssumption
     DEF Init, TInv, TypeOK, AppliedPrefix, ItemsFromMaps, Phases, ToSet

\* Reading document k appends k to the Blobs, the Items or both; Item k
\* is a map by OutcomeObj, and the transforms have not started.
LEMMA TInvRead ==
    ASSUME TInv, ReadDocument
    PROVE  TInv'
<1>1. docs \in Seq(DocKinds) /\ Len(docs) \in 0..MaxDocs
  BY ManifestsAreSeqs DEF TInv, TypeOK
<1>2. k \in 1..Len(docs) /\ k \in 1..MaxDocs /\ docs[k] \in DocKinds
  <2>1. k \in 1..Len(docs) + 1 /\ k <= Len(docs)
    BY DEF ReadDocument, Parsing, TInv, TypeOK
  <2>2. k \in 1..Len(docs) /\ k \in 1..MaxDocs
    BY <1>1, <2>1, MaxDocsAssumption
  <2>3. QED
    BY <1>1, <2>2, ElementOfSeq
<1>3. t = 1 /\ ~ret.done
  BY DEF ReadDocument, TInv, Phases, Parsing, TypeOK
<1>4. PICK u \in UnmarshalOutcomes(docs[k]) :
         /\ blobs' = IF u.err THEN Append(blobs, k) ELSE blobs
         /\ items' = IF u.obj THEN Append(items, k) ELSE items
  BY DEF ReadDocument
<1>5. UNCHANGED <<docs, t, applied, ret>> /\ k' = k + 1
  BY DEF ReadDocument
<1>6. items \in Seq(1..MaxDocs) /\ blobs \in Seq(1..MaxDocs)
  BY DEF TInv, TypeOK
<1>10. ToSet(Append(items, k)) = ToSet(items) \cup {k}
  <2>1. items \in Seq(DocIndices) /\ k \in DocIndices
    BY <1>2, <1>6 DEF DocIndices
  <2>2. QED
    BY <2>1, AppendToSet
<1>7. items' \in Seq(1..MaxDocs) /\ blobs' \in Seq(1..MaxDocs)
  BY <1>2, <1>4, <1>6, AppendToSet
<1>8. ItemsFromMaps'
  <2>1. \A n \in ToSet(items) : n < k /\ docs[n] \in {"object", "kindless"}
    BY DEF TInv, ItemsFromMaps
  <2>2. ToSet(items) \subseteq Nat
    <3>1. ToSet(items) \subseteq 1..MaxDocs
      BY <1>6, SeqToSet
    <3>2. QED
      BY <3>1, MaxDocsAssumption
  <2>3. CASE u.obj
    <3>0. items' = Append(items, k)
      BY <2>3, <1>4
    <3>1. ToSet(items') = ToSet(items) \cup {k}
      BY <3>0, <1>2, <1>10
    <3>2. docs[k] \in {"object", "kindless"}
      BY <2>3, <1>2, OutcomeObj
    <3>3. QED
      BY <3>1, <3>2, <2>1, <2>2, <1>2, <1>5 DEF ItemsFromMaps
  <2>4. CASE ~u.obj
    BY <2>4, <1>4, <1>5, <2>1, <2>2, <1>2 DEF ItemsFromMaps
  <2>5. QED
    BY <2>3, <2>4
<1>9. QED
  BY <1>2, <1>3, <1>5, <1>7, <1>8
     DEF TInv, TypeOK, AppliedPrefix, Phases, Parsing

\* A transform that succeeds extends the prefix 1..t-1 by t; one that
\* fails returns nil.
LEMMA TInvTransform ==
    ASSUME TInv, RunTransform
    PROVE  TInv'
<1>1. ~Parsing /\ ~ret.done /\ t \in 1..NumTransforms
      /\ UNCHANGED <<docs, k, items, blobs>>
  BY DEF RunTransform, TInv, TypeOK
<1>2. CASE /\ applied' = Append(applied, t)
           /\ t' = t + 1
           /\ UNCHANGED ret
  <2>1. applied = [j \in 1..t - 1 |-> j] /\ t \in Nat \ {0}
    BY <1>1, NumTransformsAssumption DEF TInv, AppliedPrefix
  <2>2. applied' = [j \in 1..t |-> j] /\ applied' \in Seq(1..t)
    BY <1>2, <2>1, AppendNext
  <2>3. applied' \in Seq(1..NumTransforms)
    <3>1. 1..t \subseteq 1..NumTransforms
      BY <1>1, NumTransformsAssumption
    <3>2. QED
      BY <2>2, <3>1, SeqMonotonic
  <2>4. t' \in 1..NumTransforms + 1
    BY <1>1, <1>2, NumTransformsAssumption
  <2>5. TypeOK'
    BY <1>1, <1>2, <2>3, <2>4 DEF TInv, TypeOK
  <2>6. ItemsFromMaps' /\ Phases'
    BY <1>1, <1>2 DEF TInv, ItemsFromMaps, Phases, Parsing
  <2>7. QED
    BY <1>2, <2>1, <2>2, <2>5, <2>6 DEF TInv, AppliedPrefix
<1>3. CASE /\ ret' = [done |-> TRUE, ok |-> FALSE]
           /\ UNCHANGED <<t, applied>>
  BY <1>1, <1>3 DEF TInv, TypeOK, AppliedPrefix, ItemsFromMaps, Phases, Parsing
<1>4. QED
  BY <1>2, <1>3 DEF RunTransform

\* Every step keeps the invariant.
LEMMA TInvStep == TInv /\ [Next]_vars => TInv'
<1> SUFFICES ASSUME TInv, [Next]_vars PROVE TInv'
  OBVIOUS
<1>1. CASE ReadDocument
  BY <1>1, TInvRead
<1>2. CASE RunTransform
  BY <1>2, TInvTransform
<1>3. CASE ReturnObjects
  BY <1>3 DEF ReturnObjects, TInv, TypeOK, AppliedPrefix, ItemsFromMaps, Phases, Parsing
<1>4. CASE UNCHANGED vars
  <2>1. TypeOK'
    BY <1>4 DEF vars, TInv, TypeOK
  <2>2. AppliedPrefix'
    BY <1>4 DEF vars, TInv, AppliedPrefix
  <2>3. ItemsFromMaps'
    BY <1>4 DEF vars, TInv, ItemsFromMaps
  <2>4. Phases'
    BY <1>4 DEF vars, TInv, Phases, Parsing
  <2>5. QED
    BY <2>1, <2>2, <2>3, <2>4 DEF TInv
<1>5. QED
  BY <1>1, <1>2, <1>3, <1>4 DEF Next

\* The invariant gives the property: a return with objects comes after the
\* last document and the last transform.
LEMMA TInvAllOrNothing == TInv => TransformAllOrNothing
<1> SUFFICES ASSUME TInv, ret.done, ret.ok
             PROVE  TransformAllOrNothing
  BY DEF TransformAllOrNothing
<1>1. ~Parsing /\ t = NumTransforms + 1
  BY DEF TInv, Phases
<1>2. k = Len(docs) + 1
  BY <1>1 DEF TInv, TypeOK, Parsing
<1>3. applied = [j \in 1..NumTransforms |-> j]
  BY <1>1, NumTransformsAssumption DEF TInv, AppliedPrefix
<1>4. \A n \in ToSet(items) : docs[n] \in {"object", "kindless"}
  BY DEF TInv, ItemsFromMaps
<1>5. QED
  BY <1>2, <1>3, <1>4 DEF TransformAllOrNothing

\* util.Transform keeps its state and its return well typed in every run,
\* for every bound on the documents and every number of transforms.
THEOREM TypeCorrect == Spec => []TypeOK
<1>1. TInv => TypeOK
  BY DEF TInv
<1>2. QED
  BY TInvInit, TInvStep, <1>1, PTL DEF Spec

\* util.Transform returns objects only when every document of the manifest
\* was parsed and every transform ran once, in order, and every returned
\* object came from a document that unmarshalled into a map; a failing
\* transform can never let a partly transformed list out.
THEOREM AllOrNothing == Spec => []TransformAllOrNothing
BY TInvInit, TInvStep, TInvAllOrNothing, PTL DEF Spec

=============================================================================
