-------------------------- MODULE DeepCopyProofs ---------------------------
(***************************************************************************)
(* Proofs about DeepCopy, for every set of payloads, every set of         *)
(* originals and every first free id.                                      *)
(***************************************************************************)
EXTENDS DeepCopy, FoldLemmas, TLAPS

\* Every id of S is a natural number no smaller than n: storage taken by a
\* copy whose first allocation is id n.
Above(S, n) == \A k \in S : k \in Nat /\ n <= k

\* new(T) for a leaf: nil stays nil, a set reference gets id n and the
\* same content.
LEMMA LeafCopy ==
    ASSUME NEW S, NEW r \in RefTo(S), NEW n \in Nat \ {0}
    PROVE  /\ Above(LeafIds(CopyLeaf(r, n)), n)
           /\ IsNil(CopyLeaf(r, n)) = IsNil(r)
           /\ CopyLeaf(r, n).val = r.val
           /\ CopyValues(r, n) = CopyLeaf(r, n)
           /\ LeafSize(r) \in Nat
           /\ ~IsNil(r) => r.val \in S
BY DEF Above, LeafIds, CopyLeaf, CopyValues, IsNil, LeafSize, RefTo, Nil

\* InstallInfo.DeepCopyInto (lines 76-80) allocates only at or above n and
\* keeps the content.
LEMMA InstallInfoCopy ==
    ASSUME NEW x \in InstallInfos, NEW n \in Nat \ {0}
    PROVE  /\ Above(InstallInfoIds(CopyInstallInfo(x, n)), n)
           /\ EraseInstallInfo(CopyInstallInfo(x, n)) = EraseInstallInfo(x)
           /\ InstallInfoSize(x) \in Nat
<1> DEFINE c == CopyInstallInfo(x, n)
           m == n + LeafSize(x.ref)
<1>1. x.ref \in Leaves /\ x.sel \in Leaves
  BY DEF InstallInfos
<1>2. LeafSize(x.ref) \in Nat /\ LeafSize(x.sel) \in Nat
  BY <1>1, LeafCopy DEF Leaves
<1>3. m \in Nat \ {0} /\ n <= m
  BY <1>2
<1>4. c.ref = CopyLeaf(x.ref, n) /\ c.sel = CopyLeaf(x.sel, m)
  BY DEF CopyInstallInfo, InstallInfos
<1>5. Above(LeafIds(c.ref), n) /\ Above(LeafIds(c.sel), m)
  BY <1>1, <1>3, <1>4, LeafCopy DEF Leaves
<1>6. Above(InstallInfoIds(c), n)
  BY <1>3, <1>5 DEF Above, InstallInfoIds
<1>7. /\ Erase(c.ref, LAMBDA y : y) = Erase(x.ref, LAMBDA y : y)
      /\ Erase(c.sel, LAMBDA y : y) = Erase(x.sel, LAMBDA y : y)
  <2>1. IsNil(c.ref) = IsNil(x.ref) /\ c.ref.val = x.ref.val
    BY <1>1, <1>4, LeafCopy DEF Leaves
  <2>2. IsNil(c.sel) = IsNil(x.sel) /\ c.sel.val = x.sel.val
    BY <1>1, <1>3, <1>4, LeafCopy DEF Leaves
  <2>3. QED
    BY <2>1, <2>2 DEF Erase
<1>8. QED
  BY <1>2, <1>6, <1>7 DEF EraseInstallInfo, InstallInfoSize

\* ManifestCondition.DeepCopyInto (lines 135-142).
LEMMA ConditionCopy ==
    ASSUME NEW x \in Conditions, NEW n \in Nat \ {0}
    PROVE  /\ Above(ConditionIds(CopyCondition(x, n)), n)
           /\ EraseCondition(CopyCondition(x, n)) = EraseCondition(x)
           /\ ConditionSize(x) \in Nat
<1> DEFINE c == CopyCondition(x, n)
<1>1. x.ltt \in Leaves
  BY DEF Conditions
<1>2. c = [x EXCEPT !.ltt = CopyLeaf(x.ltt, n)]
  BY DEF CopyCondition
<1>3. c.ltt = CopyLeaf(x.ltt, n)
  BY <1>2 DEF Conditions
<1>4. Erase(c.ltt, LAMBDA y : y) = Erase(x.ltt, LAMBDA y : y)
  BY <1>1, <1>3, LeafCopy DEF Erase, Leaves
<1>5. EraseCondition(c) = EraseCondition(x)
  BY <1>2, <1>4 DEF EraseCondition, Conditions
<1>6. QED
  BY <1>1, <1>3, <1>5, LeafCopy DEF ConditionIds, ConditionSize, Leaves
\* Storage above b is storage above any a <= b.
LEMMA AboveMono ==
    ASSUME NEW S, NEW a \in Nat, NEW b \in Nat, a <= b, Above(S, b)
    PROVE  Above(S, a)
BY DEF Above

\* A non-nil reference of RefTo(S) holds a value of S under a non-zero id.
LEMMA RefVal ==
    ASSUME NEW S, NEW r \in RefTo(S), ~IsNil(r)
    PROVE  r.val \in S /\ r.id \in Nat \ {0}
BY DEF RefTo, IsNil, Nil

\* The ids the elements before the i-th take, and the ids a whole slice
\* takes, are natural numbers: sums of natural sizes over finite index sets.
LEMMA SizesNat ==
    ASSUME NEW T, NEW s \in Seq(T), NEW w \in [DOMAIN s -> Nat]
    PROVE  /\ \A i \in DOMAIN s : SumFunctionOnSet(w, 1..i - 1) \in Nat
           /\ SumFunction(w) \in Nat
<1>1. DOMAIN s = 1..Len(s)
  OBVIOUS
<1>2. IsFiniteSet(DOMAIN s)
  BY <1>1, FS_Interval
<1>3. ASSUME NEW i \in DOMAIN s PROVE SumFunctionOnSet(w, 1..i - 1) \in Nat
  <2>1. IsFiniteSet(1..i - 1)
    BY FS_Interval
  <2>2. 1..i - 1 \subseteq DOMAIN w
    BY <1>1
  <2>3. QED
    BY <2>1, <2>2, SumOnSetNat
<1>4. SumFunction(w) \in Nat
  BY <1>2, SumOnSetNat DEF SumFunction
<1>5. QED
  BY <1>3, <1>4

\* ManifestSpec.Installs (lines 190-196): make takes id n, the i-th
\* InstallInfo copies from n + 1 + the ids of those before it.
LEMMA InstallsCopy ==
    ASSUME NEW r \in RefTo(Seq(InstallInfos)), NEW n \in Nat \ {0}
    PROVE  /\ Above(ArrayIds(CopyInstalls(r, n), InstallInfoIds), n)
           /\ Erase(CopyInstalls(r, n), LAMBDA s : EraseSeq(s, EraseInstallInfo))
              = Erase(r, LAMBDA s : EraseSeq(s, EraseInstallInfo))
           /\ ArraySize(r, InstallInfoSize) \in Nat
<1>1. CASE IsNil(r)
  BY <1>1 DEF CopyInstalls, ArrayIds, ArraySize, Above
<1>2. CASE ~IsNil(r)
  <2> DEFINE v == r.val
             w == [j \in DOMAIN v |-> InstallInfoSize(v[j])]
             off(i) == n + 1 + ElemsBefore(v, i, InstallInfoSize)
             c == CopyInstalls(r, n)
  <2>1. v \in Seq(InstallInfos)
    BY <1>2, RefVal
  <2>2. w \in [DOMAIN v -> Nat]
    BY <2>1, InstallInfoCopy
  <2>3. \A i \in DOMAIN v : off(i) \in Nat \ {0} /\ n <= off(i)
    BY <2>1, <2>2, SizesNat DEF ElemsBefore
  <2>4. ArraySize(r, InstallInfoSize) \in Nat
    BY <1>2, <2>1, <2>2, SizesNat DEF ArraySize
  <2>5. c = [id |-> n, val |-> [i \in DOMAIN v |-> CopyInstallInfo(v[i], off(i))]]
    BY <1>2 DEF CopyInstalls
  <2>6. \A i \in DOMAIN v : Above(InstallInfoIds(c.val[i]), n)
    <3> SUFFICES ASSUME NEW i \in DOMAIN v PROVE Above(InstallInfoIds(c.val[i]), n)
      OBVIOUS
    <3>0. v[i] \in InstallInfos /\ off(i) \in Nat \ {0}
      BY <2>1, <2>3
    <3>1. Above(InstallInfoIds(CopyInstallInfo(v[i], off(i))), off(i))
      BY <3>0, InstallInfoCopy
    <3>2. QED
      BY <2>3, <2>5, <3>1, AboveMono
  <2>7. Above(ArrayIds(c, InstallInfoIds), n)
    BY <2>5, <2>6 DEF ArrayIds, ToSet, Above, IsNil
  <2>8. EraseSeq(c.val, EraseInstallInfo) = EraseSeq(v, EraseInstallInfo)
    <3>1. ASSUME NEW i \in DOMAIN v
          PROVE  EraseInstallInfo(c.val[i]) = EraseInstallInfo(v[i])
      <4>1. v[i] \in InstallInfos /\ off(i) \in Nat \ {0}
        BY <2>1, <2>3
      <4>2. c.val[i] = CopyInstallInfo(v[i], off(i))
        BY <2>5
      <4>3. QED
        BY <4>1, <4>2, InstallInfoCopy
    <3>2. DOMAIN c.val = DOMAIN v
      BY <2>5
    <3>3. QED
      BY <3>1, <3>2 DEF EraseSeq
  <2>9. ~IsNil(c)
    BY <2>5 DEF IsNil
  <2>10. Erase(c, LAMBDA s : EraseSeq(s, EraseInstallInfo))
         = Erase(r, LAMBDA s : EraseSeq(s, EraseInstallInfo))
    BY <1>2, <2>8, <2>9 DEF Erase
  <2>11. QED
    BY <2>4, <2>7, <2>10
<1>3. QED
  BY <1>1, <1>2

\* ManifestStatus.Conditions (lines 218-224): make takes id n, the i-th
\* ManifestCondition copies from n + 1 + the ids of those before it.
LEMMA ConditionsCopy ==
    ASSUME NEW r \in RefTo(Seq(Conditions)), NEW n \in Nat \ {0}
    PROVE  /\ Above(ArrayIds(CopyConditions(r, n), ConditionIds), n)
           /\ Erase(CopyConditions(r, n), LAMBDA s : EraseSeq(s, EraseCondition))
              = Erase(r, LAMBDA s : EraseSeq(s, EraseCondition))
           /\ ArraySize(r, ConditionSize) \in Nat
<1>1. CASE IsNil(r)
  BY <1>1 DEF CopyConditions, ArrayIds, ArraySize, Above
<1>2. CASE ~IsNil(r)
  <2> DEFINE v == r.val
             w == [j \in DOMAIN v |-> ConditionSize(v[j])]
             off(i) == n + 1 + ElemsBefore(v, i, ConditionSize)
             c == CopyConditions(r, n)
  <2>1. v \in Seq(Conditions)
    BY <1>2, RefVal
  <2>2. w \in [DOMAIN v -> Nat]
    BY <2>1, ConditionCopy
  <2>3. \A i \in DOMAIN v : off(i) \in Nat \ {0} /\ n <= off(i)
    BY <2>1, <2>2, SizesNat DEF ElemsBefore
  <2>4. ArraySize(r, ConditionSize) \in Nat
    BY <1>2, <2>1, <2>2, SizesNat DEF ArraySize
  <2>5. c = [id |-> n, val |-> [i \in DOMAIN v |-> CopyCondition(v[i], off(i))]]
    BY <1>2 DEF CopyConditions
  <2>6. \A i \in DOMAIN v : Above(ConditionIds(c.val[i]), n)
    <3> SUFFICES ASSUME NEW i \in DOMAIN v PROVE Above(ConditionIds(c.val[i]), n)
      OBVIOUS
    <3>0. v[i] \in Conditions /\ off(i) \in Nat \ {0}
      BY <2>1, <2>3
    <3>1. Above(ConditionIds(CopyCondition(v[i], off(i))), off(i))
      BY <3>0, ConditionCopy
    <3>2. QED
      BY <2>3, <2>5, <3>1, AboveMono
  <2>7. Above(ArrayIds(c, ConditionIds), n)
    BY <2>5, <2>6 DEF ArrayIds, ToSet, Above, IsNil
  <2>8. EraseSeq(c.val, EraseCondition) = EraseSeq(v, EraseCondition)
    <3>1. ASSUME NEW i \in DOMAIN v
          PROVE  EraseCondition(c.val[i]) = EraseCondition(v[i])
      <4>1. v[i] \in Conditions /\ off(i) \in Nat \ {0}
        BY <2>1, <2>3
      <4>2. c.val[i] = CopyCondition(v[i], off(i))
        BY <2>5
      <4>3. QED
        BY <4>1, <4>2, ConditionCopy
    <3>2. DOMAIN c.val = DOMAIN v
      BY <2>5
    <3>3. QED
      BY <3>1, <3>2 DEF EraseSeq
  <2>9. ~IsNil(c)
    BY <2>5 DEF IsNil
  <2>10. Erase(c, LAMBDA s : EraseSeq(s, EraseCondition))
         = Erase(r, LAMBDA s : EraseSeq(s, EraseCondition))
    BY <1>2, <2>8, <2>9 DEF Erase
  <2>11. QED
    BY <2>4, <2>7, <2>10
<1>3. QED
  BY <1>1, <1>2

\* Manifest.DeepCopyInto (lines 108-114): ObjectMeta at n, then the spec,
\* then the status conditions, each from the first id the one before it
\* left free.
LEMMA ManifestCopy ==
    ASSUME NEW m \in Manifests, NEW n \in Nat \ {0}
    PROVE  /\ Above(ManifestIds(CopyManifest(m, n)), n)
           /\ EraseManifest(CopyManifest(m, n)) = EraseManifest(m)
           /\ ManifestSize(m) \in Nat
<1> DEFINE n1 == n + LeafSize(m.meta)
           n2 == n1 + ArraySize(m.spec.installs, InstallInfoSize)
           n3 == n1 + SpecSize(m.spec)
           c == CopyManifest(m, n)
<1>1. /\ m.meta \in Leaves
      /\ m.spec \in [installs : RefTo(Seq(InstallInfos)),
                     states : RefTo(Seq(Payloads)), sync : Payloads]
      /\ m.status \in [state : Payloads, conds : RefTo(Seq(Conditions))]
  BY DEF Manifests
<1>2. /\ LeafSize(m.meta) \in Nat
      /\ ArraySize(m.spec.installs, InstallInfoSize) \in Nat
      /\ LeafSize(m.spec.states) \in Nat
      /\ ArraySize(m.status.conds, ConditionSize) \in Nat
  BY <1>1, LeafCopy, InstallsCopy, ConditionsCopy DEF Leaves
<1>3. /\ n1 \in Nat \ {0} /\ n <= n1
      /\ n2 \in Nat \ {0} /\ n <= n2
      /\ n3 \in Nat \ {0} /\ n <= n3
      /\ ManifestSize(m) \in Nat
  BY <1>2 DEF SpecSize, ManifestSize
<1>4. /\ c.meta = CopyLeaf(m.meta, n)
      /\ c.spec = [m.spec EXCEPT !.installs = CopyInstalls(m.spec.installs, n1),
                                 !.states = CopyValues(m.spec.states, n2)]
      /\ c.status = [m.status EXCEPT !.conds = CopyConditions(m.status.conds, n3)]
  BY <1>1 DEF CopyManifest, CopySpec, CopyStatus, SpecSize, Manifests
<1>5. /\ c.spec.installs = CopyInstalls(m.spec.installs, n1)
      /\ c.spec.states = CopyLeaf(m.spec.states, n2)
      /\ c.status.conds = CopyConditions(m.status.conds, n3)
  BY <1>1, <1>3, <1>4, LeafCopy
<1>6. Above(ManifestIds(c), n)
  <2>1. Above(LeafIds(c.meta), n)
    BY <1>1, <1>4, LeafCopy DEF Leaves
  <2>2. Above(ArrayIds(c.spec.installs, InstallInfoIds), n)
    <3>1. Above(ArrayIds(CopyInstalls(m.spec.installs, n1), InstallInfoIds), n1)
      BY <1>1, <1>3, InstallsCopy
    <3>2. QED
      BY <1>3, <1>5, <3>1, AboveMono
  <2>3. Above(ArrayIds(c.spec.states, LAMBDA x : {}), n)
    <3>1. Above(LeafIds(CopyLeaf(m.spec.states, n2)), n2)
      BY <1>1, <1>3, LeafCopy
    <3>2. Above(ArrayIds(c.spec.states, LAMBDA x : {}), n2)
      BY <1>5, <3>1 DEF ArrayIds, LeafIds, Above
    <3>3. QED
      BY <1>3, <3>2, AboveMono
  <2>4. Above(ArrayIds(c.status.conds, ConditionIds), n)
    <3>1. Above(ArrayIds(CopyConditions(m.status.conds, n3), ConditionIds), n3)
      BY <1>1, <1>3, ConditionsCopy
    <3>2. QED
      BY <1>3, <1>5, <3>1, AboveMono
  <2>5. QED
    BY <2>1, <2>2, <2>3, <2>4 DEF ManifestIds, Above
<1>7. EraseManifest(c) = EraseManifest(m)
  <2>1. Erase(c.meta, LAMBDA x : x) = Erase(m.meta, LAMBDA x : x)
    <3>1. IsNil(c.meta) = IsNil(m.meta) /\ c.meta.val = m.meta.val
      BY <1>1, <1>4, LeafCopy DEF Leaves
    <3>2. QED
      BY <3>1 DEF Erase
  <2>2. Erase(c.spec.installs, LAMBDA s : EraseSeq(s, EraseInstallInfo))
        = Erase(m.spec.installs, LAMBDA s : EraseSeq(s, EraseInstallInfo))
    BY <1>1, <1>3, <1>5, InstallsCopy
  <2>3. Erase(c.spec.states, LAMBDA s : s) = Erase(m.spec.states, LAMBDA s : s)
    <3>1. IsNil(c.spec.states) = IsNil(m.spec.states)
          /\ c.spec.states.val = m.spec.states.val
      BY <1>1, <1>3, <1>5, LeafCopy
    <3>2. QED
      BY <3>1 DEF Erase
  <2>4. Erase(c.status.conds, LAMBDA s : EraseSeq(s, EraseCondition))
        = Erase(m.status.conds, LAMBDA s : EraseSeq(s, EraseCondition))
    BY <1>1, <1>3, <1>5, ConditionsCopy
  <2>5. QED
    BY <1>1, <1>4, <2>1, <2>2, <2>3, <2>4 DEF EraseManifest
<1>8. QED
  BY <1>3, <1>6, <1>7

\* ManifestList.Items (lines 159-165): make takes id n, the i-th Manifest
\* copies from n + 1 + the ids of those before it.
LEMMA ItemsCopy ==
    ASSUME NEW r \in RefTo(Seq(Manifests)), NEW n \in Nat \ {0}
    PROVE  /\ Above(ArrayIds(CopyItems(r, n), ManifestIds), n)
           /\ Erase(CopyItems(r, n), LAMBDA s : EraseSeq(s, EraseManifest))
              = Erase(r, LAMBDA s : EraseSeq(s, EraseManifest))
           /\ ArraySize(r, ManifestSize) \in Nat
<1>1. CASE IsNil(r)
  BY <1>1 DEF CopyItems, ArrayIds, ArraySize, Above
<1>2. CASE ~IsNil(r)
  <2> DEFINE v == r.val
             w == [j \in DOMAIN v |-> ManifestSize(v[j])]
             off(i) == n + 1 + ElemsBefore(v, i, ManifestSize)
             c == CopyItems(r, n)
  <2>1. v \in Seq(Manifests)
    BY <1>2, RefVal
  <2>2. w \in [DOMAIN v -> Nat]
    BY <2>1, ManifestCopy
  <2>3. \A i \in DOMAIN v : off(i) \in Nat \ {0} /\ n <= off(i)
    BY <2>1, <2>2, SizesNat DEF ElemsBefore
  <2>4. ArraySize(r, ManifestSize) \in Nat
    BY <1>2, <2>1, <2>2, SizesNat DEF ArraySize
  <2>5. c = [id |-> n, val |-> [i \in DOMAIN v |-> CopyManifest(v[i], off(i))]]
    BY <1>2 DEF CopyItems
  <2>6. \A i \in DOMAIN v : Above(ManifestIds(c.val[i]), n)
    <3> SUFFICES ASSUME NEW i \in DOMAIN v PROVE Above(ManifestIds(c.val[i]), n)
      OBVIOUS
    <3>0. v[i] \in Manifests /\ off(i) \in Nat \ {0}
      BY <2>1, <2>3
    <3>1. Above(ManifestIds(CopyManifest(v[i], off(i))), off(i))
      BY <3>0, ManifestCopy
    <3>2. QED
      BY <2>3, <2>5, <3>1, AboveMono
  <2>7. Above(ArrayIds(c, ManifestIds), n)
    BY <2>5, <2>6 DEF ArrayIds, ToSet, Above, IsNil
  <2>8. EraseSeq(c.val, EraseManifest) = EraseSeq(v, EraseManifest)
    <3>1. ASSUME NEW i \in DOMAIN v
          PROVE  EraseManifest(c.val[i]) = EraseManifest(v[i])
      <4>1. v[i] \in Manifests /\ off(i) \in Nat \ {0}
        BY <2>1, <2>3
      <4>2. c.val[i] = CopyManifest(v[i], off(i))
        BY <2>5
      <4>3. QED
        BY <4>1, <4>2, ManifestCopy
    <3>2. DOMAIN c.val = DOMAIN v
      BY <2>5
    <3>3. QED
      BY <3>1, <3>2 DEF EraseSeq
  <2>9. ~IsNil(c)
    BY <2>5 DEF IsNil
  <2>10. Erase(c, LAMBDA s : EraseSeq(s, EraseManifest))
         = Erase(r, LAMBDA s : EraseSeq(s, EraseManifest))
    BY <1>2, <2>8, <2>9 DEF Erase
  <2>11. QED
    BY <2>4, <2>7, <2>10
<1>3. QED
  BY <1>1, <1>2


\* (*ManifestList).DeepCopyObject (lines 168-184): the new ManifestList at
\* n, its ObjectMeta at n + 1, its Items after that.
LEMMA ObjectCopy ==
    ASSUME NEW p \in ManifestListPtrs, NEW n \in Nat \ {0}
    PROVE  /\ Above(ObjectIds(DeepCopyObject(p, n)), n)
           /\ EraseObject(DeepCopyObject(p, n)) = EraseObject(p)
<1>1. CASE IsNil(p)
  BY <1>1 DEF DeepCopyObject, ObjectIds, Above
<1>2. CASE ~IsNil(p)
  <2> DEFINE l == p.val
             c == DeepCopyObject(p, n)
             k == n + 1 + LeafSize(l.meta)
  <2>1. l \in [meta : Leaves, items : RefTo(Seq(Manifests))]
    BY <1>2, RefVal DEF ManifestListPtrs
  <2>2. LeafSize(l.meta) \in Nat
    BY <2>1, LeafCopy DEF Leaves
  <2>3. k \in Nat \ {0} /\ n + 1 <= k /\ n + 1 \in Nat \ {0}
    BY <2>2
  <2>4. c = [id |-> n, val |-> CopyManifestList(l, n + 1)]
    BY <1>2 DEF DeepCopyObject
  <2>5. c.val.meta = CopyLeaf(l.meta, n + 1) /\ c.val.items = CopyItems(l.items, k)
    <3>1. c.val = CopyManifestList(l, n + 1)
      BY <2>4
    <3>2. QED
      BY <2>1, <3>1 DEF CopyManifestList
  <2>6. Above(ObjectIds(c), n)
    <3>1. Above(LeafIds(CopyLeaf(l.meta, n + 1)), n + 1)
      BY <2>1, <2>3, LeafCopy DEF Leaves
    <3>2. Above(ArrayIds(CopyItems(l.items, k), ManifestIds), k)
      BY <2>1, <2>3, ItemsCopy
    <3>3. Above(LeafIds(c.val.meta) \cup ArrayIds(c.val.items, ManifestIds), n)
      BY <2>3, <2>5, <3>1, <3>2 DEF Above
    <3>4. QED
      BY <2>4, <3>3 DEF ObjectIds, Above, IsNil
  <2>7. EraseList(c.val) = EraseList(l)
    <3>1. Erase(c.val.meta, LAMBDA x : x) = Erase(l.meta, LAMBDA x : x)
      <4>1. IsNil(c.val.meta) = IsNil(l.meta) /\ c.val.meta.val = l.meta.val
        BY <2>1, <2>3, <2>5, LeafCopy DEF Leaves
      <4>2. QED
        BY <4>1 DEF Erase
    <3>2. Erase(c.val.items, LAMBDA s : EraseSeq(s, EraseManifest))
          = Erase(l.items, LAMBDA s : EraseSeq(s, EraseManifest))
      BY <2>1, <2>3, <2>5, ItemsCopy
    <3>3. QED
      BY <3>1, <3>2 DEF EraseList
  <2>8. EraseObject(c) = EraseObject(p)
    <3>1. ~IsNil(c)
      BY <2>4 DEF IsNil
    <3>2. QED
      BY <1>2, <2>7, <3>1 DEF EraseObject, Erase
  <2>9. QED
    BY <2>6, <2>8
<1>3. QED
  BY <1>1, <1>2, Zenon

-----------------------------------------------------------------------------
(***************************************************************************)
(* The copy a caller gets shares no storage with the cached object.       *)
(***************************************************************************)

\* The invariant: the copy, once made, is DeepCopyObject of the original
\* with fresh ids from FirstFree.
IInv ==
    /\ orig \in Originals
    /\ done \in BOOLEAN
    /\ done => copy = DeepCopyObject(orig, FirstFree)

\* No copy is made at the start.
LEMMA IInvInit == Init => IInv
BY DEF Init, IInv

\* Copy stores DeepCopyObject(orig, FirstFree) and leaves orig alone.
LEMMA IInvStep == IInv /\ [Copy]_vars => IInv'
<1> SUFFICES ASSUME IInv, [Copy]_vars PROVE IInv'
  OBVIOUS
<1>1. CASE Copy
  BY <1>1 DEF IInv, Copy
<1>2. CASE UNCHANGED vars
  BY <1>2 DEF IInv, vars
<1>3. QED
  BY <1>1, <1>2

\* Fresh storage from FirstFree is disjoint from the original's, which the
\* allocator keeps below FirstFree.
LEMMA IInvDeep == IInv => CopyIsDeep
<1> SUFFICES ASSUME IInv, done
             PROVE  /\ ObjectIds(copy) \cap ObjectIds(orig) = {}
                    /\ EraseObject(copy) = EraseObject(orig)
  BY DEF CopyIsDeep
<1>1. orig \in ManifestListPtrs /\ \A k \in ObjectIds(orig) : k < FirstFree
  BY OriginalsAssumption DEF IInv
<1>2. copy = DeepCopyObject(orig, FirstFree)
  BY DEF IInv
<1>3. /\ Above(ObjectIds(copy), FirstFree)
      /\ EraseObject(copy) = EraseObject(orig)
  BY <1>1, <1>2, FirstFreeAssumption, ObjectCopy
<1>4. QED
  BY <1>1, <1>3, FirstFreeAssumption DEF Above

\* DeepCopyObject of a cached *ManifestList (zz_generated.deepcopy.go,
\* lines 76-225) shares no storage with it at any depth and has the same
\* content, for every ManifestList, however many items, installs and
\* conditions it holds.
THEOREM CopyDeep == Spec => []CopyIsDeep
BY IInvInit, IInvStep, IInvDeep, PTL DEF Spec
=============================================================================
