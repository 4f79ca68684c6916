------------------------------ MODULE DeepCopy ------------------------------
(***************************************************************************)
(* The generated deep copies of the Manifest API types (src/api/api/      *)
(* v1alpha1/zz_generated.deepcopy.go).  A Go value is a record; a field of *)
(* reference type (pointer, slice, map) is a reference [id, val]: id 0 is  *)
(* nil, and two references with the same id share storage.  "*out = *in"  *)
(* copies a record with its references; the generated code then replaces *)
(* every reference field by a fresh one, taking fresh ids from n upwards. *)
(*                                                                         *)
(* ObjectMeta, ListMeta, RawExtension, LabelSelector and metav1.Time are  *)
(* copied by their own DeepCopyInto / DeepCopy (apimachinery); each is a   *)
(* reference leaf here, copied into fresh storage with the same content.   *)
(***************************************************************************)
EXTENDS Naturals, Sequences, SequencesExt

CONSTANTS
    Payloads,   \* the plain (value-typed) contents of fields
    Originals,  \* the *ManifestList values a caller may copy
    FirstFree   \* an id above every id used by Originals

ASSUME FirstFreeAssumption == FirstFree \in Nat \ {0}

Nil == [id |-> 0, val |-> <<>>]

IsNil(r) == r.id = 0

\* The values of each type.
RefTo(S) == {Nil} \cup [id : Nat \ {0}, val : S]
Leaves == RefTo(Payloads)
InstallInfos == [ref : Leaves, sel : Leaves]
Conditions == [ltt : Leaves, info : Payloads]
Manifests ==
    [meta : Leaves,
     spec : [installs : RefTo(Seq(InstallInfos)), states : RefTo(Seq(Payloads)),
             sync : Payloads],
     status : [state : Payloads, conds : RefTo(Seq(Conditions))]]
ManifestListPtrs == RefTo([meta : Leaves, items : RefTo(Seq(Manifests))])

-----------------------------------------------------------------------------
(***************************************************************************)
(* The storage each copy allocates: one id for every non-nil reference it *)
(* replaces.  A copy whose first allocation is id n hands n + size to the  *)
(* copy that follows it, the way new() and make() take fresh storage.      *)
(***************************************************************************)

\* new(metav1.Time) and the leaves of apimachinery: one id unless nil.
LeafSize(r) == IF IsNil(r) THEN 0 ELSE 1

\* make([]T, len(*in)) takes one id, then each element copies its own.
ArraySize(r, ElemSize(_)) ==
    IF IsNil(r) THEN 0
    ELSE 1 + SumFunction([j \in DOMAIN r.val |-> ElemSize(r.val[j])])

\* The ids taken by the elements before the i-th one.
ElemsBefore(s, i, ElemSize(_)) ==
    SumFunctionOnSet([j \in DOMAIN s |-> ElemSize(s[j])], 1..i - 1)

\* InstallInfo (lines 76-80): its Ref and OverrideSelector.
InstallInfoSize(x) == LeafSize(x.ref) + LeafSize(x.sel)

\* ManifestCondition (lines 135-142): its LastTransitionTime.
ConditionSize(c) == LeafSize(c.ltt)

\* ManifestSpec (lines 187-203): Installs and CustomStateCheck.
SpecSize(s) == ArraySize(s.installs, InstallInfoSize) + LeafSize(s.states)

\* Manifest (lines 108-114): ObjectMeta, Spec and Status.Conditions.
ManifestSize(m) ==
    LeafSize(m.meta) + SpecSize(m.spec) + ArraySize(m.status.conds, ConditionSize)

-----------------------------------------------------------------------------
(***************************************************************************)
(* DeepCopyInto of each type: the copy whose first allocation is id n.    *)
(***************************************************************************)

\* out := new(T); in.DeepCopyInto(out) for a leaf of apimachinery, and the
\* copy of a *metav1.Time (lines 137-140): nil stays nil.
CopyLeaf(r, n) == IF IsNil(r) THEN r ELSE [id |-> n, val |-> r.val]

\* if in.X != nil { *out = make([]T, len(*in)); copy(*out, *in) } for
\* elements of value type (lines 197-201).
CopyValues(r, n) == IF IsNil(r) THEN r ELSE [id |-> n, val |-> r.val]

\* InstallInfo (lines 76-80): Ref and OverrideSelector by their own copies.
CopyInstallInfo(x, n) ==
    [x EXCEPT !.ref = CopyLeaf(@, n), !.sel = CopyLeaf(@, n + LeafSize(x.ref))]

\* ManifestCondition (lines 135-142): a fresh Time when it is set;
\* InstallInfo (an InstallItem) by value.
CopyCondition(c, n) == [c EXCEPT !.ltt = CopyLeaf(@, n)]

\* ManifestSpec.Installs (lines 190-196): if in.X != nil { *out = make([]T, len(*in));
\* for i := range *in { (*in)[i].DeepCopyInto(&(*out)[i]) } }.
CopyInstalls(r, n) ==
    IF IsNil(r) THEN r
    ELSE [id |-> n,
          val |-> [i \in DOMAIN r.val |->
                     CopyInstallInfo(r.val[i],
                                     n + 1 + ElemsBefore(r.val, i, InstallInfoSize))]]

\* Mutant: Installs copied with copy(), as if InstallInfo held no references.
CopySpecShallowInstalls(s, n) ==
    [s EXCEPT !.installs = CopyValues(@, n),
              !.states = CopyValues(@, n + LeafSize(s.installs))]

\* ManifestSpec (lines 187-203): DefaultConfig and Sync by value.
CopySpec(s, n) ==
    [s EXCEPT !.installs = CopyInstalls(@, n),
              !.states = CopyValues(@, n + ArraySize(s.installs, InstallInfoSize))]

\* ManifestStatus.Conditions (lines 218-224): if in.X != nil { *out = make([]T, len(*in));
\* for i := range *in { (*in)[i].DeepCopyInto(&(*out)[i]) } }.
CopyConditions(r, n) ==
    IF IsNil(r) THEN r
    ELSE [id |-> n,
          val |-> [i \in DOMAIN r.val |->
                     CopyCondition(r.val[i],
                                   n + 1 + ElemsBefore(r.val, i, ConditionSize))]]

\* ManifestStatus (lines 216-225).
CopyStatus(t, n) == [t EXCEPT !.conds = CopyConditions(@, n)]

\* Manifest (lines 108-114): TypeMeta by value, the rest by their copies.
CopyManifest(m, n) ==
    [m EXCEPT !.meta = CopyLeaf(@, n),
              !.spec = CopySpec(@, n + LeafSize(m.meta)),
              !.status = CopyStatus(@, n + LeafSize(m.meta) + SpecSize(m.spec))]

\* ManifestList.Items (lines 159-165): if in.X != nil { *out = make([]T, len(*in));
\* for i := range *in { (*in)[i].DeepCopyInto(&(*out)[i]) } }.
CopyItems(r, n) ==
    IF IsNil(r) THEN r
    ELSE [id |-> n,
          val |-> [i \in DOMAIN r.val |->
                     CopyManifest(r.val[i],
                                  n + 1 + ElemsBefore(r.val, i, ManifestSize))]]

\* ManifestList (lines 155-166).
CopyManifestList(l, n) ==
    [l EXCEPT !.meta = CopyLeaf(@, n), !.items = CopyItems(@, n + LeafSize(l.meta))]

\* (*ManifestList).DeepCopy and DeepCopyObject (lines 168-184): nil in,
\* nil out; else new(ManifestList) and DeepCopyInto.  The pointer is a
\* reference whose val is the ManifestList.
DeepCopyObject(p, n) ==
    IF IsNil(p) THEN p ELSE [id |-> n, val |-> CopyManifestList(p.val, n + 1)]

-----------------------------------------------------------------------------
(***************************************************************************)
(* The storage a value reaches, and its content with the storage erased.  *)
(***************************************************************************)

LeafIds(r) == IF IsNil(r) THEN {} ELSE {r.id}

InstallInfoIds(x) == LeafIds(x.ref) \cup LeafIds(x.sel)

ConditionIds(c) == LeafIds(c.ltt)

ArrayIds(r, ElemIds(_)) ==
    IF IsNil(r) THEN {} ELSE {r.id} \cup UNION {ElemIds(e) : e \in ToSet(r.val)}

ManifestIds(m) ==
    LeafIds(m.meta)
    \cup ArrayIds(m.spec.installs, InstallInfoIds)
    \cup ArrayIds(m.spec.states, LAMBDA x : {})
    \cup ArrayIds(m.status.conds, ConditionIds)

ObjectIds(p) ==
    IF IsNil(p) THEN {}
    ELSE {p.id} \cup LeafIds(p.val.meta) \cup ArrayIds(p.val.items, ManifestIds)

\* The originals are *ManifestList values whose storage all lies below
\* FirstFree: the allocator never hands out an id that is in use.
ASSUME OriginalsAssumption ==
    /\ Originals \subseteq ManifestListPtrs
    /\ \A p \in Originals : \A k \in ObjectIds(p) : k < FirstFree

\* A reference with its id replaced by whether it is nil.
Erase(r, EraseVal(_)) ==
    IF IsNil(r) THEN [set |-> FALSE, val |-> <<>>]
    ELSE [set |-> TRUE, val |-> EraseVal(r.val)]

EraseSeq(s, EraseElem(_)) == [i \in DOMAIN s |-> EraseElem(s[i])]

EraseInstallInfo(x) ==
    [ref |-> Erase(x.ref, LAMBDA y : y), sel |-> Erase(x.sel, LAMBDA y : y)]

EraseCondition(c) == [c EXCEPT !.ltt = Erase(@, LAMBDA y : y)]

EraseManifest(m) ==
    [meta |-> Erase(m.meta, LAMBDA x : x),
     spec |-> [m.spec EXCEPT
                 !.installs = Erase(@, LAMBDA s : EraseSeq(s, EraseInstallInfo)),
                 !.states = Erase(@, LAMBDA s : s)],
     status |-> [m.status EXCEPT
                 !.conds = Erase(@, LAMBDA s : EraseSeq(s, EraseCondition))]]

EraseList(l) ==
    [meta |-> Erase(l.meta, LAMBDA x : x),
     items |-> Erase(l.items, LAMBDA s : EraseSeq(s, EraseManifest))]

EraseObject(p) == Erase(p, EraseList)

-----------------------------------------------------------------------------

VARIABLES
    orig,   \* the object read from the informer cache
    copy,   \* the result of DeepCopyObject
    done    \* the copy was made

vars == <<orig, copy, done>>

TypeOK ==
    /\ orig \in ManifestListPtrs
    /\ copy \in ManifestListPtrs
    /\ done \in BOOLEAN

Init ==
    /\ orig \in Originals
    /\ copy = Nil
    /\ done = FALSE

\* A caller copies the object, as the client does before handing out an
\* object of its cache.
Copy ==
    /\ ~done
    /\ copy' = DeepCopyObject(orig, FirstFree)
    /\ done' = TRUE
    /\ UNCHANGED orig

Spec == Init /\ [][Copy]_vars

-----------------------------------------------------------------------------

\* The deep copy of a ManifestList shares no storage with the original at
\* any depth (items, installs with their Ref and selector, custom states,
\* conditions with their transition time, metadata) and has the same
\* content, so a write through the copy never changes the cached object.
CopyIsDeep ==
    done => /\ ObjectIds(copy) \cap ObjectIds(orig) = {}
            /\ EraseObject(copy) = EraseObject(orig)

=============================================================================
