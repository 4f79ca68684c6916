# Verification of the declarative ManifestReconciler

This directory holds TLA+ models of the module-manager's declarative
reconciler (`src/unnamed/part_000`, package `declarative`), of the
manifest utilities it relies on (`src/pkg/util/util.go`) and of the
generated deep copies of the Manifest API types
(`src/api/api/v1alpha1/zz_generated.deepcopy.go`). It contains TLC
configurations that check the models on small instances, an abstract
lifecycle specification that the reconciler is shown to implement, and
TLAPS proofs of the main safety properties and of the refinement for
every instance.

## 1. Inventory

### Components

| Component | Source | State it keeps | Operations |
|---|---|---|---|
| ReconciliationEngine | part_000:67-258 | none in process; all of it is on the resource (`status.State`, finalizers, labels) | `Reconcile`, `HandleInitialState`, `HandleProcessingState`, `HandleDeletingState`, `HandleErrorState`, `HandleReadyState` |
| FinalizerGate | part_000:89-102, 229-234 | the `custom-deletion-finalizer` marker on the resource | `controllerutil.AddFinalizer` / `RemoveFinalizer` followed by `Update` |
| InstallInfo builder | part_000:260-315 | none | `prepareInstallInfo`, `getManifestClient` |
| ObjectAccessor | part_000:328-405 | none (acts on the object in hand) | `getStatusFromObjectInstance`, `setStatusForObjectInstance`, `getSpecFromObjectInstance`, `GetComponentName` |
| Reconciler setup | part_000:54-65, 317-326 | `r.prototype`, `r.config`, `r.nativeClient`, `r.options.resourceLabels` (shared by all keys) | `Inject`, `applyOptions` |
| Manifest utilities | pkg/util/util.go | none | `CleanFilePathJoin`, `CalculateHash`, `ParseManifestStringToObjects`, `Transform`, `FilterExistingResources`, file helpers |
| Deep-copy scaffolding | api/v1alpha1/zz_generated.deepcopy.go | none | generated copies |

### How they interact

controller-runtime calls `Reconcile` with a key. `Reconcile` checks the
prototype's type and calls `Get`. By default `Get` reads from the
informer cache, which may lag behind the API server. It then makes one
decision:
- the deletion timestamp is set and the status is not Deleting:
  `Status().Update` to Deleting;
- the finalizer is missing: `Update` adding it;
- otherwise it dispatches on `status.State`.

Each handler makes at most one write. Every write carries the
resourceVersion of the copy that was read, so a write based on a stale
copy is rejected (Conflict, or NotFound for a removed object). The error
is returned and the key is requeued. The API server removes an object once
its deletion timestamp is set and no finalizer remains. A panic in a
handler is not recovered, so it ends the process; after the restart
`Inject` runs again and the cache is listed afresh. `r.options` is
in-memory state that all keys share.

### What is hard

- **Stale reads.** A decision is made on a cached copy that may predate a
  deletion, a finalizer or a status write.
- **Order of checks.** The deletion check must come before the dispatch.
- **Crash loops.** Two panics recur on every pass: the nil `*Unstructured`
  in `prepareInstallInfo` (line 267) and the nil label map (line 132).
- **Shared options.** In-memory options are shared across keys and reset
  before the write they belong to is accepted (line 135).
- **Liveness.** Liveness depends on requeueing and watch delivery.

### Properties that make each component correct

- **FinalizerGate.** Nothing the controller started is removed before
  teardown (`NoOrphanedRelease`, with `FinalizerGuardsProgress`).
- **ReconciliationEngine:**
  - deletion preempts processing (`DeletionPreempts`);
  - Error is retried (`ErrorRetried`);
  - a deletion is recorded (`DeletionObserved`);
  - a new resource progresses (`CreatedLeavesInitial`);
  - deletion completes (`DeletionCompletes`);
  - Deleting is never left (`DeletingIsAbsorbing`);
  - labels are applied before Processing (`LabelsBeforeProcessing`).
- **Utilities.** `CleanFilePathJoin` never yields a path outside root.
  `FilterExistingResources` returns every resource that exists,
  together with every error.
  `Transform` returns objects only when every transform succeeded.
- **Deep copies.** A copy shares no storage with the original.
- **Whole engine.** Seen from the API server, the reconciler behaves as
  the abstract finalizer lifecycle (`ImplementsLifecycle`).

## 2. Modules and their correspondence to the code

### `ManifestReconciler.tla`

**Constants:**
- `Res` is the set of keys.
- `Repr` is the prototype's representation, `"typed"` or
  `"unstructured"`.
- `LabelsConfigured` says whether `manifestOptions.resourceLabels` is
  non-empty. `Inject` ignores its `opts`, so it is FALSE unless some
  other caller uses `applyOptions`.

**Variables:**
- `obj[r]` is the object stored by the API server: whether it exists,
  the deletion timestamp, the finalizer, whether it has labels at all,
  whether it has the configured labels, `status.State`, and whether
  `spec.ChartFlags` parses.
- `cache[r]` is the informer's copy.
- `labelsPending` is `len(r.options.resourceLabels) > 0`.

**Actions.** One call of `Reconcile` is one atomic step: it reads
`cache[r]`, takes one branch and makes at most one write. `Fresh(r)`
(copy equals stored object) stands for the resourceVersion check. Every
branch is a pure function of the copy read, so an ABA return to equal
content cannot change the outcome.

| Action / helper | Code |
|---|---|
| `IsCustomObject` | type assertion, lines 72-76 |
| `MarkDeleting` | lines 89-97 (`Status().Update`) |
| `AddFinalizer` | lines 99-102 (`Update`) |
| `HandleInitialState` | lines 120-145: nil-map panic, label `Update` after the options are emptied, or Processing |
| `HandleProcessingState`, `HandleDeletingState` | lines 147-236; `InstallOrUninstall` is their shared tail. If `getManifestClient` fails they write Error; if it succeeds `prepareInstallInfo` panics (`PrepareInstallInfoPanics`) |
| `HandleErrorState` | lines 238-251 |
| `UpdateMeta` / `UpdateStatus` | `Update` writes metadata only; `Status().Update` writes status only |
| `Crash` | a panic followed by the restart through `Inject` |

**Environment:** `SyncCache` (watch delivery), `RequestDeletion` (a
removal is immediate without finalizers), `EditChartFlags`, and
`CreateResource` (a new object under a removed key).

`Install` and `Uninstall` (lines 175-190, 221-235) are never reached. For
a typed object `prepareInstallInfo` dereferences nil first, and an
unstructured prototype is rejected at line 73. The model therefore has no
step for them. `Ready` is never written, and `HandleReadyState` does
nothing.

### `FinalizerLifecycle.tla` (abstract specification)

The lifecycle the spec promises (spec 3, 4.2, 4.4), with one variable:
`life[r]` is `[present, protected, deleting, state]` of each stored
resource. Its actions are `Protect` (add the finalizer), `Progress`
(Empty to Processing, Processing to Ready or Error, Error to Processing,
only while protected and not deleting), `Teardown` (Deleting or Error
after a deletion request), `Release`, `RequestDeletion` and `Recreate`.
It follows the spec's state table, which allows Deleting to Error.

`ManifestReconciler` defines the refinement mapping `Lifecycle`, which
projects `obj` and ignores the cache and `labelsPending`. It also defines
`Abs == INSTANCE FinalizerLifecycle WITH life <- Lifecycle` and
`ImplementsLifecycle == Abs!Spec`. `Release` has no counterpart in the
code, because `RemoveFinalizer` is unreachable (line 267).

### `CleanFilePathJoin.tla`

This module models `CleanFilePathJoin` (util.go:87-114) as one call,
`Call`, on a root and an entry name. A string is a sequence of
one-character strings. The library calls are modelled by what they do
on Unix:
- `Split` is `strings.Split`;
- `Clean` is `filepath.Clean`, a fold over the segments with a stack;
- `Join` is `filepath.Join`;
- `IsAbs` is `path.IsAbs`;
- `ToSlash` is the identity.

The checks keep the code's order: the colon first, then `ReplaceAll`,
the `..` parts and the absolute test. `AcceptedStaysInRoot` compares
each accepted path with the reference `Inside`.

### `FilterExistingResources.tla`

This module models the loop of `FilterExistingResources`
(util.go:59-85). There is one action per outcome of `helper.Get`:
`GetFound`, `GetNotFound` and `GetFails` (any other error, whether or
not the resource exists). `Return` ends the call. The environment action
`ClusterChange(x)` creates or deletes a resource between any two Gets.
The history variable `alwaysLive` holds the resources present throughout
the call.

### `ManifestTransform.tla`

This module models `ParseManifestStringToObjects` and `Transform`
(util.go:116-141, 223-239). A document is abstracted to its kind.
`UnmarshalOutcomes` gives what `yaml.Unmarshal` into an `Unstructured`
returns for each kind: an error flag, and whether `Object` is non-empty.
`ReadDocument` is one pass of the loop. `RunTransform` runs one
transform, which succeeds or returns nil. `ReturnObjects` ends the call.
The "invalid YAML doc" branch has no step: the YAML reader over a
`strings.Reader` fails only with `io.EOF`.

### `DeepCopy.tla`

This module models the generated copies of `ManifestList` down to every
field that holds a reference. A reference is `[id, val]`: id 0 is nil,
and two references with the same id share storage. The operators are
`CopyLeaf`, `CopyInstalls`, `CopyConditions`, `CopyItems`, `CopyValues`, `CopyInstallInfo`,
`CopyCondition`, `CopySpec`, `CopyStatus`, `CopyManifest`,
`CopyManifestList` and `DeepCopyObject`. Each is one `DeepCopyInto` or
`DeepCopy` and takes the copy's first fresh id `n`. The size operators
(`LeafSize`, `InstallInfoSize`, `ConditionSize`, `SpecSize`,
`ManifestSize`, with the helper `ElemsBefore`) count the ids each copy allocates, the way
`new` and `make` take storage. A slice's count is `SumFunction` over its
elements' sizes, and `ElemsBefore` is `SumFunctionOnSet` over the indices
before an element (both from the community module `Functions`). A copy
then passes `n + size` to the copy that follows it.
`OriginalsAssumption` states what `FirstFree` means: every original is a
`ManifestList` pointer whose storage lies below it, as the allocator never
hands out an id in use. Each copy is a plain expression over its input, so TLC
evaluates it once. apimachinery's own copies (ObjectMeta, ListMeta, RawExtension,
LabelSelector, Time) are reference leaves. `ObjectIds` and `EraseObject`
give the storage a value reaches and its content without ids.

### `MC_ManifestReconciler.tla`

This module defines the key sets `{r1}` and `{r1, r2}` (model values) and
the symmetry used by the safety run.

### The proof modules

Section 4 describes the TLAPS proofs in these modules:
- `ManifestReconcilerProofs.tla` holds the reconciler's proofs.
- `ManifestRefinementProofs.tla` extends it with the proof of the
  refinement.
- `FinalizerLifecycleProofs.tla` proves the abstract lifecycle's own
  safety property.
- `FilterExistingResourcesProofs.tla` and `ManifestTransformProofs.tla`
  prove the two utility loops.
- `DeepCopyProofs.tla` proves `CopyIsDeep`, on `FoldLemmas.tla`, which
  proves that a sum of naturals over a finite index set is a natural.
- `SeqLemmas.tla` holds the sequence lemmas both utility proofs cite:
  - `BoundedSeqs`: the bounded argument lists are sequences;
  - `SeqToSet`;
  - `AppendToSet`.

### The other MC modules

- `MC_CleanFilePathJoin` defines the roots `r`, `/r`, `r/r`, `r/` and
  `/`, and the name characters `a . / \ :`.
- `MC_FilterExistingResources` defines two resources as model values.
- `MC_DeepCopy` defines every `ManifestList` pointer with up to two items
  whose slices are nil or of length one.

## 3. Runs

| Run | cfg | Expect | What it shows |
|---|---|---|---|
| safety | MCSafety.cfg | pass | 2 keys, labels configured, symmetry: `TypeOK`, `NoOrphanedRelease`, `DeletionPreempts` hold under stale reads, deletions, re-creation, spec edits and crash restarts (77k states), and `ImplementsLifecycle`: every behaviour maps to one of `FinalizerLifecycle` |
| liveness | MCLiveness.cfg | pass | 1 key, no labels: `ErrorRetried`, `DeletionObserved`, `CreatedLeavesInitial` |
| deletion_never_completes | MCDeletionCompletes.cfg | violation | finalizer never released: panic at 267, or a Deleting/Error loop with bad flags; the same panic keeps Processing from ever reaching Ready |
| deleting_left | MCDeletingAbsorbing.cfg | violation | Deleting goes to Error (line 208), against spec §3 |
| labels_lost | MCLabelsLost.cfg | violation | the shared options are emptied after the first resource, so the second reaches Processing unlabelled |
| nil_label_map | MCNilLabels.cfg | violation | a resource without labels crash-loops the controller |
| unstructured_rejected | MCUnstructured.cfg | violation | an unstructured prototype never gets past line 73 |
| clean_file_path_join | MCCleanFilePathJoin.cfg | pass | all names of up to 5 characters, 5 roots: `TypeOK`, `AcceptedStaysInRoot` (39k states) |
| filter_existing | MCFilterExisting.cfg | pass | lists of up to 3 entries over 2 resources, any interleaving of cluster changes: `TypeOK`, `ResultAccountsForEveryResource` (no list entry both kept and failed; a resource listed twice is two entries and may be kept at one and failed at the other) |
| transform | MCTransform.cfg | pass | up to 3 documents of every kind and 2 transforms: `TypeOK`, `TransformAllOrNothing` |
| deep_copy | MCDeepCopy.cfg | pass | every list in `MC_DeepCopy`: `CopyIsDeep` (10k states) |

**Bounds.** The finite record space gives a finite state graph without
counters. Two keys are enough for everything that couples keys: the
shared options and the process-wide crash. One key is enough for the
per-key protocol. Stale reads of any depth are covered, because the cache
may lag by any number of writes.

For the utilities, the bounds are chosen to reach each branch and each
boundary:
- Names of five characters reach `..` in every position, with slashes or
  backslashes, trailing and rooted, next to `.` and `a`.
- The roots include the file-system root and a trailing slash, where
  `Join` behaves differently.
- Three list entries over two resources give duplicates, and a change
  between every two Gets.
- Three documents of five kinds give every order of objects, blanks and
  failures.
- For the deep copies, slices of length one reach every field that holds
  a reference. Two items reach the id threading between items.

**Fairness.** The liveness runs use `SF` on `Reconcile(r)` and
`SyncCache(r)`:
- every write, and every failed call, enqueues the key again;
- the informer delivers every change.

So a call that can change something, or a stale copy, that recurs
infinitely often is eventually acted on. Weak fairness is not enough,
because an owner who keeps editing the spec disables these steps
intermittently. The owner gets no fairness. The liveness runs use one key.
With several keys, one key's crash loop can starve the others after every
restart, and fairness for them is not justified.

Each property of the passing runs has a mutant that TLC must catch: a
misspelt state literal, a dropped finalizer check, the deletion check
moved after the dispatch, `Update` used instead of `Status().Update`
(twice), and a label branch that tests the object's labels. For the
utilities and copies the mutants are:
- the `..` loop or the colon test left out;
- an error that falls through to the append;
- `errs` made with a length instead of a capacity;
- a failing transform that is skipped, or a loop one past the end;
- installs copied with `copy()`.

For the refinement the mutant is the finalizer check dropped.

## 4. What is proved (TLAPS)

- **`TypeCorrect`:** `Spec => []TypeOK`.
- **`NoOrphanedReleaseInvariant`:** `Spec => []NoOrphanedRelease`. The
  invariant is not inductive on its own: a removal happens through
  `RequestDeletion` on an object without the finalizer. The proof uses
  the inductive invariant `IInv = TypeOK /\ FinalizerGuardsProgress /\
  NoOrphanedRelease`, which says that every stored object that has
  progressed or is deleting has the finalizer. TLC checked it first as an
  invariant. Every write of `Reconcile` is either rejected, or made from
  the stored object itself. The writes that set a state are guarded by
  `PassesGates` (finalizer present), or by a deletion timestamp, which
  `IInv` ties to the finalizer.
- **`DeletionPreemptsHolds`:** `Spec => DeletionPreempts`, from `TypeOK`
  alone. Processing is written only from a copy that passed the deletion
  check, so that copy has no deletion timestamp. A write from a stale
  copy is rejected.

- **`Refinement`** (in `ManifestRefinementProofs.tla`): `Spec =>
  ImplementsLifecycle`. The invariant is `RInv = IInv /\ DeletingMarked`.
  `DeletingMarked` says that a stored object in status Deleting has its
  deletion requested. It is needed because `Teardown` and `Release`
  require `deleting`, and `HandleDeletingState` writes Error from a copy
  whose timestamp `IInv` does not fix. Only `MarkDeleting` writes
  Deleting, from a copy with the timestamp that is accepted only when it
  is the stored object, and no step clears the timestamp.
  - `RInvInit` and `RInvStep` show that `RInv` is inductive;
    `MarkedReconcile` covers the handlers.
  - `RefineInit` maps `Init` to `Abs!Init`.
  - `RefineStep` shows that every step of `Next`, under `RInv`, is a step
    of `Abs!Next` or leaves `Lifecycle` unchanged. The cases are:
    - a status write is a `Progress` step (`StatusStep`), or a
      `Teardown` step when the deletion is requested;
    - `AddFinalizer` is `Protect`;
    - label writes and spec edits are stutters (`MetaKeepStep`);
    - `RequestDeletion` is `RequestDeletion`;
    - `CreateResource` is `Recreate`;
    - crashes and cache syncs leave `obj` unchanged.
  - The lemmas `MapKey`, `MapAt`, `MapType` and `LifeExt` rewrite
    `Lifecycle` after a one-key change of `obj`. They prove record
    equalities field by field, because the SMT backend fails on an
    `EXCEPT` over a record with a Boolean field that is known to be TRUE.

The proofs hold for every set of keys and every value of `Repr` and
`LabelsConfigured`, under the assumptions `ResAssumption`,
`ReprAssumption` and `LabelsAssumption`.

**The abstract lifecycle** (`FinalizerLifecycleProofs.tla`).
`RemovalAtRest` proves `Spec => []RemovedAtRest`: the API server removes a
resource only before the controller touched it, or after its teardown
recorded Deleting. The invariant is not inductive on its own, because an
unprotected `RequestDeletion` removes at once. The inductive invariant
adds `ProtectedOnceTouched`: a stored resource that was advanced, or whose
deletion was requested, has the finalizer. The step proof works key by
key, through `KeyInv`.

The property is what the gate promises, and it allows a release from
Deleting. The implementation proves the stronger `NoOrphanedRelease`,
because no handler releases the finalizer (finding
`deletion_never_completes`). No run checks `RemovedAtRest`: TLC checked it
on the abstract spec with two resources before the proof.

**`FilterExistingResources`** (`FilterExistingResourcesProofs.tla`).
- `TypeCorrect` proves `Spec => []TypeOK`.
- `ResultAccounts` proves `Spec => []ResultAccountsForEveryResource`, for
  every set of resources and every `MaxList`.
- The inductive invariant `IInv` is `TypeOK /\ Accounted /\ Returned`:
  - `Accounted`: every kept or failed index is below `i`, and the two
    index sets are disjoint;
  - `Accounted` also gives `alwaysLive \subseteq live`, and that every
    index below `i` whose resource the cluster held throughout is in one
    of the two sets;
  - `Returned`: once returned, `ret` is what lines 80-84 compute from
    those indices.
- The step lemma has one case per Get outcome (`IInvGet`, through
  `GetPre` and `AppendIndex`), one for the return and one for a cluster
  change.
- A cluster change only shrinks `alwaysLive`. That is why the property
  holds whatever other actors do during the loop.

**`ManifestTransform`** (`ManifestTransformProofs.tla`).
- `TypeCorrect` proves `Spec => []TypeOK`.
- `AllOrNothing` proves `Spec => []TransformAllOrNothing`, for every
  `MaxDocs` and every `NumTransforms`.
- The inductive invariant `TInv` is `TypeOK /\ AppliedPrefix /\
  ItemsFromMaps /\ Phases`:
  - `AppliedPrefix`: the applied transforms are exactly `1..t-1`;
  - `ItemsFromMaps`: every Item came from a document already read that
    unmarshalled into a map, by `OutcomeObj`;
  - `Phases`: the transforms start after the last document is read, and
    a return with objects follows the last transform.
- Two things needed care in the proofs:
  - `AppendToSet` is instantiated on the named set `DocIndices`, because
    the provers do not instantiate a lemma's set parameter with an
    integer interval;
  - `Parsing` must be expanded wherever it is primed.

**`DeepCopy`** (`DeepCopyProofs.tla`, on `FoldLemmas.tla`).
- `CopyDeep` proves `Spec => []CopyIsDeep` for every set of payloads,
  every set of originals and every `FirstFree`, under
  `FirstFreeAssumption` and `OriginalsAssumption`. It covers lists of any
  length, with any number of installs and conditions.
- The invariant `IInv` says only that a copy, once made, is
  `DeepCopyObject(orig, FirstFree)`. The work is in one lemma per
  generated `DeepCopyInto`: `LeafCopy`, `InstallInfoCopy`,
  `ConditionCopy`, `InstallsCopy`, `ConditionsCopy`, `ManifestCopy`,
  `ItemsCopy` and `ObjectCopy`. Each lemma proves three things of the copy
  whose first id is `n`:
  - every id it reaches is at least `n` (`Above`);
  - with the ids erased, it equals the original;
  - the size it hands to the next copy is a natural.
  Disjointness then follows, because the original's ids lie below
  `FirstFree`.
- The slice lemmas rest on `SizesNat`: the ids taken before the i-th
  element, and by the whole slice, are naturals. That needs what a fold
  computes, which is induction over data. `FoldLemmas` does it without
  the library's induction rules, which take a predicate parameter:
  - `NatWellOrdered` gets the least element of a non-empty set of
    naturals from `NatLessThanWellFounded` and `WFMin`. Neither takes an
    operator parameter.
  - `SumOnSetNat` shows that `MapThenFoldSet`'s recursive function
    exists. The witness counts the pairs `<<x, k>>` with `k \in 1..fun[x]`,
    and `FiniteSetTheorems` gives its equation. The lemma then shows that
    any solution is a natural on every subset, by taking a least subset on
    which it is not.

**Only model-checked.** The following stay with TLC:
- The liveness properties and the violations, because TLAPS does not
  handle liveness under fairness.
- `CleanFilePathJoin`'s `TypeOK` and `AcceptedStaysInRoot`. `Clean` is a
  `FoldLeft` of stack operations over the path's parts, and `Split` and
  `SelectSeq` are recursive functions too.
  - The argument of `FoldLemmas` needs a closed-form witness for the
    fold's recursive function, and this fold, unlike a sum, has none.
  - Building the function step by step would be a proof of its own for
    each fold. Reasoning about strings through `Split` and `JoinParts`
    would come on top of that.

## 5. Not modelled

- The unstructured conversions of the ObjectAccessor.
- The `InstallInfo` contents.
- The rest of `pkg/util`:
  - `GetNamespaceObjBytes`, a constant rendering;
  - the path builders, one `filepath.Join` each;
  - the file I/O helpers;
  - `GetResourceLabel`, one map lookup;
  - `CalculateHash` (util.go:212-221), a `json.Marshal` and one call of
    the standard library's `hash/fnv`: the repository's own logic is the
    marshal-error return, and checking the library's FNV-1a against its
    published vectors would say nothing about this code.
- The deep copies of the value-only types (CustomState, HelmChartSpec,
  ImageSpec, InstallItem, RefTypeMetadata, Sync). Each is `*out = *in`,
  which is the value copy of `Payloads`.
- Symbolic links: `CleanFilePathJoin` computes a path. Nothing under
  `src/` extracts an archive or creates a link, so the file system that
  could redirect the path is not modelled.
- A kind-less YAML map lands in both `Items` and `Blobs` (util.go:131-135,
  kind "kindless" in `ManifestTransform`). Nothing in the code, its
  comments or its tests says whether that is intended, so no property is
  checked about it.
- The external installer, which is never called.
- Concurrent workers: calls are atomic. Nothing under `src/` sets
  `MaxConcurrentReconciles` above one, so controller-runtime runs one
  worker and the unlocked accesses to `r.options` cannot overlap.

## 6. Plan

1. Done:
   - `ManifestReconciler` with its runs and three theorems;
   - the utility models `CleanFilePathJoin`,
     `FilterExistingResources` and `ManifestTransform`;
   - `DeepCopy`;
   - the abstract `FinalizerLifecycle`, with a checked and proved
     refinement.
2. `ObjectAccessor.tla`: the status round trip through both
   representations, and the representation-equivalence property.
3. Done: TLAPS proofs of the two utility loops, of the abstract
   lifecycle and of the deep copy.
4. Concurrent workers, if a caller ever configures more than one: split
   `Reconcile` into its read and its write, to explore the race on
   `r.options`.
