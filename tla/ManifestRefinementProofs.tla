---------------------- MODULE ManifestRefinementProofs ----------------------
(***************************************************************************)
(* Proof that ManifestReconciler implements FinalizerLifecycle under the  *)
(* mapping Lifecycle: every step of the reconciler, the cache, the crash  *)
(* restarts and the owner is a step of the lifecycle or leaves the stored *)
(* resources as they are.                                                 *)
(***************************************************************************)
EXTENDS ManifestReconcilerProofs

\* A stored resource in status Deleting has its deletion requested: only
\* MarkDeleting writes Deleting, from a copy with the deletion timestamp,
\* and no step clears the timestamp of a stored object.
DeletingMarked ==
    \A r \in Res : obj[r].exists /\ obj[r].state = "Deleting" => obj[r].deleting

\* The invariant the refinement rests on.
RInv == IInv /\ DeletingMarked

\* DeletingMarked for one stored object.
MarkedKey(o) == o.exists /\ o.state = "Deleting" => o.deleting

\* A step that rewrites one key keeps every key marked if the new object is.
LEMMA MarkedUpdate ==
    ASSUME obj \in [Res -> Object], \A s \in Res : MarkedKey(obj[s]),
           NEW r \in Res, NEW n, MarkedKey(n), obj' = [obj EXCEPT ![r] = n]
    PROVE  \A s \in Res : MarkedKey(obj'[s])
OBVIOUS

\* The steps of one call of Reconcile keep every stored object marked: the
\* only write of Deleting is made from a copy with the deletion timestamp,
\* and it is accepted only when that copy is the stored object.
LEMMA MarkedReconcile ==
    ASSUME TypeOK, \A s \in Res : MarkedKey(obj[s]), NEW r \in Res, Reconcile(r)
    PROVE  \A s \in Res : MarkedKey(obj'[s])
<1> DEFINE o == cache[r]
<1>0. o \in Object
  BY DEF TypeOK
<1>1. ASSUME NEW x \in States, x = "Deleting" => o.deleting,
             UpdateStatus(r, [o EXCEPT !.state = x])
      PROVE  \A s \in Res : MarkedKey(obj'[s])
  <2>1. CASE Fresh(r)
    <3>1. obj' = [obj EXCEPT ![r] = [obj[r] EXCEPT !.state = x]]
      BY <1>0, <1>1, <2>1 DEF UpdateStatus, Fresh, TypeOK, Object
    <3>2. MarkedKey([obj[r] EXCEPT !.state = x])
      BY <1>1, <2>1 DEF Fresh, MarkedKey, TypeOK, Object
    <3>3. QED
      BY <3>1, <3>2, MarkedUpdate DEF TypeOK
  <2>2. CASE ~Fresh(r)
    BY <1>1, <2>2 DEF UpdateStatus
  <2>3. QED
    BY <2>1, <2>2
<1>2. ASSUME NEW n \in Object, UpdateMeta(r, n)
      PROVE  \A s \in Res : MarkedKey(obj'[s])
  <2>1. CASE Fresh(r)
    <3>1. obj' = [obj EXCEPT ![r] = [obj[r] EXCEPT !.fin = n.fin,
                                                   !.hasLabels = n.hasLabels,
                                                   !.labeled = n.labeled]]
      BY <1>2, <2>1 DEF UpdateMeta, Fresh, TypeOK, Object
    <3>2. MarkedKey([obj[r] EXCEPT !.fin = n.fin, !.hasLabels = n.hasLabels,
                                   !.labeled = n.labeled])
      BY DEF MarkedKey, TypeOK, Object
    <3>3. QED
      BY <3>1, <3>2, MarkedUpdate DEF TypeOK
  <2>2. CASE ~Fresh(r)
    BY <1>2, <2>2 DEF UpdateMeta
  <2>3. QED
    BY <2>1, <2>2
<1>3. Crash => \A s \in Res : MarkedKey(obj'[s])
  BY DEF Crash
<1>4. CASE MarkDeleting(r)
  BY <1>1, <1>4 DEF MarkDeleting, DeletionUnobserved, States
<1>5. CASE AddFinalizer(r)
  BY <1>0, <1>2, <1>5, ObjectUpdates DEF AddFinalizer
<1>6. CASE HandleInitialState(r)
  <2>1. [o EXCEPT !.labeled = TRUE] \in Object
    BY <1>0, ObjectUpdates
  <2>2. QED
    BY <1>1, <1>2, <1>3, <1>6, <2>1 DEF HandleInitialState, States
<1>7. CASE HandleProcessingState(r) \/ HandleDeletingState(r)
  BY <1>1, <1>3, <1>7 DEF HandleProcessingState, HandleDeletingState,
                          InstallOrUninstall, States
<1>8. CASE HandleErrorState(r)
  BY <1>1, <1>8 DEF HandleErrorState, States
<1>9. QED
  BY <1>4, <1>5, <1>6, <1>7, <1>8 DEF Reconcile

\* Every step keeps the refinement invariant.
LEMMA RInvStep == RInv /\ [Next]_vars => RInv'
<1> SUFFICES ASSUME RInv, [Next]_vars PROVE RInv'
  OBVIOUS
<1>1. TypeOK /\ \A s \in Res : MarkedKey(obj[s])
  BY DEF RInv, IInv, DeletingMarked, MarkedKey
<1>2. IInv'
  BY InvStep DEF RInv
<1>3. SUFFICES \A s \in Res : MarkedKey(obj'[s])
  BY <1>2 DEF RInv, DeletingMarked, MarkedKey
<1>4. CASE UNCHANGED vars
  BY <1>1, <1>4 DEF vars
<1>5. ASSUME NEW r \in Res, Reconcile(r) PROVE \A s \in Res : MarkedKey(obj'[s])
  BY <1>1, <1>5, MarkedReconcile
<1>6. ASSUME NEW r \in Res, SyncCache(r) PROVE \A s \in Res : MarkedKey(obj'[s])
  BY <1>1, <1>6 DEF SyncCache
<1>7. ASSUME NEW r \in Res, RequestDeletion(r) PROVE \A s \in Res : MarkedKey(obj'[s])
  <2>1. MarkedKey([obj[r] EXCEPT !.deleting = TRUE, !.exists = obj[r].fin])
    BY <1>1 DEF MarkedKey, TypeOK, Object
  <2>2. QED
    BY <1>1, <1>7, <2>1, MarkedUpdate DEF RequestDeletion, TypeOK
<1>8. ASSUME NEW r \in Res, EditChartFlags(r) PROVE \A s \in Res : MarkedKey(obj'[s])
  <2>1. MarkedKey([obj[r] EXCEPT !.flagsOk = ~obj[r].flagsOk])
    BY <1>1 DEF MarkedKey, TypeOK, Object
  <2>2. QED
    BY <1>1, <1>8, <2>1, MarkedUpdate DEF EditChartFlags, TypeOK
<1>9. ASSUME NEW r \in Res, CreateResource(r) PROVE \A s \in Res : MarkedKey(obj'[s])
  BY <1>1, <1>9, MarkedUpdate DEF CreateResource, Created, MarkedKey, TypeOK
<1>10. QED
  BY <1>4, <1>5, <1>6, <1>7, <1>8, <1>9 DEF Next

\* The initial states satisfy the refinement invariant.
LEMMA RInvInit == Init => RInv
BY InvInit DEF Init, Created, RInv, DeletingMarked

\* Rewriting one key of obj rewrites the same key of the mapping.
LEMMA MapKey ==
    ASSUME TypeOK, NEW r \in Res, NEW n \in Object, obj' = [obj EXCEPT ![r] = n]
    PROVE  Lifecycle' = [Lifecycle EXCEPT ![r] =
                            [present |-> n.exists, protected |-> n.fin,
                             deleting |-> n.deleting, state |-> n.state]]
BY DEF Lifecycle, TypeOK

\* A step that leaves obj as it is leaves the mapping as it is.
LEMMA MapStutter == obj' = obj => UNCHANGED Lifecycle
BY DEF Lifecycle

\* The mapped value of one key.
LEMMA MapAt ==
    ASSUME NEW r \in Res
    PROVE  /\ Lifecycle[r].present = obj[r].exists
           /\ Lifecycle[r].protected = obj[r].fin
           /\ Lifecycle[r].deleting = obj[r].deleting
           /\ Lifecycle[r].state = obj[r].state
BY DEF Lifecycle

\* The mapped value of a key is a lifecycle record.
LEMMA MapType ==
    ASSUME TypeOK, NEW r \in Res
    PROVE  Lifecycle[r] \in Abs!Lives
BY DEF Lifecycle, TypeOK, Object, Abs!Lives, States, Abs!States

\* Two lifecycle records with the same fields are equal.
LEMMA LifeExt ==
    ASSUME NEW X \in Abs!Lives, NEW Y \in Abs!Lives,
           X.present = Y.present, X.protected = Y.protected,
           X.deleting = Y.deleting, X.state = Y.state
    PROVE  X = Y
BY DEF Abs!Lives

\* Rewriting the state of one key rewrites the state of the mapping.
LEMMA MapState ==
    ASSUME TypeOK, NEW r \in Res, NEW x \in States,
           obj' = [obj EXCEPT ![r].state = x]
    PROVE  Lifecycle' = [Lifecycle EXCEPT ![r].state = x]
<1> DEFINE n == [obj[r] EXCEPT !.state = x]
<1>1. n \in Object /\ obj' = [obj EXCEPT ![r] = n]
  BY DEF TypeOK, Object
<1>2. Lifecycle' = [Lifecycle EXCEPT ![r] =
                       [present |-> n.exists, protected |-> n.fin,
                        deleting |-> n.deleting, state |-> n.state]]
  BY <1>1, MapKey
<1>3. /\ n.exists = obj[r].exists /\ n.fin = obj[r].fin
      /\ n.deleting = obj[r].deleting /\ n.state = x
  BY DEF TypeOK, Object
<1>4. [Lifecycle[r] EXCEPT !.state = x] =
        [present |-> obj[r].exists, protected |-> obj[r].fin,
         deleting |-> obj[r].deleting, state |-> x]
  BY DEF Lifecycle
<1>5. QED
  BY <1>2, <1>3, <1>4

\* A status write of state x to key r, accepted on the stored object, is a
\* Progress step or a Teardown step of the lifecycle when x is allowed.
LEMMA StatusStep ==
    ASSUME TypeOK, NEW r \in Res, NEW x \in States,
           obj' = [obj EXCEPT ![r].state = x],
           obj[r].exists, obj[r].fin, x # obj[r].state,
           obj[r].deleting => x \in {"Deleting", "Error"},
           ~obj[r].deleting => Abs!Progresses(obj[r].state, x)
    PROVE  Abs!Next
<1>1. Lifecycle' = [Lifecycle EXCEPT ![r].state = x]
  BY MapState
<1>2. /\ Lifecycle[r].present /\ Lifecycle[r].protected
      /\ Lifecycle[r].deleting = obj[r].deleting
      /\ Lifecycle[r].state = obj[r].state
  BY MapAt
<1>3. CASE obj[r].deleting
  <2>1. Abs!Teardown(r)
    <3>1. x \in {"Deleting", "Error"} /\ x # Lifecycle[r].state
      BY <1>2, <1>3
    <3>2. QED
      BY <1>1, <1>2, <1>3, <3>1 DEF Abs!Teardown
  <2>2. QED
    BY <2>1 DEF Abs!Next
<1>4. CASE ~obj[r].deleting
  <2>1. Abs!Progress(r)
    <3>1. x \in Abs!States /\ Abs!Progresses(Lifecycle[r].state, x)
      BY <1>2, <1>4 DEF States, Abs!States
    <3>2. QED
      BY <1>1, <1>2, <1>4, <3>1 DEF Abs!Progress
  <2>2. QED
    BY <2>1 DEF Abs!Next
<1>5. QED
  BY <1>3, <1>4

\* A status write made by Reconcile from the copy read: rejected (a
\* stutter), or accepted on the stored object.
LEMMA StatusWriteStep ==
    ASSUME TypeOK, NEW r \in Res, NEW x \in States,
           UpdateStatus(r, [cache[r] EXCEPT !.state = x]),
           Fresh(r) => /\ obj[r].exists /\ obj[r].fin /\ x # obj[r].state
                       /\ obj[r].deleting => x \in {"Deleting", "Error"}
                       /\ ~obj[r].deleting => Abs!Progresses(obj[r].state, x)
    PROVE  [Abs!Next]_Lifecycle
<1>1. CASE Fresh(r)
  <2>1. obj' = [obj EXCEPT ![r].state = x]
    BY <1>1 DEF UpdateStatus, Fresh
  <2>2. QED
    BY <1>1, <2>1, StatusStep
<1>2. CASE ~Fresh(r)
  BY <1>2, MapStutter DEF UpdateStatus
<1>3. QED
  BY <1>1, <1>2

\* A metadata write that keeps the finalizer as it is: a stutter.
LEMMA MetaKeepStep ==
    ASSUME TypeOK, NEW r \in Res, NEW n \in Object, n.fin = cache[r].fin,
           UpdateMeta(r, n)
    PROVE  UNCHANGED Lifecycle
<1>1. CASE Fresh(r)
  <2>1. obj' = [obj EXCEPT ![r] = [obj[r] EXCEPT !.fin = n.fin,
                                   !.hasLabels = n.hasLabels,
                                   !.labeled = n.labeled]]
    BY <1>1 DEF UpdateMeta, Fresh, TypeOK, Object
  <2>2. QED
    BY <1>1, <2>1, MapKey DEF Lifecycle, Fresh, TypeOK, Object
<1>2. CASE ~Fresh(r)
  BY <1>2, MapStutter DEF UpdateMeta
<1>3. QED
  BY <1>1, <1>2

-----------------------------------------------------------------------------

\* One call of Reconcile is a step of the lifecycle or a stutter.
LEMMA RefineReconcile ==
    ASSUME RInv, NEW r \in Res, Reconcile(r)
    PROVE  [Abs!Next]_Lifecycle
<1> DEFINE o == cache[r]
<1>0. TypeOK /\ o \in Object
  BY DEF RInv, IInv, TypeOK
<1>1. o.exists
  BY DEF Reconcile
\* When the write is accepted, the copy read is the stored object.
<1>2. Fresh(r) => obj[r] = o
  BY DEF Fresh
<1>3. Crash => UNCHANGED Lifecycle
  BY MapStutter DEF Crash
<1>4. CASE MarkDeleting(r)
  <2>1. Fresh(r) => obj[r].fin
    BY <1>1, <1>2, <1>4 DEF MarkDeleting, DeletionUnobserved, RInv, IInv,
                            FinalizerGuardsProgress
  <2>2. QED
    BY <1>0, <1>1, <1>2, <1>4, <2>1, StatusWriteStep
       DEF MarkDeleting, DeletionUnobserved, States
<1>5. CASE AddFinalizer(r)
  <2>1. CASE Fresh(r)
    \* The stored object has no finalizer, so by the invariant it has no
    \* deletion timestamp and is still in the initial state.
    <3>1. obj[r] = o /\ ~o.fin /\ ~o.deleting
      BY <1>1, <1>2, <1>5, <2>1 DEF AddFinalizer, RInv, IInv,
                                    FinalizerGuardsProgress
    <3> DEFINE n == [obj[r] EXCEPT !.fin = TRUE, !.hasLabels = o.hasLabels,
                                   !.labeled = o.labeled]
    <3>2. n \in Object /\ obj' = [obj EXCEPT ![r] = n]
      BY <1>0, <1>5, <2>1 DEF AddFinalizer, UpdateMeta, Fresh, TypeOK, Object
    <3>3. /\ n.exists = obj[r].exists /\ n.fin = TRUE
          /\ n.deleting = obj[r].deleting /\ n.state = obj[r].state
      BY <1>0 DEF TypeOK, Object
    <3>4. Lifecycle' = [Lifecycle EXCEPT ![r] =
                           [present |-> obj[r].exists, protected |-> TRUE,
                            deleting |-> obj[r].deleting, state |-> obj[r].state]]
      BY <1>0, <3>2, <3>3, MapKey
    <3>5. [Lifecycle[r] EXCEPT !.protected = TRUE] =
            [present |-> obj[r].exists, protected |-> TRUE,
             deleting |-> obj[r].deleting, state |-> obj[r].state]
      <4>1. Lifecycle[r] \in Abs!Lives
        BY <1>0, MapType
      <4>2. /\ [Lifecycle[r] EXCEPT !.protected = TRUE] \in Abs!Lives
            /\ [present |-> obj[r].exists, protected |-> TRUE,
                deleting |-> obj[r].deleting, state |-> obj[r].state] \in Abs!Lives
        BY <1>0, <4>1 DEF Abs!Lives, TypeOK, Object, States, Abs!States
      <4>3. /\ [Lifecycle[r] EXCEPT !.protected = TRUE].present = obj[r].exists
            /\ [Lifecycle[r] EXCEPT !.protected = TRUE].protected = TRUE
            /\ [Lifecycle[r] EXCEPT !.protected = TRUE].deleting = obj[r].deleting
            /\ [Lifecycle[r] EXCEPT !.protected = TRUE].state = obj[r].state
        BY <4>1, MapAt DEF Abs!Lives
      <4>4. QED
        BY <4>2, <4>3, LifeExt
    <3>6. Abs!Protect(r)
      BY <1>1, <3>1, <3>4, <3>5, MapAt DEF Abs!Protect
    <3>7. QED
      BY <3>6 DEF Abs!Next
  <2>2. CASE ~Fresh(r)
    BY <1>5, <2>2, MapStutter DEF AddFinalizer, UpdateMeta
  <2>3. QED
    BY <2>1, <2>2
<1>6. CASE HandleInitialState(r)
  <2>1. o.fin /\ ~o.deleting
    BY <1>6 DEF HandleInitialState, PassesGates, DeletionUnobserved
  <2>2. CASE labelsPending /\ ~o.hasLabels /\ Crash
    BY <1>3, <2>2
  <2>3. CASE labelsPending /\ o.hasLabels
             /\ UpdateMeta(r, [o EXCEPT !.labeled = TRUE])
    <3>1. [o EXCEPT !.labeled = TRUE] \in Object
      BY <1>0, ObjectUpdates
    <3>3. [o EXCEPT !.labeled = TRUE].fin = cache[r].fin
      BY <1>0 DEF Object
    <3>2. QED
      BY <1>0, <2>3, <3>1, <3>3, MetaKeepStep
  <2>4. CASE ~labelsPending /\ UpdateStatus(r, [o EXCEPT !.state = "Processing"])
    <3>1. Fresh(r) => /\ obj[r].exists /\ obj[r].fin
                      /\ "Processing" # obj[r].state
                      /\ obj[r].deleting => "Processing" \in {"Deleting", "Error"}
                      /\ ~obj[r].deleting => Abs!Progresses(obj[r].state, "Processing")
      BY <1>1, <1>2, <1>6, <2>1 DEF HandleInitialState, Abs!Progresses
    <3>2. "Processing" \in States
      BY DEF States
    <3>3. QED
      BY <1>0, <2>4, <3>1, <3>2, StatusWriteStep
  <2>5. QED
    BY <1>6, <2>2, <2>3, <2>4 DEF HandleInitialState
<1>7. CASE HandleProcessingState(r) \/ HandleDeletingState(r)
  <2>1. o.fin /\ InstallOrUninstall(r)
    BY <1>7 DEF HandleProcessingState, HandleDeletingState, PassesGates
  \* From Processing the copy has no deletion timestamp; from Deleting the
  \* stored object has one, by DeletingMarked.
  <2>2. Fresh(r) => /\ o.state = "Processing" => ~o.deleting
                    /\ o.state = "Deleting" => o.deleting
    BY <1>1, <1>2, <1>7 DEF HandleProcessingState, HandleDeletingState,
                            PassesGates, DeletionUnobserved, RInv, DeletingMarked
  <2>3. o.state \in {"Processing", "Deleting"}
    BY <1>7 DEF HandleProcessingState, HandleDeletingState
  <2>4. UpdateStatus(r, [o EXCEPT !.state = "Error"]) => [Abs!Next]_Lifecycle
    BY <1>0, <1>1, <1>2, <2>1, <2>2, <2>3, StatusWriteStep
       DEF States, Abs!Progresses
  <2>5. QED
    BY <1>3, <2>1, <2>4 DEF InstallOrUninstall
<1>8. CASE HandleErrorState(r)
  <2>1. o.fin /\ ~o.deleting /\ o.state = "Error"
    BY <1>8 DEF HandleErrorState, PassesGates, DeletionUnobserved
  <2>2. QED
    BY <1>0, <1>1, <1>2, <1>8, <2>1, StatusWriteStep
       DEF HandleErrorState, States, Abs!Progresses
<1>9. QED
  BY <1>4, <1>5, <1>6, <1>7, <1>8 DEF Reconcile

\* Every step of the reconciler and its environment is a lifecycle step or
\* a stutter.
LEMMA RefineStep == RInv /\ [Next]_vars => [Abs!Next]_Lifecycle
<1> SUFFICES ASSUME RInv, [Next]_vars PROVE [Abs!Next]_Lifecycle
  OBVIOUS
<1>0. TypeOK
  BY DEF RInv, IInv
<1>1. CASE UNCHANGED vars
  BY <1>1, MapStutter DEF vars
<1>2. ASSUME NEW r \in Res, Reconcile(r) PROVE [Abs!Next]_Lifecycle
  BY <1>2, RefineReconcile
<1>3. ASSUME NEW r \in Res, SyncCache(r) PROVE [Abs!Next]_Lifecycle
  BY <1>3, MapStutter DEF SyncCache
<1>4. ASSUME NEW r \in Res, RequestDeletion(r) PROVE [Abs!Next]_Lifecycle
  <2> DEFINE n == [obj[r] EXCEPT !.deleting = TRUE, !.exists = obj[r].fin]
  <2>1. n \in Object /\ obj' = [obj EXCEPT ![r] = n]
    BY <1>0, <1>4 DEF RequestDeletion, TypeOK, Object
  <2>2. Lifecycle' = [Lifecycle EXCEPT ![r] =
                         [present |-> obj[r].fin, protected |-> obj[r].fin,
                          deleting |-> TRUE, state |-> obj[r].state]]
    BY <1>0, <2>1, MapKey DEF TypeOK, Object
  <2>3. [Lifecycle[r] EXCEPT !.deleting = TRUE] =
          [present |-> obj[r].exists, protected |-> obj[r].fin,
           deleting |-> TRUE, state |-> obj[r].state]
    <3>1. Lifecycle[r] \in Abs!Lives
      BY <1>0, MapType
    <3>2. /\ [Lifecycle[r] EXCEPT !.deleting = TRUE] \in Abs!Lives
          /\ [present |-> obj[r].exists, protected |-> obj[r].fin,
              deleting |-> TRUE, state |-> obj[r].state] \in Abs!Lives
      BY <1>0, <3>1 DEF Abs!Lives, TypeOK, Object, States, Abs!States
    <3>3. /\ [Lifecycle[r] EXCEPT !.deleting = TRUE].present = obj[r].exists
          /\ [Lifecycle[r] EXCEPT !.deleting = TRUE].protected = obj[r].fin
          /\ [Lifecycle[r] EXCEPT !.deleting = TRUE].deleting = TRUE
          /\ [Lifecycle[r] EXCEPT !.deleting = TRUE].state = obj[r].state
      BY <3>1, MapAt DEF Abs!Lives
    <3>4. QED
      BY <3>2, <3>3, LifeExt
  <2>4. [[present |-> obj[r].exists, protected |-> obj[r].fin,
          deleting |-> TRUE, state |-> obj[r].state] EXCEPT !.present = obj[r].fin]
        = [present |-> obj[r].fin, protected |-> obj[r].fin,
           deleting |-> TRUE, state |-> obj[r].state]
    <3>1. [present |-> obj[r].exists, protected |-> obj[r].fin,
           deleting |-> TRUE, state |-> obj[r].state] \in Abs!Lives
      BY <1>0 DEF Abs!Lives, TypeOK, Object, States, Abs!States
    <3>2. [[present |-> obj[r].exists, protected |-> obj[r].fin,
            deleting |-> TRUE, state |-> obj[r].state] EXCEPT !.present = obj[r].fin]
          \in Abs!Lives
      BY <1>0, <3>1 DEF Abs!Lives, TypeOK, Object
    <3>3. [present |-> obj[r].fin, protected |-> obj[r].fin,
           deleting |-> TRUE, state |-> obj[r].state] \in Abs!Lives
      BY <1>0 DEF Abs!Lives, TypeOK, Object, States, Abs!States
    <3>4. QED
      BY <3>2, <3>3, LifeExt
  <2>6. [Lifecycle EXCEPT ![r].deleting = TRUE, ![r].present = Lifecycle[r].protected]
          = [Lifecycle EXCEPT ![r] =
               [present |-> obj[r].fin, protected |-> obj[r].fin,
                deleting |-> TRUE, state |-> obj[r].state]]
    BY <2>3, <2>4, MapAt
  <2>7. Abs!RequestDeletion(r)
    BY <1>4, <2>2, <2>6, MapAt DEF RequestDeletion, Abs!RequestDeletion
  <2>8. QED
    BY <2>7 DEF Abs!Next
<1>5. ASSUME NEW r \in Res, EditChartFlags(r) PROVE [Abs!Next]_Lifecycle
  <2>1. obj[r] \in Object
    BY <1>0 DEF TypeOK
  <2>2. UNCHANGED Lifecycle
    BY <1>0, <1>5, <2>1, MapKey DEF EditChartFlags, Lifecycle, Object
  <2>3. QED
    BY <2>2
<1>6. ASSUME NEW r \in Res, CreateResource(r) PROVE [Abs!Next]_Lifecycle
  <2>1. PICK n \in Created : obj' = [obj EXCEPT ![r] = n]
    BY <1>6 DEF CreateResource
  <2>2. n \in Object /\ n.exists /\ ~n.fin /\ ~n.deleting /\ n.state = ""
    BY DEF Created
  <2>3. [present |-> n.exists, protected |-> n.fin, deleting |-> n.deleting,
         state |-> n.state] = Abs!Fresh
    BY <2>2 DEF Abs!Fresh, Object
  <2>6. Lifecycle' = [Lifecycle EXCEPT ![r] = Abs!Fresh]
    BY <1>0, <2>1, <2>2, <2>3, MapKey
  <2>4. Abs!Recreate(r)
    BY <1>6, <2>6, MapAt DEF CreateResource, Abs!Recreate
  <2>5. QED
    BY <2>4 DEF Abs!Next
<1>7. QED
  BY <1>1, <1>2, <1>3, <1>4, <1>5, <1>6 DEF Next

\* The initial states map to the initial state of the lifecycle: every
\* resource as its owner created it.
LEMMA RefineInit == Init => Abs!Init
<1> SUFFICES ASSUME Init PROVE Abs!Init
  OBVIOUS
<1>1. TypeOK
  BY TypeOKInit
<1>2. ASSUME NEW r \in Res PROVE Lifecycle[r] = Abs!Fresh
  <2>1. obj[r] \in Created
    BY DEF Init
  <2>2. Abs!Fresh \in Abs!Lives
    BY DEF Abs!Fresh, Abs!Lives, Abs!States
  <2>3. /\ obj[r].exists = TRUE /\ obj[r].fin = FALSE
        /\ obj[r].deleting = FALSE /\ obj[r].state = ""
    BY <2>1 DEF Created, Object
  <2>4. /\ Lifecycle[r].present = Abs!Fresh.present
        /\ Lifecycle[r].protected = Abs!Fresh.protected
        /\ Lifecycle[r].deleting = Abs!Fresh.deleting
        /\ Lifecycle[r].state = Abs!Fresh.state
    BY <2>3, MapAt DEF Abs!Fresh
  <2>5. Lifecycle[r] \in Abs!Lives
    BY <1>1, MapType
  <2>6. QED
    BY <2>2, <2>4, <2>5, LifeExt
<1>3. QED
  BY <1>2 DEF Abs!Init, Lifecycle

\* The reconciler, with its cache, its crash restarts and the owner's
\* edits, implements the lifecycle: every behaviour of ManifestReconciler
\* maps under Lifecycle to a behaviour of FinalizerLifecycle.  The engine
\* never moves a resource without the finalizer or one being deleted along
\* the state table, and never releases one that has not reached Deleting.
THEOREM Refinement == Spec => ImplementsLifecycle
<1>1. Init => RInv /\ Abs!Init
  BY RInvInit, RefineInit
<1>2. RInv /\ [Next]_vars => RInv' /\ [Abs!Next]_Lifecycle
  BY RInvStep, RefineStep
<1>3. QED
  BY <1>1, <1>2, PTL DEF Spec, ImplementsLifecycle, Abs!Spec

=============================================================================
