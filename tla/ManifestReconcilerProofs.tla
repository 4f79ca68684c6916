--------------------- MODULE ManifestReconcilerProofs ---------------------
(***************************************************************************)
(* Proofs about ManifestReconciler, for every set of resource keys and    *)
(* every value of the other constants.                                    *)
(***************************************************************************)
EXTENDS ManifestReconciler, TLAPS

\* The strengthening of NoOrphanedRelease that is inductive: a removal
\* (RequestDeletion on an object without the finalizer) can only happen in
\* the initial state because every step past it is taken with the
\* finalizer present.
IInv == TypeOK /\ FinalizerGuardsProgress /\ NoOrphanedRelease

\* The record updates the actions make stay in Object.
LEMMA ObjectUpdates ==
    ASSUME NEW o \in Object
    PROVE  /\ \A s \in States : [o EXCEPT !.state = s] \in Object
           /\ \A b \in BOOLEAN : [o EXCEPT !.fin = b] \in Object
           /\ \A b \in BOOLEAN : [o EXCEPT !.labeled = b] \in Object
           /\ \A b \in BOOLEAN : [o EXCEPT !.flagsOk = b] \in Object
           /\ \A b, c \in BOOLEAN : [o EXCEPT !.deleting = b, !.exists = c] \in Object
BY DEF Object

-----------------------------------------------------------------------------
(***************************************************************************)
(* Type correctness.                                                      *)
(***************************************************************************)

\* The initial states are well typed.
LEMMA TypeOKInit == Init => TypeOK
<1> SUFFICES ASSUME Init PROVE TypeOK
  OBVIOUS
<1>1. \A r \in Res : obj[r] \in Object
  BY DEF Init, Created
<1>2. obj \in [Res -> Object]
  BY <1>1 DEF Init
<1>3. QED
  BY <1>2, LabelsAssumption DEF Init, TypeOK

\* A write of either kind leaves obj a function into Object.
LEMMA UpdateTypes ==
    ASSUME TypeOK, NEW r \in Res, NEW o \in Object
    PROVE  /\ UpdateMeta(r, o) => obj' \in [Res -> Object]
           /\ UpdateStatus(r, o) => obj' \in [Res -> Object]
BY DEF TypeOK, UpdateMeta, UpdateStatus, Object

\* One call of Reconcile keeps the state well typed.
LEMMA TypeOKReconcile ==
    ASSUME TypeOK, NEW r \in Res, Reconcile(r)
    PROVE  TypeOK'
<1> DEFINE o == cache[r]
<1>1. o \in Object
  BY DEF TypeOK
<1>2. /\ [o EXCEPT !.state = "Deleting"] \in Object
      /\ [o EXCEPT !.state = "Processing"] \in Object
      /\ [o EXCEPT !.state = "Error"] \in Object
      /\ [o EXCEPT !.fin = TRUE] \in Object
      /\ [o EXCEPT !.labeled = TRUE] \in Object
  BY <1>1, ObjectUpdates DEF States
<1>3. Crash => TypeOK'
  BY LabelsAssumption DEF Crash, TypeOK
<1>4. CASE MarkDeleting(r)
  BY <1>2, <1>4, UpdateTypes DEF MarkDeleting, TypeOK
<1>5. CASE AddFinalizer(r)
  BY <1>2, <1>5, UpdateTypes DEF AddFinalizer, TypeOK
<1>6. CASE HandleInitialState(r)
  BY <1>2, <1>3, <1>6, UpdateTypes DEF HandleInitialState, TypeOK
<1>7. CASE HandleProcessingState(r) \/ HandleDeletingState(r)
  <2>1. InstallOrUninstall(r)
    BY <1>7 DEF HandleProcessingState, HandleDeletingState
  <2>2. QED
    BY <1>2, <1>3, <2>1, UpdateTypes DEF InstallOrUninstall, TypeOK
<1>8. CASE HandleErrorState(r)
  BY <1>2, <1>8, UpdateTypes DEF HandleErrorState, TypeOK
<1>9. QED
  BY <1>4, <1>5, <1>6, <1>7, <1>8 DEF Reconcile

\* Every step keeps the state well typed.
LEMMA TypeOKStep == TypeOK /\ [Next]_vars => TypeOK'
<1> SUFFICES ASSUME TypeOK, [Next]_vars PROVE TypeOK'
  OBVIOUS
<1>1. CASE UNCHANGED vars
  BY <1>1 DEF vars, TypeOK
<1>2. ASSUME NEW r \in Res, Reconcile(r) PROVE TypeOK'
  BY <1>2, TypeOKReconcile
<1>3. ASSUME NEW r \in Res, SyncCache(r) PROVE TypeOK'
  BY <1>3 DEF SyncCache, TypeOK
<1>4. ASSUME NEW r \in Res, RequestDeletion(r) PROVE TypeOK'
  <2>1. obj[r] \in Object
    BY DEF TypeOK
  <2>2. [obj[r] EXCEPT !.deleting = TRUE, !.exists = obj[r].fin] \in Object
    <3>1. obj[r].fin \in BOOLEAN
      BY <2>1 DEF Object
    <3>2. QED
      BY <2>1, <3>1, ObjectUpdates
  <2>3. obj' = [obj EXCEPT ![r] = [obj[r] EXCEPT !.deleting = TRUE,
                                                 !.exists = obj[r].fin]]
    BY <1>4 DEF RequestDeletion
  <2>4. QED
    BY <2>2, <2>3, <1>4 DEF RequestDeletion, TypeOK
<1>5. ASSUME NEW r \in Res, EditChartFlags(r) PROVE TypeOK'
  BY <1>5, ObjectUpdates DEF EditChartFlags, TypeOK
<1>6. ASSUME NEW r \in Res, CreateResource(r) PROVE TypeOK'
  BY <1>6 DEF CreateResource, TypeOK, Created
<1>7. QED
  BY <1>1, <1>2, <1>3, <1>4, <1>5, <1>6 DEF Next

\* Every reachable state is well typed.
THEOREM TypeCorrect == Spec => []TypeOK
BY TypeOKInit, TypeOKStep, PTL DEF Spec

-----------------------------------------------------------------------------
(***************************************************************************)
(* No resource is removed after the controller moved it past the initial *)
(* state.                                                                 *)
(***************************************************************************)

\* The two conjuncts of the invariant, for one stored object.
KeyInv(o) ==
    /\ o.exists /\ (o.state # "" \/ o.deleting) => o.fin
    /\ ~o.exists => o.state = ""

\* The invariant is KeyInv of every stored object.
LEMMA KeyInvAll ==
    FinalizerGuardsProgress /\ NoOrphanedRelease <=> \A r \in Res : KeyInv(obj[r])
BY DEF FinalizerGuardsProgress, NoOrphanedRelease, KeyInv

\* A step that rewrites one key preserves the invariant if the new object
\* satisfies it.
LEMMA KeyUpdate ==
    ASSUME obj \in [Res -> Object], \A s \in Res : KeyInv(obj[s]),
           NEW r \in Res, NEW n, KeyInv(n),
           obj' = [obj EXCEPT ![r] = n]
    PROVE  \A s \in Res : KeyInv(obj'[s])
OBVIOUS

\* The steps of one call of Reconcile: every write is made from the copy
\* read, which is the stored object when the write is accepted.
LEMMA InvReconcile ==
    ASSUME TypeOK, \A s \in Res : KeyInv(obj[s]), NEW r \in Res, Reconcile(r)
    PROVE  \A s \in Res : KeyInv(obj'[s])
<1> DEFINE o == cache[r]
<1>0. o \in Object
  BY DEF TypeOK
<1>1. o.exists
  BY DEF Reconcile
<1>2. ASSUME NEW x \in States, x # "" => o.fin,
             UpdateStatus(r, [o EXCEPT !.state = x])
      PROVE  \A s \in Res : KeyInv(obj'[s])
  <2>1. CASE Fresh(r)
    <3>1. obj' = [obj EXCEPT ![r] = [obj[r] EXCEPT !.state = x]]
      BY <1>0, <1>2, <2>1 DEF UpdateStatus, Fresh, TypeOK, Object
    <3>2. KeyInv([obj[r] EXCEPT !.state = x])
      BY <1>1, <1>2, <2>1 DEF Fresh, KeyInv, TypeOK, Object
    <3>3. QED
      BY <3>1, <3>2, KeyUpdate DEF TypeOK
  <2>2. CASE ~Fresh(r)
    BY <1>2, <2>2 DEF UpdateStatus
  <2>3. QED
    BY <2>1, <2>2
<1>3. ASSUME NEW n \in Object, n.fin \in {o.fin, TRUE},
             UpdateMeta(r, n)
      PROVE  \A s \in Res : KeyInv(obj'[s])
  <2>1. CASE Fresh(r)
    <3>1. obj' = [obj EXCEPT ![r] = [obj[r] EXCEPT !.fin = n.fin,
                                                   !.hasLabels = n.hasLabels,
                                                   !.labeled = n.labeled]]
      BY <1>0, <1>3, <2>1 DEF UpdateMeta, Fresh, TypeOK, Object
    <3>2. KeyInv([obj[r] EXCEPT !.fin = n.fin, !.hasLabels = n.hasLabels,
                                !.labeled = n.labeled])
      BY <1>3, <2>1 DEF Fresh, KeyInv, TypeOK, Object
    <3>3. QED
      BY <3>1, <3>2, KeyUpdate DEF TypeOK
  <2>2. CASE ~Fresh(r)
    BY <1>3, <2>2 DEF UpdateMeta
  <2>3. QED
    BY <2>1, <2>2
<1>4. Crash => \A s \in Res : KeyInv(obj'[s])
  BY DEF Crash
<1>6. CASE MarkDeleting(r)
  \* The copy read has the deletion timestamp and is stored, so it has
  \* the finalizer, or the write is rejected.
  <2>1. CASE Fresh(r)
    <3>1. o.fin
      BY <1>1, <1>6, <2>1 DEF MarkDeleting, DeletionUnobserved, Fresh, KeyInv
    <3>2. QED
      BY <1>2, <1>6, <3>1 DEF MarkDeleting, States
  <2>2. CASE ~Fresh(r)
    BY <1>6, <2>2 DEF MarkDeleting, UpdateStatus
  <2>3. QED
    BY <2>1, <2>2
<1>7. CASE AddFinalizer(r)
  <2>1. [o EXCEPT !.fin = TRUE] \in Object
    BY <1>0, ObjectUpdates
  <2>2. [o EXCEPT !.fin = TRUE].fin \in {o.fin, TRUE}
    BY <1>0 DEF Object
  <2>3. QED
    BY <1>3, <1>7, <2>1, <2>2 DEF AddFinalizer
<1>8. CASE HandleInitialState(r)
  <2>1. o.fin
    BY <1>8 DEF HandleInitialState, PassesGates
  <2>2. [o EXCEPT !.labeled = TRUE] \in Object
    BY <1>0, ObjectUpdates
  <2>3. [o EXCEPT !.labeled = TRUE].fin \in {o.fin, TRUE}
    BY <1>0 DEF Object
  <2>4. CASE labelsPending /\ ~o.hasLabels /\ Crash
    BY <1>4, <2>4
  <2>5. CASE labelsPending /\ o.hasLabels /\ UpdateMeta(r, [o EXCEPT !.labeled = TRUE])
    BY <1>3, <2>2, <2>3, <2>5
  <2>6. CASE ~labelsPending /\ UpdateStatus(r, [o EXCEPT !.state = "Processing"])
    BY <1>2, <2>1, <2>6 DEF States
  <2>7. QED
    BY <1>8, <2>4, <2>5, <2>6 DEF HandleInitialState
<1>9. CASE HandleProcessingState(r) \/ HandleDeletingState(r)
  <2>1. o.fin /\ InstallOrUninstall(r)
    BY <1>9 DEF HandleProcessingState, HandleDeletingState, PassesGates
  <2>2. QED
    BY <1>2, <1>4, <2>1 DEF InstallOrUninstall, States
<1>10. CASE HandleErrorState(r)
  <2>1. o.fin
    BY <1>10 DEF HandleErrorState, PassesGates
  <2>2. QED
    BY <1>2, <1>10, <2>1 DEF HandleErrorState, States
<1>11. QED
  BY <1>6, <1>7, <1>8, <1>9, <1>10 DEF Reconcile

\* Every step preserves the inductive invariant.
LEMMA InvStep == IInv /\ [Next]_vars => IInv'
<1> SUFFICES ASSUME IInv, [Next]_vars PROVE IInv'
  OBVIOUS
<1>1. TypeOK /\ \A s \in Res : KeyInv(obj[s])
  BY KeyInvAll DEF IInv
<1>2. TypeOK'
  BY <1>1, TypeOKStep
<1>3. SUFFICES \A s \in Res : KeyInv(obj'[s])
  BY <1>2, KeyInvAll DEF IInv, FinalizerGuardsProgress, NoOrphanedRelease, KeyInv
<1>4. CASE UNCHANGED vars
  BY <1>1, <1>4 DEF vars
<1>5. ASSUME NEW r \in Res, Reconcile(r) PROVE \A s \in Res : KeyInv(obj'[s])
  BY <1>1, <1>5, InvReconcile
<1>6. ASSUME NEW r \in Res, SyncCache(r) PROVE \A s \in Res : KeyInv(obj'[s])
  BY <1>1, <1>6 DEF SyncCache
<1>7. ASSUME NEW r \in Res, RequestDeletion(r) PROVE \A s \in Res : KeyInv(obj'[s])
  \* An object without the finalizer is removed, and it is still in the
  \* initial state.
  <2>1. KeyInv([obj[r] EXCEPT !.deleting = TRUE, !.exists = obj[r].fin])
    BY <1>1, <1>7 DEF RequestDeletion, KeyInv, TypeOK, Object
  <2>2. QED
    BY <1>1, <1>7, <2>1, KeyUpdate DEF RequestDeletion, TypeOK
<1>8. ASSUME NEW r \in Res, EditChartFlags(r) PROVE \A s \in Res : KeyInv(obj'[s])
  <2>1. KeyInv([obj[r] EXCEPT !.flagsOk = ~obj[r].flagsOk])
    BY <1>1 DEF KeyInv, TypeOK, Object
  <2>2. QED
    BY <1>1, <1>8, <2>1, KeyUpdate DEF EditChartFlags, TypeOK
<1>9. ASSUME NEW r \in Res, CreateResource(r) PROVE \A s \in Res : KeyInv(obj'[s])
  BY <1>1, <1>9, KeyUpdate DEF CreateResource, Created, KeyInv, TypeOK
<1>10. QED
  BY <1>4, <1>5, <1>6, <1>7, <1>8, <1>9 DEF Next

\* The initial states satisfy the inductive invariant.
LEMMA InvInit == Init => IInv
<1> SUFFICES ASSUME Init PROVE IInv
  OBVIOUS
<1>1. \A r \in Res : KeyInv(obj[r])
  BY DEF Init, Created, KeyInv
<1>2. QED
  BY <1>1, TypeOKInit, KeyInvAll DEF IInv

\* The API server never removes a resource the controller took past the
\* initial state: whatever it installed stays protected by the finalizer.
THEOREM NoOrphanedReleaseInvariant == Spec => []NoOrphanedRelease
<1>1. IInv => NoOrphanedRelease
  BY DEF IInv
<1>2. QED
  BY InvInit, InvStep, <1>1, PTL DEF Spec

-----------------------------------------------------------------------------
(***************************************************************************)
(* Deletion preempts installation.                                        *)
(***************************************************************************)

\* The step predicate of DeletionPreempts, for one key.
Preempts(s) ==
    obj[s].deleting /\ obj'[s].state # obj[s].state
        => obj'[s].state \notin {"Processing", "Ready"}

\* A step that leaves every status as it is.
LEMMA StatusKept ==
    ASSUME TypeOK, \A s \in Res : obj'[s].state = obj[s].state
    PROVE  \A s \in Res : Preempts(s)
BY DEF Preempts

\* A status write to one key, made from an object whose deletion was not
\* requested unless the state written is neither Processing nor Ready.
LEMMA StatusWrite ==
    ASSUME TypeOK, NEW r \in Res, NEW x,
           obj' = [obj EXCEPT ![r] = [obj[r] EXCEPT !.state = x]],
           obj[r].deleting => x \notin {"Processing", "Ready"}
    PROVE  \A s \in Res : Preempts(s)
BY DEF Preempts, TypeOK, Object

\* One call of Reconcile never moves a deleting resource to Processing
\* or Ready.
LEMMA PreemptsReconcile ==
    ASSUME TypeOK, NEW r \in Res, Reconcile(r)
    PROVE  \A s \in Res : Preempts(s)
<1> DEFINE o == cache[r]
<1>0. o \in Object
  BY DEF TypeOK
<1>1. ASSUME NEW x, o.deleting => x \notin {"Processing", "Ready"},
             UpdateStatus(r, [o EXCEPT !.state = x])
      PROVE  \A s \in Res : Preempts(s)
  <2>1. CASE Fresh(r)
    <3>1. obj' = [obj EXCEPT ![r] = [obj[r] EXCEPT !.state = x]]
      BY <1>0, <1>1, <2>1 DEF UpdateStatus, Fresh, TypeOK, Object
    <3>2. QED
      BY <1>1, <2>1, <3>1, StatusWrite DEF Fresh
  <2>2. CASE ~Fresh(r)
    BY <1>1, <2>2, StatusKept DEF UpdateStatus
  <2>3. QED
    BY <2>1, <2>2
<1>2. ASSUME NEW n, UpdateMeta(r, n) PROVE \A s \in Res : Preempts(s)
  <2>1. \A s \in Res : obj'[s].state = obj[s].state
    BY <1>2 DEF UpdateMeta, TypeOK, Object
  <2>2. QED
    BY <2>1, StatusKept
<1>3. Crash => \A s \in Res : Preempts(s)
  BY StatusKept DEF Crash
\* Processing is written only from a copy without the deletion timestamp:
\* the handlers that write it run after the deletion check.
<1>4. PassesGates(o) /\ o.state \in {"", "Error"} => ~o.deleting
  BY DEF PassesGates, DeletionUnobserved
<1>5. CASE MarkDeleting(r)
  BY <1>1, <1>5 DEF MarkDeleting
<1>6. CASE AddFinalizer(r)
  BY <1>2, <1>6 DEF AddFinalizer
<1>7. CASE HandleInitialState(r)
  BY <1>1, <1>2, <1>3, <1>4, <1>7 DEF HandleInitialState
<1>8. CASE HandleProcessingState(r) \/ HandleDeletingState(r)
  <2>1. InstallOrUninstall(r)
    BY <1>8 DEF HandleProcessingState, HandleDeletingState
  <2>2. QED
    BY <1>1, <1>3, <2>1 DEF InstallOrUninstall
<1>9. CASE HandleErrorState(r)
  BY <1>1, <1>4, <1>9 DEF HandleErrorState
<1>10. QED
  BY <1>5, <1>6, <1>7, <1>8, <1>9 DEF Reconcile

\* Every step satisfies the step predicate of DeletionPreempts.
LEMMA PreemptsStep ==
    TypeOK /\ [Next]_vars => [\A s \in Res : Preempts(s)]_vars
<1> SUFFICES ASSUME TypeOK, [Next]_vars
             PROVE  [\A s \in Res : Preempts(s)]_vars
  OBVIOUS
<1>1. CASE UNCHANGED vars
  BY <1>1
<1>2. ASSUME NEW r \in Res, Reconcile(r) PROVE \A s \in Res : Preempts(s)
  BY <1>2, PreemptsReconcile
<1>3. ASSUME NEW r \in Res, SyncCache(r) PROVE \A s \in Res : Preempts(s)
  BY <1>3, StatusKept DEF SyncCache
<1>4. ASSUME NEW r \in Res, RequestDeletion(r) \/ EditChartFlags(r)
      PROVE  \A s \in Res : Preempts(s)
  <2>1. \A s \in Res : obj'[s].state = obj[s].state
    BY <1>4 DEF RequestDeletion, EditChartFlags, TypeOK, Object
  <2>2. QED
    BY <2>1, StatusKept
\* A resource created under a removed key starts in the initial state.
<1>5. ASSUME NEW r \in Res, CreateResource(r) PROVE \A s \in Res : Preempts(s)
  BY <1>5 DEF CreateResource, Created, Preempts, TypeOK
<1>6. QED
  BY <1>1, <1>2, <1>3, <1>4, <1>5 DEF Next

\* No step moves a resource whose deletion was requested into Processing
\* or Ready, whatever the cache lag and the owner do.
THEOREM DeletionPreemptsHolds == Spec => DeletionPreempts
<1>1. TypeOK /\ [Next]_vars => [DeletionPreemptsStep]_vars
  BY PreemptsStep DEF DeletionPreemptsStep, Preempts
<1>2. QED
  BY <1>1, TypeCorrect, PTL DEF Spec, DeletionPreempts

=============================================================================
