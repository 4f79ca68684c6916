------------------------- MODULE ManifestReconciler -------------------------
(***************************************************************************)
(* The declarative ManifestReconciler (src/unnamed/part_000, package       *)
(* declarative) together with the parts of its environment it relies on:  *)
(* the API server holding each custom resource, the informer cache the    *)
(* reconciler reads from, the controller process that may panic and       *)
(* restart, and the resource owner who requests deletion or edits the     *)
(* spec.                                                                   *)
(*                                                                         *)
(* One call of Reconcile is one atomic step: it reads the cached copy of  *)
(* the resource, takes exactly one branch and makes at most one write.    *)
(* The write carries the resourceVersion of the copy read, so the API     *)
(* server rejects it (Conflict / NotFound) when the object changed since. *)
(* Because every branch is a pure function of the copy read, comparing    *)
(* the copy with the server's object stands for the resourceVersion check.*)
(***************************************************************************)
EXTENDS Naturals

CONSTANTS
    Res,               \* the resource keys (namespace/name) of the custom kind
    Repr,              \* representation of the prototype given to Inject
    LabelsConfigured   \* manifestOptions.resourceLabels is non-empty

\* Representations a BaseCustomObject can have: a type implementing
\* types.CustomObject, or *unstructured.Unstructured.
Reprs == {"typed", "unstructured"}

ASSUME ResAssumption == Res # {}
ASSUME ReprAssumption == Repr \in Reprs
ASSUME LabelsAssumption == LabelsConfigured \in BOOLEAN

\* status.State: "" is types.CustomState's zero value.
States == {"", "Processing", "Ready", "Error", "Deleting"}

(***************************************************************************)
(* A resource as the API server stores it.  exists: the object is stored; *)
(* deleting: metadata.deletionTimestamp is set; fin: the finalizer        *)
(* "custom-deletion-finalizer" is present; hasLabels: metadata.labels is  *)
(* a non-nil map; labeled: the configured resource labels are among them; *)
(* state: status.State; flagsOk: spec.ChartFlags parses with strvals.     *)
(* A removed object keeps its last fields, so properties can speak of the *)
(* state it was removed in.                                               *)
(***************************************************************************)
Object == [exists: BOOLEAN, deleting: BOOLEAN, fin: BOOLEAN,
           hasLabels: BOOLEAN, labeled: BOOLEAN, state: States,
           flagsOk: BOOLEAN]

\* A resource as its owner creates it.
Created == {o \in Object : o.exists /\ ~o.deleting /\ ~o.fin
                           /\ ~o.labeled /\ o.state = ""}

VARIABLES
    obj,            \* obj[r]: the object stored by the API server
    cache,          \* cache[r]: the informer's copy that Get returns
    labelsPending   \* r.options.resourceLabels is still non-empty (in memory)

vars == <<obj, cache, labelsPending>>

TypeOK ==
    /\ obj \in [Res -> Object]
    /\ cache \in [Res -> Object]
    /\ labelsPending \in BOOLEAN

\* Inject stores the prototype and the client; the manager syncs the cache
\* before any worker starts.
Init ==
    /\ obj \in [Res -> Created]
    /\ cache = obj
    /\ labelsPending = LabelsConfigured

-----------------------------------------------------------------------------
(***************************************************************************)
(* Helpers translated from the source.                                    *)
(***************************************************************************)

\* r.prototype.DeepCopyObject().(types.CustomObject) succeeds.
IsCustomObject == Repr = "typed"

\* prepareInstallInfo assigns to a field of the nil *Unstructured it
\* declared when the object is a types.CustomObject: a nil dereference.
PrepareInstallInfoPanics == Repr = "typed"

\* Outcomes of getManifestClient: strvals.ParseInto fails on malformed
\* flags; manifest.NewOperations may still fail on well-formed ones.
ManifestClientOutcomes(o) == IF o.flagsOk THEN BOOLEAN ELSE {FALSE}

\* The write succeeds only when the object read is still the stored one.
Fresh(r) == obj[r] = cache[r]

\* r.nativeClient.Update: writes metadata (finalizers, labels); with the
\* status subresource the status of the request is ignored.
UpdateMeta(r, o) ==
    obj' = IF Fresh(r)
           THEN [obj EXCEPT ![r].fin = o.fin, ![r].hasLabels = o.hasLabels,
                            ![r].labeled = o.labeled]
           ELSE obj

\* r.nativeClient.Status().Update: writes status only.
UpdateStatus(r, o) ==
    obj' = IF Fresh(r) THEN [obj EXCEPT ![r].state = o.state] ELSE obj

\* An unrecovered panic in a worker ends the process; after the restart
\* Inject runs again and the new cache is listed from the API server.
Crash ==
    /\ cache' = obj
    /\ labelsPending' = LabelsConfigured
    /\ UNCHANGED obj

-----------------------------------------------------------------------------
(***************************************************************************)
(* Reconcile and its handlers.  Each reads o == cache[r].                  *)
(***************************************************************************)

\* Deletion requested and status not yet Deleting.
DeletionUnobserved(o) == o.deleting /\ o.state # "Deleting"

\* Mutant: the switch is reached without the finalizer check.
PassesGatesWithoutFinalizer(o) == ~DeletionUnobserved(o)

\* Mutant: the deletion check is made after the switch, not before it.
PassesGatesWithoutDeletionCheck(o) == o.fin

\* The call gets past the deletion check and the finalizer check and
\* reaches the switch on status.State.
PassesGates(o) == ~DeletionUnobserved(o) /\ o.fin

\* Mutant: status Deleting sent with Update instead of Status().Update.
MarkDeletingViaUpdate(r) ==
    LET o == cache[r] IN
    /\ DeletionUnobserved(o)
    /\ UpdateMeta(r, [o EXCEPT !.state = "Deleting"])
    /\ UNCHANGED <<cache, labelsPending>>

\* Lines 89-97: set status Deleting.
MarkDeleting(r) ==
    LET o == cache[r] IN
    /\ DeletionUnobserved(o)
    /\ UpdateStatus(r, [o EXCEPT !.state = "Deleting"])
    /\ UNCHANGED <<cache, labelsPending>>

\* Lines 99-102: controllerutil.AddFinalizer reports a change; Update.
AddFinalizer(r) ==
    LET o == cache[r] IN
    /\ ~DeletionUnobserved(o)
    /\ ~o.fin
    /\ UpdateMeta(r, [o EXCEPT !.fin = TRUE])
    /\ UNCHANGED <<cache, labelsPending>>

\* Mutant: the branch tests the object's own labels (len(labels) > 0)
\* instead of the configured ones.
HandleInitialStateObjectLabels(r) ==
    LET o == cache[r] IN
    /\ PassesGates(o)
    /\ o.state = ""
    /\ \/ /\ o.hasLabels
          /\ labelsPending' = FALSE
          /\ UpdateMeta(r, [o EXCEPT !.labeled = labelsPending])
          /\ UNCHANGED cache
       \/ /\ ~o.hasLabels
          /\ UpdateStatus(r, [o EXCEPT !.state = "Processing"])
          /\ UNCHANGED <<cache, labelsPending>>

\* State "": apply the configured labels once (assigning into the object's
\* nil label map panics), else set Processing.  The options are emptied
\* before the Update is sent, whatever its outcome.
HandleInitialState(r) ==
    LET o == cache[r] IN
    /\ PassesGates(o)
    /\ o.state = ""
    /\ \/ /\ labelsPending /\ ~o.hasLabels
          /\ Crash
       \/ /\ labelsPending /\ o.hasLabels
          /\ labelsPending' = FALSE
          /\ UpdateMeta(r, [o EXCEPT !.labeled = TRUE])
          /\ UNCHANGED cache
       \/ /\ ~labelsPending
          /\ UpdateStatus(r, [o EXCEPT !.state = "Processing"])
          /\ UNCHANGED <<cache, labelsPending>>

\* getManifestClient fails: status Error.  It succeeds: prepareInstallInfo
\* is called, which panics before Install or Uninstall is reached.
InstallOrUninstall(r) ==
    LET o == cache[r] IN
    \E clientOk \in ManifestClientOutcomes(o) :
        \/ /\ ~clientOk
           /\ UpdateStatus(r, [o EXCEPT !.state = "Error"])
           /\ UNCHANGED <<cache, labelsPending>>
        \/ /\ clientOk /\ PrepareInstallInfoPanics
           /\ Crash

\* State Processing.
HandleProcessingState(r) ==
    /\ PassesGates(cache[r])
    /\ cache[r].state = "Processing"
    /\ InstallOrUninstall(r)

\* State Deleting.
HandleDeletingState(r) ==
    /\ PassesGates(cache[r])
    /\ cache[r].state = "Deleting"
    /\ InstallOrUninstall(r)

\* Mutant: the state literal is misspelt ("processing").
HandleErrorStateLowercase(r) ==
    LET o == cache[r] IN
    /\ PassesGates(o)
    /\ o.state = "Error"
    /\ UpdateStatus(r, [o EXCEPT !.state = "processing"])
    /\ UNCHANGED <<cache, labelsPending>>

\* Mutant: status Processing sent with Update instead of Status().Update.
HandleErrorStateViaUpdate(r) ==
    LET o == cache[r] IN
    /\ PassesGates(o)
    /\ o.state = "Error"
    /\ UpdateMeta(r, [o EXCEPT !.state = "Processing"])
    /\ UNCHANGED <<cache, labelsPending>>

\* State Error: set Processing.
HandleErrorState(r) ==
    LET o == cache[r] IN
    /\ PassesGates(o)
    /\ o.state = "Error"
    /\ UpdateStatus(r, [o EXCEPT !.state = "Processing"])
    /\ UNCHANGED <<cache, labelsPending>>

\* One call of Reconcile for key r; Get on a key the cache does not hold
\* returns NotFound and the call ends without effect.
Reconcile(r) ==
    /\ IsCustomObject
    /\ cache[r].exists
    /\ \/ MarkDeleting(r)
       \/ AddFinalizer(r)
       \/ HandleInitialState(r)
       \/ HandleProcessingState(r)
       \/ HandleDeletingState(r)
       \/ HandleErrorState(r)

-----------------------------------------------------------------------------
(***************************************************************************)
(* The environment.                                                       *)
(***************************************************************************)

\* A watch event brings the cached copy up to date.
SyncCache(r) ==
    /\ cache[r] # obj[r]
    /\ cache' = [cache EXCEPT ![r] = obj[r]]
    /\ UNCHANGED <<obj, labelsPending>>

\* The owner deletes the resource: the deletionTimestamp is set, and an
\* object without finalizers is removed at once.
RequestDeletion(r) ==
    /\ obj[r].exists /\ ~obj[r].deleting
    /\ obj' = [obj EXCEPT ![r].deleting = TRUE, ![r].exists = obj[r].fin]
    /\ UNCHANGED <<cache, labelsPending>>

\* The owner edits spec.ChartFlags.
EditChartFlags(r) ==
    /\ obj[r].exists
    /\ obj' = [obj EXCEPT ![r].flagsOk = ~obj[r].flagsOk]
    /\ UNCHANGED <<cache, labelsPending>>

\* The owner creates a resource under a removed key.
CreateResource(r) ==
    /\ ~obj[r].exists
    /\ \E o \in Created : obj' = [obj EXCEPT ![r] = o]
    /\ UNCHANGED <<cache, labelsPending>>

Next ==
    \E r \in Res :
        \/ Reconcile(r)
        \/ SyncCache(r)
        \/ RequestDeletion(r)
        \/ EditChartFlags(r)
        \/ CreateResource(r)

\* The informer delivers every change of the object, so a cached copy that
\* is stale infinitely often is eventually refreshed; every change and
\* every failed call enqueues the key again, so a call that can change
\* something infinitely often is eventually made, however often the owner
\* edits the resource.  The owner is under no obligation.
Fairness ==
    \A r \in Res : SF_vars(Reconcile(r)) /\ SF_vars(SyncCache(r))

Spec == Init /\ [][Next]_vars /\ Fairness

-----------------------------------------------------------------------------
(***************************************************************************)
(* Properties.                                                            *)
(***************************************************************************)

\* Every resource the controller took past the initial state, or whose
\* deletion was requested while stored, carries the deletion finalizer:
\* AddFinalizer (line 100) gates the switch and the Status().Update calls
\* are rejected when the copy read is stale.
FinalizerGuardsProgress ==
    \A r \in Res :
        obj[r].exists /\ (obj[r].state # "" \/ obj[r].deleting) => obj[r].fin

\* The API server removes a resource only if the controller never moved it
\* past the initial state, so nothing it may have installed for the
\* resource is orphaned: the finalizer protocol of Reconcile (lines
\* 89-102) against deletions by the owner and stale cached reads.
NoOrphanedRelease ==
    \A r \in Res : ~obj[r].exists => obj[r].state = ""

\* Deletion preempts installation: no step moves a resource whose deletion
\* was requested into Processing or Ready.  Reconcile checks the
\* deletionTimestamp before the switch on status.State (line 89), and a
\* call that read the object before the deletion has its write rejected.
DeletionPreemptsStep ==
    \A r \in Res :
        obj[r].deleting /\ obj'[r].state # obj[r].state
            => obj'[r].state \notin {"Processing", "Ready"}

\* Deletion preempts installation in every step of every behaviour.
DeletionPreempts == [][DeletionPreemptsStep]_vars

\* The refinement mapping: what the API server stores of each resource,
\* with the cache, the labels, the flags and the process left out.
Lifecycle ==
    [r \in Res |-> [present |-> obj[r].exists, protected |-> obj[r].fin,
                    deleting |-> obj[r].deleting, state |-> obj[r].state]]

Abs == INSTANCE FinalizerLifecycle WITH life <- Lifecycle

\* Reconcile, with its stale reads, rejected writes and crash restarts,
\* implements the finalizer lifecycle: every step either leaves the
\* stored resources as they are or is a step the FinalizerGate and the
\* state table allow (add the finalizer before any progress, advance only
\* protected resources not being deleted, only Deleting or Error once
\* deletion was requested).
ImplementsLifecycle == Abs!Spec

\* A resource in Error is retried: HandleErrorState (line 238) eventually
\* moves it to Processing, or deletion moves it to Deleting.
ErrorRetried ==
    \A r \in Res :
        obj[r].exists /\ obj[r].state = "Error"
            ~> obj[r].state \in {"Processing", "Deleting"}

\* A requested deletion is eventually recorded in the status (line 92) or
\* the resource is gone.
DeletionObserved ==
    \A r \in Res :
        obj[r].exists /\ obj[r].deleting
            ~> ~obj[r].exists \/ obj[r].state = "Deleting"

\* A newly created resource eventually leaves the initial state
\* (HandleInitialState, line 120), or is deleted.
CreatedLeavesInitial ==
    \A r \in Res :
        obj[r].exists /\ ~obj[r].deleting /\ obj[r].state = ""
            ~> ~obj[r].exists \/ obj[r].deleting \/ obj[r].state # ""

\* Spec 4.2 and 8: once deletion is requested the uninstall runs and the
\* finalizer is released, so the resource is eventually removed
\* (HandleDeletingState, lines 193-236).
DeletionCompletes ==
    \A r \in Res : obj[r].exists /\ obj[r].deleting ~> ~obj[r].exists

\* Spec 3: once Deleting is entered the resource never returns to a
\* non-deleting state (HandleDeletingState's failure paths, lines 206-228).
DeletingIsAbsorbing ==
    [][\A r \in Res :
         obj[r].exists /\ obj[r].state = "Deleting"
            => obj'[r].state = "Deleting" \/ ~obj'[r].exists]_vars

\* With resource labels configured, every resource the controller moved
\* past the initial state (other than by deletion) carries them (HandleInitialState, lines
\* 128-137, applies them before setting Processing).
LabelsBeforeProcessing ==
    LabelsConfigured =>
        \A r \in Res :
            obj[r].exists /\ ~obj[r].deleting /\ obj[r].state # ""
                => obj[r].labeled

=============================================================================
