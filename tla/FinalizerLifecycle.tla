------------------------- MODULE FinalizerLifecycle -------------------------
(***************************************************************************)
(* The lifecycle of a custom resource as the FinalizerGate and the state   *)
(* table of the reconciliation engine promise it (spec.md 3, 4.2, 4.4),    *)
(* with no cache, no process and no representation: what the API server   *)
(* stores of each resource, and which changes the controller and the       *)
(* owner may make to it.                                                   *)
(*                                                                         *)
(* present: the object is stored; protected: it carries the deletion       *)
(* finalizer; deleting: deletion was requested; state: status.State.  A    *)
(* removed object keeps its last fields.                                   *)
(***************************************************************************)
CONSTANT Res

VARIABLE life

States == {"", "Processing", "Ready", "Error", "Deleting"}

Lives == [present : BOOLEAN, protected : BOOLEAN, deleting : BOOLEAN,
          state : States]

\* A resource as its owner creates it.
Fresh == [present |-> TRUE, protected |-> FALSE, deleting |-> FALSE,
          state |-> ""]

TypeOK == life \in [Res -> Lives]

Init == life = [r \in Res |-> Fresh]

\* The state table without deletion: Empty to Processing, Processing to
\* Ready or Error, Error back to Processing.
Progresses(s, t) ==
    <<s, t>> \in {<<"", "Processing">>, <<"Processing", "Ready">>,
                  <<"Processing", "Error">>, <<"Error", "Processing">>}

\* The engine adds the finalizer to a stored resource not being deleted.
Protect(r) ==
    /\ life[r].present /\ ~life[r].protected /\ ~life[r].deleting
    /\ life' = [life EXCEPT ![r].protected = TRUE]

\* The engine advances a protected resource along the table, but never
\* one whose deletion was requested.
Progress(r) ==
    /\ life[r].present /\ life[r].protected /\ ~life[r].deleting
    /\ \E t \in States : /\ Progresses(life[r].state, t)
                         /\ life' = [life EXCEPT ![r].state = t]

\* After a deletion request the engine records Deleting, and a failed
\* teardown records Error.
Teardown(r) ==
    /\ life[r].present /\ life[r].protected /\ life[r].deleting
    /\ \E t \in {"Deleting", "Error"} :
          /\ t # life[r].state
          /\ life' = [life EXCEPT ![r].state = t]

\* The engine removes the finalizer once teardown completed; the API server
\* then removes the resource.
Release(r) ==
    /\ life[r].present /\ life[r].protected /\ life[r].deleting
    /\ life[r].state = "Deleting"
    /\ life' = [life EXCEPT ![r].present = FALSE, ![r].protected = FALSE]

\* The owner requests deletion; a resource without the finalizer is
\* removed at once.
RequestDeletion(r) ==
    /\ life[r].present /\ ~life[r].deleting
    /\ life' = [life EXCEPT ![r].deleting = TRUE,
                            ![r].present = life[r].protected]

\* The owner creates a resource under a removed key.
Recreate(r) ==
    /\ ~life[r].present
    /\ life' = [life EXCEPT ![r] = Fresh]

Next ==
    \E r \in Res :
        \/ Protect(r) \/ Progress(r) \/ Teardown(r) \/ Release(r)
        \/ RequestDeletion(r) \/ Recreate(r)

Spec == Init /\ [][Next]_life

=============================================================================
