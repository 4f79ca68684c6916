--------------------- MODULE FinalizerLifecycleProofs ----------------------
(***************************************************************************)
(* Proofs about the abstract finalizer lifecycle (FinalizerLifecycle), for *)
(* every set of resources: what the FinalizerGate promises of a removal.   *)
(***************************************************************************)
EXTENDS FinalizerLifecycle, TLAPS

\* Every stored resource that was advanced along the state table, or whose
\* deletion was requested, carries the finalizer.
ProtectedOnceTouched ==
    \A r \in Res :
        life[r].present /\ (life[r].state # "" \/ life[r].deleting)
            => life[r].protected

\* The API server removes a resource only while it is in its initial
\* state or after its teardown recorded Deleting: the FinalizerGate never
\* lets a resource go in the middle of an installation or after a failed
\* teardown (Error).
RemovedAtRest ==
    \A r \in Res : ~life[r].present => life[r].state \in {"", "Deleting"}

\* The strengthening of RemovedAtRest that is inductive.
LInv == TypeOK /\ ProtectedOnceTouched /\ RemovedAtRest

\* The per-resource form of the invariant.
KeyInv(l) ==
    /\ l \in Lives
    /\ l.present /\ (l.state # "" \/ l.deleting) => l.protected
    /\ ~l.present => l.state \in {"", "Deleting"}

LEMMA LInvByKey == LInv <=> life \in [Res -> Lives] /\ \A r \in Res : KeyInv(life[r])
BY DEF LInv, TypeOK, ProtectedOnceTouched, RemovedAtRest, KeyInv

\* The initial states satisfy it.
LEMMA LInvInit == Init => LInv
<1> SUFFICES ASSUME Init PROVE LInv
  OBVIOUS
<1>1. Fresh \in Lives /\ KeyInv(Fresh)
  BY DEF Fresh, KeyInv, Lives, States
<1>2. life \in [Res -> Lives] /\ \A r \in Res : KeyInv(life[r])
  BY <1>1 DEF Init
<1>3. QED
  BY <1>2, LInvByKey

\* A step of resource r changes only life[r], and keeps KeyInv of it.
LEMMA LInvStep == LInv /\ [Next]_life => LInv'
<1> SUFFICES ASSUME LInv, [Next]_life PROVE LInv'
  OBVIOUS
<1>1. life \in [Res -> Lives] /\ \A r \in Res : KeyInv(life[r])
  BY LInvByKey
<1>2. CASE UNCHANGED life
  BY <1>2 DEF LInv, TypeOK, ProtectedOnceTouched, RemovedAtRest
<1>3. ASSUME NEW r \in Res,
             \/ Protect(r) \/ Progress(r) \/ Teardown(r) \/ Release(r)
             \/ RequestDeletion(r) \/ Recreate(r)
      PROVE  LInv'
  <2> DEFINE l == life[r]
  <2>1. l \in Lives /\ KeyInv(l)
    BY <1>1
  <2>2. PICK n \in Lives : /\ KeyInv(n)
                          /\ life' = [life EXCEPT ![r] = n]
    <3>1. CASE Protect(r)
      <4> DEFINE m == [l EXCEPT !.protected = TRUE]
      <4>1. m \in Lives /\ KeyInv(m)
        BY <2>1, <3>1 DEF Protect, KeyInv, Lives
      <4>2. life' = [life EXCEPT ![r] = m]
        BY <3>1 DEF Protect
      <4>3. QED
        BY <4>1, <4>2
    <3>2. CASE Progress(r)
      <4>1. PICK t \in States : Progresses(l.state, t)
                                /\ life' = [life EXCEPT ![r].state = t]
        BY <3>2 DEF Progress
      <4> DEFINE m == [l EXCEPT !.state = t]
      <4>2. m \in Lives /\ KeyInv(m)
        BY <2>1, <3>2, <4>1 DEF Progress, Progresses, KeyInv, Lives
      <4>3. life' = [life EXCEPT ![r] = m]
        BY <4>1
      <4>4. QED
        BY <4>2, <4>3
    <3>3. CASE Teardown(r)
      <4>1. PICK t \in {"Deleting", "Error"} :
                 life' = [life EXCEPT ![r].state = t]
        BY <3>3 DEF Teardown
      <4> DEFINE m == [l EXCEPT !.state = t]
      <4>2. m \in Lives /\ KeyInv(m)
        BY <2>1, <3>3, <4>1 DEF Teardown, KeyInv, Lives, States
      <4>3. life' = [life EXCEPT ![r] = m]
        BY <4>1
      <4>4. QED
        BY <4>2, <4>3
    <3>4. CASE Release(r)
      <4> DEFINE m == [l EXCEPT !.present = FALSE, !.protected = FALSE]
      <4>1. m \in Lives /\ KeyInv(m)
        BY <2>1, <3>4 DEF Release, KeyInv, Lives
      <4>2. life' = [life EXCEPT ![r] = m]
        BY <3>4 DEF Release
      <4>3. QED
        BY <4>1, <4>2
    <3>5. CASE RequestDeletion(r)
      <4> DEFINE m == [l EXCEPT !.deleting = TRUE, !.present = l.protected]
      <4>1. m \in Lives /\ KeyInv(m)
        BY <2>1, <3>5 DEF RequestDeletion, KeyInv, Lives
      <4>2. life' = [life EXCEPT ![r] = m]
        BY <3>5 DEF RequestDeletion
      <4>3. QED
        BY <4>1, <4>2
    <3>6. CASE Recreate(r)
      <4>1. Fresh \in Lives /\ KeyInv(Fresh)
        BY DEF Fresh, KeyInv, Lives, States
      <4>2. QED
        BY <3>6, <4>1 DEF Recreate
    <3>7. QED
      BY <1>3, <3>1, <3>2, <3>3, <3>4, <3>5, <3>6
  <2>3. life' \in [Res -> Lives] /\ \A s \in Res : KeyInv(life'[s])
    BY <1>1, <2>2
  <2>4. QED
    BY <2>3 DEF LInv, TypeOK, ProtectedOnceTouched, RemovedAtRest, KeyInv
<1>4. QED
  BY <1>2, <1>3 DEF Next

\* The FinalizerGate keeps the lifecycle well typed.
THEOREM TypeCorrect == Spec => []TypeOK
<1>1. LInv => TypeOK
  BY DEF LInv
<1>2. QED
  BY LInvInit, LInvStep, <1>1, PTL DEF Spec

\* Under the FinalizerGate and the state table, the API server removes a
\* resource only at rest: before the controller touched it, or after its
\* teardown recorded Deleting, for every set of resources.
THEOREM RemovalAtRest == Spec => []RemovedAtRest
<1>1. LInv => RemovedAtRest
  BY DEF LInv
<1>2. QED
  BY LInvInit, LInvStep, <1>1, PTL DEF Spec

=============================================================================
