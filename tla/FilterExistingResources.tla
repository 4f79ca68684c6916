--------------------- MODULE FilterExistingResources -----------------------
(***************************************************************************)
(* util.FilterExistingResources (src/pkg/util/util.go:59-85): one Get per  *)
(* resource of a kube.ResourceList, keeping those the cluster returns,     *)
(* skipping those it reports NotFound and collecting every other error.    *)
(* The loop runs while other actors create and delete resources in the     *)
(* cluster, so each Get sees the cluster of its own moment.               *)
(***************************************************************************)
EXTENDS Naturals, Sequences, SequencesExt

CONSTANTS
    Infos,   \* the resources (namespace, name, mapping) a list may name
    MaxList  \* the longest list enumerated

ASSUME MaxListAssumption == MaxList \in Nat

\* Every resource list of at most MaxList entries.
Lists == UNION {[1..n -> Infos] : n \in 0..MaxList}

VARIABLES
    list,       \* the resources argument
    i,          \* the loop index
    existing,   \* existingResources: the indices appended so far
    errs,       \* errs: the indices whose Get failed with another error
    live,       \* the resources the cluster holds now
    alwaysLive, \* history: the resources held at every moment of the call
    ret         \* the return: [done, kept, err]

vars == <<list, i, existing, errs, live, alwaysLive, ret>>

Indices == 1..MaxList

TypeOK ==
    /\ list \in Lists
    /\ i \in 1..Len(list) + 1
    /\ existing \in Seq(Indices) /\ errs \in Seq(Indices)
    /\ live \subseteq Infos /\ alwaysLive \subseteq Infos
    /\ ret \in [done : BOOLEAN, kept : Seq(Infos), err : BOOLEAN]

-----------------------------------------------------------------------------

\* Mutant: errs made with length len(resources) instead of capacity; its
\* entries are nil errors (0).
InitPreallocatedErrs ==
    /\ list \in Lists
    /\ i = 1
    /\ existing = <<>> /\ errs = [k \in 1..Len(list) |-> 0]
    /\ live \in SUBSET Infos
    /\ alwaysLive = live
    /\ ret = [done |-> FALSE, kept |-> <<>>, err |-> FALSE]

\* Lines 60-61: empty result and error slices; the cluster is whatever it is.
Init ==
    /\ list \in Lists
    /\ i = 1
    /\ existing = <<>> /\ errs = <<>>
    /\ live \in SUBSET Infos
    /\ alwaysLive = live
    /\ ret = [done |-> FALSE, kept |-> <<>>, err |-> FALSE]

Running == ~ret.done /\ i <= Len(list)

\* Lines 65 and 77: helper.Get returns the object; append the info.
GetFound ==
    /\ Running /\ list[i] \in live
    /\ existing' = Append(existing, i)
    /\ i' = i + 1
    /\ UNCHANGED <<list, errs, live, alwaysLive, ret>>

\* Lines 66-68: NotFound; skip the info.
GetNotFound ==
    /\ Running /\ list[i] \notin live
    /\ i' = i + 1
    /\ UNCHANGED <<list, existing, errs, live, alwaysLive, ret>>

\* Mutant: the continue after recording the error is missing.
GetFailsFallThrough ==
    /\ Running
    /\ errs' = Append(errs, i)
    /\ existing' = Append(existing, i)
    /\ i' = i + 1
    /\ UNCHANGED <<list, live, alwaysLive, ret>>

\* Lines 69-72: any other error (timeout, forbidden, no mapping), whether
\* or not the resource exists; record it and go on.
GetFails ==
    /\ Running
    /\ errs' = Append(errs, i)
    /\ i' = i + 1
    /\ UNCHANGED <<list, existing, live, alwaysLive, ret>>

\* Lines 80-84: return what was kept, with a MultiError when any Get failed.
Return ==
    /\ ~ret.done /\ i = Len(list) + 1
    /\ ret' = [done |-> TRUE,
               kept |-> [k \in DOMAIN existing |-> list[existing[k]]],
               err  |-> errs # <<>>]
    /\ UNCHANGED <<list, i, existing, errs, live, alwaysLive>>

\* Another actor creates or deletes resource x while the loop runs.
ClusterChange(x) ==
    /\ ~ret.done
    /\ live' = IF x \in live THEN live \ {x} ELSE live \cup {x}
    /\ alwaysLive' = alwaysLive \cap live'
    /\ UNCHANGED <<list, i, existing, errs, ret>>

Next ==
    \/ GetFound \/ GetNotFound \/ GetFails \/ Return
    \/ \E x \in Infos : ClusterChange(x)

Spec == Init /\ [][Next]_vars

-----------------------------------------------------------------------------

\* The returned list and the collected errors account for the input: no
\* list entry is both kept and reported as failed (a resource listed twice
\* is two entries, whose Gets may see different clusters, so it may be
\* kept at one and failed at the other), and a nil error means
\* that every resource the cluster held throughout the call was kept, so
\* a caller that sees no error never loses a resource that exists.
ResultAccountsForEveryResource ==
    ret.done =>
        /\ ToSet(existing) \cap ToSet(errs) = {}
        /\ ~ret.err => \A k \in DOMAIN list :
                           list[k] \in alwaysLive => Contains(ret.kept, list[k])

=============================================================================
