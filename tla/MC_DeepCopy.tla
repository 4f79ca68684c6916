----------------------------- MODULE MC_DeepCopy ----------------------------
(***************************************************************************)
(* Instance of DeepCopy for TLC: every *ManifestList whose list holds up   *)
(* to two Manifests, each with at most one install, custom state and       *)
(* condition (two Manifests only when no slice is empty), every optional  *)
(* reference nil or set, and the storage of the                           *)
(* original all under id 1 (sharing inside the original does not matter:  *)
(* the copy must share nothing with it).                                   *)
(***************************************************************************)
EXTENDS DeepCopy

MCPayloads == {0}

Leaf == [id : {1}, val : MCPayloads]
OptLeaf == Leaf \cup {Nil}
\* A slice: nil, or up to m elements of E.
Slice(E, m) == {Nil} \cup [id : {1}, val : UNION {[1..k -> E] : k \in 0..m}]

MCInstallInfos == [ref : OptLeaf, sel : OptLeaf]
MCConditions == [ltt : OptLeaf, info : MCPayloads]
MCManifests ==
    [meta : Leaf,
     spec : [installs : Slice(MCInstallInfos, 1), states : Slice(MCPayloads, 1),
             sync : MCPayloads],
     status : [state : MCPayloads, conds : Slice(MCConditions, 1)]]

\* Manifests whose slices are nil or hold one element (no empty slices).
FullOrNil(x) == IsNil(x) \/ Len(x.val) = 1
MCFullOrNil ==
    {m \in MCManifests : /\ FullOrNil(m.spec.installs)
                         /\ FullOrNil(m.spec.states)
                         /\ FullOrNil(m.status.conds)}

\* Items: any slice of at most one Manifest, or two of MCFullOrNil, which
\* is where the ids of one item follow those of the other.
MCItems ==
    Slice(MCManifests, 1)
    \cup {[id |-> 1, val |-> <<m1, m2>>] : m1, m2 \in MCFullOrNil}

MCOriginals ==
    {Nil} \cup [id : {1}, val : [meta : Leaf, items : MCItems]]

=============================================================================
