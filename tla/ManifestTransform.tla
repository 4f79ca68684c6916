------------------------- MODULE ManifestTransform --------------------------
(***************************************************************************)
(* util.Transform and util.ParseManifestStringToObjects (src/pkg/util/    *)
(* util.go:116-141, 223-239): split a rendered manifest into YAML          *)
(* documents, unmarshal each into an unstructured.Unstructured, keep the   *)
(* objects as Items and the documents that failed to unmarshal as Blobs,   *)
(* then run the object transforms in order.                                *)
(*                                                                         *)
(* A document is abstracted to its kind; the unmarshal outcomes of a kind  *)
(* follow sigs.k8s.io/yaml and the unstructured JSON scheme: the map is    *)
(* stored in Object before the scheme checks for "kind", so a map without  *)
(* "kind" is both an error and a non-empty Object.  The YAML reader over   *)
(* a strings.Reader fails only with io.EOF, so "invalid YAML doc" is not   *)
(* reachable and has no step.                                              *)
(***************************************************************************)
EXTENDS Naturals, Sequences, SequencesExt

CONSTANTS
    MaxDocs,        \* the most documents a manifest holds
    NumTransforms   \* the length of the transforms argument

ASSUME MaxDocsAssumption == MaxDocs \in Nat
ASSUME NumTransformsAssumption == NumTransforms \in Nat

\* object: a map with kind; kindless: a map without kind; emptyMap: {};
\* notMap: a scalar, a list or text YAML cannot read; null: blank or null.
DocKinds == {"object", "kindless", "emptyMap", "notMap", "null"}

Manifests == UNION {[1..n -> DocKinds] : n \in 0..MaxDocs}

\* yaml.Unmarshal(rawBytes, &unstructuredObj): whether it returns an error
\* and whether unstructuredObj.Object is left non-empty.  For null the
\* outcome depends on whether encoding/json hands the null to
\* Unstructured.UnmarshalJSON; both lead to no Item.
UnmarshalOutcomes(kind) ==
    CASE kind = "object"   -> {[err |-> FALSE, obj |-> TRUE]}
      [] kind = "kindless" -> {[err |-> TRUE,  obj |-> TRUE]}
      [] kind = "null"     -> {[err |-> TRUE,  obj |-> FALSE],
                               [err |-> FALSE, obj |-> FALSE]}
      [] OTHER             -> {[err |-> TRUE,  obj |-> FALSE]}

VARIABLES
    docs,     \* the documents of manifestStringified, in order
    k,        \* the next document reader.Read returns
    items,    \* objects.Items: the indices of the documents kept
    blobs,    \* objects.Blobs: the indices of the documents kept raw
    t,        \* the next transform to run
    applied,  \* the transforms that ran to completion, in order
    ret       \* [done, ok]: the call returned, with objects or with nil

vars == <<docs, k, items, blobs, t, applied, ret>>

TypeOK ==
    /\ docs \in Manifests
    /\ k \in 1..Len(docs) + 1
    /\ items \in Seq(1..MaxDocs) /\ blobs \in Seq(1..MaxDocs)
    /\ t \in 1..NumTransforms + 1
    /\ applied \in Seq(1..NumTransforms)
    /\ ret \in [done : BOOLEAN, ok : BOOLEAN]

-----------------------------------------------------------------------------

Init ==
    /\ docs \in Manifests
    /\ k = 1 /\ items = <<>> /\ blobs = <<>>
    /\ t = 1 /\ applied = <<>>
    /\ ret = [done |-> FALSE, ok |-> FALSE]

Parsing == k <= Len(docs)

\* Lines 120-139: one document.  A failed unmarshal keeps the raw bytes
\* as a Blob (line 132) and does not skip the document: the test on line
\* 135 alone decides whether it becomes an Item.
ReadDocument ==
    /\ Parsing
    /\ \E u \in UnmarshalOutcomes(docs[k]) :
          /\ blobs' = IF u.err THEN Append(blobs, k) ELSE blobs
          /\ items' = IF u.obj THEN Append(items, k) ELSE items
    /\ k' = k + 1
    /\ UNCHANGED <<docs, t, applied, ret>>

\* Mutant: a failing transform is skipped instead of ending the call.
RunTransformSkipFailure ==
    /\ ~Parsing /\ ~ret.done /\ t <= NumTransforms
    /\ \E ok \in BOOLEAN :
          applied' = IF ok THEN Append(applied, t) ELSE applied
    /\ t' = t + 1
    /\ UNCHANGED <<docs, k, items, blobs, ret>>

\* Mutant: the loop runs one transform past the end.
RunTransformOffByOne ==
    /\ ~Parsing /\ ~ret.done /\ t <= NumTransforms + 1
    /\ \/ /\ applied' = Append(applied, t)
          /\ t' = t + 1
          /\ UNCHANGED ret
       \/ /\ ret' = [done |-> TRUE, ok |-> FALSE]
          /\ UNCHANGED <<t, applied>>
    /\ UNCHANGED <<docs, k, items, blobs>>

\* Lines 232-236: transforms run in order on the parsed objects; the first
\* error returns nil.
RunTransform ==
    /\ ~Parsing /\ ~ret.done /\ t <= NumTransforms
    /\ \/ /\ applied' = Append(applied, t)
          /\ t' = t + 1
          /\ UNCHANGED ret
       \/ /\ ret' = [done |-> TRUE, ok |-> FALSE]
          /\ UNCHANGED <<t, applied>>
    /\ UNCHANGED <<docs, k, items, blobs>>

\* Line 238: every transform has run; return the objects.
ReturnObjects ==
    /\ ~Parsing /\ ~ret.done /\ t = NumTransforms + 1
    /\ ret' = [done |-> TRUE, ok |-> TRUE]
    /\ UNCHANGED <<docs, k, items, blobs, t, applied>>

Next == ReadDocument \/ RunTransform \/ ReturnObjects

Spec == Init /\ [][Next]_vars

-----------------------------------------------------------------------------

\* Transform returns objects only when every transform ran, once and in
\* order, over objects parsed from every document of the manifest; each
\* object came from a document that unmarshalled into a non-empty map.
TransformAllOrNothing ==
    ret.done /\ ret.ok =>
        /\ k = Len(docs) + 1
        /\ applied = [j \in 1..NumTransforms |-> j]
        /\ \A n \in ToSet(items) : docs[n] \in {"object", "kindless"}

=============================================================================
