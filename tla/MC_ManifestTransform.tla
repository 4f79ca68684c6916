----------------------- MODULE MC_ManifestTransform -------------------------
(* Instance of ManifestTransform for TLC. *)
EXTENDS ManifestTransform
=============================================================================
