---------------------------- MODULE MCAttachments ----------------------------
(* Attachments on a small instance. *)
EXTENDS Attachments, TLC

\* No account, blob or pack is named by the specification.
Symmetry == Permutations(Source) \cup Permutations(Blob) \cup Permutations(Pack)
=============================================================================
