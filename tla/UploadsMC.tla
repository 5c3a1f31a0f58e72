----------------------------- MODULE UploadsMC -----------------------------
(***************************************************************************)
(* One uploaded object, a card under a path-style URL, and a CDN whose     *)
(* path is the bucket.                                                     *)
(***************************************************************************)
EXTENDS Uploads, TLC

CONSTANTS upload, card, media, c1, c2, c3

MCBase == <<media>>

\* A thumbnail; a header that ends at 1 MiB, and one after it; a text.
MCFiles ==
  {[length |-> 1, header |-> 1, size |-> "small"], [length |-> 16, header |-> 16, size |-> "large"],
   [length |-> 20, header |-> 17, size |-> "large"], [length |-> 4, header |-> None, size |-> None]}

Named(k, type) ==
  [ref |-> [absolute |-> FALSE, path |-> <<k>>], type |-> type, means |-> k, shown |-> FALSE]
CardURL ==
  [ref |-> [absolute |-> TRUE, path |-> <<media, card>>], type |-> "image", means |-> card, shown |-> FALSE]

MCBodies ==
  {<<Named(upload, "image")>>, <<CardURL, Named(upload, "video")>>}

Symmetry == Permutations(Calls)
=============================================================================
