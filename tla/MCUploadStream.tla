--------------------------- MODULE MCUploadStream ---------------------------
(* Small instances of UploadStream. *)
EXTENDS UploadStream

\* Requests.
CONSTANTS a, b, c
=============================================================================
