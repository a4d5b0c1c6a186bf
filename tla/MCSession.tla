----------------------------- MODULE MCSession -----------------------------
(* Values of FbSession's constants that a .cfg cannot write. *)
EXTENDS FbSession

NoColumns == <<>>
BlobOnly  == <<"blob">>
ArrayBlob == <<"array", "blob">>
BlobArray == <<"blob", "array">>
=============================================================================
