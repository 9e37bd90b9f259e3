------------------------- MODULE MC_ConcurrentUpload -------------------------
(* Instantiates ConcurrentUpload with every upload writing the same object *)
(* key, as two clients uploading one file would.                          *)
EXTENDS ConcurrentUpload

MCKeyOf == [u \in Uploads |-> "large-file"]

=============================================================================
