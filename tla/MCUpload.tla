------------------------------ MODULE MCUpload ------------------------------
(* Bounds for UploadPool: two uploaders, three files. *)
EXTENDS UploadPool

CONSTANTS u1, u2
Uploaders2 == {u1, u2}
Walk3 == <<"master.m3u8", "media.m4s", "init.mp4">>

=============================================================================
