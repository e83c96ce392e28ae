-------------------------- MODULE MCStreamBuffers --------------------------
(* Two uploads and a download of one resource. *)
EXTENDS StreamBuffers

CONSTANTS u1, u2, d1, file1

MCUploads == {u1, u2}
MCDownloads == {d1}
MCTarget == [x \in {u1, u2, d1} |-> file1]
=============================================================================
