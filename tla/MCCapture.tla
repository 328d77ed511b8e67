----------------------------- MODULE MCCapture -----------------------------
(* Two accounts on one phone, two photos. *)
EXTENDS Capture

=============================================================================
