-------------------------- MODULE MCReceiptPhotos ---------------------------
(* Instances of ReceiptPhotos for TLC.                                     *)
EXTENDS ReceiptPhotos
=============================================================================
