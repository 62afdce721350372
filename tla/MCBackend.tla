----------------------------- MODULE MCBackend -----------------------------
(* Instances of Backend for TLC. *)
EXTENDS Backend

(* The second frame looks like the first. *)
ThreePictures == <<"A", "A", "B">>

OnePicture == <<"A">>
=============================================================================
