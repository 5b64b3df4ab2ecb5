----------------------------- MODULE MCSidecars -----------------------------
(* Two documents in directories of their own; every text shows one picture, *)
(* and all texts of a document show the same one.                           *)
EXTENDS Sidecars, TLC

CONSTANTS a, b, x, y, n

MCStems == {a, b}
TwoDirectories == (a :> x) @@ (b :> y)
SamePicture == [t \in Texts |-> {n}]
=============================================================================
