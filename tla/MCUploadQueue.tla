---------------------------- MODULE MCUploadQueue ----------------------------
(* File-name orders for model-checking UploadQueue: "100" sorts before "50".  *)
EXTENDS UploadQueue

TwoByName == <<1, 2>>
ThreeByName == <<2, 3, 1>>
SparseByName == <<2, 4, 1>>
=============================================================================
