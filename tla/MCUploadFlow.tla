---------------------------- MODULE MCUploadFlow ----------------------------
(* A document with room for one more file and two uploads that add one, or two   *)
(* documents with the same number.                                              *)
EXTENDS UploadFlow, TLC

CONSTANTS c1, c2, a1, a2, d1, d2, f1, f2, f3, f4

MCDocOf == [r \in Uploads |-> IF r = c2 THEN d2 ELSE d1]
MCFilesOf == [r \in Uploads |-> IF r = c1 THEN Files \ {f3, f4} ELSE IF r = a1 THEN {f3} ELSE {f4}]
SameErp == [d \in Docs |-> "erp"]
=============================================================================
