------------------------------ MODULE MCEditor ------------------------------
(* Small instances of Editor for TLC: two documents, two or three            *)
(* annotations whose types each configuration chooses.                       *)
EXTENDS Editor

CONSTANTS d1, d2, a1, a2, a3

OnePage  == [d \in Docs |-> 1]
TwoPages == [d \in Docs |-> IF d = d1 THEN 2 ELSE 1]

KindsAs(k1, k2, k3) ==
    [i \in Ids |-> IF i = a1 THEN k1 ELSE IF i = a2 THEN k2 ELSE k3]
TextImage      == KindsAs("text", "image", "highlight")
CheckboxLight  == KindsAs("checkbox", "highlight", "date")
TextCheckbox   == KindsAs("text", "checkbox", "date")
SignatureLight == KindsAs("signature", "highlight", "date")
=============================================================================
