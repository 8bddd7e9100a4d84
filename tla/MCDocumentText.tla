--------------------------- MODULE MCDocumentText ---------------------------
(* Instances of DocumentText for TLC. *)
EXTENDS DocumentText

\* One page of up to 6 words, or two of which either may be empty.
SomePages == {<<n>> : n \in 0..6} \cup {<<0, 3>>, <<3, 0>>, <<2, 5>>}
=============================================================================
