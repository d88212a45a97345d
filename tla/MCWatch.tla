------------------------------ MODULE MCWatch ------------------------------
EXTENDS Watch

(* a and b have one hint: an edit between them is invisible to polling.    *)
HintOf == [c \in Contents |-> IF c = "c" THEN "h2" ELSE "h1"]
=============================================================================
