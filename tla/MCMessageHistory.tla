--------------------------- MODULE MCMessageHistory ---------------------------
EXTENDS MessageHistory

Shape(inputs, discarded, texts, calls) ==
  [inputs |-> inputs, discarded |-> discarded, texts |-> texts, calls |-> calls]

(* A chat of one message and one answer per turn, in a window of three.    *)
Chat == {[window |-> 3, shapes |-> {Shape(0, 0, 1, 0)}]}
=============================================================================
