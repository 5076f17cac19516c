--------------------------- MODULE MCInspectorUI ---------------------------
(* Small instances of InspectorUI: two texts the page sends, one it        *)
(* refuses, and one file of each kind that loadCSRFile tells apart.        *)
EXTENDS InspectorUI, TLC

CONSTANTS goodFile, badFile, blankFile, emptyFile, good1, bad1, c1, c2, r1, r2, k1, k2

MCFileContent ==
  [f \in Files |->
     CASE f = goodFile  -> good1
       [] f = badFile   -> bad1
       [] f = blankFile -> Blank
       [] f = emptyFile -> "zeroBytes"]

(* Activations are interchangeable.                                        *)
Symmetry == Permutations(Calls) \union Permutations(Readers) \union Permutations(Copiers)

=============================================================================
