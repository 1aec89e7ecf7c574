----------------------------- MODULE MCCalculus -----------------------------
(* Instances of Calculus: a bootstrap archive, a source file and packages   *)
(* built from them, requested in an order that is not a dependency order.   *)
EXTENDS Calculus

\* 1: archive, 2: file, 3: needs 2 and 1, 4: needs 3 and 1
FourDeps == <<<<>>, <<>>, <<2, 1>>, <<3, 1>>>>
FourWanted == <<4, 2>>

\* 1: archive, 2: file, 3: needs both
ThreeDeps == <<<<>>, <<>>, <<1, 2>>>>
ThreeWanted == <<3>>
=============================================================================
