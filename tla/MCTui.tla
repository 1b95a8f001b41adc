------------------------------- MODULE MCTui -------------------------------
(***************************************************************************)
(* An object and a build cache entry.  Both are deletable at first; then   *)
(* the object is in use, and the build cache entry goes.                   *)
(***************************************************************************)
EXTENDS Tui

CONSTANTS image, cache

MCObjects == {image, cache}
MCBuildCaches == {cache}
MCPresent == [v \in 0..MaxVersion |-> IF v < 2 THEN {image, cache} ELSE {image}]
MCDeletable == [v \in 0..MaxVersion |-> IF v = 0 THEN {image, cache}
                                         ELSE IF v = 1 THEN {cache} ELSE {image}]
=============================================================================
