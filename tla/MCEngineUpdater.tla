--------------------------- MODULE MCEngineUpdater ---------------------------
(* An instance of EngineUpdater: the installed release has the executable   *)
(* only and is too old for the compatibility manifest, the next one brings a *)
(* library.                                                                  *)
EXTENDS EngineUpdater, TLC
CONSTANTS u1, u2, bin, lib, none

Installed == <<1, 9, 8>>
Recommended == <<1, 10, 0>>

MCVersion == {Installed, Recommended}
MCCarries == (Installed :> {bin}) @@ (Recommended :> {bin, lib})
=============================================================================
