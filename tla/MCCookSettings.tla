--------------------------- MODULE MCCookSettings ---------------------------
(* Settings whose values are only told apart, never compared.               *)
EXTENDS CookSettings, TLC

SettingSymmetry == Permutations(Targets)
=============================================================================
