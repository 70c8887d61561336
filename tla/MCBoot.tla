------------------------------- MODULE MCBoot -------------------------------
(***************************************************************************)
(* The UEFI boot loader (UefiBoot) and the C libraries of the loaders and  *)
(* the cores (Library).  The two share no variable: part is the one that   *)
(* is used in a behaviour, and the other stays as it was initialised.      *)
(***************************************************************************)
EXTENDS MCUefi, MCLibrary

VARIABLE part
partvars == <<vars, call, part>>

PartsInit == part \in {"loader", "library"} /\ Init /\ LibraryInit

LoaderStep == part = "loader" /\ Next /\ UNCHANGED <<call, part>>
LibraryStep == part = "library" /\ LibraryNext /\ UNCHANGED <<vars, part>>

PartsNext == LoaderStep \/ LibraryStep

\* The fairness of UefiBoot's Spec, for behaviours in which the loader runs.
PartsSpec == PartsInit /\ [][PartsNext]_partvars /\ WF_partvars(LoaderStep)

\* BootSettles, for behaviours in which the loader runs: it returns, stops, or
\* waits in the menu for a user who has pressed a key.
LoaderSettles == part = "loader" => BootSettles
=============================================================================
