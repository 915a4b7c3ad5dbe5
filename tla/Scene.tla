-------------------------------- MODULE Scene -------------------------------
(***************************************************************************)
(* Parts of the system that do not share state are explored in one run: a  *)
(* behaviour is about one of them, its scene, and the properties of a part *)
(* speak about the behaviours of its scenes.                               *)
(***************************************************************************)
VARIABLE scene
=============================================================================
