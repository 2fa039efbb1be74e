-------------------------------- MODULE MCSplitK --------------------------------
(***************************************************************************)
(* Instances of SplitK small enough to enumerate.                          *)
(***************************************************************************)
EXTENDS SplitK

\* A request for the plain grid, the default, and one for more than there is.
FewAndMany == {-1, 1, 3, 4, 9}
===============================================================================
