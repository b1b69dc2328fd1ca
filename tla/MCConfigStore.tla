----------------------------- MODULE MCConfigStore -----------------------------
(***************************************************************************)
(* ConfigStore for TLC: two printers in either order.                      *)
(***************************************************************************)
EXTENDS ConfigStore

CONSTANTS p1, p2

MCLists == {<<p1, p2>>, <<p2, p1>>}
===============================================================================
