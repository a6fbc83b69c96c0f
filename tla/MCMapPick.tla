----------------------------- MODULE MCMapPick -----------------------------
EXTENDS MapPick

CONSTANTS m1, m2, m3

(* All the maps, three, two or none.                                       *)
MCLists == {Map, {m1, m2, m3}, {m1, m2}, {}}
=============================================================================
