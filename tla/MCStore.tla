------------------------------- MODULE MCStore -------------------------------
(* Store for TLC: an entry in the root and one in a subdirectory, and one
   other key beside the device's own. *)
EXTENDS Store

CONSTANTS w, own, other

TwoDirs == {<<>>, <<w>>}
OneNested == <<<<>>, <<w>>>>
BothKeys == {own, other}
OwnKey == {own}
=============================================================================
