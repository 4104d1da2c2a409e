------------------------------ MODULE MCGitSync ------------------------------
(* GitSync for TLC: which editing operations a run uses, and the
   symmetry of the devices (safety only). *)
EXTENDS GitSync, TLC

AnyDevice == Permutations(Devices)

SaveOnly == {"init", "save"}
SingleEntryOps == {"init", "save", "remove"}
EntryAndTree == {"init", "save", "reencrypt"}
InPlaceOps == {"init", "save", "remove", "reencrypt"}
AllOps == AllOperations
=============================================================================
