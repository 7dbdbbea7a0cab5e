-------------------------- MODULE MCFirmwareUpdate --------------------------
(***************************************************************************)
(* FirmwareUpdate for TLC: ACTIVE has two pages of two bytes, and one      *)
(* image of that size is uploaded.                                         *)
(***************************************************************************)
EXTENDS FirmwareUpdate

Up(id, admin, length) == [id |-> id, admin |-> admin, length |-> length]

OneUpload == { Up(1, TRUE, 4) }
=============================================================================
