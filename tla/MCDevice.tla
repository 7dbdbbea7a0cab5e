------------------------------ MODULE MCDevice ------------------------------
(***************************************************************************)
(* Device for TLC: two pages of two bytes per image, an image that works,  *)
(* one that hangs, one of one page and one too long. The watchdog leaves   *)
(* time for one format and not for two.                                    *)
(***************************************************************************)
EXTENDS Device

Up(id, admin, length) == [id |-> id, admin |-> admin, length |-> length]

Working == Up(1, TRUE, 4)
Hanging == Up(2, TRUE, 3)
Short == Up(3, TRUE, 2)

ManyUploads == { Working, Hanging, Short, Up(4, TRUE, 5) }

HangingUpload == { Hanging }
=============================================================================
