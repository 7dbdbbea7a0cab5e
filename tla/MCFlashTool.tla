----------------------------- MODULE MCFlashTool -----------------------------
(***************************************************************************)
(* FlashTool for TLC: sectors of four bytes and blocks of two. BOOT2 and   *)
(* the start of the bootloader share the first sector; the third is        *)
(* BOOTLOADER_STATE, and ACTIVE begins with the fourth. Applications of    *)
(* four bytes with a gap, and of three. A file may end early in ACTIVE.    *)
(***************************************************************************)
EXTENDS FlashTool

Boot2Bytes == {16, 17}

BootloaderBytes == {18, 19, 20}

AppLayouts == <<{28, 29, 32, 34}, {28, 29, 30}>>

OneLayout == <<{28, 29, 30}>>

InActive == {30}

Nowhere == {}
=============================================================================
