------------------------------- MODULE MCWebUi -------------------------------
(***************************************************************************)
(* WebUi for TLC: the admin and another user, two passwords, three ports   *)
(* and two functions under way.                                            *)
(***************************************************************************)
EXTENDS WebUi, TLC

CONSTANTS admin, user, default, other

TwoAccounts == admin :> default @@ user :> other
=============================================================================
