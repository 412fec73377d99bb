--------------------------- MODULE MCAdminAccounts ---------------------------
(***************************************************************************)
(* Two browsers, two addresses and one invite.                             *)
(***************************************************************************)
EXTENDS AdminAccounts
=============================================================================
