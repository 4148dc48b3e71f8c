------------------------------ MODULE MCWsPortal ------------------------------
(***************************************************************************)
(* Two browsers, and so few descriptors that a page can lose its           *)
(* connection to another page.                                             *)
(***************************************************************************)
EXTENDS WsPortal

MCFds == 1..2
=============================================================================
