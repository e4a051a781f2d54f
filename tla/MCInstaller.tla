------------------------------ MODULE MCInstaller ------------------------------
(***************************************************************************)
(* An instance of Installer for TLC: menus of three polls, five key presses.*)
(***************************************************************************)
EXTENDS Installer
=============================================================================
