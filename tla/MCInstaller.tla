---------------------------- MODULE MCInstaller ----------------------------
(* Instance of Installer: one address, two keys, one step that fails and *)
(* one interrupted run, in whatever order the programs are started.        *)
EXTENDS Installer
=============================================================================
