-------------------------------- MODULE MCIpc --------------------------------
(* Small instances of Ipc: process identities are model values, a is the    *)
(* only one that creates endpoints.                                         *)
EXTENDS Ipc
==============================================================================
