------------------------------ MODULE MCUdpRpc ------------------------------
(***************************************************************************)
(* Sets of operations for UdpRpc.                                          *)
(***************************************************************************)
EXTENDS UdpRpc, TLC

(* The operations the FUSE handlers of client_fs.c call. *)
AllCalls == Dispatched \ {"READ", "WRITE"}

(* One of every shape of request and reply but READLINK's, whose link text *)
(* can be taken for a failure when its result is lost.                     *)
LossyCalls == {"GETATTR", "READDIR", "MKDIR", "RENAME", "OPEN"}

(* Calls whose arguments cannot be taken for an opcode: one argument and  *)
(* two, one reply and two, and one that can end the server.                *)
PathCalls == {"OPEN", "RENAME"}

(* The clients are alike. *)
ClientSymmetry == Permutations(Clients)
=============================================================================
