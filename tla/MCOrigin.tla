------------------------------ MODULE MCOrigin ------------------------------
(* An instance of Origin for TLC: the cfg gives the other constants.        *)
EXTENDS Origin

(* The persistent rows of VFS_CAPABILITIES: OPFSAdaptiveVFS and its like,   *)
(* the IndexedDB ones, AccessHandlePoolVFS.                                 *)
Persistent ==
    {[connection |-> "shared", storage |-> "folder"],
     [connection |-> "shared", storage |-> "vfs"],
     [connection |-> "exclusive", storage |-> "vfs"]}
=============================================================================
