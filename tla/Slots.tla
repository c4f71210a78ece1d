--------------------------------- MODULE Slots ---------------------------------
(***************************************************************************)
(* The variables that hold the state of one page or dialog, in the order   *)
(* in which its module declares it.                                        *)
(***************************************************************************)
VARIABLES v1, v2, v3, v4, v5, v6, v7, v8, v9, v10, v11, v12, v13, v14, v15, v16, v17, v18, v19,
          v20, v21
================================================================================
