--------------------------- MODULE MCUdevRefresh ---------------------------
(* One client meets every failure, the other none.                         *)
EXTENDS UdevRefresh

Failures ==
    {"stat", "fork", "exec", "wait", "die", "race", "init", "exit"} \X {"c"}
=============================================================================
