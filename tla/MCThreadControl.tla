--------------------------- MODULE MCThreadControl --------------------------
(* A plain thread, and suspender threads of each kind.                      *)
EXTENDS ThreadControl

MCOptions == {{}, {"beforeInit"}, {"afterInit"}, {"afterInit", "beforeCleanup"},
              {"beforeInit", "beforeCleanup"}}
=============================================================================
