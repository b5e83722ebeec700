--------------------------- MODULE MCQuotaManager ---------------------------
(***************************************************************************)
(* Two quotas: a narrow one that expires soon and a wide one after it.     *)
(***************************************************************************)
EXTENDS QuotaManager

CONSTANTS narrow, wide

MCKeys == {narrow, wide}
MCQuotas == <<[key |-> narrow, limit |-> 2, window |-> 2],
              [key |-> wide, limit |-> 1, window |-> 3]>>
=============================================================================
