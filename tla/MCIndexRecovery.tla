--------------------------- MODULE MCIndexRecovery ---------------------------
(* IndexRecovery with a sequence of keys to load and values, which a cfg     *)
(* cannot write.                                                             *)
EXTENDS IndexRecovery

Load3 == <<1, 2, 3>>
OwnValue(k) == IF k = 4 THEN {4, 40} ELSE {k}
=============================================================================
