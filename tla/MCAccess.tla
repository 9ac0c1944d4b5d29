------------------------------ MODULE MCAccess ------------------------------
(* Small instances of Access: two tabs of one browser.                     *)
EXTENDS Access

CONSTANTS t1, t2

TwoTabs == {t1, t2}
=============================================================================
