----------------------------- MODULE MCAdminDesks -----------------------------
(* One case and two reviewers, one of them an administrator; one ticket, an *)
(* operator and two replies; two components under a monitor that may be    *)
(* invoked twice; two editors.                                             *)
EXTENDS AdminDesks

CONSTANTS c1, c2, officer, admin, t1, v1, v2, e1, e2
=============================================================================
