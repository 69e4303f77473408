------------------------------ MODULE MCSessions ------------------------------
(* One manager with two browsers, under an owner and an admin.                *)
EXTENDS Sessions, TLC
MCStaffers == [olga |-> "OWNER", adam |-> "ADMIN", meera |-> "MANAGER"]
\* The managers' requests alone; exchanges on two browsers; a password reset or a
\* suspension under an exchange.
MCMixes == { [logins |-> 0, expiries |-> 0, links |-> 0, width |-> 1, staffOps |-> 3, kinds |-> AllKinds],
             [logins |-> 2, expiries |-> 1, links |-> 0, width |-> 1, staffOps |-> 0, kinds |-> {}],
             [logins |-> 1, expiries |-> 1, links |-> 0, width |-> 2, staffOps |-> 0, kinds |-> {}],
             [logins |-> 1, expiries |-> 2, links |-> 0, width |-> 1, staffOps |-> 0, kinds |-> {}],
             [logins |-> 1, expiries |-> 1, links |-> 1, width |-> 1, staffOps |-> 0, kinds |-> {}],
             [logins |-> 1, expiries |-> 1, links |-> 0, width |-> 1, staffOps |-> 1, kinds |-> {"suspend"}] }
==============================================================================
