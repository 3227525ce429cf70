------------------------------ MODULE Accounts ------------------------------
(***************************************************************************)
(* The accounts the apps sign in, shared by the modules that name them.    *)
(***************************************************************************)
CONSTANTS Users,  \* the accounts, each by its uid
          Nobody  \* no account

ASSUME NobodyAssumption == Nobody \notin Users
=============================================================================
