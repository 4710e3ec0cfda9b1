------------------------------- MODULE Identity -------------------------------
(***************************************************************************)
(* Who a credential, a slot or a config file can belong to: an account, by *)
(* its uuid, or nobody known, the empty string in the code.                *)
(***************************************************************************)
CONSTANTS
  Accounts,    \* the uuids of the accounts that exist
  NoAccount    \* the empty uuid ""

ASSUME IdentityAssumption == NoAccount \notin Accounts

Owner == Accounts \union {NoAccount}

==============================================================================
