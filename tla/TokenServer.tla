----------------------------- MODULE TokenServer -----------------------------
(***************************************************************************)
(* Anthropic's OAuth service as package claudeauth sees it (oauth.go,      *)
(* creds.go).  The service itself is not in the repository: what it        *)
(* promises is taken from how the code uses it.                            *)
(*                                                                         *)
(* A credential is an access token and a refresh token issued together;    *)
(* generation g of account a is the g-th pair the service issued for a.    *)
(* A refresh token works once: a refresh spends it and issues the next     *)
(* generation.  An access token works until it lapses, also after its      *)
(* refresh token was spent.  Tokens of one account lapse in the order they *)
(* were issued, so one number per account says how far that has gone.      *)
(*                                                                         *)
(* When a refresh token is to end is another number, which the credential  *)
(* bears.  `cas` looks at nothing else, the service does not look at it at *)
(* all: it may be missing, a guess, or taken from an older credential.     *)
(***************************************************************************)
EXTENDS Identity, Integers

CONSTANTS
  MaxGen,      \* bound: credentials the service issues per account
  MaxPast,     \* bound: deadlines of an account's refresh tokens that pass
  Outages      \* subset of OutageKinds: how a call may fail

\* A call does not get through, or its answer does not; an access token that has not
\* lapsed is reported invalid.
OutageKinds == {"unreachable", "lost", "invalid"}

ASSUME TokenServerAssumption == MaxGen \in Nat

VARIABLES
  issued,      \* issued[a]: how many credentials a has been issued
  unspent,     \* unspent[a]: generations whose refresh token still works
  lapsed,      \* lapsed[a]: access tokens up to this generation have expired
  ended,       \* ended[a]: the deadlines set for refresh tokens up to this one are past
  until        \* until[c]: the credential whose deadline c bears on this machine, by its
               \* generation; c.gen if it is its own, 0 if it bears none

server == <<issued, unspent, lapsed, ended>>

Gens == 1..MaxGen

Cred == [acct: Accounts, gen: Gens]

NoCred == [acct |-> NoAccount, gen |-> 0]

Creds == Cred \union {NoCred}

ServerTypeOK ==
  /\ issued \in [Accounts -> Gens \union {0}]
  /\ unspent \in [Accounts -> SUBSET Gens]
  /\ lapsed \in [Accounts -> Gens \union {0}]
  /\ ended \in [Accounts -> Gens \union {0}]

-----------------------------------------------------------------------------

\* The refresh token of c still works.
Good(c) == c.gen \in unspent[c.acct]

\* Cred.AccessExpired(0).
Lapsed(c) == c.gen <= lapsed[c.acct]

\* Cred.RefreshExpired: a credential without a deadline counts as valid.
RefreshExpired(c) == until[c] # 0 /\ until[c] <= ended[c.acct]

\* The credential that the service issues next for account a.
NextCred(a) == [acct |-> a, gen |-> issued[a] + 1]

\* Config.Exchange: a consented sign-in starts a new chain of credentials.
Issue(a) ==
  /\ issued[a] < MaxGen
  /\ issued' = [issued EXCEPT ![a] = @ + 1]
  /\ unspent' = [unspent EXCEPT ![a] = @ \union {issued[a] + 1}]
  /\ UNCHANGED <<lapsed, ended>>

\* The service's side of a refresh: c's refresh token is spent.
Rotate(c) ==
  /\ Good(c)
  /\ issued[c.acct] < MaxGen
  /\ issued' = [issued EXCEPT ![c.acct] = @ + 1]
  /\ unspent' = [unspent EXCEPT ![c.acct] = (@ \ {c.gen}) \union {issued[c.acct] + 1}]
  /\ UNCHANGED <<lapsed, ended>>

\* What a refresh call comes back with.
Ok(c) == [kind |-> "ok", cred |-> c]
Recovered(c) == [kind |-> "recovered", cred |-> c]
Rejected == [kind |-> "rejected", cred |-> NoCred]
Failed == [kind |-> "failed", cred |-> NoCred]
Nothing == [kind |-> "none", cred |-> NoCred]

Outcome ==
  [kind: {"ok", "recovered"}, cred: Cred] \union {Rejected, Failed, Nothing}

\* Config.Refresh.  A call fails when the service cannot be reached, or when it
\* answered but the answer was lost (the token is spent all the same).  At the
\* bound MaxGen the service issues no more and the call fails.
Refresh(c, out) ==
  \/ Rotate(c) /\ out = Ok(NextCred(c.acct))
  \/ ~Good(c) /\ out = Rejected /\ UNCHANGED server
  \/ "unreachable" \in Outages /\ out = Failed /\ UNCHANGED server
  \/ "lost" \in Outages /\ Rotate(c) /\ out = Failed
  \/ Good(c) /\ issued[c.acct] = MaxGen /\ out = Failed /\ UNCHANGED server

\* The accounts that Config.Validate (or the profile endpoint) may name for the
\* access token of c; NoAccount stands for an error or for "not valid".
Answers(c) ==
  (IF Lapsed(c) THEN {NoAccount} ELSE {c.acct})
    \union (IF Outages \intersect {"unreachable", "invalid"} # {} THEN {NoAccount} ELSE {})

\* Time passes: the next access token lapses, or the next deadline goes by.  One that
\* the service stated it also keeps; one that toResult made up, thirty days, where the
\* service had stated none, may pass while the token works on.
Lapse(a) ==
  /\ lapsed[a] < issued[a]
  /\ lapsed' = [lapsed EXCEPT ![a] = @ + 1]
  /\ UNCHANGED <<issued, unspent, ended>>

Expire(a) ==
  /\ ended[a] < lapsed[a] /\ ended[a] < MaxPast
  /\ ended' = [ended EXCEPT ![a] = @ + 1]
  /\ unspent' = [unspent EXCEPT ![a] = @ \ {ended[a] + 1}]
  /\ UNCHANGED <<issued, lapsed>>

Outlast(a) ==
  /\ ended[a] < lapsed[a] /\ ended[a] < MaxPast
  /\ ended' = [ended EXCEPT ![a] = @ + 1]
  /\ UNCHANGED <<issued, unspent, lapsed>>

==============================================================================
