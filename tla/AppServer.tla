------------------------------ MODULE AppServer ------------------------------
(***************************************************************************)
(* Package codexappserver (client.go): cas starts a `codex app-server` on  *)
(* a home directory, asks it for the account (and for a renewal, or the    *)
(* rate limits), and waits for its answer and its exit.                    *)
(*                                                                         *)
(* The server is Codex and not in the repository; what it does is taken    *)
(* from how the code uses it: it reads auth.json of its home, may spend    *)
(* the refresh token, then replaces auth.json there, and answers.  The     *)
(* lines of its output that answer another call are skipped (rpcID), so    *)
(* only the answer matters.  OpenAI's token service is external as well:   *)
(* a refresh token works once and issues the account's next document.      *)
(***************************************************************************)
EXTENDS CodexTable

CONSTANTS
  Keys,        \* accounts whose document holds an API key; it is never renewed
  Weathers     \* what may go wrong in one behaviour: a set of sets of FaultKinds

\* A read of a slot's item or of auth.json fails, a write of a slot's item, of
\* auth.json, of codex-state.json, a deletion; no app-server can be started for
\* a file that does not exist; the app-server fails or hangs, or fails with words
\* that read like a refusal; Codex looks for its login elsewhere than in auth.json;
\* cas dies; the user ends sessions, logs out and signs in beside cas.
FaultKinds ==
  {"read", "store", "live", "save", "delete", "exec", "server", "text", "keyring",
   "crash", "user"}

ASSUME AppServerAssumption ==
  /\ Keys \subseteq Accounts
  /\ Weathers \subseteq SUBSET FaultKinds

VARIABLES
  issued,      \* issued[a]: how many documents account a has been issued
  unspent,     \* unspent[a]: those whose refresh token still works
  auth,        \* auth.json in CODEX_HOME ("live") and in the temporary home ("temp")
  proc,        \* the app-server cas has started, or NoProc
  answer,      \* what Client.read returned
  weather      \* what may go wrong; never changes

service == <<issued, unspent>>
serverVars == <<service, auth, proc, answer>>

Homes == {"live", "temp"}

Asks == {"account", "refresh", "limits"}

\* up: has read auth.json; renewed: has spent its token; ready: will answer
Proc == [st: {"up", "renewed", "ready"}, home: Homes, ask: Asks, doc: Doc]

NoProc == [st |-> "none", home |-> "temp", ask |-> "account", doc |-> NoDoc]

\* Account: whom the answer names.
Named(a) == [kind |-> "account", acct |-> a]

\* An error, by what clean makes of its text: "rejected" by the token service;
\* "unauthorized", which speaks of no account, or of one that is not let in;
\* "missing", os.ErrNotExist; any other "failed".
Failure(kind) == [kind |-> kind, acct |-> NoAccount]
NoAnswer == Failure("none")

Answers ==
  {Named(a) : a \in Accounts} \union
    {Failure(k) : k \in {"none", "rejected", "unauthorized", "missing", "failed"}}

ServerTypeOK ==
  /\ issued \in [Accounts -> Gens \union {0}]
  /\ unspent \in [Accounts -> SUBSET Gens]
  /\ auth \in [Homes -> Docs]
  /\ proc \in Proc \union {NoProc}
  /\ answer \in Answers
  /\ weather \in Weathers

-----------------------------------------------------------------------------

\* The document still logs in for good: its refresh token, or its key, works.
Working(d) == d # NoDoc /\ d.gen \in unspent[d.acct]

\* A consented sign-in as a; signing in with a key gives the same document again.
NextDoc(a) == [acct |-> a, gen |-> IF a \in Keys THEN 1 ELSE issued[a] + 1]

SignInAs(a) ==
  /\ NextDoc(a).gen <= MaxGen
  /\ issued' = [issued EXCEPT ![a] = NextDoc(a).gen]
  /\ unspent' = [unspent EXCEPT ![a] = @ \union {NextDoc(a).gen}]

Renewable(d) == Working(d) /\ d.acct \notin Keys /\ issued[d.acct] < MaxGen

\* d's refresh token is spent, and its successor issued.
Rotate(d) ==
  /\ Renewable(d)
  /\ issued' = [issued EXCEPT ![d.acct] = @ + 1]
  /\ unspent' = [unspent EXCEPT ![d.acct] = (@ \ {d.gen}) \union {issued[d.acct] + 1}]

-----------------------------------------------------------------------------
(***************************************************************************)
(* The client.  Its context kills a server that takes too long.            *)
(***************************************************************************)

\* Client.read until the server runs.
StartServer(home, ask, doc) ==
  /\ proc = NoProc
  /\ \/ /\ proc' = [st |-> "up", home |-> home, ask |-> ask, doc |-> doc]
        /\ answer' = NoAnswer
     \/ /\ "exec" \in weather
        /\ answer' = Failure("missing")
        /\ UNCHANGED proc

\* Mutant: a server that was not waited for goes on.
MutReturn(result) == answer' = result /\ UNCHANGED <<service, auth, proc>>

\* The call is over and the server gone: waited for, or killed.
Return(result) == answer' = result /\ proc' = NoProc /\ UNCHANGED <<service, auth>>

\* The server answers, its input is closed, and it exits.  A Codex that does not
\* keep its login in auth.json names an account of its own.
Answered ==
  /\ proc.st = "ready"
  /\ \E a \in Accounts :
       /\ a = proc.doc.acct \/ "keyring" \in weather
       /\ Return(Named(a))

\* The service tells the server that the refresh token is spent.
Rejected ==
  /\ proc.st = "up" /\ proc.ask = "refresh" /\ ~Working(proc.doc)
  /\ Return(Failure("rejected"))

\* Mutant: nothing ends the wait for a server that hangs.
MutCallFails ==
  /\ proc.st = "ready" /\ "server" \in weather
  /\ Return(Failure("failed"))

\* A Codex that looks elsewhere sees no account at all ("no signed-in account"),
\* whatever auth.json holds.
SeesNone ==
  /\ proc.st = "up" /\ "keyring" \in weather
  /\ Return(Failure("unauthorized"))

\* An error answer, output that is not JSON, the end of the output, a bad exit,
\* or the deadline of the context, at any point of the call.
CallFails ==
  /\ proc # NoProc
  /\ \/ "server" \in weather
     \/ proc.st = "up" /\ proc.ask = "refresh" /\ Working(proc.doc) /\ ~Renewable(proc.doc)
  /\ Return(Failure("failed"))

\* The same, where the server's message, or what it wrote to stderr, reads like a
\* refusal whatever the reason was.
ReadsAsRefusal ==
  /\ proc # NoProc /\ "text" \in weather
  /\ Return(Failure("unauthorized"))

Client == Answered \/ Rejected \/ SeesNone \/ CallFails \/ ReadsAsRefusal

-----------------------------------------------------------------------------
(***************************************************************************)
(* The server.  Asked to refresh it must renew; else it may.               *)
(***************************************************************************)

ServerRenews ==
  /\ proc.st = "up" /\ Rotate(proc.doc)
  /\ proc' = [proc EXCEPT !.st = "renewed", !.doc = NextDoc(proc.doc.acct)]
  /\ UNCHANGED <<auth, answer>>

ServerStores ==
  /\ proc.st = "renewed"
  /\ auth' = [auth EXCEPT ![proc.home] = proc.doc]
  /\ proc' = [proc EXCEPT !.st = "ready"]
  /\ UNCHANGED <<service, answer>>

ServerKeeps ==
  /\ proc.st = "up" /\ proc.ask # "refresh"
  /\ proc' = [proc EXCEPT !.st = "ready"]
  /\ UNCHANGED <<service, auth, answer>>

Server == ServerRenews \/ ServerStores \/ ServerKeeps

==============================================================================
