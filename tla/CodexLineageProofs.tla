------------------------- MODULE CodexLineageProofs -------------------------
(***************************************************************************)
(* Why cas codex loses no working login, for any accounts, slots, sessions *)
(* and documents: Lineage is an invariant, and SyncKeepsWorking and        *)
(* LosesNoAccount follow from it.                                          *)
(***************************************************************************)
EXTENDS CodexAccountsProofs

-----------------------------------------------------------------------------
(***************************************************************************)
(* Which documents work after a step, and which step it can be.            *)
(***************************************************************************)

\* Working after a step, of a document that the step does not change.
WorkNext(d) == d # NoDoc /\ d.gen \in unspent'[d.acct]

LEMMA SameService ==
  ASSUME UNCHANGED service, NEW d
  PROVE  WorkNext(d) <=> Working(d)
BY DEF service, WorkNext, Working

\* A sign-in spends nothing.
LEMMA SignInLives ==
  ASSUME ServerTypeOK, NEW a \in Accounts, SignInAs(a)
  PROVE  /\ \A d \in Docs : Working(d) => WorkNext(d)
         /\ WorkNext(NextDoc(a))
<1>1. \A b \in Accounts : unspent'[b] = IF b = a THEN unspent[b] \union {NextDoc(a).gen} ELSE unspent[b]
  BY DEF SignInAs, ServerTypeOK
<1>2. NextDoc(a) \in Doc /\ NextDoc(a).acct = a
  BY SignInTypes
<1>3. ASSUME NEW d \in Docs, Working(d)
      PROVE  WorkNext(d)
  <2>1. d # NoDoc /\ d.acct \in Accounts /\ d.gen \in unspent[d.acct]
    BY <1>3 DEF Working, Docs, Doc
  <2>2. QED
    BY <1>1, <2>1 DEF WorkNext
<1>4. WorkNext(NextDoc(a))
  BY <1>1, <1>2, NoDocIsNoDoc DEF WorkNext
<1>5. QED
  BY <1>3, <1>4

\* A renewal spends one document.
LEMMA RotateLives ==
  ASSUME ServerTypeOK, NEW e \in Docs, Rotate(e)
  PROVE  /\ \A d \in Issued : WorkNext(d) <=> Working(d) /\ d # e
         /\ WorkNext(NextDoc(e.acct))
         /\ Working(e) /\ e.acct \notin Keys
<1>1. /\ e \in Doc /\ e.acct \in Accounts /\ e.acct \notin Keys /\ Working(e)
      /\ NextDoc(e.acct) \in Doc /\ NextDoc(e.acct).acct = e.acct
  BY RotateTypes DEF Rotate, Renewable
<1>2. \A b \in Accounts : unspent'[b] = IF b = e.acct THEN (unspent[b] \ {e.gen}) \union {issued[b] + 1}
                                        ELSE unspent[b]
  BY <1>1 DEF Rotate, ServerTypeOK
<1>3. NextDoc(e.acct).gen = issued[e.acct] + 1
  BY <1>1 DEF NextDoc
<1>4. WorkNext(NextDoc(e.acct))
  BY <1>1, <1>2, <1>3, NoDocIsNoDoc DEF WorkNext
<1>5. ASSUME NEW d \in Issued
      PROVE  WorkNext(d) <=> Working(d) /\ d # e
  <2>1. CASE d = NoDoc
    BY <2>1 DEF WorkNext, Working
  <2>2. CASE d # NoDoc
    <3>1. d \in Doc /\ d.acct \in Accounts /\ d.gen \in Nat /\ d.gen <= issued[d.acct] /\ issued[d.acct] \in Nat
      BY <2>2, CodexTableAssumption DEF Issued, Docs, Doc, Gens, ServerTypeOK
    <3>2. CASE d.acct # e.acct
      BY <1>2, <2>2, <3>1, <3>2 DEF WorkNext, Working
    <3>3. CASE d.acct = e.acct
      <4>1. d.gen # issued[d.acct] + 1
        BY <3>1
      <4>2. d # e <=> d.gen # e.gen
        BY <1>1, <3>1, <3>3 DEF Doc
      <4>3. d.gen \in unspent'[d.acct] <=> d.gen \in unspent[d.acct] /\ d.gen # e.gen
        BY <1>1, <1>2, <3>3, <4>1
      <4>4. QED
        BY <2>2, <4>2, <4>3 DEF WorkNext, Working
    <3>4. QED
      BY <3>2, <3>3
  <2>3. QED
    BY <2>1, <2>2
<1>6. QED
  BY <1>1, <1>4, <1>5

\* What cas does next is told by where it is.
LEMMA PassingAt ==
  ASSUME Filing, Passing
  PROVE  \/ Crash
         \/ (ClientStep \/ (ServerStep /\ ~ServerRenews)) /\ pc \in {"verify", "call"} /\ proc # NoProc
         \/ (\E c \in Commands, n \in SlotIds \union {0} : Begin(c, n)) /\ pc = "idle"
         \/ Sync /\ pc = "sync"
         \/ SyncSave /\ pc = "syncSave"
         \/ (Adopt \/ LoginPreserve \/ Switch \/ Plan \/ List \/ RemoveSlot \/ Label) /\ pc = "act"
         \/ Confirmed /\ pc = "ask"
         \/ LoginSave /\ pc = "loginSave"
         \/ /\ CodexLogin /\ pc = "codexLogin"
            /\ Quit \/ UNCHANGED <<serverVars, outer, parked, disk, cmd, locals>>
         \/ LoginRegister /\ pc = "loginRegister"
         \/ Install /\ pc = "install"
         \/ Verify /\ pc = "start"
         \/ (SwitchBack \/ Switched) /\ pc = "verify"
         \/ (Visit \/ Visited) /\ pc = "next"
         \/ (Refreshed \/ Limited) /\ pc = "call"
         \/ Mirror /\ pc = "mirror"
         \/ Sweep /\ pc = "sweep"
         \/ Save /\ pc = "save"
<1>1. /\ \A c, n : Begin(c, n) => pc = "idle"
      /\ Sync => pc = "sync"
      /\ SyncSave => pc = "syncSave"
      /\ Adopt \/ LoginPreserve \/ Switch \/ Plan \/ List \/ RemoveSlot \/ Label => pc = "act"
      /\ Confirmed => pc = "ask"
      /\ LoginSave => pc = "loginSave"
      /\ CodexLogin => pc = "codexLogin"
      /\ LoginRegister => pc = "loginRegister"
  BY DEF Begin, Sync, SyncSave, Adopt, LoginPreserve, Switch, Plan, List, RemoveSlot, Label,
         Confirmed,
         LoginSave, CodexLogin, LoginRegister
<1>2. /\ Install => pc = "install"
      /\ Verify => pc = "start"
      /\ SwitchBack \/ Switched => pc = "verify"
      /\ Visit \/ Visited => pc = "next"
      /\ Refreshed \/ Limited => pc = "call"
      /\ Mirror => pc = "mirror"
      /\ Sweep => pc = "sweep"
      /\ Save => pc = "save"
  BY DEF Install, Verify, SwitchBack, Switched, Visit, Visited, Refreshed, Limited, Mirror,
         Sweep, Save
<1>3. ClientStep \/ ServerStep => proc # NoProc /\ pc \in {"verify", "call"}
  <2>1. ClientStep \/ ServerStep => proc # NoProc
    BY DEF ClientStep, Client, Answered, Rejected, SeesNone, CallFails, ReadsAsRefusal,
           ServerStep, Server, ServerStores,
           ServerRenews, ServerKeeps, NoProc
  <2>2. QED
    BY <2>1, Types
<1>4. QED
  BY <1>1, <1>2, <1>3 DEF Passing, Step

LEMMA NextCases ==
  ASSUME Next
  PROVE  \/ Passing
         \/ \E a \in Accounts : CodexLogin /\ SignsIn(a)
         \/ ServerStep /\ ServerRenews
         \/ Codex
<1>1. CASE CodexLogin
  BY <1>1 DEF CodexLogin, SignsIn, Passing
<1>2. QED
  BY <1>1 DEF Next, Passing

\* An app-server that runs is waited for.
LEMMA Awaits ==
  ASSUME Filing, Passing, proc # NoProc
  PROVE  Crash \/ ClientStep \/ (ServerStep /\ ~ServerRenews)
<1>1. /\ answer = NoAnswer /\ pc \in {"verify", "call"}
      /\ NoAnswer.kind # "account"
  BY DEF Filing, TypeOK, NoAnswer, Failure
<1>2. ~(SwitchBack \/ Switched \/ Refreshed \/ Limited)
  BY <1>1 DEF SwitchBack, Mismatch, Switched, Refreshed, Limited
<1>3. QED
  BY <1>1, <1>2, PassingAt

\* What a session or the user does.
LEMMA CodexSteps ==
  ASSUME Filing, Codex
  PROVE  /\ UNCHANGED <<parked, disk, pc, cmd, mem, tgt, doc, prev, todo, dead, proc, answer, weather, putBack>>
         /\ auth'["temp"] = auth["temp"]
         /\ \/ /\ UNCHANGED <<service, auth>>
               /\ \E s \in Sessions :
                    /\ sess[s].doc = NoDoc /\ sess'[s].doc = auth["live"] /\ auth["live"] # NoDoc
                    /\ \A r \in Sessions : sess'[r].dirty = sess[r].dirty
                    /\ \A r \in Sessions \ {s} : sess'[r].doc = sess[r].doc
            \/ /\ UNCHANGED auth
               /\ \E s \in Sessions :
                    /\ Rotate(sess[s].doc) /\ ~sess[s].dirty /\ sess'[s].dirty
                    /\ sess'[s].doc = NextDoc(sess[s].doc.acct)
                    /\ \A r \in Sessions \ {s} : sess'[r] = sess[r]
            \/ /\ UNCHANGED service
               /\ \E s \in Sessions :
                    /\ sess[s].dirty /\ auth'["live"] = sess[s].doc /\ ~sess'[s].dirty
                    /\ \A r \in Sessions : sess'[r].doc = sess[r].doc
                    /\ \A r \in Sessions \ {s} : sess'[r].dirty = sess[r].dirty
            \/ /\ "user" \in weather /\ UNCHANGED service
               /\ \/ UNCHANGED auth
                  \/ auth'["live"] = NoDoc
               /\ \A r \in Sessions : sess'[r] = sess[r] \/ sess'[r] = [doc |-> NoDoc, dirty |-> FALSE]
            \/ /\ "user" \in weather /\ UNCHANGED sess
               /\ \E a \in Accounts : SignInAs(a) /\ auth'["live"] = NextDoc(a)
<1>1. /\ UNCHANGED <<parked, disk, pc, cmd, mem, tgt, doc, prev, todo, dead, proc, answer, weather, putBack>>
      /\ sess \in [Sessions -> [doc: Docs, dirty: BOOLEAN]]
      /\ auth \in [Homes -> Docs] /\ "live" \in Homes /\ "temp" \in Homes
  BY CodexCases, Types DEF locals, Homes
<1>2. auth'["temp"] = auth["temp"]
  BY <1>1 DEF Codex, Open, Renew, WriteBack, End, Logout, SignIn, Replaced
<1>3. ASSUME NEW s \in Sessions, Open(s)
      PROVE  /\ UNCHANGED <<service, auth>>
             /\ sess[s].doc = NoDoc /\ sess'[s].doc = auth["live"] /\ auth["live"] # NoDoc
             /\ \A r \in Sessions : sess'[r].dirty = sess[r].dirty
             /\ \A r \in Sessions \ {s} : sess'[r].doc = sess[r].doc
  BY <1>3, CodexCases DEF Open
<1>4. ASSUME NEW s \in Sessions, Renew(s)
      PROVE  /\ UNCHANGED auth
             /\ Rotate(sess[s].doc) /\ ~sess[s].dirty /\ sess'[s].dirty
             /\ sess'[s].doc = NextDoc(sess[s].doc.acct)
             /\ \A r \in Sessions \ {s} : sess'[r] = sess[r]
  BY <1>1, <1>4 DEF Renew
<1>5. ASSUME NEW s \in Sessions, WriteBack(s)
      PROVE  /\ UNCHANGED service /\ sess[s].dirty /\ auth'["live"] = sess[s].doc /\ ~sess'[s].dirty
             /\ \A r \in Sessions : sess'[r].doc = sess[r].doc
             /\ \A r \in Sessions \ {s} : sess'[r].dirty = sess[r].dirty
  BY <1>1, <1>5, CodexCases DEF Replaced
<1>6. ASSUME NEW s \in Sessions, End(s)
      PROVE  /\ "user" \in weather /\ UNCHANGED <<service, auth>>
             /\ \A r \in Sessions : sess'[r] = sess[r] \/ sess'[r] = [doc |-> NoDoc, dirty |-> FALSE]
  BY <1>1, <1>6 DEF End
<1>7. CASE Logout
  <2>1. "user" \in weather /\ UNCHANGED <<service, sess>> /\ auth'["live"] = NoDoc
    BY <1>1, <1>7 DEF Logout, Replaced
  <2>2. QED
    BY <1>1, <1>2, <2>1
<1>8. ASSUME NEW a \in Accounts, SignIn(a)
      PROVE  "user" \in weather /\ UNCHANGED sess /\ SignInAs(a) /\ auth'["live"] = NextDoc(a)
  BY <1>1, <1>8 DEF SignIn, Replaced
<1>9. CASE \E s \in Sessions : Open(s)
  BY <1>1, <1>2, <1>3, <1>9
<1>10. CASE \E s \in Sessions : Renew(s)
  BY <1>1, <1>2, <1>4, <1>10
<1>11. CASE \E s \in Sessions : WriteBack(s)
  BY <1>1, <1>2, <1>5, <1>11
<1>12. CASE \E s \in Sessions : End(s)
  BY <1>1, <1>2, <1>6, <1>12
<1>13. CASE \E a \in Accounts : SignIn(a)
  BY <1>1, <1>2, <1>8, <1>13
<1>14. QED
  BY <1>7, <1>9, <1>10, <1>11, <1>12, <1>13 DEF Codex

\* An app-server has just renewed, or had before and only Codex did something.
LEMMA RenewedNext ==
  ASSUME Filing, Next, proc'.st = "renewed"
  PROVE  \/ ServerStep /\ ServerRenews
         \/ UNCHANGED proc /\ Codex
<1>1. ASSUME Passing
      PROVE  FALSE
  <2>1. proc' = proc \/ proc'.st # "renewed"
    <3>1. CASE Switch \/ Refreshed \/ Limited
      BY <3>1, CallCases DEF Switch, Quit, serverVars
    <3>2. QED
      BY <1>1, <3>1, PassingIsSteady DEF Steady
  <2>2. proc # NoProc
    BY <2>1 DEF NoProc
  <2>3. CASE Crash \/ ClientStep
    BY <2>3 DEF Crash, ClientStep, Client, Answered, Rejected, SeesNone, CallFails,
                ReadsAsRefusal, Return, NoProc
  <2>4. CASE ServerStep /\ ~ServerRenews
    <3>1. proc \in Proc
      BY <2>2, Types DEF ServerTypeOK
    <3>2. proc'.st = "ready"
      BY <2>4, <3>1 DEF ServerStep, Server, ServerStores, ServerKeeps, Proc
    <3>3. QED
      BY <3>2
  <2>5. QED
    BY <1>1, <2>2, <2>3, <2>4, Awaits
<1>2. ASSUME NEW a \in Accounts, CodexLogin, SignsIn(a)
      PROVE  FALSE
  <2>1. pc = "codexLogin" /\ UNCHANGED proc
    BY <1>2 DEF CodexLogin, SignsIn
  <2>2. QED
    BY <2>1, Types DEF NoProc
<1>3. CASE Codex
  BY <1>3, CodexSteps
<1>4. QED
  BY <1>1, <1>2, <1>3, NextCases

-----------------------------------------------------------------------------
(***************************************************************************)
(* What works goes on working, unless it is renewed.                       *)
(***************************************************************************)

LEMMA LivesOn ==
  ASSUME Filing, AllIssued, Next, NEW d \in Issued, Working(d), ~WorkNext(d)
  PROVE  \/ ServerStep /\ ServerRenews /\ proc.doc = d
         \/ /\ Codex /\ UNCHANGED auth
            /\ \E s \in Sessions :
                 /\ sess[s].doc = d /\ ~sess[s].dirty /\ sess'[s].dirty
                 /\ Rotate(d) /\ sess'[s].doc = NextDoc(d.acct)
<1>1. ServerTypeOK /\ d \in Docs
  BY Types DEF Issued
<1>2. ~UNCHANGED service
  BY SameService
<1>3. ASSUME NEW a \in Accounts, SignInAs(a)
      PROVE  FALSE
  BY <1>1, <1>3, SignInLives
<1>4. ASSUME NEW e \in Docs, Rotate(e)
      PROVE  e = d
  BY <1>1, <1>4, RotateLives
<1>5. CASE Passing
  BY <1>2, <1>5, PassingHolds
<1>6. ASSUME NEW a \in Accounts, SignsIn(a)
      PROVE  FALSE
  BY <1>3, <1>6 DEF SignsIn
<1>7. CASE ServerStep /\ ServerRenews
  <2>1. proc.doc \in Docs /\ Rotate(proc.doc)
    BY <1>7, Types, NoDocIsNoDoc DEF ServerRenews, ServerTypeOK, Proc, NoProc
  <2>2. QED
    BY <1>4, <1>7, <2>1
<1>8. CASE Codex
  <2>1. PICK s \in Sessions :
          /\ UNCHANGED auth
          /\ Rotate(sess[s].doc) /\ ~sess[s].dirty /\ sess'[s].dirty
          /\ sess'[s].doc = NextDoc(sess[s].doc.acct)
    BY <1>2, <1>3, <1>8, CodexSteps
  <2>2. sess[s].doc \in Docs
    BY DEF Filing, TypeOK
  <2>3. QED
    BY <1>4, <1>8, <2>1, <2>2
<1>9. QED
  BY <1>5, <1>6, <1>7, <1>8, NextCases

\* What a session has yet to store, it had before, or has just renewed.
LEMMA DirtyNext ==
  ASSUME Filing, Unshared, Next, NEW s \in Sessions, sess'[s].dirty
  PROVE  \/ sess[s].dirty /\ sess'[s].doc = sess[s].doc
         \/ /\ Codex /\ UNCHANGED auth
            /\ Rotate(sess[s].doc) /\ sess'[s].doc = NextDoc(sess[s].doc.acct)
            /\ \A r \in Sessions \ {s} : sess'[r] = sess[r]
<1>1. CASE Codex
  <2>1. CASE sess'[s] = sess[s]
    BY <2>1
  <2>2. CASE sess'[s] # sess[s] /\ sess'[s] # [doc |-> NoDoc, dirty |-> FALSE]
    <3> sess[s].dirty => sess[s].doc # NoDoc
      BY NoDocIsNoDoc DEF Unshared
    <3>1. CASE \E r \in Sessions : /\ sess[r].doc = NoDoc
                                   /\ \A q \in Sessions : sess'[q].dirty = sess[q].dirty
                                   /\ \A q \in Sessions \ {r} : sess'[q].doc = sess[q].doc
      <4>1. sess[s].dirty
        BY <3>1
      <4>2. QED
        BY <1>1, <2>2, <3>1, <4>1, CodexSteps
    <3>2. QED
      BY <1>1, <2>2, <3>1, CodexSteps
  <2>3. QED
    BY <2>1, <2>2
<1>2. CASE ~Codex
  <2>1. UNCHANGED sess
    BY <1>2, NextCases, PassingHolds DEF SignsIn, outer, ServerStep, Cas
  <2>2. QED
    BY <2>1
<1>3. QED
  BY <1>1, <1>2

LEMMA DocNext ==
  ASSUME Filing, Next, NEW s \in Sessions
  PROVE  \/ sess'[s].doc \in {sess[s].doc, NoDoc, auth["live"]}
         \/ Rotate(sess[s].doc) /\ sess'[s].doc = NextDoc(sess[s].doc.acct)
<1>1. CASE Codex
  BY <1>1, CodexSteps
<1>2. CASE ~Codex
  <2>1. UNCHANGED sess
    BY <1>2, NextCases, PassingHolds DEF SignsIn, outer, ServerStep, Cas
  <2>2. QED
    BY <2>1
<1>3. QED
  BY <1>1, <1>2

\* A document that neither auth.json nor a session has stays out of their reach.
LEMMA StaysApart ==
  ASSUME Filing, AllIssued, Codex, NEW d \in Issued, Working(d), d.acct \notin Keys,
         d # auth["live"], \A s \in Sessions : sess[s].doc # d
  PROVE  WorkNext(d) /\ d # auth'["live"] /\ \A s \in Sessions : sess'[s].doc # d
<1>1. Next /\ ServerTypeOK /\ d # NoDoc
  BY Types DEF Next, Working
<1>2. ~(ServerStep /\ ServerRenews) \/ WorkNext(d)
  <2>1. UNCHANGED proc
    BY CodexSteps
  <2>2. ServerRenews => proc' # proc
    BY Types, NoDocIsNoDoc DEF ServerRenews, ServerTypeOK, Proc, NoProc
  <2>3. QED
    BY <2>1, <2>2
<1>3. WorkNext(d)
  BY <1>1, <1>2, LivesOn
<1>4. ASSUME NEW a \in Accounts, SignInAs(a)
      PROVE  NextDoc(a) # d
  BY <1>1, <1>4, NewIsNew, SignInTypes
<1>5. d # auth'["live"]
  <2>1. \/ auth'["live"] \in {auth["live"], NoDoc}
        \/ \E s \in Sessions : auth'["live"] = sess[s].doc
        \/ \E a \in Accounts : SignInAs(a) /\ auth'["live"] = NextDoc(a)
    BY CodexSteps
  <2>2. QED
    BY <1>1, <1>4, <2>1
<1>6. ASSUME NEW s \in Sessions
      PROVE  sess'[s].doc # d
  <2>1. sess[s].doc \in Docs
    BY DEF Filing, TypeOK
  <2>2. Rotate(sess[s].doc) => NextDoc(sess[s].doc.acct) # d
    BY <1>1, <2>1, NewIsNew
  <2>3. QED
    BY <1>1, <2>2, DocNext
<1>7. QED
  BY <1>3, <1>5, <1>6

-----------------------------------------------------------------------------
(***************************************************************************)
(* What was renewed and is not stored yet works, and nobody else has it.   *)
(***************************************************************************)

LEMMA DirtyWorks ==
  ASSUME Filing, AllIssued, Unshared, Unstored, Next, NEW s \in Sessions, sess'[s].dirty
  PROVE  WorkNext(sess'[s].doc)
<1>1. sess[s].doc \in Docs /\ sess[s].doc \in Issued /\ ServerTypeOK
  BY Types, Holders DEF Filing, TypeOK
<1>2. CASE sess[s].dirty /\ sess'[s].doc = sess[s].doc
  <2>1. Working(sess[s].doc)
    BY <1>2 DEF Unstored
  <2>2. HeldIn((Docs \union {NoSlot}) \ {sess[s].doc})
    BY <1>2 DEF Unshared
  <2>3. proc.doc # sess[s].doc
    BY <2>2, Holdings
  <2>4. \A r \in Sessions : ~sess[r].dirty => sess[r].doc # sess[s].doc
    BY <1>2 DEF Unshared
  <2>5. QED
    BY <1>1, <1>2, <2>1, <2>3, <2>4, LivesOn
<1>3. CASE Rotate(sess[s].doc) /\ sess'[s].doc = NextDoc(sess[s].doc.acct)
  BY <1>1, <1>3, RotateLives
<1>4. QED
  BY <1>2, <1>3, DirtyNext

LEMMA RenewedWorks ==
  ASSUME Filing, AllIssued, Copies, Unstored, Next, proc'.st = "renewed"
  PROVE  /\ WorkNext(proc'.doc) /\ proc'.doc.acct \notin Keys /\ proc'.doc # auth'["live"]
         /\ \A s \in Sessions : sess'[s].doc # proc'.doc
         /\ pc' = "call" => proc'.doc.acct = doc'.acct
<1>1. CASE ServerStep /\ ServerRenews
  <2>1. /\ proc.doc \in Docs /\ proc.st = "up" /\ Rotate(proc.doc)
        /\ proc'.doc = NextDoc(proc.doc.acct)
        /\ UNCHANGED <<auth, sess, pc, doc>> /\ ServerTypeOK
    BY <1>1, Types, NoDocIsNoDoc
    DEF ServerRenews, ServerTypeOK, Proc, NoProc, ServerStep, Cas, outer, locals
  <2>2. proc'.doc \notin Issued /\ proc'.doc.acct = proc.doc.acct
    BY <2>1, NewIsNew, RotateTypes
  <2>3. WorkNext(proc'.doc) /\ proc.doc.acct \notin Keys
    BY <2>1, RotateLives
  <2>4. pc = "call" => proc.doc = doc
    BY <2>1 DEF Copies
  <2>5. QED
    BY <2>1, <2>2, <2>3, <2>4, Holders
<1>2. CASE UNCHANGED proc /\ Codex
  <2>1. UNCHANGED <<pc, doc>>
    BY <1>2, CodexSteps
  <2>2. /\ Working(proc.doc) /\ proc.doc.acct \notin Keys /\ proc.doc # auth["live"]
        /\ \A s \in Sessions : sess[s].doc # proc.doc
        /\ pc = "call" => proc.doc.acct = doc.acct
    BY <1>2 DEF Unstored
  <2>3. PICK d \in Issued : d = proc.doc
    BY Holders
  <2>4. WorkNext(d) /\ d # auth'["live"] /\ \A s \in Sessions : sess'[s].doc # d
    BY <1>2, <2>2, <2>3, StaysApart
  <2>5. QED
    BY <1>2, <2>1, <2>2, <2>3, <2>4
<1>3. QED
  BY <1>1, <1>2, RenewedNext

LEMMA LeftWorks ==
  ASSUME Filing, AllIssued, Unstored, Next, pc' = "call", auth'["temp"] # doc'
  PROVE  /\ WorkNext(auth'["temp"]) /\ auth'["temp"].acct = doc'.acct /\ doc'.acct \notin Keys
         /\ auth'["temp"] # auth'["live"] /\ proc'.st \notin {"up", "renewed"}
         /\ \A s \in Sessions : sess'[s].doc # auth'["temp"]
<1>1. ~Visit
  <2>1. SUFFICES ASSUME Visit
                 PROVE  FALSE
    OBVIOUS
  <2>2. pc = "next"
    BY <2>1 DEF Visit
  <2>3. PICK d : auth' = [auth EXCEPT !["temp"] = d] /\ doc' = d
    BY <2>1, <2>2 DEF Visit
  <2>4. QED
    BY <2>3, Types DEF Homes
<1>2. (ClientStep \/ ServerStep \/ Codex) /\ UNCHANGED <<pc, doc, parked, tgt>>
  BY <1>1, CallsBegin
<1>3. ASSUME auth["temp"] # doc
      PROVE  /\ Working(auth["temp"]) /\ auth["temp"].acct = doc.acct /\ doc.acct \notin Keys
             /\ auth["temp"] # auth["live"] /\ proc.st \notin {"up", "renewed"}
             /\ \A s \in Sessions : sess[s].doc # auth["temp"]
  BY <1>2, <1>3 DEF Unstored
<1>4. CASE ClientStep
  <2>1. UNCHANGED <<service, auth, sess>> /\ proc' = NoProc
    BY <1>4 DEF ClientStep, Client, Answered, Rejected, SeesNone, CallFails, ReadsAsRefusal,
                Return, Cas, outer
  <2>2. QED
    BY <1>2, <1>3, <2>1, SameService DEF NoProc
<1>5. CASE ServerStep
  <2>1. /\ UNCHANGED sess
        /\ ServerStores \/ (UNCHANGED auth /\ proc.st = "up")
    BY <1>5 DEF ServerStep, Server, ServerRenews, ServerKeeps, Cas, outer
  <2>2. ServerStores
    BY <1>2, <1>3, <2>1
  <2>3. /\ proc.st = "renewed" /\ proc \in Proc /\ proc.home = "temp" /\ UNCHANGED service
    BY <1>2, <2>2, Types DEF ServerStores, ServerTypeOK, NoProc, Filing, TypeOK, Proc, Homes
  <2>4. auth'["temp"] = proc.doc /\ auth'["live"] = auth["live"] /\ proc'.st = "ready"
    BY <2>2, <2>3, Types DEF ServerStores, Homes, Proc
  <2>5. /\ Working(proc.doc) /\ proc.doc.acct \notin Keys /\ proc.doc # auth["live"]
        /\ \A s \in Sessions : sess[s].doc # proc.doc
        /\ proc.doc.acct = doc.acct
    BY <1>2, <2>3 DEF Unstored
  <2>6. QED
    BY <1>2, <2>1, <2>3, <2>4, <2>5, SameService
<1>6. CASE Codex
  <2>1. auth'["temp"] = auth["temp"] /\ UNCHANGED proc
    BY <1>6, CodexSteps
  <2>2. PICK d \in Issued : d = auth["temp"]
    BY Holders
  <2>3. WorkNext(d) /\ d # auth'["live"] /\ \A s \in Sessions : sess'[s].doc # d
    BY <1>2, <1>3, <1>6, <2>1, <2>2, StaysApart
  <2>4. QED
    BY <1>2, <1>3, <2>1, <2>2, <2>3
<1>7. QED
  BY <1>2, <1>4, <1>5, <1>6

LEMMA NextKeepsUnstored ==
  ASSUME IInv, Unstored, Next
  PROVE  Unstored'
<1>1. Filing /\ AllIssued /\ Unshared /\ Copies
  BY DEF IInv
<1>2. \A s \in Sessions : sess'[s].dirty => WorkNext(sess'[s].doc)
  BY <1>1, DirtyWorks
<1>3. proc'.st = "renewed" =>
        /\ WorkNext(proc'.doc) /\ proc'.doc.acct \notin Keys /\ proc'.doc # auth'["live"]
        /\ \A s \in Sessions : sess'[s].doc # proc'.doc
        /\ pc' = "call" => proc'.doc.acct = doc'.acct
  BY <1>1, RenewedWorks
<1>4. pc' = "call" /\ auth'["temp"] # doc' =>
        /\ WorkNext(auth'["temp"]) /\ auth'["temp"].acct = doc'.acct /\ doc'.acct \notin Keys
        /\ auth'["temp"] # auth'["live"] /\ proc'.st \notin {"up", "renewed"}
        /\ \A s \in Sessions : sess'[s].doc # auth'["temp"]
  BY <1>1, LeftWorks
<1>5. QED
  BY <1>2, <1>3, <1>4 DEF Unstored, Working, WorkNext

-----------------------------------------------------------------------------
(***************************************************************************)
(* What is installed or mirrored is what its slot holds.                   *)
(***************************************************************************)

\* What comes of a call: nothing, or the slot gets what is in the temporary home.
LEMMA CallEffects ==
  ASSUME Filing, Refreshed \/ Limited
  PROVE  /\ pc = "call" /\ proc = NoProc /\ auth'["live"] = auth["live"]
         /\ UNCHANGED <<service, proc, outer, disk, cmd, tgt, prev, todo>>
         /\ \/ /\ UNCHANGED <<parked, mem>> /\ NextSlot
               /\ weather \intersect {"read", "store"} = {} /\ auth["temp"].acct = doc.acct =>
                    auth["temp"] = doc \/ answer # Named(mem.slots[tgt].acct)
            \/ /\ tgt \in Registered(mem) /\ auth["temp"] \in Doc /\ auth["temp"].acct = doc.acct
               /\ Written(tgt, auth["temp"]) /\ mem' = Apply(mem, tgt, auth["temp"])
               /\ \/ tgt = mem.active /\ pc' = "mirror" /\ doc' = auth["temp"] /\ UNCHANGED auth
                  \/ tgt # mem.active /\ NextSlot
<1>1. /\ pc = "call" /\ proc = NoProc
      /\ UNCHANGED <<service, proc, outer, disk, cmd, tgt, prev, todo>>
  BY CallCases
<1>2. tgt \in Registered(mem) /\ doc \in Doc
  BY <1>1, Types DEF Filing, Targets, Docs
<1>3. auth'["live"] = auth["live"]
  BY Types DEF Refreshed, Limited, Keep, NextSlot, Homes
<1>4. ASSUME NEW updated \in Reads(auth["temp"]), updated.acct = doc.acct
      PROVE  updated = auth["temp"] /\ auth["temp"] \in Doc
  <2>1. auth["temp"] \in Docs
    BY Types DEF Homes
  <2>2. updated # NoDoc
    BY <1>2, <1>4, IdentityAssumption DEF NoDoc, Doc
  <2>3. QED
    BY <2>1, <2>2, ReadsIsDoc
<1>5. ASSUME NEW updated \in Reads(auth["temp"]), updated.acct = doc.acct, Keep(updated)
      PROVE  \/ UNCHANGED <<parked, mem>> /\ NextSlot /\ "store" \in weather
             \/ /\ auth["temp"] \in Doc /\ auth["temp"].acct = doc.acct
                /\ Written(tgt, auth["temp"]) /\ mem' = Apply(mem, tgt, auth["temp"])
                /\ \/ tgt = mem.active /\ pc' = "mirror" /\ doc' = auth["temp"] /\ UNCHANGED auth
                   \/ tgt # mem.active /\ NextSlot
  BY <1>4, <1>5 DEF Keep, NotWritten
<1>6. ASSUME NEW updated \in Reads(auth["temp"]), "read" \notin weather
      PROVE  updated = auth["temp"]
  BY <1>6 DEF Reads
<1>7. CASE Refreshed
  <2>1. PICK updated \in Reads(auth["temp"]) :
          \/ /\ answer = Named(mem.slots[tgt].acct) /\ updated.acct = doc.acct /\ Keep(updated)
          \/ /\ ~(answer = Named(mem.slots[tgt].acct) /\ updated.acct = doc.acct)
             /\ NextSlot /\ UNCHANGED <<parked, mem>>
    BY <1>7 DEF Refreshed
  <2>2. QED
    BY <1>1, <1>2, <1>3, <1>5, <1>6, <2>1
<1>8. CASE Limited
  <2>1. PICK updated \in Reads(auth["temp"]) :
          \/ updated.acct = doc.acct /\ Keep(updated)
          \/ /\ ~(updated.acct = doc.acct /\ updated # doc)
             /\ NextSlot /\ UNCHANGED <<parked, mem>>
    BY <1>8 DEF Limited
  <2>2. QED
    BY <1>1, <1>2, <1>3, <1>5, <1>6, <2>1
<1>9. QED
  BY <1>7, <1>8

\* Only switch comes to install, and only a call to mirror.
LEMMA InstallsBegin ==
  ASSUME Filing, Next, pc' \in {"install", "mirror"}
  PROVE  \/ Switch /\ pc' = "install"
         \/ (Refreshed \/ Limited) /\ pc' = "mirror"
         \/ Codex
<1>1. CASE Passing
  BY <1>1, PassingIsSteady DEF Steady
<1>2. ASSUME NEW a \in Accounts, CodexLogin, SignsIn(a)
      PROVE  FALSE
  BY <1>2 DEF CodexLogin, SignsIn
<1>3. CASE ServerStep /\ ServerRenews
  <2>1. UNCHANGED pc /\ proc # NoProc
    BY <1>3 DEF ServerStep, ServerRenews, Cas, NoProc
  <2>2. QED
    BY <2>1, Types
<1>4. QED
  BY <1>1, <1>2, <1>3, NextCases

LEMMA NextKeepsFromSlot ==
  ASSUME IInv, FromSlot, Next
  PROVE  FromSlot'
<1>1. Filing
  BY DEF IInv
<1>2. SUFFICES ASSUME pc' \in {"install", "mirror"}
               PROVE  /\ pc' = "install" => doc' = parked'[tgt']
                      /\ pc' = "mirror" => /\ tgt' = mem'.active /\ tgt' \in Registered(mem')
                                           /\ doc' = parked'[tgt'] /\ doc' = auth'["temp"]
  <2>1. Registered(mem)' = Registered(mem')
    BY DEF Registered
  <2>2. QED
    BY <2>1 DEF FromSlot
<1>3. CASE Switch /\ pc' = "install"
  <2>1. PICK d \in (IF tgt \in Registered(mem) THEN Reads(parked[tgt]) ELSE {NoDoc}) :
          d # NoDoc /\ doc' = d /\ UNCHANGED <<parked, tgt>>
    BY <1>3 DEF Switch, Quit, Exit
  <2>2. d = parked[tgt]
    BY <2>1 DEF Reads
  <2>3. QED
    BY <1>3, <2>1, <2>2
<1>4. CASE (Refreshed \/ Limited) /\ pc' = "mirror"
  <2>1. /\ tgt \in Registered(mem) /\ auth["temp"] \in Doc /\ UNCHANGED tgt
        /\ parked' = [parked EXCEPT ![tgt] = auth["temp"]] /\ mem' = Apply(mem, tgt, auth["temp"])
        /\ tgt = mem.active /\ doc' = auth["temp"] /\ UNCHANGED auth
    BY <1>1, <1>4, CallEffects DEF NextSlot, Written
  <2>2. tgt \in SlotIds /\ parked \in [SlotIds -> Docs] /\ mem \in Table
    BY <1>1, <2>1, Types DEF Registered
  <2>3. mem'.active = mem.active /\ tgt \in Registered(mem')
    BY <2>1, <2>2, ApplyChangesOneSlot
  <2>4. QED
    BY <1>4, <2>1, <2>2, <2>3
<1>5. CASE Codex
  <2>1. UNCHANGED <<pc, parked, mem, tgt, doc>> /\ auth'["temp"] = auth["temp"]
    BY <1>1, <1>5, CodexSteps
  <2>2. QED
    BY <1>2, <2>1 DEF FromSlot
<1>6. QED
  BY <1>1, <1>2, <1>3, <1>4, <1>5, InstallsBegin

-----------------------------------------------------------------------------
(***************************************************************************)
(* After the sync, only the active slot holds what auth.json holds.        *)
(***************************************************************************)

\* What may go wrong stays the same, and what a switch has put back is on record.
LEMMA WeatherStays ==
  ASSUME Filing, Next
  PROVE  weather' = weather /\ (~putBack' => ~putBack)
<1>1. weather' = weather
  <2>1. CASE Codex
    BY <2>1, CodexSteps
  <2>2. CASE Passing
    BY <2>2, PassingHolds
  <2>3. CASE (\E a \in Accounts : CodexLogin /\ SignsIn(a)) \/ (ServerStep /\ ServerRenews)
    BY <2>3 DEF SignsIn, outer, ServerStep, Cas
  <2>4. QED
    BY <2>1, <2>2, <2>3, NextCases
<1>2. CASE Quit \/ Crash
  BY <1>2 DEF Quit, Crash, outer
<1>3. CASE ~Quit /\ \/ \E c \in Commands, n \in SlotIds \union {0} : Begin(c, n)
                    \/ Sync \/ SyncSave \/ Adopt \/ LoginPreserve \/ LoginSave \/ LoginRegister
  BY <1>3 DEF Begin, Sync, SyncSave, Adopt, LoginPreserve, LoginSave, LoginRegister, SaveAnd,
              RegisterLive, outer, serverVars
<1>4. CASE ~Quit /\ (CodexLogin \/ Switch \/ Install \/ Verify \/ SwitchBack \/ Switched)
  BY <1>4 DEF CodexLogin, Switch, Install, Verify, SwitchBack, Switched, outer, locals
<1>5. CASE ~Quit /\ (Plan \/ Visit \/ Refreshed \/ Limited \/ Mirror \/ Visited \/ Sweep)
  BY <1>5 DEF Plan, Visit, Refreshed, Limited, Mirror, Visited, Sweep, outer, locals
<1>6. CASE ~Quit /\ (List \/ RemoveSlot \/ Confirmed \/ Label \/ Save)
  BY <1>6 DEF List, RemoveSlot, Removed, Confirmed, Label, Save, outer, locals
<1>7. CASE ClientStep \/ ServerStep \/ Codex
  BY <1>7, CodexSteps DEF ClientStep, ServerStep, Cas, outer
<1>8. QED
  BY <1>1, <1>2, <1>3, <1>4, <1>5, <1>6, <1>7 DEF Next, Step

\* Attended and Unharmed look at nothing else.
LEMMA Before ==
  ASSUME Filing, Next
  PROVE  (Attended' => Attended) /\ (Unharmed' => Unharmed)
BY WeatherStays DEF Attended, Unharmed

\* What an app-server in the temporary home does is not seen in auth.json.
LEMMA CallStays ==
  ASSUME Filing, ClientStep \/ ServerStep, pc = "call"
  PROVE  auth'["live"] = auth["live"]
<1>1. CASE ServerStores
  <2>1. proc.home = "temp"
    BY <1>1, Types DEF ServerStores, ServerTypeOK, NoProc, Filing, TypeOK, Proc, Homes
  <2>2. QED
    BY <1>1, <2>1, Types DEF ServerStores, Homes
<1>2. QED
  BY <1>1 DEF ClientStep, Client, Answered, Rejected, SeesNone, CallFails, ReadsAsRefusal,
              Return, ServerStep, Server,
              ServerRenews, ServerKeeps

\* Which steps come to, or stay at, a place between the sync and what the command is for.
LEMMA SyncedBegin ==
  ASSUME Filing, Next, Synced'
  PROVE  \/ Sync
         \/ LoginPreserve /\ pc' = "loginSave"
         \/ Synced /\ (Refreshed \/ Limited \/ Mirror \/ Codex)
         \/ Synced /\ UNCHANGED <<parked, mem, sess>> /\ auth'["live"] = auth["live"]
<1>1. pc' \in {"syncSave", "act", "install", "next", "call", "mirror", "loginSave", "codexLogin"}
      /\ (pc' = "act" => cmd' # "adopt")
  BY DEF Synced
<1>2. /\ ~Quit /\ ~Crash /\ ~Adopt /\ ~LoginRegister /\ ~Verify /\ ~List /\ ~RemoveSlot /\ ~Label
      /\ ~Confirmed /\ ~Save /\ ~Install /\ ~SwitchBack /\ ~Switched /\ ~Visited /\ ~Sweep
      /\ \A c \in Commands, n \in SlotIds \union {0} : ~Begin(c, n)
      /\ ~CodexLogin
  BY <1>1 DEF Quit, Exit, Crash, Adopt, LoginRegister, RegisterLive, Verify, List, RemoveSlot,
              Removed,
              Label, Confirmed, Save, Install, SwitchBack, Switched, Visited, Sweep, Begin, CodexLogin
<1>3. CASE SyncSave \/ LoginSave
  BY <1>1, <1>2, <1>3 DEF SyncSave, LoginSave, SaveAnd, Synced, serverVars, outer, locals
<1>4. CASE LoginPreserve
  BY <1>2, <1>4 DEF LoginPreserve, RegisterLive, Synced, serverVars, outer, locals
<1>5. CASE Switch \/ Plan
  BY <1>2, <1>5 DEF Switch, Plan, Synced, serverVars, outer
<1>6. CASE Visit
  BY <1>6, Types DEF Visit, Synced, outer, Homes
<1>7. CASE Refreshed \/ Limited \/ Mirror
  BY <1>7 DEF Refreshed, Limited, Mirror, Synced
<1>8. CASE Codex
  BY <1>1, <1>8, CodexSteps DEF Synced
<1>9. CASE ClientStep \/ ServerStep
  <2>1. UNCHANGED <<pc, parked, mem, sess, cmd>> /\ proc # NoProc
    BY <1>9 DEF ClientStep, Client, Answered, Rejected, SeesNone, CallFails, ReadsAsRefusal,
                ServerStep, Server, ServerStores,
                ServerRenews, ServerKeeps, Cas, outer, locals, NoProc
  <2>2. pc = "call"
    BY <1>1, <2>1, Types
  <2>3. QED
    BY <1>9, <2>1, <2>2, CallStays DEF Synced
<1>10. QED
  BY <1>2, <1>3, <1>4, <1>5, <1>6, <1>7, <1>8, <1>9 DEF Next, Step

\* What SyncActive or registerLive leaves active is of the live document's account; it
\* leaves nothing active only when no slot is.
LEMMA SyncActivates ==
  ASSUME Filing, Sync, "read" \notin weather, "store" \notin weather, auth["live"] # NoDoc
  PROVE  /\ UNCHANGED auth
         /\ \A n \in Registered(mem') :
              mem'.slots[n].acct = auth["live"].acct =>
                \E a \in Registered(mem') : mem'.active = a /\ mem'.slots[a].acct = auth["live"].acct
<1>1. UNCHANGED auth /\ auth["live"] \in Doc
  BY SyncCases, Types DEF serverVars, Homes, Docs
<1>2. PICK live \in Reads(auth["live"]) :
        LET n == Followed(live) IN
        \/ /\ live = NoDoc \/ Registered(mem) = {} \/ UpToDate(live)
           /\ UNCHANGED <<parked, mem>>
        \/ /\ live # NoDoc /\ n # 0 /\ Written(n, live)
           /\ mem' = Activate(Apply(mem, n, live), n)
        \/ /\ live # NoDoc /\ Registered(mem) # {} /\ n = 0
           /\ mem' = Activate(mem, 0) /\ UNCHANGED parked
  BY DEF Sync, NotWritten
<1>3. live = auth["live"]
  BY <1>2 DEF Reads
<1>4. CASE Registered(mem) = {} /\ UNCHANGED mem
  BY <1>1, <1>4
<1>5. CASE UpToDate(live) /\ UNCHANGED mem
  <2>1. Active(mem) \in Registered(mem) /\ Active(mem) = mem.active /\ mem.slots[Active(mem)] = live
    BY <1>5, Types, ActiveIsRegistered DEF UpToDate
  <2>2. QED
    BY <1>1, <1>3, <1>5, <2>1
<1>6. CASE Followed(live) # 0 /\ mem' = Activate(Apply(mem, Followed(live), live), Followed(live))
  <2> DEFINE n == Followed(live)
  <2>1. n \in SlotIds
    BY <1>6, Types, ActiveIsRegistered, FindFindsOwnSlot DEF Followed, Registered
  <2>2. Apply(mem, n, live) \in Table /\ mem' = Activate(Apply(mem, n, live), n)
    BY <1>1, <1>3, <1>6, <2>1, Types, ApplyChangesOneSlot
  <2>3. mem'.active = n
    BY <2>1, <2>2, ActivateKeepsSlots
  <2>4. n \in Registered(mem') /\ mem'.slots[n] = live
    BY <1>1, <1>3, <1>6, <2>1, Types, Applied
  <2>5. QED
    BY <1>1, <1>3, <2>3, <2>4
<1>7. CASE Followed(live) = 0 /\ mem' = Activate(mem, 0)
  <2>1. FindByIdentity(mem, live) = 0
    BY <1>7, Types, ActiveIsRegistered, CodexTableAssumption DEF Followed, Registered, SlotIds
  <2>2. mem'.slots = mem.slots /\ Registered(mem') = Registered(mem)
    BY <1>7, Types, ActivateKeepsSlots
  <2>3. \A n \in Registered(mem) : mem.slots[n].acct # live.acct
    BY <2>1, Types, FindFindsOwnSlot
  <2>4. QED
    BY <1>1, <1>3, <2>2, <2>3
<1>8. QED
  BY <1>2, <1>3, <1>4, <1>5, <1>6, <1>7

\* Memory and the types, after a step.
LEMMA MemoryNext ==
  ASSUME IInv, Next
  PROVE  /\ mem' \in Table /\ disk' \in Table /\ parked' \in [SlotIds -> Docs]
         /\ auth' \in [Homes -> Docs]
         /\ \A n \in Registered(mem') : parked'[n] # NoDoc => parked'[n].acct = mem'.slots[n].acct
         /\ \A n \in Registered(disk') : parked'[n] # NoDoc => parked'[n].acct = disk'.slots[n].acct
         /\ \A m, n \in Registered(mem') : mem'.slots[m].acct = mem'.slots[n].acct => m = n
         /\ \A m, n \in Registered(disk') : disk'.slots[m].acct = disk'.slots[n].acct => m = n
         /\ pc' # "idle" =>
              \A n \in Registered(disk') :
                IF n \in Registered(mem') THEN mem'.slots[n].acct = disk'.slots[n].acct
                ELSE pc' \in {"sweep", "save"}
<1>1. Filing'
  BY NextKeeps DEF IInv
<1>2. Registered(mem)' = Registered(mem') /\ Registered(disk)' = Registered(disk')
  BY DEF Registered
<1>3. QED
  BY <1>1, <1>2 DEF Filing, TypeOK, ServerTypeOK, Memory, OnePerAccount, SlotsHoldTheirAccount,
                    OneSlotPerAccount

LEMMA NextKeepsApart ==
  ASSUME IInv, Unstored, FromSlot, Apart, Next
  PROVE  Apart'
<1>1. SUFFICES ASSUME Attended', Synced', NEW n \in Registered(mem'), n # mem'.active,
                      parked'[n].acct \in Accounts \ Keys, parked'[n] = auth'["live"]
               PROVE  FALSE
  <2>1. Registered(mem)' = Registered(mem')
    BY DEF Registered
  <2>2. QED
    BY <2>1 DEF Apart
<1>2. /\ Filing /\ AllIssued /\ Unshared /\ Copies /\ Attended
      /\ "read" \notin weather /\ "store" \notin weather /\ "live" \notin weather /\ "user" \notin weather
  BY <1>1, Before DEF IInv, Attended
<1>3. n \in SlotIds /\ parked'[n] # NoDoc /\ mem'.slots[n].acct = parked'[n].acct
  BY <1>1, MemoryNext, IdentityAssumption DEF NoDoc, Registered
<1>4. ASSUME NEW a \in Registered(mem'), mem'.active = a, mem'.slots[a].acct = auth'["live"].acct
      PROVE  FALSE
  BY <1>1, <1>3, <1>4, MemoryNext
<1>5. ASSUME Synced
      PROVE  \A m \in Registered(mem) \ {mem.active} :
               parked[m].acct \in Accounts \ Keys => parked[m] # auth["live"]
  BY <1>2, <1>5 DEF Apart
<1>6. CASE Sync
  <2>1. auth["live"] # NoDoc /\ UNCHANGED auth
    BY <1>1, <1>2, <1>3, <1>6, SyncCases DEF serverVars
  <2>2. \E a \in Registered(mem') : mem'.active = a /\ mem'.slots[a].acct = auth["live"].acct
    BY <1>1, <1>2, <1>3, <1>6, <2>1, SyncActivates
  <2>3. QED
    BY <1>4, <2>1, <2>2
<1>7. CASE LoginPreserve /\ pc' = "loginSave"
  <2>1. PICK live \in Reads(auth["live"]) : live # NoDoc /\ RegisterLive(live, "loginSave")
    BY <1>7 DEF LoginPreserve
  <2>2. live = auth["live"] /\ live \in Doc
    BY <1>2, <2>1, Types, ReadsIsDoc DEF Homes
  <2>3. PICK m \in SlotIds : /\ mem' = Activate(Apply(mem, m, live), m)
                             /\ UNCHANGED serverVars
    BY <1>2, <1>7, <2>1, <2>2, RegisterCases DEF Quit, Exit
  <2>4. Apply(mem, m, live) \in Table
    BY <1>2, <2>2, Types, ApplyChangesOneSlot
  <2>5. mem'.active = m
    BY <2>3, <2>4, ActivateKeepsSlots
  <2>6. m \in Registered(mem') /\ mem'.slots[m] = live
    BY <1>2, <2>2, <2>3, Types, Applied
  <2>7. QED
    BY <1>4, <2>2, <2>3, <2>5, <2>6 DEF serverVars
<1>8. CASE Synced /\ (Refreshed \/ Limited)
  <2>1. /\ pc = "call" /\ auth'["live"] = auth["live"] /\ mem \in Table /\ parked \in [SlotIds -> Docs]
    BY <1>2, <1>8, CallEffects, Types
  <2>2. CASE UNCHANGED <<parked, mem>>
    BY <1>1, <1>5, <1>8, <2>1, <2>2
  <2>3. CASE /\ tgt \in Registered(mem) /\ auth["temp"] \in Doc /\ auth["temp"].acct = doc.acct
             /\ Written(tgt, auth["temp"]) /\ mem' = Apply(mem, tgt, auth["temp"])
    <3>1. /\ mem'.active = mem.active /\ Registered(mem') = Registered(mem) /\ tgt \in SlotIds
          /\ \A m \in SlotIds : parked'[m] = IF m = tgt THEN auth["temp"] ELSE parked[m]
      BY <2>1, <2>3, ApplyChangesOneSlot DEF Registered, Written
    <3>2. CASE n # tgt
      BY <1>1, <1>3, <1>5, <1>8, <2>1, <3>1, <3>2
    <3>3. CASE n = tgt /\ auth["temp"] = doc
      <4>1. doc = parked[tgt]
        BY <1>2, <2>1 DEF Copies
      <4>2. QED
        BY <1>1, <1>3, <1>5, <1>8, <2>1, <3>1, <3>3, <4>1
    <3>4. CASE n = tgt /\ auth["temp"] # doc
      <4>1. auth["temp"] # auth["live"]
        BY <2>1, <3>4 DEF Unstored
      <4>2. QED
        BY <1>1, <2>1, <3>1, <3>4, <4>1
    <3>5. QED
      BY <3>2, <3>3, <3>4
  <2>4. QED
    BY <1>2, <1>8, <2>2, <2>3, CallEffects
<1>9. CASE Mirror
  <2>1. auth'["live"] = doc /\ pc = "mirror" /\ UNCHANGED <<parked, mem>>
    BY <1>2, <1>9 DEF Mirror
  <2>2. tgt = mem.active /\ tgt \in Registered(mem) /\ doc = parked[tgt]
    BY <2>1 DEF FromSlot
  <2>3. parked'[tgt].acct = mem'.slots[tgt].acct
    BY <1>1, <1>3, <2>1, <2>2, MemoryNext
  <2>4. QED
    BY <1>4, <2>1, <2>2, <2>3
<1>10. CASE Synced /\ Codex
  <2>1. UNCHANGED <<parked, mem>>
    BY <1>2, <1>10, CodexSteps
  <2>2. \/ auth'["live"] = auth["live"]
        \/ \E s \in Sessions : sess[s].dirty /\ auth'["live"] = sess[s].doc
    BY <1>2, <1>10, CodexSteps
  <2>3. ASSUME NEW s \in Sessions, sess[s].dirty
        PROVE  parked[n] # sess[s].doc
    <3>1. HeldIn((Docs \union {NoSlot}) \ {sess[s].doc})
      BY <1>2, <2>3 DEF Unshared
    <3>2. QED
      BY <1>3, <3>1, Holdings
  <2>4. QED
    BY <1>1, <1>5, <1>10, <2>1, <2>2, <2>3
<1>11. CASE Synced /\ UNCHANGED <<parked, mem>> /\ auth'["live"] = auth["live"]
  BY <1>1, <1>5, <1>11
<1>12. QED
  BY <1>1, <1>2, <1>6, <1>7, <1>8, <1>9, <1>10, <1>11, SyncedBegin

-----------------------------------------------------------------------------
(***************************************************************************)
(* auth.json is behind only until what replaces its document is stored.    *)
(***************************************************************************)

HasName(n) == n \in Registered(mem) \union Registered(disk)

\* Coming, Outdates and Storing after a step, of what the step does not change.
ComingNext(n) ==
  {parked'[n]} \union
    (IF pc' = "call" /\ n = tgt'
     THEN {auth'["temp"]} \union (IF proc'.st = "renewed" THEN {proc'.doc} ELSE {}) ELSE {})

OutdatesNext(d) ==
  /\ WorkNext(d) /\ auth'["live"] # d /\ auth'["live"].acct = d.acct
  /\ ~WorkNext(auth'["live"])

StoringNext(a) ==
  \/ \E s \in Sessions : sess'[s].dirty /\ sess'[s].doc.acct = a
  \/ proc'.st = "renewed" /\ proc'.home = "live" /\ proc'.doc.acct = a

\* The command is about to mirror what slot n gets.
Mirrors(n, d) == n = mem.active /\ (pc = "mirror" \/ (pc = "call" /\ n = tgt /\ d # parked[n]))
MirrorsNext(n, d) ==
  n = mem'.active /\ (pc' = "mirror" \/ (pc' = "call" /\ n = tgt' /\ d # parked'[n]))

LEMMA FollowableNext ==
  ASSUME Attended' =>
           \A n \in Registered(mem') \union Registered(disk') : \A d \in ComingNext(n) :
             OutdatesNext(d) => StoringNext(d.acct) \/ MirrorsNext(n, d)
  PROVE  Followable'
<1>1. Registered(mem)' = Registered(mem') /\ Registered(disk)' = Registered(disk')
  BY DEF Registered
<1>2. SUFFICES ASSUME Attended', NEW n \in Registered(mem)' \union Registered(disk)', NEW d \in Coming(n)',
                      Outdates(d)'
               PROVE  \/ Storing(d.acct)'
                      \/ n = mem'.active /\ (pc' = "mirror" \/ (pc' = "call" /\ n = tgt' /\ d # parked'[n]))
  BY DEF Followable
<1>3. d \in ComingNext(n) /\ OutdatesNext(d)
  BY <1>2 DEF Coming, ComingNext, Outdates, OutdatesNext, Working, WorkNext
<1>4. StoringNext(d.acct) \/ MirrorsNext(n, d)
  BY <1>1, <1>2, <1>3
<1>5. QED
  BY <1>4 DEF Storing, StoringNext, MirrorsNext

\* What Followable says of the state before.
LEMMA FollowedBefore ==
  ASSUME Followable, Attended, NEW n, HasName(n), NEW d \in Coming(n), Outdates(d)
  PROVE  Storing(d.acct) \/ Mirrors(n, d)
BY DEF Followable, HasName, Mirrors

\* What comes to a slot is a document.
LEMMA ComingIsDoc ==
  ASSUME Filing, AllIssued, NEW n, HasName(n), NEW d \in Coming(n)
  PROVE  d \in Issued /\ d \in Docs /\ (d # NoDoc => d \in Doc /\ d.acct \in Accounts)
<1>1. n \in SlotIds
  BY DEF HasName, Registered
<1>2. d \in Issued
  BY <1>1, Holders DEF Coming
<1>3. QED
  BY <1>2 DEF Issued, Docs, Doc

\* A step that leaves auth.json alone, and writes at most its document.
LEMMA Settles ==
  ASSUME Filing, Followable, Attended, UNCHANGED <<service, sess>>, auth'["live"] = auth["live"],
         pc \notin {"call", "mirror"}, proc' = proc \/ proc.st # "renewed",
         NEW n, HasName(n), NEW d, d = parked[n], OutdatesNext(d)
  PROVE  StoringNext(d.acct)
<1>1. Outdates(d)
  BY SameService DEF OutdatesNext, Outdates
<1>2. Storing(d.acct)
  BY <1>1, FollowedBefore DEF Coming, Mirrors
<1>3. QED
  BY <1>2 DEF Storing, StoringNext

\* Which slot a step leaves as it was had a name before.
LEMMA Names ==
  ASSUME Filing, Passing, pc # "call", NEW n \in Registered(mem') \union Registered(disk'),
         parked'[n] \notin {NoDoc, auth["live"]}
  PROVE  HasName(n) /\ parked'[n] = parked[n]
<1>1. CASE Moves
  <2>1. Registered(disk') \in {Registered(disk), Registered(mem)}
    BY <1>1 DEF Moves
  <2>2. Registered(mem') \in {Registered(mem), {}, Registered(disk)}
    BY <1>1, EmptyIsTable DEF Moves, Registered
  <2>3. QED
    BY <1>1, <2>1, <2>2 DEF Moves, HasName
<1>2. ASSUME NEW m \in SlotIds, TakesOut(m)
      PROVE  HasName(n) /\ parked'[n] = parked[n]
  <2>1. UNCHANGED disk /\ Registered(mem') = Registered(mem) \ {m}
    BY <1>2, Types, RemoveDropsOneSlot DEF TakesOut
  <2>2. n \in SlotIds /\ (parked'[n] \in {parked[n], NoDoc})
    BY <1>2, <2>1, Types DEF TakesOut, Deleted, Registered
  <2>3. QED
    BY <2>1, <2>2 DEF HasName
<1>3. ASSUME NEW m \in SlotIds, NEW d \in Doc, Fills(m, d)
      PROVE  HasName(n) /\ parked'[n] = parked[n]
  <2>1. /\ UNCHANGED disk /\ Registered(mem') = Registered(mem) \union {m}
        /\ d = auth["live"] /\ parked' = [parked EXCEPT ![m] = d]
    BY <1>3, Types, Applied DEF Fills, Written
  <2>2. n \in SlotIds /\ parked'[m] = d /\ (n # m => parked'[n] = parked[n])
    BY <2>1, Types DEF Registered
  <2>3. n # m
    BY <2>1, <2>2
  <2>4. QED
    BY <2>1, <2>2, <2>3 DEF HasName
<1>4. QED
  BY <1>1, <1>2, <1>3, PassingMoves

\* A copy that has just been made for an app-server is what its slot holds.
LEMMA VisitCopies ==
  ASSUME Filing, Visit, pc' = "call"
  PROVE  /\ auth'["temp"] = parked'[tgt'] /\ doc' = parked'[tgt'] /\ proc'.st # "renewed"
         /\ tgt' \in SlotIds /\ UNCHANGED <<parked, disk, mem, service, sess>>
         /\ auth'["live"] = auth["live"] /\ doc' # NoDoc
<1> PICK n \in todo : VisitOf(n)
  BY VisitsASlot
<1>1. pc = "next" /\ n \in SlotIds /\ tgt' = n /\ UNCHANGED <<parked, disk, mem, service, sess>>
  BY Types DEF VisitOf, outer
<1>2. PICK d \in Reads(parked[n]) :
        /\ d # NoDoc /\ auth' = [auth EXCEPT !["temp"] = d] /\ doc' = d
        /\ StartServer("temp", IF cmd = "limit" THEN "limits" ELSE "refresh", d)
  BY <1>1 DEF VisitOf
<1>3. d = parked[n] /\ auth'["temp"] = d /\ auth'["live"] = auth["live"]
  BY <1>2, Types DEF Reads, Homes
<1>4. proc'.st # "renewed"
  BY <1>2 DEF StartServer, NoProc
<1>5. QED
  BY <1>1, <1>2, <1>3, <1>4

LEMMA QuietSteps ==
  ASSUME Filing, Passing, Attended, Attended', pc \notin {"call", "mirror", "install"},
         ~(ServerStep /\ ServerStores)
  PROVE  /\ auth'["live"] = auth["live"] /\ UNCHANGED <<service, sess>>
         /\ proc' = proc \/ proc.st # "renewed"
         /\ \A n : ComingNext(n) = {parked'[n]}
<1>1. ~Crash /\ weather \intersect {"server", "text"} = {} /\ ~putBack' /\ UNCHANGED <<service, sess>>
  BY PassingHolds DEF Attended, Crash
<1>2. CASE proc # NoProc
  <2>1. ClientStep \/ (ServerStep /\ ~ServerRenews)
    BY <1>1, <1>2, Awaits
  <2>2. ClientStep \/ (ServerStep /\ ServerKeeps)
    BY <2>1 DEF ServerStep, Server
  <2>3. UNCHANGED <<auth, pc>> /\ proc.st # "renewed"
    BY <1>1, <2>2 DEF ClientStep, Client, Answered, Rejected, SeesNone, CallFails,
                      ReadsAsRefusal, Return, ServerStep,
                      ServerKeeps, Cas
  <2>4. QED
    BY <1>1, <2>3 DEF ComingNext
<1>3. CASE proc = NoProc
  <2>1. proc.st # "renewed"
    BY <1>3 DEF NoProc
  <2>2. auth'["live"] = auth["live"]
    <3>1. CASE SwitchBack
      BY <1>1, <3>1 DEF SwitchBack
    <3>2. CASE Switched \/ Switch
      BY <3>2 DEF Switched, Switch, Quit, serverVars
    <3>3. CASE pc = "verify" /\ ~SwitchBack /\ ~Switched
      <4>1. ClientStep \/ (ServerStep /\ ~ServerRenews)
        BY <1>1, <3>3, PassingAt
      <4>2. QED
        BY <1>3, <4>1, PassingAt DEF ClientStep, Client, Answered, Rejected, SeesNone, CallFails,
                                     ReadsAsRefusal, ServerStep,
                                     Server, ServerStores, ServerKeeps, NoProc
    <3>4. CASE Refreshed \/ Limited
      BY <3>4 DEF Refreshed, Limited
    <3>5. QED
      BY <2>1, <3>1, <3>2, <3>3, <3>4, PassingIsSteady DEF Steady
  <2>3. ASSUME pc' = "call"
        PROVE  auth'["temp"] = parked'[tgt'] /\ proc'.st # "renewed"
    <3>1. Next
      BY DEF Passing, Next
    <3>2. Visit
      BY <2>3, <3>1, CallsBegin
    <3>3. QED
      BY <2>3, <3>2, VisitCopies
  <2>4. QED
    BY <1>1, <2>1, <2>2, <2>3 DEF ComingNext
<1>4. QED
  BY <1>2, <1>3

LEMMA QuietFollows ==
  ASSUME Filing, Followable, Passing, Attended, Attended', pc \notin {"call", "mirror", "install"},
         ~(ServerStep /\ ServerStores),
         NEW n \in Registered(mem') \union Registered(disk'), NEW d \in ComingNext(n), OutdatesNext(d)
  PROVE  StoringNext(d.acct)
<1>1. /\ auth'["live"] = auth["live"] /\ UNCHANGED <<service, sess>>
      /\ proc' = proc \/ proc.st # "renewed"
      /\ d = parked'[n]
  BY QuietSteps
<1>2. d # NoDoc /\ d # auth["live"]
  BY <1>1 DEF OutdatesNext, WorkNext
<1>3. HasName(n) /\ parked'[n] = parked[n]
  BY <1>1, <1>2, Names
<1>4. QED
  BY <1>1, <1>3, Settles

\* What a slot holds replaces auth.json: no other slot is of its account.
LEMMA InstallFollows ==
  ASSUME IInv, FromSlot, Attended, Install \/ Mirror, pc' # "idle",
         NEW n \in Registered(mem') \union Registered(disk'), NEW d \in ComingNext(n)
  PROVE  ~OutdatesNext(d)
<1>1. Filing
  BY DEF IInv
<1>2. SUFFICES ASSUME OutdatesNext(d)
               PROVE  FALSE
  OBVIOUS
<1>3. /\ auth'["live"] = doc /\ UNCHANGED <<parked, mem, disk>> /\ pc' \in {"start", "next"}
      /\ pc \in {"install", "mirror"}
  BY <1>1, Types DEF Install, Mirror, Quit, Exit, Attended, Replaced, locals, Homes
<1>4. tgt \in Registered(mem) /\ doc = parked[tgt]
  BY <1>1, <1>3 DEF FromSlot, Filing, Targets
<1>5. d = parked[n] /\ d # doc /\ d # NoDoc /\ doc.acct = d.acct
  BY <1>2, <1>3 DEF ComingNext, OutdatesNext, WorkNext
<1>6. n \in Registered(mem)
  BY <1>1, <1>3 DEF Filing, Memory
<1>7. d.acct \in Accounts /\ doc # NoDoc
  <2>1. n \in SlotIds /\ parked[n] \in Docs
    BY <1>1, <1>6, Types DEF Registered
  <2>2. QED
    BY <1>5, <2>1, IdentityAssumption DEF Docs, Doc, NoDoc
<1>8. mem.slots[n].acct = mem.slots[tgt].acct
  BY <1>1, <1>4, <1>5, <1>6, <1>7 DEF Filing, Memory
<1>9. n = tgt
  BY <1>1, <1>4, <1>6, <1>8 DEF Filing, Memory, OnePerAccount
<1>10. QED
  BY <1>4, <1>5, <1>9

\* A call that is over.
LEMMA CallFollows ==
  ASSUME Filing, Followable, Attended, Refreshed \/ Limited,
         NEW n \in Registered(mem') \union Registered(disk'), NEW d \in ComingNext(n), OutdatesNext(d)
  PROVE  StoringNext(d.acct) \/ MirrorsNext(n, d)
<1>1. /\ pc = "call" /\ proc = NoProc /\ auth'["live"] = auth["live"]
      /\ UNCHANGED <<service, sess, disk>> /\ pc' # "call"
  BY CallEffects DEF outer, NextSlot
<1>2. d = parked'[n]
  BY <1>1 DEF ComingNext
<1>3. Outdates(d)
  BY <1>1, SameService DEF OutdatesNext, Outdates
<1>4. Storing(d.acct) => StoringNext(d.acct)
  BY <1>1 DEF Storing, StoringNext, NoProc
<1>5. CASE UNCHANGED <<parked, mem>>
  <2>1. HasName(n) /\ d \in Coming(n) /\ ~Mirrors(n, d)
    BY <1>1, <1>2, <1>5 DEF HasName, Coming, Mirrors
  <2>2. QED
    BY <1>3, <1>4, <2>1, FollowedBefore
<1>6. CASE /\ tgt \in Registered(mem) /\ auth["temp"] \in Doc
           /\ Written(tgt, auth["temp"]) /\ mem' = Apply(mem, tgt, auth["temp"])
           /\ \/ tgt = mem.active /\ pc' = "mirror"
              \/ tgt # mem.active
  <2>1. mem \in Table /\ parked \in [SlotIds -> Docs] /\ tgt \in SlotIds /\ n \in SlotIds
    BY <1>6, Types DEF Registered, Written
  <2>2. /\ Registered(mem') = Registered(mem) \union {tgt} /\ mem'.active = mem.active
        /\ parked'[n] = IF n = tgt THEN auth["temp"] ELSE parked[n]
    BY <1>6, <2>1, ApplyChangesOneSlot DEF Written
  <2>3. HasName(n) /\ d \in Coming(n)
    BY <1>1, <1>2, <1>6, <2>2 DEF HasName, Coming
  <2>4. Mirrors(n, d) => MirrorsNext(n, d)
    BY <1>1, <1>6, <2>2 DEF Mirrors, MirrorsNext
  <2>5. QED
    BY <1>3, <1>4, <2>3, <2>4, FollowedBefore
<1>7. QED
  BY <1>5, <1>6, CallEffects

\* An app-server that renews nothing now.
LEMMA ServedFollows ==
  ASSUME Filing, Unstored, Followable, Attended, Passing,
         \/ ServerStep /\ ServerStores
         \/ pc = "call" /\ (ClientStep \/ (ServerStep /\ ~ServerRenews)),
         NEW n \in Registered(mem') \union Registered(disk'), NEW d \in ComingNext(n), OutdatesNext(d)
  PROVE  StoringNext(d.acct) \/ MirrorsNext(n, d)
<1>1. /\ UNCHANGED <<service, sess, parked, disk, pc, mem, tgt>> /\ proc # NoProc
      /\ auth \in [Homes -> Docs] /\ proc \in Proc /\ pc \in {"verify", "call"}
      /\ proc.home = (IF pc = "verify" THEN "live" ELSE "temp")
  <2>1. /\ UNCHANGED <<sess, parked, disk, pc, mem, tgt>> /\ proc # NoProc
    BY DEF ClientStep, Client, Answered, Rejected, SeesNone, CallFails, ReadsAsRefusal,
           ServerStep, Server, ServerStores,
           ServerRenews, ServerKeeps, Cas, outer, locals, NoProc
  <2>2. UNCHANGED service /\ proc \in Proc /\ auth \in [Homes -> Docs] /\ pc \in {"verify", "call"}
    BY <2>1, PassingHolds, Types DEF ServerTypeOK
  <2>3. proc.home = (IF pc = "verify" THEN "live" ELSE "temp")
    BY <2>1, <2>2 DEF Filing, TypeOK, Proc, Homes
  <2>4. QED
    BY <2>1, <2>2, <2>3
<1>2. HasName(n)
  BY <1>1 DEF HasName
<1>3. CASE ServerStep /\ ServerStores /\ pc = "verify"
  <2>1. proc.st = "renewed" /\ auth'["live"] = proc.doc
    BY <1>1, <1>3 DEF ServerStores, Homes
  <2>2. WorkNext(proc.doc)
    BY <1>1, <2>1, SameService DEF Unstored
  <2>3. QED
    BY <2>1, <2>2 DEF OutdatesNext
<1>4. CASE pc = "call"
  <2>1. auth'["live"] = auth["live"]
    BY <1>1, <1>4, CallStays
  <2>2. Outdates(d)
    BY <1>1, <2>1, SameService DEF OutdatesNext, Outdates
  <2>3. d \in Coming(n)
    <3>1. CASE ServerStores
      <4>1. proc.st = "renewed" /\ auth'["temp"] = proc.doc /\ proc'.st = "ready"
        BY <1>1, <1>4, <3>1 DEF ServerStores, Homes, Proc
      <4>2. QED
        BY <1>1, <1>4, <4>1 DEF Coming, ComingNext
    <3>2. CASE ClientStep
      <4>1. UNCHANGED auth /\ proc' = NoProc
        BY <3>2 DEF ClientStep, Client, Answered, Rejected, SeesNone, CallFails, ReadsAsRefusal,
                    Return
      <4>2. QED
        BY <1>1, <1>4, <4>1 DEF Coming, ComingNext, NoProc
    <3>3. CASE ServerKeeps
      <4>1. UNCHANGED auth /\ proc'.st = "ready"
        BY <1>1, <3>3 DEF ServerKeeps, Proc
      <4>2. QED
        BY <1>1, <1>4, <4>1 DEF Coming, ComingNext
    <3>4. QED
      BY <1>4, <3>1, <3>2, <3>3 DEF ServerStep, Server
  <2>4. Storing(d.acct) => StoringNext(d.acct)
    BY <1>1, <1>4 DEF Storing, StoringNext
  <2>5. Mirrors(n, d) => MirrorsNext(n, d)
    BY <1>1, <1>4 DEF Mirrors, MirrorsNext
  <2>6. QED
    BY <1>2, <2>2, <2>3, <2>4, <2>5, FollowedBefore
<1>5. QED
  BY <1>1, <1>3, <1>4

\* An app-server renews what it has been given.
LEMMA RenewalFollows ==
  ASSUME IInv, Unstored, Apart, Followable, Attended, ServerStep, ServerRenews,
         NEW n \in Registered(mem') \union Registered(disk'), NEW d \in ComingNext(n), OutdatesNext(d)
  PROVE  StoringNext(d.acct) \/ MirrorsNext(n, d)
<1>1. Filing /\ AllIssued /\ Copies /\ ServerTypeOK /\ auth["live"] \in Issued
  BY Types, Holders DEF IInv
<1>2. /\ UNCHANGED <<sess, parked, disk, pc, mem, tgt, doc, auth>> /\ proc.st = "up"
      /\ proc'.st = "renewed" /\ proc'.home = proc.home /\ Rotate(proc.doc)
      /\ proc'.doc = NextDoc(proc.doc.acct) /\ proc.doc \in Docs /\ proc.doc \in Issued
      /\ proc.home = (IF pc = "verify" THEN "live" ELSE "temp") /\ pc \in {"verify", "call"}
      /\ \/ proc.home = "live"
         \/ pc = "call"
  <2>1. proc \in Proc /\ proc.st = "up" /\ proc # NoProc
    BY <1>1, NoDocIsNoDoc DEF ServerRenews, ServerTypeOK, NoProc
  <2>2. /\ UNCHANGED <<sess, parked, disk, pc, mem, tgt, doc, auth>> /\ Rotate(proc.doc)
        /\ proc'.st = "renewed" /\ proc'.home = proc.home /\ proc'.doc = NextDoc(proc.doc.acct)
    BY <2>1 DEF ServerStep, ServerRenews, Cas, outer, locals, Proc
  <2>3. proc.doc \in Docs /\ proc.doc \in Issued
    BY <1>1, <2>1, NoDocIsNoDoc, Holders DEF Proc
  <2>4. proc.home = (IF pc = "verify" THEN "live" ELSE "temp") /\ pc \in {"verify", "call"}
    BY <1>1, <2>1, Types DEF Filing, TypeOK, Proc, Homes
  <2>5. QED
    BY <2>1, <2>2, <2>3, <2>4
<1>3. PICK e \in Docs : e = proc.doc /\ e \in Issued
  BY <1>2
<1>4. /\ \A c \in Issued : WorkNext(c) <=> Working(c) /\ c # e
      /\ Working(e) /\ e.acct \notin Keys /\ e \in Doc /\ e.acct \in Accounts
      /\ proc'.doc.acct = e.acct
  BY <1>1, <1>2, <1>3, RotateLives, RotateTypes
<1>5. HasName(n)
  BY <1>2 DEF HasName
<1>6. \A a : Storing(a) => StoringNext(a)
  BY <1>2 DEF Storing, StoringNext
<1>7. ASSUME NEW c \in Coming(n), c = d, d \in Issued
      PROVE  \/ StoringNext(d.acct) \/ MirrorsNext(n, d)
             \/ auth["live"] = e /\ d.acct = e.acct /\ d # e
  <2>1. Working(d) /\ d # e /\ auth["live"] # d /\ auth["live"].acct = d.acct
    BY <1>2, <1>4, <1>7 DEF OutdatesNext
  <2>2. ~Working(auth["live"]) \/ auth["live"] = e
    BY <1>1, <1>2, <1>4 DEF OutdatesNext
  <2>3. CASE ~Working(auth["live"])
    <3>1. Outdates(d)
      BY <2>1, <2>3 DEF Outdates
    <3>2. Mirrors(n, d) => MirrorsNext(n, d)
      BY <1>2 DEF Mirrors, MirrorsNext
    <3>3. QED
      BY <1>5, <1>6, <1>7, <3>1, <3>2, FollowedBefore
  <2>4. QED
    BY <2>1, <2>2, <2>3
<1>8. CASE pc = "verify"
  <2>1. d = parked[n] /\ d \in Coming(n) /\ d \in Issued
    <3>1. d = parked[n] /\ d \in Coming(n)
      BY <1>2, <1>8 DEF ComingNext, Coming
    <3>2. QED
      BY <1>1, <1>5, <3>1, ComingIsDoc
  <2>2. d.acct = e.acct => StoringNext(d.acct)
    BY <1>2, <1>4, <1>8 DEF StoringNext
  <2>3. QED
    BY <1>7, <2>1, <2>2
<1>9. CASE pc = "call"
  <2>1. /\ e = doc /\ doc = parked[tgt] /\ auth["temp"] = doc /\ tgt \in Registered(mem)
        /\ tgt \in SlotIds
    <3>1. doc = parked[tgt] /\ proc.doc = doc
      BY <1>1, <1>2, <1>9 DEF Copies
    <3>2. auth["temp"] = doc
      BY <1>2, <1>9 DEF Unstored
    <3>3. tgt \in Registered(mem)
      BY <1>1, <1>9 DEF Filing, Targets
    <3>4. QED
      BY <1>3, <3>1, <3>2, <3>3 DEF Registered
  <2>2. CASE d = parked[n]
    <3>1. d \in Coming(n) /\ d \in Issued /\ d # NoDoc
      <4>1. d \in Coming(n) /\ d # NoDoc
        BY <2>2 DEF Coming, OutdatesNext, WorkNext
      <4>2. QED
        BY <1>1, <1>5, <4>1, ComingIsDoc
    <3>2. ASSUME d.acct = e.acct, d # e
          PROVE  FALSE
      <4>1. n # tgt
        BY <2>1, <2>2, <3>2
      <4>2. n \in Registered(mem)
        BY <1>1, <1>5, <1>9 DEF Filing, Memory, HasName
      <4>3. mem.slots[n].acct = d.acct /\ mem.slots[tgt].acct = e.acct
        BY <1>1, <1>4, <2>1, <2>2, <3>1, <4>2, NoDocIsNoDoc DEF Filing, Memory
      <4>4. QED
        BY <1>1, <2>1, <3>2, <4>1, <4>2, <4>3 DEF Filing, Memory, OnePerAccount
    <3>3. QED
      BY <1>7, <3>1, <3>2
  <2>3. CASE d # parked[n]
    <3>1. n = tgt /\ d \in {e, proc'.doc}
      BY <1>2, <1>9, <2>1, <2>3 DEF ComingNext
    <3>2. d = proc'.doc
      BY <2>1, <2>3, <3>1
    <3>3. CASE tgt = mem.active
      BY <1>2, <1>9, <2>3, <3>1, <3>3 DEF MirrorsNext
    <3>4. CASE tgt # mem.active
      <4>1. Synced
        BY <1>9 DEF Synced
      <4>2. auth["live"] # e
        BY <1>4, <2>1, <3>4, <4>1 DEF Apart
      <4>3. auth["live"].acct = e.acct /\ ~Working(auth["live"])
        BY <1>1, <1>2, <1>4, <3>2, <4>2 DEF OutdatesNext
      <4>4. Outdates(e)
        BY <1>4, <4>2, <4>3 DEF Outdates
      <4>5. HasName(tgt) /\ e \in Coming(tgt) /\ ~Mirrors(tgt, e)
        BY <1>9, <2>1, <3>4 DEF HasName, Coming, Mirrors
      <4>6. Storing(e.acct)
        BY <4>4, <4>5, FollowedBefore
      <4>7. QED
        BY <1>4, <1>6, <3>2, <4>6
    <3>5. QED
      BY <3>3, <3>4
  <2>4. QED
    BY <2>2, <2>3
<1>10. QED
  BY <1>2, <1>8, <1>9

\* A session opens, renews its document, or stores it.
LEMMA CodexFollows ==
  ASSUME Filing, AllIssued, Unshared, Unstored, Followable, Attended, Codex,
         NEW n \in Registered(mem') \union Registered(disk'), NEW d \in ComingNext(n), OutdatesNext(d)
  PROVE  StoringNext(d.acct) \/ MirrorsNext(n, d)
<1>1. /\ UNCHANGED <<parked, disk, pc, mem, tgt, proc>> /\ auth'["temp"] = auth["temp"]
      /\ "user" \notin weather /\ ServerTypeOK
  BY CodexSteps, Types DEF Attended
<1>2. HasName(n) /\ d \in Coming(n) /\ (Mirrors(n, d) => MirrorsNext(n, d))
  BY <1>1 DEF HasName, Coming, ComingNext, Mirrors, MirrorsNext
<1>3. d \in Issued
  BY <1>2, ComingIsDoc
<1>4. ASSUME NEW r \in Sessions, sess[r].dirty
      PROVE  sess[r].doc # NoDoc
  BY <1>4, NoDocIsNoDoc DEF Unshared
<1>5. CASE /\ UNCHANGED <<service, auth>>
           /\ \E s \in Sessions :
                /\ sess[s].doc = NoDoc
                /\ \A r \in Sessions : sess'[r].dirty = sess[r].dirty
                /\ \A r \in Sessions \ {s} : sess'[r].doc = sess[r].doc
  <2>1. Outdates(d)
    BY <1>5, SameService DEF OutdatesNext, Outdates
  <2>2. Storing(d.acct) => StoringNext(d.acct)
    BY <1>1, <1>4, <1>5 DEF Storing, StoringNext
  <2>3. QED
    BY <1>2, <2>1, <2>2, FollowedBefore
<1>6. CASE /\ UNCHANGED auth
           /\ \E s \in Sessions :
                /\ Rotate(sess[s].doc) /\ ~sess[s].dirty /\ sess'[s].dirty
                /\ sess'[s].doc = NextDoc(sess[s].doc.acct)
                /\ \A r \in Sessions \ {s} : sess'[r] = sess[r]
  <2>1. PICK s \in Sessions :
          /\ Rotate(sess[s].doc) /\ ~sess[s].dirty /\ sess'[s].dirty
          /\ sess'[s].doc = NextDoc(sess[s].doc.acct)
          /\ \A r \in Sessions \ {s} : sess'[r] = sess[r]
    BY <1>6
  <2>2. PICK e \in Docs : e = sess[s].doc
    BY DEF Filing, TypeOK
  <2>3. /\ \A c \in Issued : WorkNext(c) <=> Working(c) /\ c # e
        /\ NextDoc(e.acct).acct = e.acct
    BY <1>1, <2>1, <2>2, RotateLives, RotateTypes
  <2>4. Working(d) /\ d # e /\ auth["live"] # d /\ auth["live"].acct = d.acct
    BY <1>3, <1>6, <2>3 DEF OutdatesNext
  <2>5. ~Working(auth["live"]) \/ auth["live"] = e
    BY <1>6, <2>3, Holders DEF OutdatesNext
  <2>6. CASE auth["live"] = e
    BY <2>1, <2>2, <2>3, <2>4, <2>6 DEF StoringNext
  <2>7. CASE ~Working(auth["live"])
    <3>1. Outdates(d)
      BY <2>4, <2>7 DEF Outdates
    <3>2. Storing(d.acct) => StoringNext(d.acct)
      BY <1>1, <2>1 DEF Storing, StoringNext
    <3>3. QED
      BY <1>2, <3>1, <3>2, FollowedBefore
  <2>8. QED
    BY <2>5, <2>6, <2>7
<1>7. CASE UNCHANGED service /\ \E s \in Sessions : sess[s].dirty /\ auth'["live"] = sess[s].doc
  <2>1. PICK s \in Sessions : sess[s].dirty /\ auth'["live"] = sess[s].doc
    BY <1>7
  <2>2. WorkNext(auth'["live"])
    BY <1>7, <2>1, SameService DEF Unstored
  <2>3. QED
    BY <2>2 DEF OutdatesNext
<1>8. QED
  BY <1>1, <1>5, <1>6, <1>7, CodexSteps

LEMMA NextKeepsFollowable ==
  ASSUME IInv, Unstored, FromSlot, Apart, Followable, Next
  PROVE  Followable'
<1>1. SUFFICES ASSUME Attended', NEW n \in Registered(mem') \union Registered(disk'),
                      NEW d \in ComingNext(n), OutdatesNext(d)
               PROVE  StoringNext(d.acct) \/ MirrorsNext(n, d)
  BY FollowableNext
<1>2. Filing /\ AllIssued /\ Unshared /\ Attended
  BY <1>1, Before DEF IInv
<1>3. CASE Passing
  <2>1. ~Crash
    BY <1>2 DEF Crash, Attended
  <2>2. CASE pc \in {"install", "mirror"}
    <3>1. Install \/ Mirror
      BY <1>2, <1>3, <2>1, <2>2, PassingAt
    <3>2. pc' # "idle"
      BY <1>2, <3>1 DEF Install, Mirror, Attended
    <3>3. QED
      BY <1>1, <1>2, <3>1, <3>2, InstallFollows
  <2>3. CASE pc = "call" /\ ~(Refreshed \/ Limited)
    <3>1. ClientStep \/ (ServerStep /\ ~ServerRenews)
      BY <1>2, <1>3, <2>1, <2>3, PassingAt
    <3>2. QED
      BY <1>1, <1>2, <1>3, <2>3, <3>1, ServedFollows
  <2>4. CASE Refreshed \/ Limited
    BY <1>1, <1>2, <2>4, CallFollows
  <2>5. CASE ServerStep /\ ServerStores
    BY <1>1, <1>2, <1>3, <2>5, ServedFollows
  <2>6. CASE pc \notin {"call", "mirror", "install"} /\ ~(ServerStep /\ ServerStores)
    BY <1>1, <1>2, <1>3, <2>6, QuietFollows
  <2>7. QED
    BY <2>2, <2>3, <2>4, <2>5, <2>6
<1>4. ASSUME NEW a \in Accounts, CodexLogin, SignsIn(a)
      PROVE  FALSE
  <2>1. auth'["live"] = NextDoc(a)
    BY <1>2, <1>4, Types DEF SignsIn, Replaced, Homes
  <2>2. WorkNext(auth'["live"])
    BY <1>2, <1>4, <2>1, Types, SignInLives DEF SignsIn
  <2>3. QED
    BY <1>1, <2>2 DEF OutdatesNext
<1>5. CASE ServerStep /\ ServerRenews
  BY <1>1, <1>2, <1>5, RenewalFollows
<1>6. CASE Codex
  BY <1>1, <1>2, <1>6, CodexFollows
<1>7. QED
  BY <1>3, <1>4, <1>5, <1>6, NextCases

-----------------------------------------------------------------------------
(***************************************************************************)
(* What a step may replace is held elsewhere.                              *)
(***************************************************************************)

\* Kept after a step, of a document that the step does not change.
KeptNext(d) ==
  \/ \E n \in Registered(mem') \union Registered(disk') : parked'[n] = d
  \/ \E s \in Sessions : sess'[s].doc = d

LEMMA UnharmedIsAttended ==
  ASSUME Unharmed
  PROVE  Attended /\ weather \intersect {"save", "crash", "keyring", "exec"} = {}
BY DEF Unharmed, Attended

\* What works after a step worked before, if it was there.
LEMMA WorkedBefore ==
  ASSUME Filing, AllIssued, Next, NEW d \in Issued, WorkNext(d), ~\E a \in Accounts : SignInAs(a)
  PROVE  Working(d)
<1>1. CASE UNCHANGED service
  BY <1>1, SameService
<1>2. CASE \E e \in Docs : Rotate(e)
  BY <1>2, Types, RotateLives
<1>3. QED
  BY <1>1, <1>2, NextServes

\* Where cas is not idle and has not removed a slot, its own table names them all.
LEMMA KeptBefore ==
  ASSUME Filing, pc \notin {"idle", "sweep", "save"}, NEW d, Kept(d)
  PROVE  \/ \E n \in Registered(mem) : parked[n] = d
         \/ \E s \in Sessions : sess[s].doc = d
BY DEF Kept, Filing, Memory

\* SyncActive puts a live document that works into its slot, if there is one.
LEMMA SyncStores ==
  ASSUME Filing, Tags, Sync, weather \intersect {"read", "store", "crash", "save"} = {},
         auth["live"] # NoDoc, ~IsDead(auth["live"]),
         NEW m \in Registered(mem'), mem'.slots[m].acct = auth["live"].acct
  PROVE  UNCHANGED <<auth, service>> /\ parked'[m] = auth["live"]
<1>1. UNCHANGED <<auth, service>> /\ auth["live"] \in Doc /\ pc = "sync"
  BY SyncCases, Types DEF serverVars, Homes, Docs
<1>2. PICK live \in Reads(auth["live"]) :
        LET n == Followed(live) IN
        \/ /\ live = NoDoc \/ Registered(mem) = {} \/ UpToDate(live)
           /\ UNCHANGED <<parked, mem>>
        \/ /\ live # NoDoc /\ n # 0 /\ Written(n, live)
           /\ mem' = Activate(Apply(mem, n, live), n)
        \/ /\ live # NoDoc /\ Registered(mem) # {} /\ n = 0
           /\ mem' = Activate(mem, 0) /\ UNCHANGED parked
  BY DEF Sync, NotWritten
<1>3. live = auth["live"]
  BY <1>2 DEF Reads
<1>4. CASE (Registered(mem) = {} \/ UpToDate(live)) /\ UNCHANGED <<parked, mem>>
  BY <1>1, <1>3, <1>4, UpToDateIsParked
<1>5. CASE /\ Followed(live) # 0 /\ Written(Followed(live), live)
           /\ mem' = Activate(Apply(mem, Followed(live), live), Followed(live))
  <2> DEFINE n == Followed(live)
  <2>1. n \in Registered(mem) /\ n \in SlotIds /\ mem.slots[n].acct = live.acct
    BY <1>5, Types, ActiveIsRegistered, FindFindsOwnSlot DEF Followed, Registered
  <2>2. /\ Registered(mem') = Registered(mem) \union {n}
        /\ \A k \in SlotIds : mem'.slots[k] = IF k = n THEN live ELSE mem.slots[k]
    BY <1>1, <1>3, <1>5, <2>1, Types, Applied
  <2>3. m \in Registered(mem) /\ m \in SlotIds /\ mem.slots[m].acct = live.acct
    BY <1>3, <2>1, <2>2 DEF Registered
  <2>4. m = n
    BY <2>1, <2>3 DEF Filing, Memory, OnePerAccount
  <2>5. QED
    BY <1>1, <1>3, <1>5, <2>1, <2>4, Types DEF Written
<1>6. CASE Followed(live) = 0 /\ mem' = Activate(mem, 0)
  <2>1. FindByIdentity(mem, live) = 0
    BY <1>6, Types, ActiveIsRegistered, CodexTableAssumption DEF Followed, Registered, SlotIds
  <2>2. mem'.slots = mem.slots /\ m \in Registered(mem)
    BY <1>6, Types, ActivateKeepsSlots
  <2>3. QED
    BY <1>3, <2>1, <2>2, Types, FindFindsOwnSlot
<1>7. QED
  BY <1>2, <1>3, <1>4, <1>5, <1>6

\* A session keeps what auth.json holds, or what it has just stored there.
LEMMA CodexKeepsLive ==
  ASSUME Filing, AllIssued, Codex, "user" \notin weather, WorkNext(auth'["live"]),
         auth'["live"] = auth["live"] /\ Working(auth["live"]) => Kept(auth["live"])
  PROVE  KeptNext(auth'["live"])
<1>1. UNCHANGED <<parked, disk, mem>> /\ Next /\ ServerTypeOK
  BY CodexSteps, Types DEF Next
<1>2. CASE /\ UNCHANGED <<service, auth>>
           /\ \E s \in Sessions :
                /\ sess[s].doc = NoDoc /\ sess'[s].doc = auth["live"]
  BY <1>2 DEF KeptNext
<1>3. CASE /\ UNCHANGED auth
           /\ \E s \in Sessions :
                /\ Rotate(sess[s].doc)
                /\ \A r \in Sessions \ {s} : sess'[r] = sess[r]
  <2>1. PICK s \in Sessions : Rotate(sess[s].doc) /\ \A r \in Sessions \ {s} : sess'[r] = sess[r]
    BY <1>3
  <2>2. sess[s].doc \in Docs
    BY DEF Filing, TypeOK
  <2>3. Working(auth["live"]) /\ auth["live"] # sess[s].doc
    BY <1>1, <1>3, <2>1, <2>2, RotateLives, Holders
  <2>4. Kept(auth["live"])
    BY <1>3, <2>3
  <2>5. QED
    BY <1>1, <1>3, <2>1, <2>3, <2>4 DEF Kept, KeptNext
<1>4. CASE \E s \in Sessions : auth'["live"] = sess[s].doc /\ \A r \in Sessions : sess'[r].doc = sess[r].doc
  BY <1>4 DEF KeptNext
<1>5. QED
  BY <1>2, <1>3, <1>4, CodexSteps

LEMMA SyncedIsKept ==
  ASSUME IInv, FromSlot, Backed, Unharmed, Next, Synced', WorkNext(auth'["live"]),
         NEW m \in Registered(mem'), mem'.slots[m].acct = auth'["live"].acct
  PROVE  KeptNext(auth'["live"])
<1>1. /\ Filing /\ AllIssued /\ Unshared /\ Copies /\ Tags /\ Attended
      /\ weather \intersect {"read", "store", "live", "user", "crash", "save"} = {}
  BY UnharmedIsAttended DEF IInv, Attended
<1>2. ASSUME Synced, Working(auth["live"]), NEW k \in Registered(mem),
             mem.slots[k].acct = auth["live"].acct
      PROVE  \/ \E n \in Registered(mem) : parked[n] = auth["live"]
             \/ \E s \in Sessions : sess[s].doc = auth["live"]
  <2>1. Kept(auth["live"])
    BY <1>2 DEF Backed
  <2>2. pc \notin {"idle", "sweep", "save"}
    BY <1>2 DEF Synced
  <2>3. QED
    BY <1>1, <2>1, <2>2, KeptBefore
<1>3. CASE Sync
  <2>1. UNCHANGED <<auth, service>>
    BY <1>1, <1>3, SyncCases DEF serverVars
  <2>2. Working(auth["live"])
    BY <2>1, SameService
  <2>3. auth["live"] # NoDoc /\ ~IsDead(auth["live"])
    BY <2>2 DEF Working, IsDead
  <2>4. parked'[m] = auth["live"]
    BY <1>1, <1>3, <2>1, <2>3, SyncStores
  <2>5. QED
    BY <2>1, <2>4 DEF KeptNext
<1>4. CASE LoginPreserve /\ pc' = "loginSave"
  <2>1. PICK live \in Reads(auth["live"]) : live # NoDoc /\ RegisterLive(live, "loginSave")
    BY <1>4 DEF LoginPreserve
  <2>2. live = auth["live"] /\ live \in Doc
    BY <1>1, <2>1, Types, ReadsIsDoc DEF Homes
  <2>3. PICK n \in SlotIds : /\ mem' = Activate(Apply(mem, n, live), n) /\ Written(n, live)
                             /\ UNCHANGED serverVars
    BY <1>1, <1>4, <2>1, <2>2, RegisterCases DEF Quit, Exit
  <2>4. n \in Registered(mem') /\ parked'[n] = live
    BY <1>1, <2>2, <2>3, Types, Applied DEF Written
  <2>5. QED
    BY <2>2, <2>3, <2>4 DEF KeptNext, serverVars
<1>5. CASE Synced /\ (Refreshed \/ Limited)
  <2>1. /\ pc = "call" /\ auth'["live"] = auth["live"] /\ UNCHANGED <<service, sess, disk>>
        /\ mem \in Table /\ parked \in [SlotIds -> Docs]
    BY <1>1, <1>5, CallEffects, Types DEF outer
  <2>2. Working(auth["live"])
    BY <2>1, SameService
  <2>3. CASE UNCHANGED <<parked, mem>>
    BY <1>2, <1>5, <2>1, <2>2, <2>3 DEF KeptNext
  <2>4. CASE /\ tgt \in Registered(mem) /\ auth["temp"] \in Doc /\ auth["temp"].acct = doc.acct
             /\ Written(tgt, auth["temp"]) /\ mem' = Apply(mem, tgt, auth["temp"])
    <3>1. /\ Registered(mem') = Registered(mem) /\ tgt \in SlotIds
          /\ \A k \in SlotIds : mem'.slots[k] = IF k = tgt THEN auth["temp"] ELSE mem.slots[k]
          /\ \A k \in SlotIds : parked'[k] = IF k = tgt THEN auth["temp"] ELSE parked[k]
      BY <2>1, <2>4, ApplyChangesOneSlot DEF Registered, Written
    <3>2. mem.slots[tgt].acct = doc.acct
      BY <1>1, <2>1 DEF Filing, Targets
    <3>3. m \in Registered(mem) /\ m \in SlotIds /\ mem.slots[m].acct = auth["live"].acct
      BY <2>1, <2>4, <3>1, <3>2 DEF Registered
    <3>4. CASE \E s \in Sessions : sess[s].doc = auth["live"]
      BY <2>1, <3>4 DEF KeptNext
    <3>5. ASSUME NEW n \in Registered(mem), parked[n] = auth["live"]
          PROVE  parked'[n] = auth["live"]
      <4>1. CASE n # tgt
        BY <3>1, <3>5, <4>1 DEF Registered
      <4>2. CASE n = tgt
        <5>1. doc = auth["live"]
          BY <1>1, <2>1, <3>5, <4>2 DEF Copies
        <5>2. ~IsDead(doc)
          BY <2>2, <5>1 DEF IsDead, Working
        <5>3. auth["temp"] = doc
          BY <1>1, <2>1, <5>2 DEF Copies
        <5>4. QED
          BY <3>1, <4>2, <5>1, <5>3
      <4>3. QED
        BY <4>1, <4>2
    <3>6. QED
      BY <1>2, <1>5, <2>1, <2>2, <3>1, <3>3, <3>4, <3>5 DEF KeptNext
  <2>5. QED
    BY <1>1, <1>5, <2>3, <2>4, CallEffects
<1>6. CASE Mirror
  <2>1. auth'["live"] = doc /\ pc = "mirror" /\ UNCHANGED <<parked, mem>>
    BY <1>1, <1>6 DEF Mirror
  <2>2. tgt \in Registered(mem) /\ doc = parked[tgt]
    BY <2>1 DEF FromSlot
  <2>3. QED
    BY <2>1, <2>2 DEF KeptNext
<1>7. CASE Synced /\ Codex
  <2>1. UNCHANGED mem
    BY <1>1, <1>7, CodexSteps
  <2>2. auth'["live"] = auth["live"] /\ Working(auth["live"]) => Kept(auth["live"])
    BY <1>2, <1>7, <2>1 DEF Kept
  <2>3. QED
    BY <1>1, <1>7, <2>2, CodexKeepsLive
<1>8. CASE Synced /\ UNCHANGED <<parked, mem, sess>> /\ auth'["live"] = auth["live"] /\ ~Codex
  <2>1. ASSUME NEW a \in Accounts, CodexLogin, SignsIn(a)
        PROVE  FALSE
    <3>1. pc' \notin {"codexLogin", "syncSave", "act", "install", "next", "call", "mirror", "loginSave"}
      BY <2>1 DEF CodexLogin, SignsIn, Quit, Exit
    <3>2. QED
      BY <3>1 DEF Synced
  <2>2. CASE Passing
    <3>1. Working(auth["live"])
      BY <1>1, <1>8, <2>2, PassingHolds, SameService
    <3>2. QED
      BY <1>2, <1>8, <3>1 DEF KeptNext
  <2>3. CASE ServerStep /\ ServerRenews
    <3>1. proc.doc \in Docs /\ Rotate(proc.doc) /\ ServerTypeOK
      BY <1>1, <2>3, Types, NoDocIsNoDoc DEF ServerRenews, ServerTypeOK, Proc, NoProc
    <3>2. Working(auth["live"])
      BY <1>1, <1>8, <3>1, RotateLives, Holders
    <3>3. QED
      BY <1>2, <1>8, <3>2 DEF KeptNext
  <2>4. QED
    BY <1>8, <2>1, <2>2, <2>3, NextCases
<1>9. QED
  BY <1>1, <1>3, <1>4, <1>5, <1>6, <1>7, <1>8, SyncedBegin

\* Only Verify starts the app-server that looks at the live home.
LEMMA VerifyBegins ==
  ASSUME Filing, Next, pc' = "verify"
  PROVE  Verify \/ ((ClientStep \/ ServerStep \/ Codex) /\ pc = "verify")
<1>1. ~Crash
  BY DEF Crash, Exit
<1>2. CASE Passing
  <2>1. ~Quit /\ \A c \in Commands, n \in SlotIds \union {0} : ~Begin(c, n)
    BY DEF Quit, Exit, Begin
  <2>2. /\ ~Sync /\ ~SyncSave /\ ~Adopt /\ ~LoginPreserve /\ ~Switch /\ ~Plan /\ ~List /\ ~RemoveSlot
        /\ ~Label /\ ~Confirmed /\ ~LoginSave /\ ~LoginRegister
    BY <2>1 DEF Sync, SyncSave, SaveAnd, Adopt, RegisterLive, LoginPreserve, Switch, Plan, List,
                RemoveSlot, Removed, Label, Confirmed, LoginSave, LoginRegister
  <2>3. /\ ~Install /\ ~SwitchBack /\ ~Switched /\ ~Visit /\ ~Visited /\ ~Refreshed /\ ~Limited
        /\ ~Mirror /\ ~Sweep /\ ~Save
    BY <2>1, Types DEF Install, SwitchBack, Switched, Exit, Visit, Visited, Refreshed, Limited, Keep,
                       NextSlot, Mirror, Sweep, Save
  <2>4. CASE pc = "codexLogin" /\ UNCHANGED pc
    BY <2>4
  <2>5. CodexLogin => ~UNCHANGED <<serverVars, outer, parked, disk, cmd, locals>> \/ pc' # "verify"
    BY DEF CodexLogin, Quit, Exit
  <2>6. UNCHANGED pc \/ ~(ClientStep \/ ServerStep)
    BY DEF ClientStep, ServerStep, Cas
  <2>7. QED
    BY <1>1, <1>2, <2>1, <2>2, <2>3, <2>5, <2>6, PassingAt
<1>3. ASSUME NEW a \in Accounts, CodexLogin, SignsIn(a)
      PROVE  FALSE
  BY <1>3 DEF CodexLogin, SignsIn
<1>4. CASE ServerStep \/ Codex
  BY <1>4, CodexSteps DEF ServerStep, Cas
<1>5. QED
  BY <1>2, <1>3, <1>4, NextCases

LEMMA VerifiedIsKept ==
  ASSUME IInv, Backed, Unharmed, Next, pc' = "verify", proc' # NoProc, WorkNext(auth'["live"])
  PROVE  auth'["live"].acct = proc'.doc.acct \/ KeptNext(auth'["live"])
<1>1. Filing /\ AllIssued /\ Attended /\ "user" \notin weather
  BY UnharmedIsAttended DEF IInv, Attended
<1>2. ASSUME pc = "verify", proc # NoProc, Working(auth["live"])
      PROVE  auth["live"].acct = proc.doc.acct \/ Kept(auth["live"])
  BY <1>2 DEF Backed
<1>3. CASE Verify
  <2>1. proc = NoProc /\ UNCHANGED auth
    BY <1>1, <1>3, Types DEF Verify
  <2>2. proc'.doc = auth["live"]
    BY <1>3, <2>1 DEF Verify, StartServer
  <2>3. QED
    BY <2>1, <2>2
<1>4. CASE ClientStep
  BY <1>4 DEF ClientStep, Client, Answered, Rejected, SeesNone, CallFails, ReadsAsRefusal, Return
<1>5. CASE ServerStep /\ pc = "verify"
  <2>1. UNCHANGED <<parked, disk, mem, sess>> /\ proc \in Proc /\ proc # NoProc /\ proc.home = "live"
    <3>1. UNCHANGED <<parked, disk, mem, sess>> /\ proc # NoProc
      BY <1>5 DEF ServerStep, Server, ServerRenews, ServerStores, ServerKeeps, Cas, outer,
                  locals, NoProc
    <3>2. proc \in Proc
      BY <1>1, <3>1, Types DEF ServerTypeOK
    <3>3. QED
      BY <1>1, <1>5, <3>1, <3>2 DEF Filing, TypeOK, Proc, Homes
  <2>2. CASE ServerStores
    <3>1. auth'["live"] = proc.doc /\ proc'.doc = proc.doc
      BY <1>1, <2>1, <2>2, Types DEF ServerStores, Proc, Homes
    <3>2. QED
      BY <3>1
  <2>3. CASE ServerRenews
    <3>1. /\ proc.doc \in Docs /\ Rotate(proc.doc) /\ ServerTypeOK /\ UNCHANGED auth
          /\ proc'.doc = NextDoc(proc.doc.acct)
      BY <1>1, <2>1, <2>3, Types, NoDocIsNoDoc DEF ServerRenews, Proc
    <3>2. Working(auth["live"]) /\ proc'.doc.acct = proc.doc.acct
      BY <1>1, <3>1, RotateLives, RotateTypes, Holders
    <3>3. QED
      BY <1>2, <1>5, <2>1, <3>1, <3>2 DEF Kept, KeptNext
  <2>4. CASE ServerKeeps
    <3>1. UNCHANGED <<service, auth>> /\ proc'.doc = proc.doc
      BY <2>1, <2>4 DEF ServerKeeps, Proc
    <3>2. Working(auth["live"])
      BY <3>1, SameService
    <3>3. QED
      BY <1>2, <1>5, <2>1, <3>1, <3>2 DEF Kept, KeptNext
  <2>5. QED
    BY <1>5, <2>2, <2>3, <2>4 DEF ServerStep, Server
<1>6. CASE Codex /\ pc = "verify"
  <2>1. UNCHANGED proc
    BY <1>1, <1>6, CodexSteps
  <2>2. CASE auth'["live"].acct # proc.doc.acct
    <3>1. auth'["live"] = auth["live"] /\ Working(auth["live"]) => Kept(auth["live"])
      BY <1>2, <1>6, <2>1, <2>2
    <3>2. QED
      BY <1>1, <1>6, <3>1, CodexKeepsLive
  <2>3. QED
    BY <2>1, <2>2
<1>7. QED
  BY <1>1, <1>3, <1>4, <1>5, <1>6, VerifyBegins

\* What an app-server leaves is there when the command looks.
LEMMA LeftIsTaken ==
  ASSUME IInv, Unstored, Backed, Unharmed, Next, pc' = "call", auth'["temp"] # doc'
  PROVE  \/ proc'.st = "ready" /\ proc'.doc = auth'["temp"]
         \/ proc' = NoProc /\ answer' = Named(doc'.acct)
<1>1. Filing /\ weather \intersect {"server", "text", "keyring"} = {}
  BY UnharmedIsAttended DEF IInv, Unharmed
<1>2. ~Visit
  BY <1>1, VisitCopies
<1>3. (ClientStep \/ ServerStep \/ Codex) /\ UNCHANGED <<pc, doc, parked, tgt>>
  BY <1>1, <1>2, CallsBegin
<1>4. ASSUME auth["temp"] # doc
      PROVE  /\ \/ proc.st = "ready" /\ proc.doc = auth["temp"]
                \/ proc = NoProc /\ answer = Named(doc.acct)
             /\ auth["temp"].acct = doc.acct /\ proc.st # "up"
  BY <1>3, <1>4 DEF Backed, Unstored
<1>5. CASE ClientStep
  <2>1. UNCHANGED auth /\ proc # NoProc
    BY <1>5 DEF ClientStep, Client, Answered, Rejected, SeesNone, CallFails, ReadsAsRefusal,
                Return, NoProc
  <2>2. proc.st = "ready" /\ proc.doc.acct = doc.acct
    BY <1>3, <1>4, <2>1
  <2>3. Answered
    BY <1>1, <1>5, <2>2 DEF ClientStep, Client, Rejected, SeesNone, CallFails, ReadsAsRefusal
  <2>4. QED
    BY <1>1, <1>3, <2>2, <2>3 DEF Answered, Return
<1>6. CASE ServerStep
  <2>1. ServerStores \/ (UNCHANGED auth /\ proc.st = "up")
    BY <1>6 DEF ServerStep, Server, ServerRenews, ServerKeeps
  <2>2. ServerStores
    BY <1>3, <1>4, <2>1
  <2>3. proc.st = "renewed" /\ proc \in Proc /\ proc.home = "temp"
    BY <1>1, <1>3, <2>2, Types DEF ServerStores, ServerTypeOK, NoProc, Filing, TypeOK, Proc, Homes
  <2>4. QED
    BY <1>1, <2>2, <2>3, Types DEF ServerStores, Homes, Proc
<1>7. CASE Codex
  BY <1>1, <1>3, <1>4, <1>7, CodexSteps
<1>8. QED
  BY <1>3, <1>5, <1>6, <1>7

\* A command that ends saves what it added or what it took out.
LEMMA SavesOneWay ==
  ASSUME IInv, Backed, Unharmed, Next, pc' = "save"
  PROVE  Registered(mem') \subseteq Registered(disk') \/ Registered(disk') \subseteq Registered(mem')
<1>1. Filing /\ Logins
  BY DEF IInv
<1>2. /\ pc \notin {"loginSave", "save"} => Registered(mem) \subseteq Registered(disk)
      /\ pc = "save" => \/ Registered(mem) \subseteq Registered(disk)
                        \/ Registered(disk) \subseteq Registered(mem)
  BY <1>1 DEF Logins, Backed
<1>3. CASE Passing
  <2>1. CASE Moves
    <3>1. CASE mem' = disk /\ disk' = disk
      BY <3>1
    <3>2. CASE mem'.slots \in {mem.slots, EmptyTable.slots}
      <4>1. Registered(mem') \in {Registered(mem), {}}
        BY <3>2, EmptyIsTable DEF Registered
      <4>2. disk' = mem \/ (disk' = disk /\ pc # "loginSave") \/ mem' = EmptyTable
        BY <2>1 DEF Moves
      <4>3. QED
        BY <1>2, <4>1, <4>2, EmptyIsTable
    <3>3. QED
      BY <2>1, <3>1, <3>2 DEF Moves
  <2>2. ASSUME NEW n \in SlotIds, TakesOut(n)
        PROVE  Registered(mem') \subseteq Registered(disk')
    BY <1>1, <1>2, <2>2, Types, RemoveDropsOneSlot DEF TakesOut
  <2>3. ASSUME NEW n \in SlotIds, NEW d \in Doc, Fills(n, d)
        PROVE  Registered(disk') \subseteq Registered(mem')
    <3>1. /\ Registered(mem') = Registered(mem) \union {n} /\ UNCHANGED disk
          /\ pc \notin {"idle", "sweep", "save"}
      BY <1>1, <2>3, Types, Applied DEF Fills
    <3>2. Registered(disk) \subseteq Registered(mem)
      BY <1>1, <3>1 DEF Filing, Memory
    <3>3. QED
      BY <3>1, <3>2
  <2>4. QED
    BY <1>1, <1>3, <2>1, <2>2, <2>3, PassingMoves
<1>4. ASSUME NEW a \in Accounts, CodexLogin, SignsIn(a)
      PROVE  FALSE
  BY <1>4 DEF CodexLogin, SignsIn
<1>5. CASE ServerStep \/ Codex
  <2>1. UNCHANGED <<pc, mem, disk>>
    BY <1>1, <1>5, CodexSteps DEF ServerStep, Cas, locals
  <2>2. QED
    BY <1>2, <2>1
<1>6. QED
  BY <1>3, <1>4, <1>5, NextCases

LEMMA NextKeepsBacked ==
  ASSUME IInv, Unstored, FromSlot, Backed, Next
  PROVE  Backed'
<1>1. Registered(mem)' = Registered(mem') /\ Registered(disk)' = Registered(disk')
  BY DEF Registered
<1>2. SUFFICES ASSUME Unharmed'
               PROVE  /\ (/\ Synced' /\ WorkNext(auth'["live"])
                          /\ \E n \in Registered(mem') : mem'.slots[n].acct = auth'["live"].acct) =>
                              KeptNext(auth'["live"])
                      /\ pc' = "verify" /\ proc' # NoProc /\ WorkNext(auth'["live"]) =>
                           auth'["live"].acct = proc'.doc.acct \/ KeptNext(auth'["live"])
                      /\ pc' = "call" /\ auth'["temp"] # doc' =>
                           \/ proc'.st = "ready" /\ proc'.doc = auth'["temp"]
                           \/ proc' = NoProc /\ answer' = Named(doc'.acct)
                      /\ pc' = "save" => \/ Registered(mem') \subseteq Registered(disk')
                                         \/ Registered(disk') \subseteq Registered(mem')
  <2>1. Working(auth["live"])' <=> WorkNext(auth'["live"])
    BY DEF Working, WorkNext
  <2>2. Kept(auth["live"])' <=> KeptNext(auth'["live"])
    BY <1>1 DEF Kept, KeptNext
  <2>3. Named(doc.acct)' = Named(doc'.acct)
    BY DEF Named
  <2>4. QED
    BY <1>1, <1>2, <2>1, <2>2, <2>3 DEF Backed, NoProc, NoDoc
<1>3. Unharmed
  BY <1>2, Before DEF IInv
<1>4. QED
  BY <1>3, SyncedIsKept, VerifiedIsKept, LeftIsTaken, SavesOneWay

-----------------------------------------------------------------------------
(***************************************************************************)
(* Lineage is inductive, together with IInv.                               *)
(***************************************************************************)

LEMMA InitIsInOrder ==
  ASSUME Init
  PROVE  Lineage
<1>1. /\ pc = "idle" /\ proc = NoProc /\ mem = EmptyTable /\ \A s \in Sessions : ~sess[s].dirty
      /\ proc.st = "none"
  BY DEF Init, NoProc
<1>2. Unstored /\ FromSlot /\ Apart /\ Backed
  BY <1>1 DEF Unstored, FromSlot, Apart, Synced, Backed
<1>3. Followable
  <2>1. PICK start \in Starts, a \in Owner :
          /\ auth = [h \in Homes |-> IF h = "live" THEN FirstDoc(a) ELSE NoDoc]
          /\ parked = [n \in SlotIds |-> FirstDoc(start[n])]
    BY Zenon DEF Init
  <2>2. SUFFICES ASSUME NEW n \in Registered(mem) \union Registered(disk), NEW d \in Coming(n), Outdates(d)
                 PROVE  FALSE
    BY DEF Followable
  <2>3. d = FirstDoc(start[n]) /\ auth["live"] = FirstDoc(a)
    BY <1>1, <2>1, <2>2 DEF Coming, Registered, Homes
  <2>4. \A o : FirstDoc(o) = (IF o = NoAccount THEN NoDoc ELSE [acct |-> o, gen |-> 1])
    BY DEF FirstDoc
  <2>5. \A o : FirstDoc(o).acct = o
    BY <2>4 DEF NoDoc
  <2>6. QED
    BY <2>2, <2>3, <2>5 DEF Outdates
<1>4. QED
  BY <1>2, <1>3 DEF Lineage

LEMMA OrderStutters ==
  ASSUME Lineage, UNCHANGED vars
  PROVE  Lineage'
<1>1. UNCHANGED <<service, auth, proc, answer, sess, weather, parked, disk, pc, cmd, locals, putBack>>
  BY DEF vars, serverVars, outer
<1>2. UNCHANGED <<issued, unspent, mem, tgt, doc, prev, todo, dead>>
  BY <1>1 DEF service, locals
<1>3. Registered(mem)' = Registered(mem) /\ Registered(disk)' = Registered(disk)
  BY <1>1, <1>2 DEF Registered
<1>4. Unstored' /\ FromSlot'
  BY <1>1, <1>2, <1>3 DEF Lineage, Unstored, FromSlot, Working
<1>5. Apart' /\ Backed'
  BY <1>1, <1>2, <1>3 DEF Lineage, Apart, Attended, Synced, Backed, Unharmed, Kept, Working
<1>6. Followable'
  BY <1>1, <1>2, <1>3 DEF Lineage, Followable, Attended, Coming, Outdates, Storing, Working
<1>7. QED
  BY <1>4, <1>5, <1>6 DEF Lineage

\* Lineage is an invariant: a working document that is not stored yet is nobody
\* else's, auth.json is behind only until it is, and what a step may replace is held
\* elsewhere (SyncActive, refreshCodexSlot, fetchCodexLimit, writeActiveCredential).
THEOREM LineageHolds == Spec => [](IInv /\ Lineage)
<1>1. Init => IInv /\ Lineage
  BY InitEstablishes, InitIsInOrder
<1>2. IInv /\ Lineage /\ [Next]_vars => IInv' /\ Lineage'
  <2>1. SUFFICES ASSUME IInv, Lineage, [Next]_vars
                 PROVE  IInv' /\ Lineage'
    OBVIOUS
  <2>2. IInv'
    BY <2>1, NextKeeps
  <2>3. CASE Next
    BY <2>1, <2>2, <2>3, NextKeepsUnstored, NextKeepsFromSlot, NextKeepsApart, NextKeepsFollowable,
       NextKeepsBacked DEF Lineage
  <2>4. CASE UNCHANGED vars
    BY <2>1, <2>2, <2>4, OrderStutters
  <2>5. QED
    BY <2>1, <2>3, <2>4
<1>3. QED
  BY <1>1, <1>2, PTL DEF Spec

-----------------------------------------------------------------------------
(***************************************************************************)
(* What SyncActive copies is never older than what it replaces.            *)
(***************************************************************************)

\* What a step writes into a slot from auth.json works, or the slot's own did not, unless
\* a session or an app-server is about to store what it renewed.
LEMMA LiveOutlives ==
  ASSUME Filing, Followable, Attended, NEW n, HasName(n), Working(parked[n]),
         auth["live"].acct = parked[n].acct, ~Working(auth["live"]), pc # "mirror"
  PROVE  Storing(parked[n].acct)
<1>1. Outdates(parked[n])
  BY DEF Outdates
<1>2. parked[n] \in Coming(n) /\ ~Mirrors(n, parked[n])
  BY DEF Coming, Mirrors
<1>3. QED
  BY <1>1, <1>2, FollowedBefore

\* What SyncActive writes into a slot never replaces a working credential by a spent
\* one, unless auth.json is behind (SyncActive, refreshCodexSlot, writeActiveCredential).
THEOREM SyncKeepsTheWorking == Spec => SyncKeepsWorking
<1>1. ASSUME IInv, Lineage, [Next]_vars
      PROVE  (/\ pc = "sync" /\ Attended
              /\ \A s \in Sessions : ~sess[s].dirty) =>
               \A n \in SlotIds :
                 parked'[n] # parked[n] /\ Working(parked[n]) => Working(parked'[n])
  <2>1. SUFFICES ASSUME pc = "sync", Attended, \A s \in Sessions : ~sess[s].dirty, NEW n \in SlotIds,
                        parked'[n] # parked[n], Working(parked[n]), ~Working(parked'[n])
                 PROVE  FALSE
    OBVIOUS
  <2>2. Filing /\ Followable /\ proc = NoProc
    BY <1>1, <2>1, Types DEF IInv, Lineage
  <2>3. Sync
    <3>1. Next /\ ~Crash
      BY <1>1, <2>1 DEF vars, Attended, Crash
    <3>2. ~Codex /\ ~CodexLogin /\ ~ServerStep
      BY <2>1, <2>2, CodexSteps DEF CodexLogin, ServerStep, Cas
    <3>3. Passing
      BY <3>1, <3>2, NextCases
    <3>4. QED
      BY <2>1, <2>2, <3>1, <3>3, PassingAt
  <2>4. PICK m \in SlotIds : /\ m = Followed(auth["live"]) /\ auth["live"] \in Doc
                             /\ Written(m, auth["live"])
    BY <2>1, <2>2, <2>3, SyncCases
  <2>5. n = m /\ parked'[n] = auth["live"]
    BY <2>1, <2>2, <2>4, Types DEF Written
  <2>6. n \in Registered(mem) /\ mem.slots[n].acct = auth["live"].acct
    <3>1. n # 0
      BY CodexTableAssumption DEF SlotIds
    <3>2. QED
      BY <2>2, <2>4, <2>5, <3>1, Types, ActiveIsRegistered, FindFindsOwnSlot DEF Followed
  <2>7. parked[n].acct = auth["live"].acct
    BY <2>1, <2>2, <2>6 DEF Filing, Memory, Working
  <2>8. Storing(parked[n].acct)
    BY <2>1, <2>2, <2>5, <2>6, <2>7, LiveOutlives DEF HasName
  <2>9. QED
    BY <2>1, <2>2, <2>8 DEF Storing, NoProc
<1>2. QED
  BY <1>1, LineageHolds, PTL DEF Spec, SyncKeepsWorking

-----------------------------------------------------------------------------
(***************************************************************************)
(* No step of a command but remove loses the last working document.        *)
(***************************************************************************)

\* Held and StillIn after a step, of an account that the step does not change.
HoldsNext(d) ==
  \/ \E n \in Registered(mem') \union Registered(disk') : parked'[n] = d
  \/ d \in {auth'["live"], auth'["temp"]}
  \/ \E s \in Sessions : sess'[s].doc = d
  \/ proc'.st = "renewed" /\ d = proc'.doc

StillNext(a) == \E d \in Docs : HoldsNext(d) /\ d.acct = a /\ WorkNext(d)

LEMMA StillInNext ==
  ASSUME NEW a, StillNext(a)
  PROVE  StillIn(a)'
<1>1. Registered(mem)' = Registered(mem') /\ Registered(disk)' = Registered(disk')
  BY DEF Registered
<1>2. PICK d \in Docs : HoldsNext(d) /\ d.acct = a /\ WorkNext(d)
  BY DEF StillNext
<1>3. d \in Held'
  BY <1>1, <1>2 DEF HoldsNext, Held, InSlots, Homes
<1>4. Working(d)'
  BY <1>2 DEF Working, WorkNext
<1>5. QED
  BY <1>2, <1>3, <1>4 DEF StillIn

\* What Held says.
LEMMA HeldSomewhere ==
  ASSUME Filing, NEW a, StillIn(a)
  PROVE  \E d \in Docs :
           /\ d.acct = a /\ Working(d)
           /\ \/ \E n \in Registered(mem) \union Registered(disk) : parked[n] = d
              \/ d \in {auth["live"], auth["temp"]}
              \/ \E s \in Sessions : sess[s].doc = d
              \/ proc.st = "renewed" /\ d = proc.doc
<1>1. PICK d \in Held : d.acct = a /\ Working(d)
  BY DEF StillIn
<1>2. \/ \E n \in Registered(mem) \union Registered(disk) : parked[n] = d
      \/ d \in {auth["live"], auth["temp"]}
      \/ \E s \in Sessions : sess[s].doc = d
      \/ proc.st = "renewed" /\ d = proc.doc
  BY <1>1 DEF Held, InSlots, Homes
<1>3. d \in Docs
  <2>1. /\ parked \in [SlotIds -> Docs] /\ auth \in [Homes -> Docs]
        /\ \A s \in Sessions : sess[s].doc \in Docs
        /\ proc.doc \in Docs
    BY Types, NoDocIsNoDoc DEF Filing, TypeOK, ServerTypeOK, Proc, NoProc
  <2>2. QED
    BY <1>2, <2>1 DEF Registered, Homes
<1>4. QED
  BY <1>1, <1>2, <1>3

\* When nothing fails, codex-state.json changes only when a command saves it.
LEMMA DiskMoves ==
  ASSUME Filing, Passing, Unharmed
  PROVE  /\ UNCHANGED disk \/ (pc \in {"syncSave", "loginSave", "save"} /\ disk' = mem)
         /\ pc \in {"loginSave", "save"} => disk' = mem
<1>1. ~Crash /\ "save" \notin weather
  BY UnharmedIsAttended DEF Crash
<1>2. Quit => UNCHANGED disk
  BY DEF Quit
<1>3. /\ (\A c \in Commands, n \in SlotIds \union {0} : Begin(c, n) => UNCHANGED disk)
      /\ Sync \/ Adopt \/ LoginPreserve \/ LoginRegister => UNCHANGED disk
      /\ Switch \/ Install \/ Verify \/ SwitchBack \/ Switched => UNCHANGED disk
      /\ Plan \/ Visit \/ Refreshed \/ Limited \/ Mirror \/ Visited \/ Sweep => UNCHANGED disk
      /\ List \/ RemoveSlot \/ Confirmed \/ Label \/ ClientStep \/ ServerStep => UNCHANGED disk
  BY <1>2 DEF Begin, Sync, Adopt, LoginPreserve, LoginRegister, RegisterLive, Switch, Install, Verify,
              SwitchBack, Switched, Plan, Visit, Refreshed, Limited, Mirror, Visited, Sweep, List,
              RemoveSlot, Removed, Confirmed, Label, ClientStep, ServerStep, Cas
<1>4. SyncSave \/ LoginSave \/ Save => disk' = mem
  BY <1>1 DEF SyncSave, LoginSave, SaveAnd, Save
<1>5. QED
  BY <1>1, <1>2, <1>3, <1>4, PassingAt

\* A slot that a step leaves as it was is still named, if it holds the account of a
\* slot that the command knows.
LEMMA NamesStay ==
  ASSUME IInv, Backed, Unharmed, Passing, Moves,
         NEW m \in Registered(mem), NEW n, HasName(n), parked[n] # NoDoc,
         parked[n].acct = mem.slots[m].acct
  PROVE  n \in Registered(mem') \union Registered(disk')
<1>1. Filing /\ Logins
  BY DEF IInv
<1>2. pc \notin {"loginSave", "save"} => Registered(mem) \subseteq Registered(disk)
  BY <1>1 DEF Logins
<1>3. CASE UNCHANGED disk /\ pc \notin {"loginSave", "save"}
  BY <1>2, <1>3 DEF HasName
<1>4. CASE disk' = mem /\ n \in Registered(mem)
  BY <1>4
<1>5. CASE disk' = mem /\ n \notin Registered(mem) /\ pc \in {"syncSave", "loginSave"}
  BY <1>1, <1>5 DEF HasName, Filing, Memory
<1>6. CASE disk' = mem /\ n \notin Registered(mem) /\ pc = "save"
  <2>1. Registered(mem) \subseteq Registered(disk) /\ n \in Registered(disk)
    BY <1>6 DEF Backed, HasName
  <2>2. mem.slots[m].acct = disk.slots[m].acct
    BY <1>1, <1>6, <2>1 DEF Filing, Memory
  <2>3. parked[n].acct = disk.slots[n].acct
    BY <1>1, <2>1 DEF Filing, SlotsHoldTheirAccount
  <2>4. n = m
    BY <1>1, <2>1, <2>2, <2>3 DEF Filing, OneSlotPerAccount, OnePerAccount
  <2>5. QED
    BY <1>6, <2>4
<1>7. QED
  BY <1>1, <1>3, <1>4, <1>5, <1>6, DiskMoves

\* PassingMoves, told which steps take a slot out: remove, and clean after its question.
LEMMA SlotMoves ==
  ASSUME Filing, Passing, Unharmed, cmd # "remove"
  PROVE  \/ Moves
         \/ \E n \in SlotIds, d \in Doc : Fills(n, d)
         \/ Sweep /\ \E n \in dead : TakesOut(n)
<1>1. ~Crash /\ ~RemoveSlot
  BY UnharmedIsAttended DEF Crash, RemoveSlot
<1>2. CASE pc = "act"
  <2>1. Quit => Moves
    BY <1>2 DEF Quit, Exit, Moves
  <2>2. ASSUME NEW live \in Reads(auth["live"]), live # NoDoc, NEW then \in {"save", "loginSave"},
               RegisterLive(live, then)
        PROVE  Quit \/ \E n \in SlotIds, d \in Doc : Fills(n, d)
    <3>1. live = auth["live"] /\ live \in Doc
      BY <2>2, Types, ReadsIsDoc DEF Homes
    <3>2. QED
      BY <1>2, <2>2, <3>1, RegisterFills
  <2>3. CASE Adopt \/ LoginPreserve
    <3>1. CASE UNCHANGED <<parked, disk, mem>>
      BY <1>2, <3>1 DEF Moves
    <3>2. QED
      BY <2>1, <2>2, <2>3, <3>1 DEF Adopt, LoginPreserve, locals
  <2>4. CASE Switch \/ Plan \/ List \/ Label
    <3>1. Quit \/ UNCHANGED <<parked, disk, mem>>
      BY <2>4 DEF Switch, Plan, List, Label, locals
    <3>2. QED
      BY <1>2, <2>1, <3>1 DEF Moves
  <2>5. QED
    BY <1>1, <1>2, <2>3, <2>4, PassingAt
<1>3. CASE pc = "sweep"
  <2>1. Sweep
    BY <1>1, <1>3, PassingAt
  <2>2. dead # {} /\ dead \subseteq SlotIds
    BY <1>3, Types DEF Filing, Targets
  <2>3. Lowest(dead) \in dead
    BY <2>2, LowestIsMember
  <2>4. TakesOut(Lowest(dead))
    BY <1>3, <2>1 DEF Sweep, TakesOut
  <2>5. QED
    BY <2>1, <2>3, <2>4
<1>4. CASE pc = "ask"
  <2>1. Confirmed
    BY <1>1, <1>4, PassingAt
  <2>2. UNCHANGED <<parked, disk, mem>> /\ pc' \in {"save", "sweep"}
    BY <2>1 DEF Confirmed, locals
  <2>3. QED
    BY <1>4, <2>2 DEF Moves
<1>5. CASE pc \notin {"act", "ask", "sweep"}
  BY <1>5, PassingMoves DEF TakesOut
<1>6. QED
  BY <1>2, <1>3, <1>4, <1>5

\* What a slot held stays in it, or a working document of the account stays elsewhere.
LEMMA SlotsStay ==
  ASSUME IInv, Lineage, Unharmed, Passing, cmd # "remove",
         NEW m \in Registered(mem), NEW n, HasName(n), Working(parked[n]),
         parked[n].acct = mem.slots[m].acct
  PROVE  StillNext(parked[n].acct)
<1>1. /\ Filing /\ Copies /\ Verdicts /\ Logins /\ Backed /\ Followable /\ Unstored /\ Attended
      /\ parked[n] # NoDoc /\ n \in SlotIds /\ parked[n] \in Docs /\ parked \in [SlotIds -> Docs]
  BY UnharmedIsAttended, Types DEF IInv, Lineage, Working, HasName, Registered
<1>2. UNCHANGED <<service, sess>>
  BY <1>1, PassingHolds
<1>3. ASSUME n \in Registered(mem') \union Registered(disk'), parked'[n] = parked[n]
      PROVE  StillNext(parked[n].acct)
  BY <1>1, <1>2, <1>3, SameService DEF StillNext, HoldsNext
<1>4. CASE Moves
  <2>1. UNCHANGED parked
    BY <1>4 DEF Moves
  <2>2. QED
    BY <1>1, <1>3, <1>4, <2>1, NamesStay
<1>5. CASE Sweep /\ \E k \in dead : TakesOut(k)
  <2>1. PICK k \in dead : TakesOut(k)
    BY <1>5
  <2>2. IsDead(parked[k])
    BY <1>1, <2>1 DEF Verdicts, Telling, Unharmed
  <2>3. k # n
    BY <2>2 DEF IsDead, Working
  <2>4. k \in SlotIds
    BY <1>1, Types
  <2>5. /\ parked'[n] = parked[n] /\ UNCHANGED disk
        /\ Registered(mem') = Registered(mem) \ {k}
    BY <1>1, <2>1, <2>3, <2>4, Types, RemoveDropsOneSlot DEF TakesOut, Deleted
  <2>6. QED
    BY <1>3, <2>3, <2>5 DEF HasName
<1>6. ASSUME NEW k \in SlotIds, NEW d \in Doc, Fills(k, d)
      PROVE  StillNext(parked[n].acct)
  <2>1. /\ Registered(mem') = Registered(mem) \union {k} /\ UNCHANGED disk
        /\ parked' = [parked EXCEPT ![k] = d] /\ pc \notin {"idle", "sweep", "save"}
        /\ auth'["live"] = auth["live"] /\ proc' = NoProc
    BY <1>1, <1>6, Types, Applied DEF Fills, Written
  <2>2. CASE k # n \/ d = parked[n]
    BY <1>1, <1>3, <2>1, <2>2 DEF HasName
  <2>3. CASE k = n /\ d # parked[n]
    <3>1. n \in Registered(mem)
      BY <1>1, <2>1 DEF HasName, Filing, Memory
    <3>2. d.acct = parked[n].acct
      BY <1>1, <1>6, <2>3, <3>1 DEF Fills, Fits, Filing, Memory
    <3>3. pc # "mirror" /\ proc = NoProc
      <4>1. parked' # parked
        BY <1>1, <2>1, <2>3
      <4>2. ~Mirror /\ ~ClientStep /\ ~ServerStep /\ ~Crash
        BY <4>1 DEF Mirror, ClientStep, ServerStep, Cas, Crash
      <4>3. QED
        BY <1>1, <4>2, PassingAt, Awaits
    <3>4. ~(pc = "call" /\ n = tgt /\ d = auth["temp"])
      <4>1. SUFFICES ASSUME pc = "call", n = tgt, d = auth["temp"]
                     PROVE  FALSE
        OBVIOUS
      <4>2. ~IsDead(parked[n])
        BY <1>1 DEF IsDead
      <4>3. QED
        BY <1>1, <2>3, <4>1, <4>2 DEF Copies
    <3>5. d = auth["live"]
      BY <1>6, <2>3, <3>4 DEF Fills
    <3>6. CASE Working(d)
      <4>1. WorkNext(d) /\ HoldsNext(d)
        BY <1>2, <2>1, <3>5, <3>6, SameService DEF HoldsNext
      <4>2. QED
        BY <3>2, <4>1, NoDocIsNoDoc DEF StillNext
    <3>7. CASE ~Working(d)
      <4>1. Storing(parked[n].acct)
        BY <1>1, <3>2, <3>3, <3>5, <3>7, LiveOutlives
      <4>2. PICK s \in Sessions : sess[s].dirty /\ sess[s].doc.acct = parked[n].acct
        BY <3>3, <4>1 DEF Storing, NoProc
      <4>3. WorkNext(sess[s].doc) /\ HoldsNext(sess[s].doc) /\ sess[s].doc \in Docs
        BY <1>1, <1>2, <4>2, SameService DEF Unstored, HoldsNext, Filing, TypeOK
      <4>4. QED
        BY <4>2, <4>3 DEF StillNext
    <3>8. QED
      BY <3>6, <3>7
  <2>4. QED
    BY <2>2, <2>3
<1>7. QED
  BY <1>1, <1>4, <1>5, <1>6, SlotMoves

\* A session, an app-server that renewed, or a slot that stays named keeps what it has.
LEMMA SessionsStay ==
  ASSUME Filing, Passing, NEW s \in Sessions, Working(sess[s].doc)
  PROVE  StillNext(sess[s].doc.acct)
<1>1. UNCHANGED <<service, sess>> /\ sess[s].doc \in Docs
  BY PassingHolds DEF Filing, TypeOK
<1>2. QED
  BY <1>1, SameService DEF StillNext, HoldsNext

LEMMA RenewedStays ==
  ASSUME Filing, Passing, Unharmed, proc.st = "renewed", Working(proc.doc)
  PROVE  StillNext(proc.doc.acct)
<1>1. UNCHANGED service /\ proc # NoProc /\ ~Crash
  BY PassingHolds, UnharmedIsAttended DEF NoProc, Crash
<1>2. weather \intersect {"server", "text", "keyring"} = {}
  BY DEF Unharmed
<1>3. ~ClientStep
  BY <1>1, <1>2 DEF ClientStep, Client, Answered, Rejected, SeesNone, CallFails, ReadsAsRefusal
<1>4. ServerStores
  BY <1>1, <1>3, Awaits DEF ServerStep, Server, ServerKeeps
<1>5. proc.home \in Homes /\ proc.doc \in Docs
  BY <1>1, Types, NoDocIsNoDoc DEF ServerTypeOK, Proc
<1>6. auth'[proc.home] = proc.doc
  BY <1>4, <1>5, Types DEF ServerStores
<1>7. QED
  BY <1>1, <1>5, <1>6, SameService DEF StillNext, HoldsNext, Homes

\* Which steps of cas replace auth.json.
LEMMA LiveMoves ==
  ASSUME Filing, Passing, auth'["live"] # auth["live"]
  PROVE  \/ pc = "verify" /\ putBack'
         \/ /\ UNCHANGED <<parked, disk, mem>>
            /\ pc \in {"install", "mirror"} \/ (pc = "verify" /\ ServerStep /\ ServerStores)
<1>1. auth \in [Homes -> Docs] /\ "live" \in Homes
  BY Types DEF Homes
<1>2. ~Quit /\ ~Crash
  BY <1>1 DEF Quit, Crash, Homes
<1>3. /\ \A c \in Commands, n \in SlotIds \union {0} : ~Begin(c, n)
      /\ ~Sync /\ ~SyncSave /\ ~Adopt /\ ~LoginPreserve /\ ~LoginSave /\ ~LoginRegister
  BY <1>2 DEF Begin, Sync, SyncSave, Adopt, LoginPreserve, LoginSave, LoginRegister, SaveAnd,
              RegisterLive, serverVars
<1>4. /\ ~Switch /\ ~Verify /\ ~Switched /\ ~Plan /\ ~Visit /\ ~Refreshed /\ ~Limited /\ ~Visited
      /\ ~Sweep /\ ~List /\ ~RemoveSlot /\ ~Confirmed /\ ~Label /\ ~Save
  BY <1>1, <1>2, CallEffects DEF Switch, Verify, Switched, Plan, Visit, Visited, Sweep, List,
                                 RemoveSlot,
     Removed, Confirmed, Label, Save, serverVars, Homes
<1>5. Install \/ Mirror => UNCHANGED <<parked, disk, mem>>
  BY <1>2 DEF Install, Mirror, locals
<1>6. SwitchBack => pc = "verify" /\ putBack'
  BY DEF SwitchBack
<1>7. ~ClientStep
  BY DEF ClientStep, Client, Answered, Rejected, SeesNone, CallFails, ReadsAsRefusal, Return
<1>8. ServerStep => pc # "call" /\ ServerStores /\ UNCHANGED <<parked, disk, mem>>
  BY CallStays DEF ServerStep, Server, ServerRenews, ServerKeeps, Cas, locals
<1>9. QED
  BY <1>2, <1>3, <1>4, <1>5, <1>6, <1>7, <1>8, PassingAt DEF serverVars

\* What replaces auth.json is of its account, or what it held is held elsewhere.
LEMMA LiveStays ==
  ASSUME IInv, Lineage, Unharmed, Passing, ~putBack', Working(auth["live"]),
         NEW m \in Registered(mem), mem.slots[m].acct = auth["live"].acct
  PROVE  StillNext(auth["live"].acct)
<1>1. Filing /\ Backed /\ Unstored /\ auth["live"] \in Docs /\ auth \in [Homes -> Docs]
  BY Types DEF IInv, Lineage, Homes
<1>2. UNCHANGED <<service, sess>> /\ WorkNext(auth["live"])
  BY <1>1, PassingHolds, SameService
<1>3. CASE auth'["live"] = auth["live"]
  BY <1>1, <1>2, <1>3 DEF StillNext, HoldsNext
<1>4. ASSUME UNCHANGED <<parked, disk, mem>>, Kept(auth["live"])
      PROVE  StillNext(auth["live"].acct)
  BY <1>1, <1>2, <1>4 DEF Kept, StillNext, HoldsNext
<1>5. CASE UNCHANGED <<parked, disk, mem>> /\ pc \in {"install", "mirror"}
  <2>1. Kept(auth["live"])
    BY <1>1, <1>5 DEF Backed, Synced
  <2>2. QED
    BY <1>4, <1>5, <2>1
<1>6. CASE UNCHANGED <<parked, disk, mem>> /\ pc = "verify" /\ ServerStep /\ ServerStores
  <2>1. proc # NoProc /\ proc.st = "renewed"
    BY <1>6 DEF ServerStores, NoProc
  <2>2. proc.home = "live" /\ proc.doc \in Docs
    BY <1>1, <1>6, <2>1, Types, NoDocIsNoDoc DEF Filing, TypeOK, ServerTypeOK, Proc, Homes
  <2>3. auth'["live"] = proc.doc
    BY <1>1, <1>6, <2>2 DEF ServerStores, Homes
  <2>4. WorkNext(proc.doc)
    BY <1>1, <1>2, <2>1, SameService DEF Unstored
  <2>5. auth["live"].acct = proc.doc.acct \/ Kept(auth["live"])
    BY <1>1, <1>6, <2>1 DEF Backed
  <2>6. CASE auth["live"].acct = proc.doc.acct
    BY <2>2, <2>3, <2>4, <2>6 DEF StillNext, HoldsNext
  <2>7. QED
    BY <1>4, <1>6, <2>5, <2>6
<1>7. QED
  BY <1>1, <1>3, <1>5, <1>6, LiveMoves

\* What a temporary home holds is what the slot holds, or the command takes it.
LEMMA TempStays ==
  ASSUME IInv, Lineage, Unharmed, Passing, Working(auth["temp"])
  PROVE  StillNext(auth["temp"].acct)
<1>1. /\ Filing /\ Copies /\ Backed /\ Unstored /\ FromSlot /\ auth["temp"] \in Docs
      /\ auth \in [Homes -> Docs] /\ parked \in [SlotIds -> Docs]
  BY Types DEF IInv, Lineage, Homes
<1>2. UNCHANGED <<service, sess>> /\ WorkNext(auth["temp"])
  BY <1>1, PassingHolds, SameService
<1>3. auth["temp"] # NoDoc /\ pc \in {"call", "mirror"}
  BY <1>1, Types DEF Working
<1>4. ~Crash /\ weather \intersect {"read", "store"} = {}
  BY UnharmedIsAttended DEF Crash, Unharmed
<1>5. CASE auth'["temp"] = auth["temp"]
  BY <1>1, <1>2, <1>5 DEF StillNext, HoldsNext
<1>6. ASSUME tgt \in Registered(mem), auth["temp"] = parked[tgt], UNCHANGED <<parked, mem>>
      PROVE  StillNext(auth["temp"].acct)
  BY <1>1, <1>2, <1>6 DEF StillNext, HoldsNext
<1>7. CASE Mirror
  <2>1. pc = "mirror" /\ UNCHANGED <<parked, mem>>
    BY <1>7 DEF Mirror
  <2>2. tgt \in Registered(mem) /\ auth["temp"] = parked[tgt]
    BY <1>1, <2>1 DEF FromSlot
  <2>3. QED
    BY <1>6, <2>1, <2>2
<1>8. ASSUME pc = "call"
      PROVE  /\ tgt \in Registered(mem) /\ doc = parked[tgt] /\ mem.slots[tgt].acct = doc.acct
             /\ auth["temp"] # doc => auth["temp"].acct = doc.acct /\ proc.st # "renewed"
             /\ auth["temp"] # doc /\ proc = NoProc => answer = Named(doc.acct)
  <2>1. NoProc.st # "ready"
    BY DEF NoProc
  <2>2. QED
    BY <1>1, <1>8, <2>1 DEF Filing, Targets, Copies, Unstored, Backed
<1>9. CASE Refreshed \/ Limited
  <2>1. pc = "call" /\ proc = NoProc
    BY <1>1, <1>9, CallEffects
  <2>2. CASE UNCHANGED <<parked, mem>>
    <3>1. CASE auth["temp"] = doc
      BY <1>6, <1>8, <2>1, <2>2, <3>1
    <3>2. CASE auth["temp"] # doc
      <4>1. auth["temp"].acct = doc.acct /\ answer = Named(mem.slots[tgt].acct)
        BY <1>8, <2>1, <3>2
      <4>2. /\ tgt \in Registered(mem) /\ auth["temp"] \in Doc
            /\ Written(tgt, auth["temp"])
        BY <1>1, <1>4, <1>9, <3>2, <4>1, CallEffects
      <4>3. parked'[tgt] = auth["temp"] /\ tgt \in Registered(mem')
        BY <1>1, <2>2, <4>2 DEF Written, Registered
      <4>4. QED
        BY <1>1, <1>2, <4>3 DEF StillNext, HoldsNext
    <3>3. QED
      BY <3>1, <3>2
  <2>3. CASE /\ tgt \in Registered(mem) /\ auth["temp"] \in Doc
             /\ Written(tgt, auth["temp"]) /\ mem' = Apply(mem, tgt, auth["temp"])
    <3>1. parked'[tgt] = auth["temp"] /\ tgt \in Registered(mem')
      BY <1>1, <2>3, Types, ApplyChangesOneSlot DEF Written, Registered
    <3>2. QED
      BY <1>1, <1>2, <3>1 DEF StillNext, HoldsNext
  <2>4. QED
    BY <1>1, <1>9, <2>2, <2>3, CallEffects
<1>10. CASE ServerStep /\ pc = "call"
  <2>1. ServerStores \/ UNCHANGED auth
    BY <1>10 DEF ServerStep, Server, ServerRenews, ServerKeeps
  <2>2. CASE ServerStores
    <3>1. auth["temp"] = doc /\ UNCHANGED <<parked, mem>>
      BY <1>8, <1>10, <2>2 DEF ServerStores, ServerStep, Cas, locals
    <3>2. QED
      BY <1>6, <1>8, <1>10, <3>1
  <2>3. QED
    BY <1>5, <2>1, <2>2
<1>11. CASE ClientStep
  <2>1. UNCHANGED auth
    BY <1>11 DEF ClientStep, Client, Answered, Rejected, SeesNone, CallFails, ReadsAsRefusal, Return
  <2>2. QED
    BY <1>5, <2>1
<1>12. QED
  BY <1>1, <1>3, <1>4, <1>7, <1>9, <1>10, <1>11, PassingAt

\* The steps that serve nobody new: what is held stays, whoever holds it.
LEMMA PassingLosesNone ==
  ASSUME IInv, Lineage, Unharmed, Passing, ~putBack', cmd # "remove",
         NEW m \in Registered(mem), StillIn(mem.slots[m].acct)
  PROVE  StillNext(mem.slots[m].acct)
<1>1. Filing
  BY DEF IInv
<1>2. PICK d \in Docs :
        /\ d.acct = mem.slots[m].acct /\ Working(d)
        /\ \/ \E n \in Registered(mem) \union Registered(disk) : parked[n] = d
           \/ d \in {auth["live"], auth["temp"]}
           \/ \E s \in Sessions : sess[s].doc = d
           \/ proc.st = "renewed" /\ d = proc.doc
  BY <1>1, HeldSomewhere
<1>3. ASSUME NEW n \in Registered(mem) \union Registered(disk), parked[n] = d
      PROVE  StillNext(d.acct)
  BY <1>2, <1>3, SlotsStay DEF HasName
<1>4. QED
  BY <1>1, <1>2, <1>3, LiveStays, TempStays, SessionsStay, RenewedStays

\* `codex login`, when it replaces auth.json: what that held has a slot, if the account has.
LEMMA SignInLosesNone ==
  ASSUME IInv, Lineage, Unharmed, NEW b \in Accounts, CodexLogin, SignsIn(b),
         NEW m \in Registered(mem), StillIn(mem.slots[m].acct)
  PROVE  StillNext(mem.slots[m].acct)
<1>1. Filing /\ ServerTypeOK /\ Backed /\ auth \in [Homes -> Docs]
  BY Types DEF IInv, Lineage
<1>2. pc = "codexLogin" /\ UNCHANGED <<proc, sess, parked, disk, mem>> /\ SignInAs(b)
      /\ auth'["temp"] = auth["temp"]
  BY <1>1 DEF CodexLogin, SignsIn, outer, Replaced, Homes
<1>3. PICK d \in Docs :
        /\ d.acct = mem.slots[m].acct /\ Working(d)
        /\ \/ \E n \in Registered(mem) \union Registered(disk) : parked[n] = d
           \/ d \in {auth["live"], auth["temp"]}
           \/ \E s \in Sessions : sess[s].doc = d
           \/ proc.st = "renewed" /\ d = proc.doc
  BY <1>1, HeldSomewhere
<1>4. WorkNext(d)
  BY <1>1, <1>2, <1>3, SignInLives
<1>5. CASE d = auth["live"]
  <2>1. Kept(auth["live"])
    BY <1>1, <1>2, <1>3, <1>5 DEF Backed, Synced
  <2>2. QED
    BY <1>2, <1>3, <1>4, <1>5, <2>1 DEF Kept, StillNext, HoldsNext
<1>6. QED
  BY <1>2, <1>3, <1>4, <1>5 DEF StillNext, HoldsNext

\* An app-server holds what it has renewed.
LEMMA RenewalLosesNone ==
  ASSUME IInv, ServerStep, ServerRenews, NEW m \in Registered(mem), StillIn(mem.slots[m].acct)
  PROVE  StillNext(mem.slots[m].acct)
<1>1. Filing /\ AllIssued /\ ServerTypeOK
  BY Types DEF IInv
<1>2. /\ UNCHANGED <<auth, sess, parked, disk, mem>> /\ proc.st = "up"
      /\ proc'.st = "renewed" /\ proc'.doc = NextDoc(proc.doc.acct)
      /\ proc.doc \in Docs /\ Rotate(proc.doc)
  BY <1>1, NoDocIsNoDoc DEF ServerStep, ServerRenews, Cas, outer, locals, ServerTypeOK, Proc, NoProc
<1>3. PICK d \in Docs :
        /\ d.acct = mem.slots[m].acct /\ Working(d)
        /\ \/ \E n \in Registered(mem) \union Registered(disk) : parked[n] = d
           \/ d \in {auth["live"], auth["temp"]}
           \/ \E s \in Sessions : sess[s].doc = d
           \/ proc.st = "renewed" /\ d = proc.doc
  BY <1>1, HeldSomewhere
<1>4. CASE d = proc.doc
  <2>1. WorkNext(NextDoc(d.acct)) /\ NextDoc(d.acct) \in Docs /\ NextDoc(d.acct).acct = d.acct
    BY <1>1, <1>2, <1>4, RotateLives, RotateTypes, NoDocIsNoDoc
  <2>2. QED
    BY <1>2, <1>3, <1>4, <2>1 DEF StillNext, HoldsNext
<1>5. CASE d # proc.doc
  <2>1. d \in Issued
    BY <1>1, <1>3, Holders DEF Registered
  <2>2. WorkNext(d)
    BY <1>1, <1>2, <1>3, <1>5, <2>1, RotateLives
  <2>3. QED
    BY <1>2, <1>3, <2>2 DEF StillNext, HoldsNext
<1>6. QED
  BY <1>4, <1>5

\* A session, or the user, does nothing without a session that changes or a sign-out.
LEMMA CodexIsSeen ==
  ASSUME Filing, AllIssued, Codex, UNCHANGED sess
  PROVE  "user" \in weather
<1>1. /\ \A s \in Sessions : sess[s].doc \in Docs /\ Rotate(sess[s].doc) =>
             NextDoc(sess[s].doc.acct) # sess[s].doc
  BY Types, NewIsNew, Holders
<1>2. QED
  BY <1>1, CodexSteps

\* As long as nothing fails but a deletion, no step of a command but remove loses the
\* last working document of a registered account (switch, refreshCodexSlot,
\* fetchCodexLimit, registerLive, clean), unless a switch put back what was live before.
THEOREM CommandsLoseNoAccount == Spec => LosesNoAccount
<1>1. ASSUME IInv, Lineage, [Next]_vars
      PROVE  \A a \in {mem.slots[n].acct : n \in Registered(mem)} :
               (weather \subseteq {"delete"} /\ ~putBack' /\ cmd # "remove" /\ UNCHANGED sess
                /\ StillIn(a)) => StillIn(a)'
  <2>1. SUFFICES ASSUME NEW m \in Registered(mem), weather \subseteq {"delete"}, ~putBack',
                        cmd # "remove", UNCHANGED sess, StillIn(mem.slots[m].acct)
                 PROVE  \A a : a = mem.slots[m].acct => StillIn(a)'
    OBVIOUS
  <2>2. CASE UNCHANGED vars
    <3>1. UNCHANGED <<service, auth, proc, sess, parked, disk, mem>>
      BY <2>2 DEF vars, serverVars, outer, locals
    <3>2. UNCHANGED <<unspent, Registered(mem), Registered(disk)>>
      BY <3>1 DEF service, Registered
    <3>3. TAKE a
    <3>4. HAVE a = mem.slots[m].acct
    <3>5. QED
      BY <2>1, <3>1, <3>2, <3>4 DEF StillIn, Held, InSlots, Working
  <2>3. CASE Next
    <3>1. Filing /\ AllIssued /\ Unharmed
      BY <1>1, <2>1, <2>3, WeatherStays DEF IInv, Unharmed
    <3>2. ~Codex
      BY <2>1, <3>1, CodexIsSeen
    <3>3. StillNext(mem.slots[m].acct)
      BY <1>1, <2>1, <2>3, <3>1, <3>2, NextCases, PassingLosesNone, SignInLosesNone, RenewalLosesNone
    <3>4. TAKE a
    <3>5. HAVE a = mem.slots[m].acct
    <3>6. StillNext(a)
      BY <3>3, <3>5
    <3>7. QED
      BY <3>6, StillInNext
  <2>4. QED
    BY <1>1, <2>2, <2>3
<1>2. QED
  BY <1>1, LineageHolds, PTL DEF Spec, LosesNoAccount

=============================================================================
