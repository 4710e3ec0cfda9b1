--------------------------- MODULE LiveCredential ---------------------------
(***************************************************************************)
(* Package target, with jsonpatch and the Keychain under it: where Claude  *)
(* Code's live login is kept (a Keychain item, a credentials file beside   *)
(* it, and the oauthAccount block of .claude.json), and how cas reads and  *)
(* replaces it while Claude Code writes there as well.                     *)
(*                                                                         *)
(* Of a credential only which one it is matters; of .claude.json the       *)
(* order, the names and the values of its members.  Every call of the      *)
(* Keychain and of the file system is a step.                              *)
(***************************************************************************)
EXTENDS Integers, Sequences, FiniteSets, SequencesExt

CONSTANTS
  Creds,       \* credentials
  Owners,      \* accounts that an oauthAccount block may name
  Rest,        \* the other members of .claude.json: their names
  Values,      \* and their values
  None,        \* no item, no file
  Malformed,   \* an item or a file that ParseEnvelope refuses
  Torn         \* a file that was replaced by half of what it should hold

Places == {"creds", "config", "backup"}

Own == "oauthAccount"

Members == [key: {Own}, val: Owners] \union [key: Rest, val: Values]

\* .claude.json: no name occurs twice.
Docs == {d \in SeqOf(Members, Cardinality(Rest) + 1) : \A i, j \in DOMAIN d : d[i].key = d[j].key => i = j}

ASSUME LiveCredentialAssumption ==
  /\ Own \notin Rest /\ IsFiniteSet(Rest)
  /\ Creds \intersect {None, Malformed, Torn} = {}
  /\ Docs \intersect {None, Torn} = {} /\ None # Torn /\ Malformed # Torn

VARIABLES
  keychain,    \* the Keychain item of Claude Code
  disk,        \* its files, and the backup that cas keeps of one
  temp,        \* the temporary file of writeFileAtomic
  pc,          \* where cas is
  env, acct,   \* the login it installs
  got, seen,   \* what was in the Keychain, and in the file, when it read them
  doc,         \* .claude.json as it read it
  rewritten    \* whether cas has ever replaced .claude.json

locals == <<temp, env, acct, got, seen, doc>>
vars == <<keychain, disk, pc, locals, rewritten>>

Stored == Creds \union {None, Malformed}

NoTemp == [place |-> "creds", data |-> None, full |-> FALSE]

NoDoc == <<>>

TypeOK ==
  /\ keychain \in Stored /\ got \in Stored /\ seen \in Stored
  /\ disk \in [creds: Stored \union {Torn}, config: Docs \union {None, Torn},
               backup: Docs \union {None, Torn}]
  /\ temp \in [place: Places, data: Creds \union Docs \union {None}, full: BOOLEAN]
  /\ pc \in {"idle", "read", "fallback", "repair", "write", "stat", "config",
             "backup", "patch", "fill", "rename"}
  /\ temp = NoTemp <=> pc \notin {"fill", "rename"}
  /\ env \in Creds \union {None} /\ acct \in Owners \union {None}
  /\ doc \in Docs /\ rewritten \in BOOLEAN

Init ==
  /\ keychain \in Stored
  /\ disk \in [creds: Stored, config: Docs \union {None}, backup: {None}]
  /\ temp = NoTemp /\ pc = "idle" /\ env = None /\ acct = None
  /\ got = None /\ seen = None /\ doc = NoDoc /\ rewritten = FALSE

-----------------------------------------------------------------------------
(***************************************************************************)
(* jsonpatch                                                               *)
(***************************************************************************)

Position(d) == {i \in DOMAIN d : d[i].key = Own}

\* Mutant: the member is added although it is there.
MutSetTopLevelKey(d, a) == <<[key |-> Own, val |-> a]>> \o d

\* SetTopLevelKey: the member in its place, or a new one at the front.
SetTopLevelKey(d, a) ==
  IF Position(d) = {} THEN <<[key |-> Own, val |-> a]>> \o d
  ELSE [i \in DOMAIN d |-> IF i \in Position(d) THEN [key |-> Own, val |-> a] ELSE d[i]]

-----------------------------------------------------------------------------
(***************************************************************************)
(* ReadCred: the Keychain, else the file, from which the Keychain is then  *)
(* repaired.                                                               *)
(***************************************************************************)

\* The command ends: it is done, an error ends it, or it dies. A temporary file
\* that is left behind is never looked at.
End ==
  /\ pc' = "idle" /\ temp' = NoTemp /\ env' = None /\ acct' = None
  /\ got' = None /\ seen' = None /\ doc' = NoDoc

Quit == End /\ UNCHANGED <<keychain, disk, rewritten>>

Crash == pc # "idle" /\ Quit

Begin == pc = "idle" /\ pc' = "read" /\ UNCHANGED <<keychain, disk, locals, rewritten>>

\* The credential is read, and the command goes on, perhaps to install another one.
Goes == pc' = "write" /\ got' = None /\ seen' = None /\ UNCHANGED <<temp, env, acct, doc>>

\* Mutant: an error of the Keychain counts as an empty one.
MutGet ==
  /\ pc = "read"
  /\ \/ Quit
     \/ keychain \in Creds /\ Goes /\ UNCHANGED <<keychain, disk, rewritten>>
     \/ /\ pc' = "fallback" /\ got' = keychain
        /\ UNCHANGED <<keychain, disk, temp, env, acct, seen, doc, rewritten>>

\* keychain.Get, whose error is final unless there is no item.
Get ==
  /\ pc = "read"
  /\ \/ Quit
     \/ keychain \in Creds /\ Goes /\ UNCHANGED <<keychain, disk, rewritten>>
     \/ /\ keychain \notin Creds /\ pc' = "fallback" /\ got' = keychain
        /\ UNCHANGED <<keychain, disk, temp, env, acct, seen, doc, rewritten>>

\* readCredFile
Fallback ==
  /\ pc = "fallback"
  /\ \/ disk.creds \notin Creds /\ Quit
     \/ /\ disk.creds \in Creds /\ seen' = disk.creds /\ pc' = "repair"
        /\ UNCHANGED <<keychain, disk, temp, env, acct, got, doc, rewritten>>

\* writeKeychainCred of what the file held.
Repair ==
  /\ pc = "repair"
  /\ \/ Quit
     \/ keychain' = seen /\ Goes /\ UNCHANGED <<disk, rewritten>>

-----------------------------------------------------------------------------
(***************************************************************************)
(* WriteCred and WriteOAuthAccount                                         *)
(***************************************************************************)

\* The Keychain first.
WriteCred ==
  /\ pc = "write"
  /\ \/ Quit
     \/ \E c \in Creds, a \in Owners :
          /\ keychain' = c /\ env' = c /\ acct' = a /\ pc' = "stat"
          /\ UNCHANGED <<disk, temp, got, seen, doc, rewritten>>

\* writeFileAtomic until there is a temporary file.
Put(place, data) ==
  /\ temp' = [place |-> place, data |-> data, full |-> FALSE] /\ pc' = "fill"
  /\ UNCHANGED <<keychain, disk, env, acct, got, seen, doc, rewritten>>

\* The file is written only if there is one.
StatFile ==
  /\ pc = "stat"
  /\ \/ disk.creds # None /\ Put("creds", env)
     \/ /\ disk.creds = None /\ pc' = "config"
        /\ UNCHANGED <<keychain, disk, locals, rewritten>>

\* Mutant: whoever writes the file goes on after an error.
MutFill ==
  /\ pc = "fill" /\ pc' = "rename"
  /\ \E full \in BOOLEAN : temp' = [temp EXCEPT !.full = full]
  /\ UNCHANGED <<keychain, disk, env, acct, got, seen, doc, rewritten>>

\* It is filled, or an error ends the command.
Fill ==
  /\ pc = "fill"
  /\ \/ /\ pc' = "rename" /\ temp' = [temp EXCEPT !.full = TRUE]
        /\ UNCHANGED <<keychain, disk, env, acct, got, seen, doc, rewritten>>
     \/ Quit

\* And takes the place of the file. Next is .claude.json, if there is anything to
\* write there, or the patch that was waiting for its backup.
Rename ==
  /\ pc = "rename"
  /\ \/ Quit
     \/ /\ disk' = [disk EXCEPT ![temp.place] = IF temp.full THEN temp.data ELSE Torn]
        /\ rewritten' = (rewritten \/ temp.place = "config")
        /\ UNCHANGED keychain
        /\ \/ /\ temp.place # "config" /\ temp' = NoTemp
              /\ pc' = IF temp.place = "creds" THEN "config" ELSE "patch"
              /\ UNCHANGED <<env, acct, got, seen, doc>>
           \/ temp.place # "backup" /\ End

\* Mutant: there is a backup of every version.
MutReadConfig ==
  /\ pc = "config"
  /\ \/ Quit
     \/ /\ disk.config \in Docs /\ doc' = disk.config
        /\ pc' = "backup"
        /\ UNCHANGED <<keychain, disk, temp, env, acct, got, seen, rewritten>>

\* WriteOAuthAccount reads .claude.json. It is an error if there is none.
ReadConfig ==
  /\ pc = "config"
  /\ \/ Quit
     \/ /\ disk.config \in Docs /\ doc' = disk.config
        /\ pc' = IF disk.backup = None THEN "backup" ELSE "patch"
        /\ UNCHANGED <<keychain, disk, temp, env, acct, got, seen, rewritten>>

\* backupOnce copies the file as it is by now.
Backup ==
  /\ pc = "backup"
  /\ \/ Quit
     \/ disk.config # None /\ Put("backup", disk.config)

Patch == pc = "patch" /\ Put("config", SetTopLevelKey(doc, acct))

Cas ==
  \/ Begin \/ Get \/ Fallback \/ Repair \/ WriteCred \/ StatFile \/ Fill \/ Rename
  \/ ReadConfig \/ Backup \/ Patch \/ Crash

-----------------------------------------------------------------------------
(***************************************************************************)
(* Claude Code (external): it stores credentials, in the Keychain or in    *)
(* the file, drops them, and rewrites .claude.json.                        *)
(***************************************************************************)

Claude ==
  /\ UNCHANGED <<pc, locals, rewritten>>
  /\ \/ keychain' \in Stored /\ UNCHANGED disk
     \/ \E c \in Creds \union {None} : disk' = [disk EXCEPT !.creds = c] /\ UNCHANGED keychain
     \/ \E d \in Docs : disk' = [disk EXCEPT !.config = d] /\ UNCHANGED keychain

Spec == Init /\ [][Cas \/ Claude]_vars

-----------------------------------------------------------------------------
(***************************************************************************)
(* What the package promises.                                              *)
(***************************************************************************)

\* Wherever cas dies or fails, no file is ever half of one (writeFileAtomic).
NeverTorn == \A p \in Places : disk[p] # Torn

\* What a command carries from one of its calls to the next: the login it installs,
\* a temporary file that is whole before it takes a place, and one of .claude.json
\* only beside a backup; the backup only where there is none.
Carries ==
  /\ pc \in {"stat", "config", "backup", "patch", "fill", "rename"} => env \in Creds /\ acct \in Owners
  /\ pc \in {"fill", "rename"} =>
       \/ temp.place = "creds" /\ temp.data = env
       \/ temp.place = "config" /\ temp.data = SetTopLevelKey(doc, acct) /\ disk.backup # None
       \/ temp.place = "backup" /\ temp.data \in Docs /\ disk.backup = None
  /\ pc = "rename" => temp.full
  /\ pc = "patch" => disk.backup # None
  /\ pc = "backup" => disk.backup = None
  /\ pc \in {"fallback", "repair"} => got \notin Creds
  /\ pc = "repair" => seen \in Creds
  /\ rewritten => disk.backup # None

\* The inductive invariant behind the promises.
IInv == TypeOK /\ NeverTorn /\ Carries

\* Once cas has replaced .claude.json there is a backup, and it does not change
\* any more: it is from before ("the first time cas rewrites the file").
OriginalKept ==
  [][/\ rewritten' => disk'.backup # None
     /\ rewritten => disk'.backup = disk.backup]_vars

\* What Claude Code reads: the Keychain, else the file.
Live == IF keychain \in Creds THEN keychain
        ELSE IF disk.creds \in Creds THEN disk.creds ELSE None

\* Nothing cas does changes the credential that is live, but to the one it
\* installs: reading repairs the Keychain without changing it, and a crash leaves
\* the old or the new one. Unless Claude Code wrote between ReadCred's reads and
\* its repair, which then takes that back.
OnlyInstalls ==
  [][pc' # pc /\ (pc = "repair" => keychain = got /\ disk.creds = seen) =>
       Live' \in {Live, env, env'}]_vars

\* Both documents have the same other members, in the same order.
Before(d, m, n) == \E i, j \in DOMAIN d : i <= j /\ d[i] = m /\ d[j] = n
SameRest(d, e) ==
  \A m, n \in [key: Rest, val: Values] : Before(d, m, n) <=> Before(e, m, n)

\* The accounts a reader may take from a document.
AccountsOf(d) == {d[i].val : i \in Position(d)}

\* Replacing .claude.json names the account that is installed, and no other, and
\* leaves the rest as it is ("leaving every other byte of the file untouched"),
\* unless Claude Code wrote it since cas read it: that is lost.
KeepsTheRest ==
  [][pc = "rename" /\ temp.place = "config" /\ rewritten' /\ disk'.config # disk.config /\ pc' # pc =>
       /\ AccountsOf(disk'.config) = {acct}
       /\ disk.config = doc => SameRest(disk'.config, disk.config)]_vars

=============================================================================
