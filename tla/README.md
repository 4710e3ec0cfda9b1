# A verification of claude-account-switch

`cas` parks several Claude (and Codex) accounts in the macOS Keychain and installs one of them
for Claude Code (or Codex). It shares the live credential with sessions that renew it behind its
back, and every credential can be spent only once: what is hard is to keep each account's newest
credential, under its own slot, whatever happens in between. This directory holds TLA+ models of
that, the TLC runs that check them and TLAPS proofs about them. Paths below are relative to the
repository; `app.go` and the like are in `src/internal/app`.

## The system

| part | state it keeps | operations | talks to |
| --- | --- | --- | --- |
| slot table (`store/store.go`) | slots sorted by number, active slot, time of the switch | find, add, remove, load, save | `state.json`, replaced by rename |
| parked credentials (`store/store.go`, `keychain`) | one Keychain item per slot | read, write, delete | `security(1)` |
| live credential and config (`target`) | Claude Code's Keychain item (or file), the `oauthAccount` block of `~/.claude.json` | read, write, back up once | shared with every Claude Code session |
| OAuth client (`claudeauth`) | none | exchange, refresh (spends the refresh token), validate, profile, usage | Anthropic |
| Claude commands (`app.go`, `cmd_*.go`) | the loaded table | login, adopt, switch, list, current, limit, refresh, clean, remove, label | all of the above, under one flock |
| sessions, reaper (`session`, `cmd_sessions.go`) | none: the process table is read each time | list, select, signal, wait | processes |
| agent (`daemon.go`) | a launchd plist | install, run (reap, then refresh), uninstall | reaper, commands |
| Codex store (`codexstore`) | a table, and per slot a manifest and chunks in the Keychain | read, write, delete | `security(1)` |
| Codex commands (`cmd_codex*.go`, `codextarget`) | the loaded table | login, adopt, switch, list, limit, refresh, clean, remove, label | `auth.json`, a `codex app-server` process |
| app-server client (`codexappserver`) | one running child process | initialize, read account, refresh, rate limits | JSON-RPC over pipes |
| JSON patch (`jsonpatch`) | none | replace one top-level key | `~/.claude.json` |
| reports, doctor, tables, dispatch | none | read only | terminal |

What each part must get right:

- **Slot table**: a number names one slot; a lookup never finds a slot of another account; the
  active marker names a slot that exists.
- **Claude commands**: a credential is parked only under its own account; the newest working
  credential of a registered account is always held somewhere; only dead slots are cleaned; the
  table, the live item and the config come to agree on who is signed in; a slot marked revoked
  really is.
- **Reaper**: never a session whose idle time is unknown (unless asked for all), never the one cas
  runs in, never one used within the window asked for.
- **Codex store**: after a crash or a failure in the middle of a write, the old credential or the
  new one can be read.
- **Codex commands**: as for Claude; a switch whose verification fails puts back what was live.
- **App-server client**: each call gets its own answer; the child process never outlives the call.

Where it is hard: commands exclude each other by the flock, but Claude Code does not take it. A
session reads the live item at its start, renews in memory and stores the result later, also after
a switch, and then the live item belongs to the previous account while `~/.claude.json` names the
new one. Network calls sit between reading and writing (ten seconds in `confirmOwner`, two minutes
in `Refresh`, five in `login`). Every command is a sequence of effects on things that outlive it,
and may die between any two. A refresh token is spent at the service before its successor is
stored here. `PROJECT.json` lists each hazard at its line.

## Modules

| module | models |
| --- | --- |
| `Identity` | accounts, and the empty uuid |
| `SlotTable` | `State` of `store/store.go` as a value with pure operators |
| `TokenServer` | what `claudeauth` sees of the service: issuing, spending, lapsing tokens, deadlines, the answers of refresh, validate and profile |
| `ClaudeSwitch` | all Claude commands, beside sessions and time |
| `MCClaudeSwitch` | the constants of the runs |
| `ClaudeSwitchProofs` | lemmas on the slot table, the inductive invariant `IInv` and what follows from it |
| `ClaudeSafetyProofs` | the second one, `Steady`, and what follows from both |
| `ClaudeCredentialProofs` | the third one, `Traced`: where the newest credential of an account is, and that none is lost |
| `CodexRegister` | the abstract specification: one slot's credential as a register |
| `CodexStore` | `ReadCredential`, `WriteCredential`, `DeleteCredential` of `codexstore/store.go` on one slot, each Keychain call a step |
| `MCCodexStore` | the constants of its run |
| `CodexStoreProofs` | its inductive invariant, and that it implements `CodexRegister` |
| `CodexTable` | `State` of `codexstore/store.go` as a value, and the documents it describes |
| `AppServer` | `codexappserver/client.go` and, external, the server it starts and the token service |
| `CodexAccounts` | all `cas codex` commands beside Codex sessions, sign-ins and logouts |
| `MCCodexAccounts` | the constants of its runs |
| `CodexAccountsProofs` | lemmas on the table, the inductive invariant `IInv` and what follows from it |
| `CodexLineageProofs` | the second one, `Lineage`: who holds a working document, and that none is lost |
| `Reap` | `cas reap`, `cas codex reap`, the agents' runs, and the processes they look at |
| `MCReap` | the constants of its run |
| `ReapProofs` | its inductive invariant and what follows from it |
| `LiveCredential` | `target/target.go`, `jsonpatch` and `keychain.Get`: the live login in Keychain and files |
| `MCLiveCredential` | its run |
| `LiveCredentialProofs` | its inductive invariant and what follows from it |

`ClaudeSwitch` extends `SlotTable` and `TokenServer`. State that outlives a command: `kc[n]` (the
slots' items), `live`, `config`, `disk` (`state.json`). State of the command that holds the lock:
`pc`, `cmd`, `mem` (`App.State`), `tgt` (its slot), `env` (the credential in hand), `seen` and
`who` (what SyncActive, login or adopt read), `todo` and `got` (the goroutines of a pass). A
session is the credential it holds in memory and whether it has yet to store it.

A step ends where the code touches something shared. `Begin` is `New` (lock and load; a second
command waits, so `pc = "idle"` guards it). `SyncRead`/`SyncConfirm` are `SyncActive` before and
after `confirmOwner`. `Switch`, `EnsureFresh`, `EnsureFreshCall`, `EnsureFreshStore`, `Install` and
`Point` are `CmdSwitch` and `activate`. `Plan*` choose the slots of a pass as `CmdRefresh`,
`AutoRefresh` and `checkSlots` do, `Call(n)` is one goroutine that comes back, `Apply*` and `Mirror`
are the loop after `wg.Wait`, one effect at a time and in slot order; `Ask` and `Sweep` are the rest
of `CmdClean`. `Login`/`Register`/`LoginSave` and `Adopt`/`AdoptRotate`/`AdoptWrite`/`AdoptStore`
are the two ways to register. `Save` ends every command that changed the table; an error that
returns earlier is `Fail` and drops `mem`, as the code does. `Crash` is a death anywhere; the kernel
then drops the flock (`Release`). Of a session (`Open`, `Renew`, `WriteBack`, `End`), of `claude
/login` (`SignIn`) and of time (`TimePasses`) nothing is promised.

Abstractions: a credential is an account and a generation (its access and refresh token are issued
together); tokens lapse in the order they were issued; that a token is *near* expiry is a free
choice until it has lapsed, so every threshold is covered; an item that cannot be read is reported
like a missing one, which is what every caller makes of it; the email of an account stands and
falls with its uuid; labels, plans, times and messages are left out. `misled` is a history
variable: a credential was filed for the account that `~/.claude.json` names, because no endpoint
confirmed its owner, and that account was the wrong one. Until then no slot ever holds another
account's credential; afterwards one does (see the findings).

A refresh deadline is a number beside the credential (`until[c]`: the generation whose deadline `c`
bears, 0 for none), and `RefreshExpired` looks at that number only, as `creds.go:92` does; what the
service accepts is `unspent`. The two differ in two ways. A session may store its renewal without a
deadline (`"omit"`), and `PreserveRefreshExpiry` then gives it the one of the slot's older
credential, in `AdoptLiveInto` and in `Recover`. And where the service stated none `toResult` makes up
thirty days, so that a deadline may pass while the token works on (`"guess"`, `Outlast`; `Expire` is a
deadline that the service set and keeps). The slot's `RefreshTokenExpiresAt` is taken to be its item's
deadline: after a command that failed before its save, the table may have an older one. Copies of one
credential are not told apart by their deadlines.

In `CodexStore`, `item` is the slot's own Keychain item (a manifest, a plain document of an early
build, or missing) and `parts[d]` the chunks named after the digest of document `d`. `doc`, `next`,
`upto` and `old` are the variables of the running `WriteCredential` or `DeleteCredential`:
`WriteStart`, `WriteChunk`, `WriteManifest` are its calls in order, `GiveUp` the branch after a
write that failed, `DeletePart`/`PartsGone` the loop of `deleteCredentialParts` in its three uses,
`DeleteStart` and `Unlink` the deletion; `may` is what can go wrong during the operation, chosen
from `Weathers` when it starts. Operations exclude each other by the same flock as above. The
register of `CodexRegister` is what `ReadCredential` would find (`Readable`); encoding, compression
and digest are taken to be exact, and a write that reports an error to have changed nothing.

`CodexAccounts` extends `AppServer`, which extends `CodexTable`. `parked[n]` is what
`ReadCredential(n)` finds: a write of a slot happens or not, which is what `CodexRegister` promises
and `CodexStoreProofs` proves of `CodexStore`. `auth` is `auth.json` in `CODEX_HOME` and in the
temporary home of a renewal, `disk` is `codex-state.json`, `proc` the one app-server that runs and
`answer` what `Client.read` returned. A document is an account and a generation; a slot's identity,
email and `CredentialTag` are all copied from one document, so a slot is the document last applied
to it. `putBack` is a history variable: a switch has put the document that was live when it began
back over whatever is live (`SwitchBack`). `Sync` is `SyncActive`, `RegisterLive` is `registerLive`,
`LoginPreserve`, `CodexLogin` and `LoginRegister` are `cmdCodexLogin`; `Switch`, `Install`,
`Verify`, `SwitchBack` and `Switched` are `cmdCodexSwitch`; `Plan`, `Visit`, `Refreshed`, `Limited`,
`Mirror`, `Visited` and `Sweep` are the loops of refresh, limit and clean around `refreshCodexSlot`
and `fetchCodexLimit`. Each of them that needs an app-server waits for `answer`, while the server
spends the token (`ServerRenews`), replaces `auth.json` of its home (`ServerStores`) and answers, sees
no account (`SeesNone`), fails at any of these points (`CallFails`), or fails with words that read
like a refusal (`ReadsAsRefusal`). `Definite` goes by the text of the error alone, as
`definiteCodexAuthFailure` does. `Plan` takes any set of slots that the command line may name, and
`Visit` takes them in any order. `Confirmed` is the user's answer to `remove` and `clean` without
`--yes`. Emails tell accounts apart exactly as identities do, and
one account at most has an API key: `codexAccountMatches` cannot tell two of these from each other,
nor two accounts of which one has no email.

`Reap` has processes with a kind, a terminal or a directory, a start, a last use, and the epoch of
the live account whose credential they hold. Everything that ps, lsof and the dates of files say is
read in one step (`ListSessions`); between the list and each `Signal` a process may be used, end,
and its pid be given to another. `PersonReaps` … `Answer` are `CmdReap` and `cmdCodexReap`, which
differ only in that the latter also sees app-servers; `AgentWakes`, `AgentSkips`, `AgentReaps`,
`Refresh` are `daemonRun`/`codexDaemonRun` with the lock taken twice. A signalled process ends when
it likes (SIGTERM) or at once (SIGKILL, only for a person).

`LiveCredential` has the Keychain item, the credentials file, `.claude.json` (a sequence of members
of which one may be the account block), its backup, and the temporary file of `writeFileAtomic`.
Every call of the Keychain and the file system is a step, and after each the command may meet an
error or die; Claude Code changes any of it at any time. `ClaudeSwitch` takes all this for one
effect on `live` and one on `config`: `OnlyInstalls` and `NeverTorn` say why it may.

## Runs

Two accounts, two slots, and a bound `MaxGen` on the credentials issued per account. Two slots are
enough for a slot to be right and another wrong, to be outgoing and incoming, dead and alive; three
generations let a session and a slot each renew once and differ. `MaxPast` bounds the deadlines of an
account that pass: one is enough for an old credential's deadline to condemn a new one; `agent` has
two, so that a slot is marked, filed anew and marked again. `Commands`, `Faults`, `Outages` and
`Outside` choose what may happen in a run, so that each question is asked where it is sharp and
stays small. Deadlock is not checked there: the system may stop, idle, when the bounds are used up.
`codex` has documents of two and three chunks and one over the limit (`MaxChunks = 3` instead of
100): enough for the first, a middle and the last chunk to fail or to be the last one before a
crash, and for old and new to have different lengths; nothing else in it is bounded, and deadlock
is checked.

`accounts` has two accounts (one with an API key), three slots, so that a number is free and one
freed, one session, and three documents per account: the one in the slot, one renewed by a session
or an app-server, and one renewed or signed in to beside it. Its `Weathers` are: nothing goes wrong,
or one kind of thing does (a failing read, slot write, `auth.json` write, save, deletion, missing
program, failing or hanging app-server, one whose errors read like a refusal, a keyring, crashes, a
user who signs in and out), as often as
it likes, in one behaviour. `reap` has two pids, so that one is reused while the other is doomed;
two ticks, the shortest time in which somebody is idle for `MinIdle = 2`, stale and not stale; a
window below the minimum and one at it; a person on a terminal, and one in a session without. One
switch makes the sessions that were there stale. `files` has two
credentials, two accounts, one other member with two values.

| run | may happen | shows |
| --- | --- | --- |
| `fleet` | switch, refresh, list, clean; a session renews; tokens lapse, deadlines pass | `SlotOwnership`, `Traced`, `LosesNoAccount`, `FoldsBackNewer`, `CleansOnlyDead` |
| `agent` | refresh, list; a session opens, renews, leaves out deadlines, ends; tokens lapse, deadlines pass | `RevokedIsDead`, `Traced` |
| `quiet` | switch, login, adopt, remove, refresh; no session; deadlines pass, guessed ones too | `TypeOK`, `SignedInAgrees`, `OneSlotPerAccount`, `Steady`, `AdoptsOwnAccount` |
| `faults` | switch, remove, label, limit, refresh, clean; every failure of Keychain, files, network | `IInv` |
| `heals` | switch, login, adopt, refresh; crashes, an unreachable profile endpoint, `claude /login`; a session renews; fairness | `MarkerHeals` |
| `codex` | writes of three documents, deletions; failing reads or writes, failing deletions, crashes | `Implements`, `NoLeftovers`, `StoreInv` |
| `accounts` | every Codex command; a session; one kind of failure at a time; fairness | `TypeOK`, `IInv`, `Lineage`, `SlotsHoldTheirAccount`, `OneSlotPerAccount`, `SkippingIsSafe`, `SyncKeepsWorking`, `LosesNoAccount`, `LoginPreserves`, `SparesTheLiving`, `CommandsEnd` |
| `reap` | both reap commands, the agent; processes come, go, are used; fairness | `TypeOK`, `IInv`, `SparesOurs`, `SparesTheBusy`, `SparesTheCurrent`, `AgentRefreshes` |
| `files` | reading, repairing and installing the live login; errors, crashes, Claude Code | `TypeOK`, `NeverTorn`, `IInv`, `OriginalKept`, `OnlyInstalls`, `KeepsTheRest` |

Not every property holds in every run, and the runs are cut accordingly. `LosesNoAccount` fails with
crashes or failing writes (a spent token whose successor is lost; no order of effects can avoid
that). `RevokedIsDead` fails as soon as a command can drop what SyncActive did to the table,
`CleansOnlyDead` with failing reads, `AdoptsOwnAccount` with sessions (see below). `RevokedIsDead` and
`CleansOnlyDead` speak of credentials that bear their own deadline or none (`Dated`): one with a
deadline that was carried over or guessed may be marked, or cleaned, while its refresh token works,
and the run `deadline` shows it. Deadlines do pass in `fleet` and `agent`, so what the two say is
that nothing else takes a working credential for dead.
`OneSlotPerAccount` needs the profile endpoint: with it down, a login does not know its account and
a second one adds a second slot. `FoldsBackNewer` fails once a login parks a newer credential than
the live one (see below); like `LosesNoAccount` it speaks of behaviours in which no credential has
yet been filed for the wrong account (`~misled`). `SignedInAgrees` needs the sessions away: with
them it holds only eventually, and only of the marker (`MarkerHeals`): `SyncActive` re-points the
marker but never corrects `~/.claude.json`.

The Codex properties name in themselves when they are promised. `SyncKeepsWorking` is about behaviours
in which a renewed document gets to `auth.json`. It is not promised after a session that ended before it
stored its renewal; after an app-server that failed, or a cas that died, between the spending of the
token and the storing of its successor in the live home; after a failing write or read; or once a switch
has put back a document that a session has renewed since (`putBack`). Then `auth.json` is the older
document and `SyncActive` copies it over the newer one. `LosesNoAccount` allows only deletions to fail,
because a renewed document that cannot be stored is lost; it leaves out the write-back of a switch whose
verification names another account (`SwitchBack`), which overwrites what a session or the app-server
renewed in between. Held is what a slot that is named in a table, `auth.json`, or a session has. An
app-server counts there as holding its document only from the renewal until it has stored it (`Held`):
before and after, what it has in memory is of no use to a cas that never asks it for a document. With a
failing save, `remove` and `clean` leave a registered slot without its credential (they delete first),
and `login` then takes the account for preserved: `LoginPreserves` and `SkippingIsSafe` except that.
`SparesTheLiving` speaks of behaviours in which the errors tell (`Telling`): clean goes by their text,
and four others look like the end of a credential (see below). The properties of `Reap` are about
processes that are still what they were when listed (`Unchanged`): the code does not look again before
it signals. `SparesTheCurrent` relies on the live account changing by a switch only. After `cas codex
adopt` of the account that was live all along `registerLive` stamps the time as well
(`cmd_codex.go:189`), and sessions that hold the live account count as stale; so do those started while
a Codex switch verifies (`cmd_codex.go:474`). `OnlyInstalls` excludes what Claude Code stores between
the reads of `ReadCred` and its repair: the repair takes that back. `KeepsTheRest` says of every pair of
other members that it stands in the new file, in that order, exactly when it stood in the file cas read,
and that a reader finds the installed account and no other. It cannot promise what Claude Code wrote
between the read of `.claude.json` and its replacement; that is lost.

Fairness (`FairSpec`): a command that runs goes on, because its network calls have timeouts
(`WF_vars(Step)`); and the launchd agent's refresh gets the lock again and again although other commands
take it in between (`SF_vars(Begin("refresh", 0))`, `StartInterval` of the plist and the blocking
`flock`). No command of `heals` waits for its user without an end: `login` has five minutes for the
browser (`login --manual`, which reads stdin without a deadline, is left out there), and `remove` and
`clean`, which ask, are not in that run. The user, the sessions and crashes owe nothing. A new session,
or a stale one that writes back, makes the marker wrong again; in the model that stops because `MaxGen`
is used up. `MarkerHeals` assumes that crashes stop: after a crash `pc` is `"dead"` until the lock is
released, so that the assumption can be stated of states.

In `CodexAccounts` one weak fairness condition is enough (`WF_vars(Progress)`): the command goes on, the
client's contexts end every wait (two minutes, ninety seconds, twenty seconds), and a server that does
not hang answers. Nothing makes the user act: `codex login`, and the question of `remove` and `clean`
without `--yes`, wait for as long as it takes, with the lock held and no timeout (`cmd_codex.go:548`,
`cmd_codex_clean.go:76`). `CodexLogin` and `Confirmed` are therefore outside `Progress`, and
`CommandsEnd` says that every command comes to its end or to such a question (`Waiting`).
In `Reap`, what runs goes on (`WF`), and each turn of the agent that is possible again and again comes
(`SF`: the blocking `flock`); the person may leave the question open for ever, with the lock held, so
`AgentRefreshes` ends there as well. Time, processes and the waking of the agent owe nothing.

### Where the code and what is said of it differ

| run | property | what happens |
| --- | --- | --- |
| `owner` | `ConfirmsOwner` | a stale session stored a token that has since lapsed: nobody confirms its owner, the config's account is believed, and the credential lands in the wrong slot (README "confirms the owner … before touching any slot") |
| `deadline` | `CleansOnlyUnrecoverable` | a session stores its renewal without a deadline, `list` files it with the deadline of its predecessor (`preserveRefreshExpiry`), that passes, and clean removes a slot whose refresh token works (README "only when its credential is genuinely unrecoverable") |
| `logout` | `ActiveIsLive` | after `codex logout` (or whenever `auth.json` cannot be read) `SyncActive` returns before it looks at the active marker: `cas codex current` names an account that is not signed in, `cas codex switch` to it says "already on slot" and installs nothing |

More, which a run of `MCClaudeSwitch` or `MCCodexAccounts` with another configuration shows:

- `FoldsBackNewer` with `Commands = {"login","list"}` and no sessions: `cas login` for the account that
  is signed in parks the new credential without installing it (`cmd_login.go:129`), and the next
  command's `adoptLiveInto` copies the older live one over it (`app.go:209`; its comment: "when it is
  newer"). The refresh token of the newer one is then held nowhere.
- `RevokedIsDead` without its proviso `Dated`, in `agent`: `Refresh` marks a slot revoked on the
  deadline that was carried over (`app.go:273`; `recovery_test.go:54` wants it carried over), and
  `AutoRefresh` does not try it again although its refresh token works.
- `SparesTheLiving` without its proviso `Telling`, in `accounts`: `definiteCodexAuthFailure` goes by the
  text of an error. A slot that cannot be read, a `CAS_CODEX_BIN` that does not exist, an app-server
  that looks for its credential in a keyring and answers that no account is signed in
  (`client.go:205`), and one that fails with "unauthorized" somewhere in its error output
  (`client.go:180`) all count as a credential that is gone, and clean deletes a login that works. The
  README has it "remove only credentials proven dead or missing" (`src/README.md:113`).
- `AdoptsOwnAccount` with `Sessions = {s1}`, `Commands = {"switch","adopt"}` and
  `Outside = {"open","renew"}`: after a stale session's write-back, adopt files that session's
  credential under the slot of the account `~/.claude.json` names (`cmd_login.go:267`).
- `CleansOnlyDead` with `Commands = {"clean"}` and `Faults = {"read"}`: a Keychain read that fails
  counts as a missing item, and clean deletes a working credential (`cmd_clean.go:120`; the README:
  "only when its credential is genuinely unrecoverable").
- `RevokedIsDead` with `Sessions = {s1}`, `Commands = {"switch","refresh"}` and
  `Outside = {"open","renew","lapse"}`: a switch that fails drops what `SyncActive` did to the table,
  and the slot whose working credential was just parked stays revoked (`cmd_switch.go:32`).

## Proofs

`ClaudeSwitchProofs` proves, for any accounts, slots, sessions, bounds, commands and faults:

- `TypeCorrect`: `Spec => []TypeOK`
- `OwnershipHolds`: `Spec => []SlotOwnership`, the property cas exists for
- `InvariantHolds`: `Spec => []IInv`, from which both follow

from the named assumptions of the modules (`NoAccount` is no account, `NoSlot` no slot, the bounds
are naturals, the start table registers accounts and none of them twice). `SlotOwnership` is not
inductive: that a command writes the right credential under a slot depends on what it read before
its network call still being true of that slot afterwards. `IInv` adds what makes it so.
*Bookkeeping*: which variables are in use at which step; a command writes only under numbers its own
table has; and its table lacks a slot of `state.json` only if its work is to remove slots, so a
number it takes for free is free on disk too, also if it dies before it saves. *Ownership*: the
table in memory never contradicts `state.json` about an account; what a goroutine or `EnsureFresh`
brings back fits its slot, because a refresh keeps the account and a recovery is accepted only after
the service named it. Each action has a lemma `…Keeps`; `StepKeeps` and `NextKeeps` put them
together. The first lemmas say what the table's operators return and keep.

`ClaudeSafetyProofs` proves of the same system `SteadyHolds`: `Spec => [](IInv /\ Steady)`, and from
it, each under a condition on what may go wrong:

- `CleanRemovesTheDead`: `Spec => CleansOnlyDead`, if reads do not fail (`"read" \notin Faults`); of a
  credential with a deadline that is not its own it says nothing (`Dated`)
- `OneSlotEach`: `Spec => []OneSlotPerAccount`, if `Trusted`: the profile endpoint answers, and no
  command fails or dies between the live item and `~/.claude.json`
- `CalmAgrees`: `Spec => []SignedInAgrees`, and `CalmAdoptsOwn`: `Spec => AdoptsOwnAccount`, if
  `Calm`: `Trusted`, saves succeed, and nobody but cas changes who is signed in (no sessions, no
  `claude /login`)

Everything else may still fail: Keychain reads, writes and deletions, calls that are lost, tokens that
lapse or expire at any moment (of reads, `CleanRemovesTheDead` excepted). Without the conditions the
properties do not hold. A failed read counts as a missing item. With the endpoint down, a login that
does not learn its account gets a slot without one. A command that dies between the two writes can leave
a credential live while the config file names nobody, and adopt then files it for no account, beside the
slot the account has. A failing save leaves the marker where it was. `Steady` has three parts. *Sound*,
always: everything held anywhere was issued, so what stopped working never works again, and what clean
has found dead is dead when the sweep comes, unless it was taken for dead on a deadline that is not its
own (*Judged*), and only a credential whose deadline a session left out bears another's (*OwnDates*).
*Known*, if `Trusted` and not yet misled: each slot knows its account and its account block, no two the
same; the config file names someone whenever anything is live, so login and adopt know for whom they
file. *Agreed*, if `Calm`: the config file always tells the truth; between any two effects what is live,
or about to be, belongs to the slot that is active or about to be. The lemmas `...Holds`, `...Named`,
`...Signed` and `...Agreed` take one part each through the actions.

`ClaudeCredentialProofs` proves `TracedHolds`: `Spec => [](IInv /\ Steady /\ Traced)`, and from it:

- `RevokedStaysDead`: `Spec => []RevokedIsDead`, if `Lasting`: the commands are those that save what
  their `SyncActive` found (adopt, label, list, limit, refresh), on slots that exist, and neither a
  save nor a process fails; like `CleansOnlyDead` it excepts a deadline that is not the credential's own
- `FoldsForward`: `Spec => FoldsBackNewer`, if `OneChain`: nobody signs in anew, reads and the live
  item's writes do not fail, and `Trusted`
- `LosesNone`: `Spec => LosesNoAccount`, if `Careful`: `OneChain`, items can be stored and deleted, no
  answer of the service is lost, sessions do not end, no slot is added, and clean meets no deadline
  that was carried over or guessed

The runs `agent` and `fleet` meet these conditions. Much of them is needed: for `RevokedIsDead` and
`FoldsBackNewer` by the counterexamples above and below, for `LosesNoAccount` because a token that is
spent and whose successor is lost is gone in any order of effects. The rest is how far the proof goes:
with `adopt` in place of `list` and `clean` in `fleet`, TLC still finds `LosesNoAccount` to hold, but a
slot is then written before it is registered, and `Traced` does not follow that. With `login` there it
holds only as long as no deadline passes: an account then has credentials that do not succeed each
other, and the older live one that `SyncActive` copies over a newer one may be past its deadline when
the copy is made. Sessions still open, renew
and write back whenever they like, and tokens lapse. `Traced` says at each step who holds the newest
credential of an account. *Judging*: the flags of both tables are true of the items, but for a mark set
on a deadline that is not the item's own (*Condemned*), and a refusal of the service is final.
*Chained*: only the newest credential of an account can be renewed, and what a session has yet to store
is held by nobody else. *Ahead*: what is parked is not newer than what is live, but for the moment in
which `Install` or `Mirror` brings the parked one there; so what `SyncActive` copies is newer, although
it read the live item before ten seconds of network and a session may have stored another one since.
*Brought* and *InHand*: what a pass came back with is the newest, is in no item yet, and is kept in hand
until it is. *Backed*: a live credential that works is also in its slot or in a session before anything
replaces it. That is the argument for the order of effects in `EnsureFresh`, `Refresh`, `adoptLiveInto`
and `activate`.

`CodexStoreProofs` proves, for any documents, chunk counts and bound on them:

- `StoreImplementsRegister`: `Spec => Register!Spec`
- `NothingLeftBehind`: `Spec => []NoLeftovers`
- `StoreInvariant`: `Spec => []StoreInv`

`StoreInv` says that the chunks a clean-up takes away are not those of the stored document
(*Working*), and which chunks there are at each step as long as nothing went wrong (*Tidy*). Each
step then is a step of the register or leaves it alone (the lemmas `…Refines`). All three assume
`OneKind`: one operation does not meet failing reads *and* failing writes. Without it the promise
is broken: `cas codex label` stores the same document again; if the manifest cannot be read just
then and a later chunk cannot be written, the clean-up deletes the chunks of the stored document.
Nothing in the code or its documents speaks of that case, so it is stated here and not as a finding.

`CodexAccountsProofs` proves, for any accounts, API keys, slots, sessions, bounds, commands, starts
and failures:

- `SlotsKeepTheirAccount`: `Spec => []SlotsHoldTheirAccount`, and `NoAccountTwice`:
  `Spec => []OneSlotPerAccount`
- `SkippingLosesNothing`: `Spec => []SkippingIsSafe`
- `LoginKeepsTheOld`: `Spec => LoginPreserves`, and `CleanSparesTheLiving`: `Spec => SparesTheLiving`
- `TypeCorrect`, and `InvariantHolds`: `Spec => []IInv`, from which all of these follow

from the assumptions on the constants; the one that says something of the program is that no table
it starts with names an account twice. `IInv` has seven parts, each inductive given those before it.
*Filing*: the table in memory and the one on disk contradict each other about no number, and what a
command is about to write belongs where it goes. It is enough for the first two results, and needs
nothing of the service. *AllIssued*: every document that anything holds has been issued; without it a
dead document could be issued later and work again. *Unshared*: what a session has renewed and not
stored is held by nothing else, so storing it later never brings back what cas has already seen.
*Verdicts*: what clean judged is what the slot still holds when the sweep comes. *Copies*: during a
renewal the temporary home holds the slot's document, or the slot's document is spent. *Tags*: a
`CredentialTag` that differs from what is parked names a document that is dead or will not be live
again, which is why `SyncActive` may skip the copy when the tag is that of the live document.
*Logins*: what login finds live is in its account's slot, in memory and on disk, by the time
`codex login` replaces it. The lemmas `...KeepsFiling`, `...KeepsVerdicts` and so on take one part each
through the actions; those on the table say what its operators return and keep.

`CodexLineageProofs` proves, from the same assumptions on the constants:

- `LineageHolds`: `Spec => [](IInv /\ Lineage)`
- `SyncKeepsTheWorking`: `Spec => SyncKeepsWorking`
- `CommandsLoseNoAccount`: `Spec => LosesNoAccount`

What may fail is part of the state there (`weather`), so the conditions are in the properties
(*Attended* and *Unharmed* name them). `IInv` knows which documents exist, and which are dead, but not
which of two that stand in a slot and in `auth.json` is the one that works. `Lineage` follows a
renewed document from the service to the slot. *Unstored*: what a session or an app-server has renewed
and not stored works, and is in nobody else's hands; so is what an app-server left in the temporary
home. *FromSlot*: what is about to be installed or mirrored is what its slot holds. *Apart*: after the
sync only the active slot holds what `auth.json` holds, so renewing another slot does not spend what is
live. *Followable*: `auth.json` is behind a slot only while somebody, a session, an app-server or the
command itself, is about to store the successor there; from it `SyncKeepsTheWorking` follows.
*Backed*: where a step may replace `auth.json`, what it held is also in a slot that is named or in a
session, or is of the account that replaces it; what an app-server left is there to be taken when the
command looks; and a table that is about to be saved only adds slots or only takes them out. From that
and *Unstored* `CommandsLoseNoAccount` follows, holder by holder (`SlotsStay`, `LiveStays`, `TempStays`,
`SessionsStay`, `RenewedStays`).

`ReapProofs` proves, for any processes, terminals, directories, callers, flags and windows:

- `OursAreSpared`: `Spec => SparesOurs`, `TheBusyAreSpared`: `Spec => SparesTheBusy`,
  `TheCurrentAreSpared`: `Spec => SparesTheCurrent`
- `TypeCorrect`, and `InvariantHolds`: `Spec => []IInv`

`IInv` says that a process on a terminal or in a directory was not used later than the dates that
`idleOf` reads (*Dated*), that one started before the last switch holds an older account (*Epochs*),
that the agent's flags are those of its plist (*AgentFlags*), and that who is still to be signalled was
rightly chosen at the time of the list (*Chosen*); the guard `Unchanged` of the properties then
carries that to the moment of the signal.

`LiveCredentialProofs` proves, for any credentials, accounts, other members and values:

- `FilesAreWhole`: `Spec => []NeverTorn`; `BackupIsKept`: `Spec => OriginalKept`;
  `LiveIsInstalled`: `Spec => OnlyInstalls`; `RestIsKept`: `Spec => KeepsTheRest`
- `TypeCorrect`, and `InvariantHolds`: `Spec => []IInv`

What has to be added to `NeverTorn` (*Carries*) is what a command carries from one call to the next: a
temporary file is whole before it is renamed, one meant for `.claude.json` is the document that was
read with the account block replaced and exists only beside a backup, and a backup is written only
where there is none. The assumptions say that a missing, a malformed and a torn file are different
things and none of them a document, and that `Rest` is finite, which makes documents finite.

Only model-checked:

- the liveness properties `MarkerHeals`, `CommandsEnd`, `AgentRefreshes` (fairness and `ENABLED` are out
  of the prover's reach here);
- `ActiveIsLive`, `ConfirmsOwner` and `FoldsBackNewer` where they are violated.

Every safety property that a passing run checks is stated by a theorem.

No model has a recursive operator, and nothing proved is about data of unbounded depth: the two
places where the code recurses or loops over data (the chunks of a document, the members of
`.claude.json`) are a set and a sequence here.

## Plan

Done, in this order:

1. `SlotTable`, `TokenServer`, `ClaudeSwitch` with `TypeOK`, `SlotOwnership` proved.
2. `CodexStore`, with `CodexRegister` implemented, proved.
3. `CodexAccounts` on `CodexTable` and `AppServer`: all Codex commands.
4. `Reap`: sessions, both reap commands, the agents.
5. `LiveCredential`: Keychain item and files, backup, the JSON edit.
6. Proofs of `CodexAccounts`, `Reap` and `LiveCredential`, and of what `IInv` leaves open in
   `ClaudeSwitch`: `Steady`, `Traced`; then `Lineage` of `CodexAccounts`.

Not written, and worth having next:

- `RefreshPass`: one pass in detail (two mentions of a slot, threshold and force, the barrier),
  against an abstract pass that renews each due slot once.
- `StateFile`: temporary file, chmod, write, rename and crash of `Store.Save`, shown to implement
  the atomic save the other modules take for granted.
- `LoginFlow`: the callback server, its one-place channel, timeouts and repeated callbacks.

## Not modelled

Usage reports, doctor, tables, colours and dispatch change nothing another part decides on.
Installing and removing the launchd agents writes a plist and calls `launchctl`, once, for a person who
sees the result. Parsing of ps, lsof, JWTs and flags is data. A name that occurs twice in
`.claude.json` is replaced at its first occurrence while a reader takes the last (`jsonpatch.go:79`);
Claude Code does not write such a file, so `LiveCredential` starts without one. A slot
named twice in one `cas refresh` or `cas codex refresh` is visited once in the models; in the code the
second mention spends the same token again, or renews a second time. A service that answers a refresh
without a new refresh token (`oauth.go:182`) is left out: tokens rotate.
