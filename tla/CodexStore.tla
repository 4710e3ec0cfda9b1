----------------------------- MODULE CodexStore -----------------------------
(***************************************************************************)
(* One slot of package codexstore (store.go).  A Codex document is too     *)
(* large for one Keychain item: it is stored as chunks, items named after  *)
(* the digest of the document, and the slot's own item is a manifest that  *)
(* names digest and count.  Every Keychain call is a step, may fail, and   *)
(* may be the last one of the process.                                     *)
(***************************************************************************)
EXTENDS Integers

CONSTANTS
  Docs, None,   \* the documents; no document
  Count,        \* Count[d]: the chunks that document d fills
  MaxChunks,    \* maxCredentialChunks
  Weathers      \* the sets of faults that one operation may meet

\* A Keychain read fails, a write, a deletion; the process dies.
FaultKinds == {"read", "write", "delete", "crash"}

ASSUME CodexStoreAssumption ==
  /\ None \notin Docs
  /\ MaxChunks \in Nat \ {0}
  /\ Count \in [Docs -> Nat \ {0}]
  /\ Weathers \subseteq SUBSET FaultKinds

VARIABLES
  item,     \* the slot's own item
  parts,    \* parts[d]: which chunks named after d's digest there are
  pc,
  doc,      \* the document whose chunks are being written or deleted
  next,     \* the chunk that is next,
  upto,     \* and the first one that is not to be touched
  old,      \* the document of the old manifest, as WriteCredential read it
  may,      \* the faults that this operation may meet
  result,   \* what the operation returned, or is bound to
  untidy    \* history: a crash, or a read or deletion that failed

control == <<doc, next, upto, old>>
vars == <<item, parts, pc, control, may, result, untidy>>

Manifest(d) == [doc |-> d, chunked |-> TRUE]
Plain(d) == [doc |-> d, chunked |-> FALSE]    \* of development builds
Missing == Plain(None)

Chunks(d) == 0 .. Count[d] - 1

\* The document of a manifest (parseManifest); None for any other item.
Digest(i) == IF i.chunked THEN i.doc ELSE None

\* What ReadCredential finds; a chunk that is missing is an error.
Readable ==
  IF item.chunked /\ ~(Chunks(item.doc) \subseteq parts[item.doc]) THEN None ELSE item.doc

TypeOK ==
  /\ item \in [doc: Docs, chunked: BOOLEAN] \union {Missing}
  /\ parts \in [Docs -> SUBSET Nat]
  /\ pc \in {"idle", "write", "undo", "prune", "drop", "unlink"}
  /\ doc \in Docs \union {None}
  /\ next \in Nat /\ upto \in Nat
  /\ old \in Docs \union {None}
  /\ may \in Weathers
  /\ result \in {"none", "ok", "failed"}
  /\ untidy \in BOOLEAN

Init ==
  /\ item \in {Plain(d) : d \in Docs} \union {Missing}
  /\ parts = [d \in Docs |-> {}]
  /\ pc = "idle" /\ doc = None /\ next = 0 /\ upto = 0 /\ old = None
  /\ may \in Weathers
  /\ result = "none"
  /\ untidy = FALSE

-----------------------------------------------------------------------------

\* The Get at the start of an operation: an error counts as no manifest.
Start(found) ==
  /\ pc = "idle"
  /\ may' \in Weathers
  /\ \/ found = Digest(item) /\ UNCHANGED untidy
     \/ "read" \in may' /\ found = None /\ untidy' = TRUE
  /\ result' = "none"
  /\ UNCHANGED <<item, parts>>

\* deleteCredentialParts(d, n) comes next.
Delete(d, n, why) ==
  pc' = why /\ doc' = d /\ next' = 0 /\ upto' = n

\* Mutant: without a look at whose chunks they are.
MutGiveUp == Delete(doc, next, "undo") /\ UNCHANGED <<old, result>>

\* A write of WriteCredential failed: the chunks written so far go, unless they
\* are those of the document that was stored.
GiveUp ==
  \/ old # doc /\ Delete(doc, next, "undo") /\ UNCHANGED <<old, result>>
  \/ old = doc /\ pc' = "idle" /\ result' = "failed" /\ UNCHANGED control

\* WriteCredential: a document of too many chunks is refused.
WriteRefused(d) ==
  /\ pc = "idle" /\ Count[d] > MaxChunks
  /\ result' = "failed"
  /\ UNCHANGED <<item, parts, pc, control, may, untidy>>

WriteStart(d) ==
  /\ Count[d] <= MaxChunks
  /\ \E found \in Docs \union {None} : Start(found) /\ old' = found
  /\ doc' = d /\ next' = 0 /\ upto' = Count[d]
  /\ pc' = "write"

WriteChunk ==
  /\ pc = "write" /\ next < upto
  /\ \/ /\ parts' = [parts EXCEPT ![doc] = @ \union {next}]
        /\ next' = next + 1
        /\ UNCHANGED <<pc, doc, upto, old, result>>
     \/ "write" \in may /\ GiveUp /\ UNCHANGED parts
  /\ UNCHANGED <<item, may, untidy>>

\* Mutant: the chunks of the old document stay.
MutWriteManifest ==
  /\ pc = "write" /\ next = upto
  /\ \/ item' = Manifest(doc) /\ result' = "ok" /\ pc' = "idle" /\ UNCHANGED control
     \/ "write" \in may /\ GiveUp /\ UNCHANGED item
  /\ UNCHANGED <<parts, may, untidy>>

\* The manifest makes the new document the stored one; then the old one's
\* chunks go.
WriteManifest ==
  /\ pc = "write" /\ next = upto
  /\ \/ /\ item' = Manifest(doc)
        /\ result' = "ok"
        /\ \/ old \notin {None, doc} /\ Delete(old, Count[old], "prune") /\ UNCHANGED old
           \/ old \in {None, doc} /\ pc' = "idle" /\ UNCHANGED control
     \/ "write" \in may /\ GiveUp /\ UNCHANGED item
  /\ UNCHANGED <<parts, may, untidy>>

\* deleteCredentialParts ignores errors.
DeletePart ==
  /\ pc \in {"undo", "prune", "drop"} /\ next < upto
  /\ \/ parts' = [parts EXCEPT ![doc] = @ \ {next}] /\ UNCHANGED untidy
     \/ "delete" \in may /\ untidy' = TRUE /\ UNCHANGED parts
  /\ next' = next + 1
  /\ UNCHANGED <<item, pc, doc, upto, old, may, result>>

PartsGone ==
  /\ pc \in {"undo", "prune", "drop"} /\ next = upto
  /\ pc' = IF pc = "drop" THEN "unlink" ELSE "idle"
  /\ result' = IF pc = "undo" THEN "failed" ELSE result
  /\ UNCHANGED <<item, parts, control, may, untidy>>

\* DeleteCredential: the chunks first, then the manifest.
DeleteStart ==
  /\ \E found \in Docs \union {None} :
       /\ Start(found)
       /\ \/ found # None /\ Delete(found, Count[found], "drop") /\ UNCHANGED old
          \/ found = None /\ pc' = "unlink" /\ UNCHANGED control

Unlink ==
  /\ pc = "unlink"
  /\ \/ item' = Missing /\ result' = "ok" /\ UNCHANGED untidy
     \/ "delete" \in may /\ result' = "failed" /\ untidy' = TRUE /\ UNCHANGED item
  /\ pc' = "idle"
  /\ UNCHANGED <<parts, control, may>>

Crash ==
  /\ pc # "idle" /\ "crash" \in may
  /\ pc' = "idle"
  /\ untidy' = TRUE
  /\ UNCHANGED <<item, parts, control, may, result>>

Next ==
  \/ \E d \in Docs : WriteRefused(d) \/ WriteStart(d)
  \/ WriteChunk \/ WriteManifest \/ DeletePart \/ PartsGone
  \/ DeleteStart \/ Unlink
  \/ Crash

Spec == Init /\ [][Next]_vars

-----------------------------------------------------------------------------

\* What the running operation makes of the register; a write is done as soon
\* as its manifest is written.
Asked ==
  CASE pc \in {"write", "undo"}  -> {doc}
    [] pc \in {"drop", "unlink"} -> {None}
    [] OTHER                     -> {}

Register == INSTANCE CodexRegister WITH stored <- Readable, asked <- Asked

\* Wherever a write or a deletion fails or dies, ReadCredential finds the old
\* document or what was asked for, never a mixture and, while a readable
\* document is being replaced, never nothing (WriteCredential, DeleteCredential).
Implements == Register!Spec

\* Unless a read or a deletion failed, or a process died, the Keychain holds no
\* chunk between operations that the manifest does not name: no secret is left
\* behind (the clean-up of WriteCredential and DeleteCredential).
NoLeftovers ==
  pc = "idle" /\ ~untidy =>
    \A d \in Docs : parts[d] = IF item = Manifest(d) THEN Chunks(d) ELSE {}

-----------------------------------------------------------------------------
(***************************************************************************)
(* Why they hold: the inductive invariant.                                 *)
(***************************************************************************)

\* The chunks that are taken away are never those of the document that is
\* stored, unless that is what was asked for.
Working ==
  /\ pc \in {"write", "undo", "prune", "drop"} => doc \in Docs /\ next <= upto
  /\ pc = "write" =>
       /\ upto = Count[doc]
       /\ 0 .. next - 1 \subseteq parts[doc]
       /\ item = Manifest(doc) /\ "write" \in may => old = doc
  /\ pc \in {"undo", "prune"} => item # Manifest(doc)
  /\ pc = "drop" => item = Manifest(doc)

\* The chunks that there should be of document d.
Expected(d) ==
  CASE pc \in {"undo", "prune", "drop"} /\ d = doc      -> next .. upto - 1
    [] pc = "write" /\ d = doc /\ item # Manifest(d)    -> 0 .. next - 1
    [] pc \notin {"drop", "unlink"} /\ item = Manifest(d) -> Chunks(d)
    [] OTHER                                            -> {}

Tidy ==
  /\ \A d \in Docs : parts[d] = Expected(d)
  /\ pc = "write" => old = Digest(item)

StoreInv == TypeOK /\ Working /\ (~untidy => Tidy)

=============================================================================
