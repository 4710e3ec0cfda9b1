-------------------------- MODULE CodexStoreProofs --------------------------
(***************************************************************************)
(* The Codex store implements the register, for any documents, counts and  *)
(* bound, and leaves nothing behind.                                       *)
(***************************************************************************)
EXTENDS CodexStore, TLAPS

\* An operation that may fail to read does not meet failing writes as well: a
\* document that is stored again over a manifest that could not be read would
\* lose its chunks to the clean-up.
OneKind == \A w \in Weathers : ~({"read", "write"} \subseteq w)

\* The items are told apart by document and shape; a missing one has no digest.
LEMMA Items ==
  /\ \A d, e \in Docs : Manifest(d) = Manifest(e) => d = e
  /\ \A d \in Docs : Manifest(d).doc = d /\ Manifest(d).chunked
  /\ \A d \in Docs : Manifest(d) # Missing /\ d # None
  /\ Missing.doc = None /\ ~Missing.chunked
BY CodexStoreAssumption DEF Manifest, Missing, Plain

\* An item with a digest is that document's manifest.
LEMMA DigestIs ==
  ASSUME TypeOK
  PROVE  /\ Digest(item) \in Docs \union {None}
         /\ \A d \in Docs : Digest(item) = d <=> item = Manifest(d)
BY CodexStoreAssumption DEF TypeOK, Digest, Manifest, Missing, Plain

\* A count is positive.
LEMMA Counts == \A d \in Docs : Count[d] \in Nat /\ Count[d] > 0
BY CodexStoreAssumption

-----------------------------------------------------------------------------

\* The invariant holds at first.
LEMMA InitInv == Init => StoreInv
<1> SUFFICES ASSUME Init PROVE StoreInv
  OBVIOUS
<1>1. TypeOK
  <2>1. item \in [doc: Docs, chunked: BOOLEAN] \union {Missing}
    <3>1. \A d \in Docs : Plain(d) \in [doc: Docs, chunked: BOOLEAN]
      BY DEF Plain
    <3>2. QED
      BY <3>1 DEF Init
  <2>2. parts \in [Docs -> SUBSET Nat]
    BY DEF Init
  <2>3. QED
    BY <2>1, <2>2 DEF Init, TypeOK
<1>2. Working
  BY DEF Init, Working
<1>3. ~\E d \in Docs : item = Manifest(d)
  BY DEF Init, Manifest, Plain, Missing
<1>4. Tidy
  BY <1>3 DEF Init, Tidy, Expected
<1>5. QED
  BY <1>1, <1>2, <1>4 DEF StoreInv

\* What an operation reads first is the digest there is, unless reads fail.
LEMMA StartReads ==
  ASSUME OneKind, TypeOK, NEW found \in Docs \union {None}, Start(found)
  PROVE  /\ may' \in Weathers /\ untidy' \in BOOLEAN
         /\ \A d \in Docs : item = Manifest(d) /\ "write" \in may' => found = d
         /\ \A d \in Docs : found = d => item = Manifest(d)
         /\ ~untidy' => ~untidy /\ found = Digest(item)
<1>1. /\ \A d \in Docs : Digest(item) = d <=> item = Manifest(d)
      /\ \A d \in Docs : d # None
  BY DigestIs, Items
<1>2. CASE found = Digest(item) /\ UNCHANGED untidy
  BY <1>1, <1>2 DEF Start, TypeOK
<1>3. CASE "read" \in may' /\ found = None /\ untidy' = TRUE
  <2>1. "write" \notin may'
    BY <1>3 DEF Start, OneKind
  <2>2. QED
    BY <1>1, <1>3, <2>1 DEF Start
<1>4. QED
  BY <1>2, <1>3 DEF Start

\* The start of a write keeps the invariant.
LEMMA WriteStartKeeps ==
  ASSUME OneKind, StoreInv, NEW d \in Docs, WriteStart(d)
  PROVE  StoreInv'
<1>1. PICK found \in Docs \union {None} : Start(found) /\ old' = found
  BY DEF WriteStart
<1>2. TypeOK /\ Count[d] \in Nat /\ Count[d] > 0
  BY Counts DEF StoreInv
<1>3. /\ may' \in Weathers /\ untidy' \in BOOLEAN
      /\ item = Manifest(d) /\ "write" \in may' => found = d
      /\ ~untidy' => ~untidy /\ found = Digest(item)
  BY <1>1, <1>2, StartReads
<1>4. TypeOK'
  BY <1>1, <1>2, <1>3 DEF TypeOK, WriteStart, Start
<1>5. Working'
  BY <1>1, <1>2, <1>3 DEF Working, WriteStart, Start
<1>6. ASSUME ~untidy' PROVE Tidy'
  <2>1. Tidy /\ pc = "idle" /\ parts' = parts /\ item' = item
    BY <1>1, <1>3, <1>6 DEF StoreInv, Start
  <2>2. pc' = "write" /\ doc' = d /\ next' = 0 /\ old' = Digest(item)
    BY <1>1, <1>3, <1>6 DEF WriteStart
  <2>3. \A e \in Docs : parts[e] = IF item = Manifest(e) THEN Chunks(e) ELSE {}
    BY <2>1 DEF Tidy, Expected
  <2>4. \A e \in Docs : Expected(e)' = IF item = Manifest(e) THEN Chunks(e) ELSE {}
    BY <2>1, <2>2 DEF Expected, Chunks, Manifest
  <2>5. QED
    BY <2>1, <2>2, <2>3, <2>4 DEF Tidy, Digest
<1>7. QED
  BY <1>4, <1>5, <1>6 DEF StoreInv

\* A write that gives up keeps the invariant.
LEMMA GiveUpKeeps ==
  ASSUME StoreInv, pc = "write", "write" \in may, GiveUp,
         UNCHANGED <<item, parts, may, untidy>>
  PROVE  StoreInv'
<1>1. /\ TypeOK /\ Working /\ doc \in Docs /\ next \in Nat /\ doc # None
      /\ item = Manifest(doc) => old = doc
  BY Items DEF StoreInv, TypeOK, Working
<1>2. CASE old # doc /\ Delete(doc, next, "undo") /\ UNCHANGED <<old, result>>
  <2>1. TypeOK'
    BY <1>1, <1>2 DEF TypeOK, Delete
  <2>2. item # Manifest(doc)
    BY <1>1, <1>2
  <2>3. Working'
    BY <1>1, <1>2, <2>2 DEF Working, Delete, Manifest
  <2>4. ASSUME ~untidy' PROVE Tidy'
    <3>1. Tidy
      BY <2>4 DEF StoreInv
    <3>2. \A d \in Docs : Expected(d)' = Expected(d)
      BY <1>2, <2>2 DEF Expected, Delete, Chunks, Manifest
    <3>3. QED
      BY <1>2, <3>1, <3>2 DEF Tidy, Delete
  <2>5. QED
    BY <2>1, <2>3, <2>4 DEF StoreInv
<1>3. CASE old = doc /\ pc' = "idle" /\ result' = "failed" /\ UNCHANGED control
  <2>1. TypeOK'
    BY <1>1, <1>3 DEF TypeOK, control
  <2>2. Working'
    BY <1>3 DEF Working
  <2>3. ASSUME ~untidy' PROVE Tidy'
    <3>1. Tidy /\ item = Manifest(doc)
      BY <1>1, <1>3, <2>3, DigestIs DEF StoreInv, Tidy
    <3>2. \A d \in Docs : Expected(d)' = Expected(d)
      BY <1>3, <3>1 DEF Expected, control, Chunks, Manifest
    <3>3. QED
      BY <1>3, <3>1, <3>2 DEF Tidy
  <2>4. QED
    BY <2>1, <2>2, <2>3 DEF StoreInv
<1>4. QED
  BY <1>2, <1>3 DEF GiveUp

\* Writing a chunk keeps the invariant.
LEMMA WriteChunkKeeps ==
  ASSUME StoreInv, WriteChunk
  PROVE  StoreInv'
<1>1. /\ TypeOK /\ Working /\ pc = "write" /\ next < upto
      /\ doc \in Docs /\ next \in Nat /\ upto = Count[doc] /\ Count[doc] \in Nat
  BY Counts DEF StoreInv, TypeOK, Working, WriteChunk
<1>2. CASE "write" \in may /\ GiveUp /\ UNCHANGED parts
  BY <1>1, <1>2, GiveUpKeeps DEF WriteChunk
<1>3. CASE /\ parts' = [parts EXCEPT ![doc] = @ \union {next}]
           /\ next' = next + 1
           /\ UNCHANGED <<pc, doc, upto, old, result>>
  <2>1. TypeOK'
    <3>1. parts' \in [Docs -> SUBSET Nat] /\ next' \in Nat
      BY <1>1, <1>3 DEF TypeOK
    <3>2. QED
      BY <1>1, <1>3, <3>1 DEF TypeOK, WriteChunk
  <2>2. parts'[doc] = parts[doc] \union {next}
    BY <1>1, <1>3 DEF TypeOK
  <2>3. Working'
    BY <1>1, <1>3, <2>2 DEF Working, WriteChunk, Manifest
  <2>4. ASSUME ~untidy' PROVE Tidy'
    <3>1. Tidy
      BY <2>4 DEF StoreInv, WriteChunk
    <3>2. parts'[doc] = Expected(doc)'
      <4>0. /\ pc' = "write" /\ doc' = doc /\ parts[doc] = Expected(doc)
            /\ (item = Manifest(doc))' <=> item = Manifest(doc)
        BY <1>1, <1>3, <3>1 DEF Tidy, WriteChunk, Manifest
      <4>1. CASE item = Manifest(doc)
        <5>1. parts[doc] = Chunks(doc) /\ Expected(doc)' = Chunks(doc)
          BY <1>1, <1>3, <4>0, <4>1 DEF Expected, Chunks
        <5>2. next \in Chunks(doc)
          BY <1>1 DEF Chunks
        <5>3. QED
          BY <2>2, <5>1, <5>2
      <4>2. CASE item # Manifest(doc)
        <5>1. parts[doc] = 0 .. next - 1 /\ Expected(doc)' = 0 .. next' - 1
          BY <1>1, <4>0, <4>2 DEF Expected
        <5>2. 0 .. next' - 1 = (0 .. next - 1) \union {next}
          BY <1>1, <1>3
        <5>3. QED
          BY <2>2, <5>1, <5>2
      <4>3. QED
        BY <4>1, <4>2
    <3>3. \A d \in Docs \ {doc} : parts'[d] = Expected(d)'
      BY <1>1, <1>3, <3>1 DEF TypeOK, Tidy, Expected, WriteChunk, Chunks, Manifest
    <3>4. QED
      BY <1>1, <1>3, <3>1, <3>2, <3>3 DEF Tidy, WriteChunk, Digest
  <2>5. QED
    BY <2>1, <2>3, <2>4 DEF StoreInv
<1>4. QED
  BY <1>2, <1>3 DEF WriteChunk

\* Writing the manifest keeps the invariant.
LEMMA WriteManifestKeeps ==
  ASSUME StoreInv, WriteManifest
  PROVE  StoreInv'
<1>1. /\ TypeOK /\ Working /\ pc = "write" /\ next = upto
      /\ doc \in Docs /\ upto = Count[doc] /\ doc # None
  BY Items DEF StoreInv, TypeOK, Working, WriteManifest
<1>2. CASE "write" \in may /\ GiveUp /\ UNCHANGED item
  BY <1>1, <1>2, GiveUpKeeps DEF WriteManifest
<1>3. ASSUME item' = Manifest(doc), result' = "ok",
             \/ old \notin {None, doc} /\ Delete(old, Count[old], "prune") /\ UNCHANGED old
             \/ old \in {None, doc} /\ pc' = "idle" /\ UNCHANGED control
      PROVE  StoreInv'
  <2>1. Manifest(doc) \in [doc: Docs, chunked: BOOLEAN]
    BY <1>1 DEF Manifest
  <2>2. CASE old \notin {None, doc} /\ Delete(old, Count[old], "prune") /\ UNCHANGED old
    <3>1. old \in Docs /\ Count[old] \in Nat /\ Count[old] > 0
      BY <1>1, <2>2, Counts DEF TypeOK
    <3>2. TypeOK'
      BY <1>1, <1>3, <2>1, <2>2, <3>1 DEF TypeOK, Delete, WriteManifest
    <3>3. Manifest(doc) # Manifest(old)
      BY <1>1, <2>2, <3>1, Items
    <3>4. Working'
      BY <1>3, <2>2, <3>1, <3>3 DEF Working, Delete, Manifest
    <3>5. ASSUME ~untidy' PROVE Tidy'
      <4>1. Tidy /\ item = Manifest(old) /\ parts' = parts
        BY <1>1, <3>1, <3>5, DigestIs DEF StoreInv, Tidy, WriteManifest
      <4>2. \A d \in Docs : Expected(d)' = Expected(d)
        <5>1. /\ \A d \in Docs : item = Manifest(d) <=> d = old
              /\ \A d \in Docs : item' = Manifest(d) <=> d = doc
          BY <1>1, <1>3, <3>1, <4>1, Items
        <5>2. SUFFICES ASSUME NEW d \in Docs PROVE Expected(d)' = Expected(d)
          OBVIOUS
        <5>3. (item = Manifest(d))' <=> item' = Manifest(d)
          BY DEF Manifest
        <5>4. CASE d = doc
          BY <1>1, <2>2, <3>1, <5>1, <5>3, <5>4 DEF Expected, Delete, Chunks
        <5>5. CASE d = old
          BY <1>1, <2>2, <3>1, <5>1, <5>3, <5>5 DEF Expected, Delete, Chunks
        <5>6. CASE d \notin {doc, old}
          BY <1>1, <2>2, <5>1, <5>3, <5>6 DEF Expected, Delete
        <5>7. QED
          BY <5>4, <5>5, <5>6
      <4>3. QED
        BY <2>2, <4>1, <4>2 DEF Tidy, Delete
    <3>6. QED
      BY <3>2, <3>4, <3>5 DEF StoreInv
  <2>3. CASE old \in {None, doc} /\ pc' = "idle" /\ UNCHANGED control
    <3>1. TypeOK'
      BY <1>1, <1>3, <2>1, <2>3 DEF TypeOK, control, WriteManifest
    <3>2. Working'
      BY <2>3 DEF Working
    <3>3. ASSUME ~untidy' PROVE Tidy'
      <4>1. Tidy /\ parts' = parts /\ Digest(item) = old
        BY <1>1, <3>3 DEF StoreInv, Tidy, WriteManifest
      <4>2. \A d \in Docs : d # doc => item # Manifest(d) /\ item' # Manifest(d)
        BY <1>1, <1>3, <2>3, <4>1, DigestIs, Items
      <4>3. SUFFICES ASSUME NEW d \in Docs PROVE parts[d] = Expected(d)'
        BY <2>3, <4>1 DEF Tidy
      <4>4. (item = Manifest(d))' <=> item' = Manifest(d)
        BY DEF Manifest
      <4>5. CASE d = doc
        BY <1>1, <1>3, <2>3, <4>1, <4>4, <4>5 DEF Tidy, Expected, Chunks
      <4>6. CASE d # doc
        BY <1>1, <2>3, <4>1, <4>2, <4>4, <4>6 DEF Tidy, Expected
      <4>7. QED
        BY <4>5, <4>6
    <3>4. QED
      BY <3>1, <3>2, <3>3 DEF StoreInv
  <2>4. QED
    BY <1>3, <2>2, <2>3
<1>4. QED
  BY <1>1, <1>2, <1>3 DEF WriteManifest

\* Deleting a chunk keeps the invariant.
LEMMA DeletePartKeeps ==
  ASSUME StoreInv, DeletePart
  PROVE  StoreInv'
<1>1. /\ TypeOK /\ Working /\ pc \in {"undo", "prune", "drop"} /\ next < upto
      /\ doc \in Docs /\ next \in Nat /\ upto \in Nat
      /\ next' = next + 1
      /\ UNCHANGED <<item, pc, doc, upto, old, may, result>>
  BY DEF StoreInv, TypeOK, Working, DeletePart
<1>2. /\ parts' \in [Docs -> SUBSET Nat] /\ untidy' \in BOOLEAN
      /\ \A d \in Docs \ {doc} : parts'[d] = parts[d]
      /\ ~untidy' => ~untidy /\ parts'[doc] = parts[doc] \ {next}
  BY <1>1 DEF TypeOK, DeletePart
<1>3. TypeOK'
  BY <1>1, <1>2 DEF TypeOK
<1>4. Working'
  BY <1>1 DEF Working, Manifest
<1>5. ASSUME ~untidy' PROVE Tidy'
  <2>1. Tidy
    BY <1>2, <1>5 DEF StoreInv
  <2>2. parts[doc] = next .. upto - 1 /\ Expected(doc)' = next' .. upto - 1
    <3>0. pc # "drop" => item # Manifest(doc) /\ (item # Manifest(doc))'
      BY <1>1, <1>4 DEF Working
    <3>1. Expected(doc) = next .. upto - 1
      BY <1>1, <3>0 DEF Expected
    <3>2. Expected(doc)' = next' .. upto - 1
      BY <1>1, <3>0 DEF Expected
    <3>3. QED
      BY <1>1, <2>1, <3>1, <3>2 DEF Tidy
  <2>3. next' .. upto - 1 = (next .. upto - 1) \ {next}
    BY <1>1
  <2>4. \A d \in Docs \ {doc} : Expected(d)' = Expected(d)
    BY <1>1 DEF Expected, Chunks, Manifest
  <2>5. \A d \in Docs : parts'[d] = Expected(d)'
    <3>1. SUFFICES ASSUME NEW d \in Docs PROVE parts'[d] = Expected(d)'
      OBVIOUS
    <3>2. CASE d = doc
      <4>1. Expected(d)' = Expected(doc)'
        BY <1>1, <3>2 DEF Expected, Chunks, Manifest
      <4>2. QED
        BY <1>2, <1>5, <2>2, <2>3, <3>2, <4>1
    <3>3. CASE d # doc
      BY <1>2, <2>1, <2>4, <3>3 DEF Tidy
    <3>4. QED
      BY <3>2, <3>3
  <2>6. QED
    BY <1>1, <2>5 DEF Tidy
<1>6. QED
  BY <1>3, <1>4, <1>5 DEF StoreInv

\* Having deleted the last of them keeps the invariant.
LEMMA PartsGoneKeeps ==
  ASSUME StoreInv, PartsGone
  PROVE  StoreInv'
<1>1. /\ TypeOK /\ Working /\ pc \in {"undo", "prune", "drop"} /\ next = upto
      /\ doc \in Docs /\ next \in Nat
      /\ pc' = (IF pc = "drop" THEN "unlink" ELSE "idle")
      /\ UNCHANGED <<item, parts, control, may, untidy>>
  BY DEF StoreInv, TypeOK, Working, PartsGone
<1>2. TypeOK'
  BY <1>1 DEF TypeOK, PartsGone, control
<1>3. Working'
  BY <1>1 DEF Working
<1>4. ASSUME ~untidy' PROVE Tidy'
  <2>1. Tidy
    BY <1>1, <1>4 DEF StoreInv
  <2>2. (next .. upto - 1) = {}
    BY <1>1
  <2>3. /\ \A d \in Docs : (item = Manifest(d))' <=> item = Manifest(d)
        /\ pc = "drop" <=> item = Manifest(doc)
        /\ item = Manifest(doc) => \A d \in Docs : item = Manifest(d) => d = doc
    BY <1>1, Items DEF Working, Manifest
  <2>4. \A d \in Docs : Expected(d)' = Expected(d)
    BY <1>1, <2>2, <2>3 DEF Expected, Chunks
  <2>5. QED
    BY <1>1, <2>1, <2>4 DEF Tidy
<1>5. QED
  BY <1>2, <1>3, <1>4 DEF StoreInv

\* The start of a deletion keeps the invariant.
LEMMA DeleteStartKeeps ==
  ASSUME OneKind, StoreInv, DeleteStart
  PROVE  StoreInv'
<1>1. PICK found \in Docs \union {None} :
        /\ Start(found)
        /\ \/ found # None /\ Delete(found, Count[found], "drop") /\ UNCHANGED old
           \/ found = None /\ pc' = "unlink" /\ UNCHANGED control
  BY DEF DeleteStart
<1>2. TypeOK /\ pc = "idle" /\ UNCHANGED <<item, parts>> /\ result' = "none"
  BY <1>1 DEF StoreInv, Start
<1>3. /\ may' \in Weathers /\ untidy' \in BOOLEAN
      /\ \A d \in Docs : found = d => item = Manifest(d)
      /\ ~untidy' => ~untidy /\ found = Digest(item)
  BY <1>1, <1>2, StartReads
<1>4. ASSUME ~untidy' PROVE \A d \in Docs : parts[d] = IF found = d THEN Chunks(d) ELSE {}
  <2>1. Tidy
    BY <1>3, <1>4 DEF StoreInv
  <2>2. \A d \in Docs : found = d <=> item = Manifest(d)
    BY <1>2, <1>3, <1>4, DigestIs
  <2>3. QED
    BY <1>2, <2>1, <2>2 DEF Tidy, Expected
<1>5. CASE found # None /\ Delete(found, Count[found], "drop") /\ UNCHANGED old
  <2>1. found \in Docs /\ Count[found] \in Nat
    BY <1>5, Counts
  <2>2. TypeOK'
    BY <1>2, <1>3, <1>5, <2>1 DEF TypeOK, Delete
  <2>3. Working'
    BY <1>2, <1>3, <1>5, <2>1 DEF Working, Delete, Manifest
  <2>4. ASSUME ~untidy' PROVE Tidy'
    <3>1. \A d \in Docs : Expected(d)' = IF found = d THEN Chunks(d) ELSE {}
      BY <1>5 DEF Expected, Delete, Chunks
    <3>2. QED
      BY <1>2, <1>4, <1>5, <2>4, <3>1 DEF Tidy, Delete
  <2>5. QED
    BY <2>2, <2>3, <2>4 DEF StoreInv
<1>6. CASE found = None /\ pc' = "unlink" /\ UNCHANGED control
  <2>1. TypeOK'
    BY <1>2, <1>3, <1>6 DEF TypeOK, control
  <2>2. Working'
    BY <1>6 DEF Working
  <2>3. ASSUME ~untidy' PROVE Tidy'
    <3>1. \A d \in Docs : found # d /\ Expected(d)' = {}
      BY <1>6, Items DEF Expected
    <3>2. QED
      BY <1>2, <1>4, <1>6, <2>3, <3>1 DEF Tidy
  <2>4. QED
    BY <2>1, <2>2, <2>3 DEF StoreInv
<1>7. QED
  BY <1>1, <1>5, <1>6

\* Deleting the slot's own item keeps the invariant.
LEMMA UnlinkKeeps ==
  ASSUME StoreInv, Unlink
  PROVE  StoreInv'
<1>1. TypeOK'
  BY DEF StoreInv, TypeOK, Unlink, control
<1>2. Working'
  BY DEF Working, Unlink
<1>3. ASSUME ~untidy' PROVE Tidy'
  <2>1. Tidy /\ item' = Missing /\ pc = "unlink" /\ pc' = "idle" /\ parts' = parts
    BY <1>3 DEF StoreInv, Unlink
  <2>2. \A d \in Docs : item' # Manifest(d) /\ ((item = Manifest(d))' <=> item' = Manifest(d))
    BY <2>1, Items DEF Manifest
  <2>3. \A d \in Docs : Expected(d)' = {} /\ Expected(d) = {}
    BY <2>1, <2>2 DEF Expected
  <2>4. QED
    BY <2>1, <2>3 DEF Tidy
<1>4. QED
  BY <1>1, <1>2, <1>3 DEF StoreInv

\* No step breaks the invariant.
LEMMA NextInv == OneKind /\ StoreInv /\ [Next]_vars => StoreInv'
<1> SUFFICES ASSUME OneKind, StoreInv, [Next]_vars
             PROVE  StoreInv'
  OBVIOUS
<1>1. ASSUME NEW d \in Docs, WriteRefused(d)
      PROVE  StoreInv'
  BY <1>1 DEF StoreInv, TypeOK, Working, Tidy, Expected, Chunks, Digest, Manifest, WriteRefused,
              control
<1>2. CASE \E d \in Docs : WriteStart(d)
  BY <1>2, WriteStartKeeps
<1>3. CASE WriteChunk \/ WriteManifest \/ DeletePart \/ PartsGone \/ DeleteStart \/ Unlink
  BY <1>3, WriteChunkKeeps, WriteManifestKeeps, DeletePartKeeps, PartsGoneKeeps,
     DeleteStartKeeps, UnlinkKeeps
<1>4. CASE Crash
  <2>1. TypeOK'
    BY <1>4 DEF StoreInv, TypeOK, Crash, control
  <2>2. Working'
    BY <1>4 DEF Working, Crash
  <2>3. QED
    BY <1>4, <2>1, <2>2 DEF StoreInv, Crash
<1>5. CASE UNCHANGED vars
  BY <1>5 DEF StoreInv, TypeOK, Working, Tidy, Expected, Chunks, Digest, Manifest, vars, control
<1>6. QED
  BY <1>1, <1>2, <1>3, <1>4, <1>5 DEF Next

\* The invariant of the Codex store holds of every behaviour.
THEOREM StoreInvariant ==
  ASSUME OneKind
  PROVE  Spec => []StoreInv
<1>1. StoreInv /\ [Next]_vars => StoreInv'
  BY NextInv
<1>2. QED
  BY <1>1, InitInv, PTL DEF Spec

\* Unless a read or a deletion failed or a process died, no chunk is left
\* behind that the manifest does not name.
THEOREM NothingLeftBehind ==
  ASSUME OneKind
  PROVE  Spec => []NoLeftovers
<1>1. StoreInv => NoLeftovers
  BY DEF StoreInv, Tidy, Expected, NoLeftovers
<1>2. QED
  BY <1>1, StoreInvariant, PTL

-----------------------------------------------------------------------------
(***************************************************************************)
(* The refinement: one lemma per kind of step, each of which is a step of  *)
(* the register or leaves it alone.                                        *)
(***************************************************************************)

\* A step of the register, or none.
RegisterStep == [Register!Next]_(Register!vars)

\* Reading finds the document of the slot's item or nothing, and what it finds
\* depends on no other document's chunks.
LEMMA ReadableDepends ==
  ASSUME TypeOK
  PROVE  /\ Readable \in Docs \union {None}
         /\ item.chunked => item.doc \in Docs
         /\ UNCHANGED item /\ (item.chunked => UNCHANGED parts[item.doc]) => UNCHANGED Readable
BY DEF TypeOK, Readable, Missing, Plain, Chunks

\* What the operation makes of the register is clear from where it is.
LEMMA AskedIs ==
  /\ pc \in {"write", "undo"} => Asked = {doc}
  /\ pc \in {"drop", "unlink"} => Asked = {None}
  /\ pc \in {"idle", "prune"} => Asked = {}
  /\ pc' \in {"write", "undo"} => Asked' = {doc'}
  /\ pc' \in {"drop", "unlink"} => Asked' = {None}
  /\ pc' \in {"idle", "prune"} => Asked' = {}
BY DEF Asked

\* Starting an operation begins it on the register, or refuses it.
LEMMA StartRefines ==
  ASSUME StoreInv, (\E d \in Docs : WriteRefused(d) \/ WriteStart(d)) \/ DeleteStart
  PROVE  RegisterStep
<1>1. TypeOK
  BY DEF StoreInv
<1>2. ASSUME NEW d \in Docs, WriteRefused(d) PROVE RegisterStep
  <2>1. UNCHANGED <<Readable, Asked>> /\ Asked = {} /\ result' = "failed"
    BY <1>1, <1>2, ReadableDepends, AskedIs DEF WriteRefused
  <2>2. QED
    BY <2>1 DEF RegisterStep, Register!Next, Register!Refuse
<1>3. ASSUME NEW d \in Docs, WriteStart(d) PROVE RegisterStep
  <2>1. UNCHANGED Readable /\ Asked = {} /\ Asked' = {d} /\ result' = "none"
    BY <1>1, <1>3, ReadableDepends, AskedIs DEF WriteStart, Start
  <2>2. QED
    BY <2>1 DEF RegisterStep, Register!Next, Register!Begin, Register!Contents
<1>4. ASSUME DeleteStart PROVE RegisterStep
  <2>1. UNCHANGED Readable /\ Asked = {} /\ Asked' = {None} /\ result' = "none"
    BY <1>1, <1>4, ReadableDepends, AskedIs DEF DeleteStart, Start, Delete
  <2>2. QED
    BY <2>1 DEF RegisterStep, Register!Next, Register!Begin, Register!Contents
<1>5. QED
  BY <1>2, <1>3, <1>4

\* Giving up a write leaves the register alone, or fails the write.
LEMMA GiveUpRefines ==
  ASSUME StoreInv, pc = "write", GiveUp, UNCHANGED <<item, parts>>
  PROVE  RegisterStep
<1>1. UNCHANGED Readable /\ Asked = {doc}
  BY ReadableDepends, AskedIs DEF StoreInv
<1>2. CASE old # doc /\ Delete(doc, next, "undo") /\ UNCHANGED <<old, result>>
  <2>1. UNCHANGED <<Asked, result>>
    BY <1>1, <1>2, AskedIs DEF Delete
  <2>2. QED
    BY <1>1, <2>1 DEF RegisterStep, Register!vars
<1>3. CASE old = doc /\ pc' = "idle" /\ result' = "failed" /\ UNCHANGED control
  <2>1. Asked' = {} /\ Asked # {} /\ result' = "failed"
    BY <1>1, <1>3, AskedIs
  <2>2. QED
    BY <1>1, <2>1 DEF RegisterStep, Register!Next, Register!Fail
<1>4. QED
  BY <1>2, <1>3 DEF GiveUp

\* Writing a chunk changes what is read only where nothing could be read.
LEMMA WriteChunkRefines ==
  ASSUME StoreInv, WriteChunk
  PROVE  RegisterStep
<1>1. /\ TypeOK /\ pc = "write" /\ doc \in Docs /\ UNCHANGED item
  BY DEF StoreInv, Working, WriteChunk
<1>2. CASE "write" \in may /\ GiveUp /\ UNCHANGED parts
  BY <1>1, <1>2, GiveUpRefines
<1>3. CASE /\ parts' = [parts EXCEPT ![doc] = @ \union {next}]
           /\ next' = next + 1
           /\ UNCHANGED <<pc, doc, upto, old, result>>
  <2>1. Asked = {doc} /\ UNCHANGED <<Asked, result>>
    BY <1>1, <1>3, AskedIs
  <2>2. CASE UNCHANGED Readable
    BY <2>1, <2>2 DEF RegisterStep, Register!vars
  <2>3. CASE Readable' # Readable
    <3>1. item.chunked /\ item.doc = doc
      BY <1>1, <1>3, <2>3, ReadableDepends DEF TypeOK
    <3>2. parts[doc] \subseteq parts'[doc]
      BY <1>1, <1>3 DEF TypeOK
    <3>3. Readable = None /\ Readable' = doc
      BY <1>1, <2>3, <3>1, <3>2 DEF Readable, Chunks
    <3>4. QED
      BY <2>1, <3>3 DEF RegisterStep, Register!Next, Register!Early
  <2>4. QED
    BY <2>2, <2>3
<1>4. QED
  BY <1>2, <1>3 DEF WriteChunk

\* Writing the manifest is the moment a write succeeds.
LEMMA WriteManifestRefines ==
  ASSUME StoreInv, WriteManifest
  PROVE  RegisterStep
<1>1. /\ TypeOK /\ pc = "write" /\ next = upto /\ doc \in Docs
      /\ upto = Count[doc] /\ 0 .. next - 1 \subseteq parts[doc] /\ UNCHANGED parts
  BY DEF StoreInv, Working, WriteManifest
<1>2. CASE "write" \in may /\ GiveUp /\ UNCHANGED item
  BY <1>1, <1>2, GiveUpRefines
<1>3. CASE item' = Manifest(doc) /\ result' = "ok" /\ pc' \in {"prune", "idle"}
  <2>1. Readable' = doc
    BY <1>1, <1>3 DEF Readable, Manifest, Chunks
  <2>2. Asked = {doc} /\ Asked' = {}
    BY <1>1, <1>3, AskedIs
  <2>3. QED
    BY <1>3, <2>1, <2>2 DEF RegisterStep, Register!Next, Register!Succeed
<1>4. QED
  BY <1>2, <1>3 DEF WriteManifest, Delete

\* Deleting a chunk changes what is read only if that is what was asked for.
LEMMA DeletePartRefines ==
  ASSUME StoreInv, DeletePart
  PROVE  RegisterStep
<1>1. /\ TypeOK /\ Working /\ pc \in {"undo", "prune", "drop"} /\ doc \in Docs
      /\ UNCHANGED <<item, pc, doc, result>>
      /\ \A d \in Docs \ {doc} : parts'[d] = parts[d]
      /\ parts'[doc] \subseteq parts[doc]
  BY DEF StoreInv, TypeOK, Working, DeletePart
<1>2. UNCHANGED <<Asked, result>>
  BY <1>1, AskedIs
<1>3. CASE UNCHANGED Readable
  BY <1>2, <1>3 DEF RegisterStep, Register!vars
<1>4. CASE Readable' # Readable
  <2>1. item.chunked /\ item.doc = doc
    <3>1. item.chunked => item.doc \in Docs
      BY <1>1, ReadableDepends
    <3>2. item.chunked /\ item.doc # doc => UNCHANGED parts[item.doc]
      BY <1>1, <3>1
    <3>3. QED
      BY <1>1, <1>4, <3>2, ReadableDepends
  <2>2. item = Manifest(doc)
    BY <1>1, <2>1 DEF TypeOK, Manifest, Missing, Plain
  <2>3. pc = "drop" /\ Asked = {None}
    BY <1>1, <2>2, AskedIs DEF Working
  <2>4. Readable' = None
    BY <1>1, <1>4, <2>1 DEF Readable, Chunks
  <2>5. QED
    BY <1>2, <2>3, <2>4 DEF RegisterStep, Register!Next, Register!Early
<1>5. QED
  BY <1>3, <1>4

\* The other steps end an operation, or leave the register alone.
LEMMA EndRefines ==
  ASSUME StoreInv, PartsGone \/ Unlink \/ Crash
  PROVE  RegisterStep
<1>1. TypeOK /\ Working
  BY DEF StoreInv
<1>2. CASE PartsGone
  <2>1. UNCHANGED Readable
    BY <1>1, <1>2, ReadableDepends DEF PartsGone
  <2>2. CASE pc = "undo"
    <3>1. Asked # {} /\ Asked' = {} /\ result' = "failed"
      BY <1>2, <2>2, AskedIs DEF PartsGone
    <3>2. QED
      BY <2>1, <3>1 DEF RegisterStep, Register!Next, Register!Fail
  <2>3. CASE pc \in {"prune", "drop"}
    <3>1. UNCHANGED <<Asked, result>>
      BY <1>2, <2>3, AskedIs DEF PartsGone
    <3>2. QED
      BY <2>1, <3>1 DEF RegisterStep, Register!vars
  <2>4. QED
    BY <1>2, <2>2, <2>3 DEF PartsGone
<1>3. CASE Unlink
  <2>1. Asked = {None} /\ Asked' = {}
    BY <1>3, AskedIs DEF Unlink
  <2>2. CASE item' = Missing /\ result' = "ok"
    <3>1. Readable' = None
      BY <2>2 DEF Readable, Missing, Plain
    <3>2. QED
      BY <2>1, <2>2, <3>1 DEF RegisterStep, Register!Next, Register!Succeed
  <2>3. CASE UNCHANGED item /\ result' = "failed"
    <3>1. UNCHANGED Readable
      BY <1>1, <1>3, <2>3, ReadableDepends DEF Unlink
    <3>2. QED
      BY <2>1, <2>3, <3>1 DEF RegisterStep, Register!Next, Register!Fail
  <2>4. QED
    BY <1>3, <2>2, <2>3 DEF Unlink
<1>4. CASE Crash
  <2>1. UNCHANGED <<Readable, result>> /\ Asked' = {}
    BY <1>1, <1>4, ReadableDepends, AskedIs DEF Crash
  <2>2. CASE Asked = {}
    BY <2>1, <2>2 DEF RegisterStep, Register!vars
  <2>3. CASE Asked # {}
    BY <2>1, <2>3 DEF RegisterStep, Register!Next, Register!Crash
  <2>4. QED
    BY <2>2, <2>3
<1>5. QED
  BY <1>2, <1>3, <1>4

\* Every step of the store is a step of the register, or leaves it alone.
LEMMA NextRefines == StoreInv /\ [Next]_vars => RegisterStep
<1>1. ASSUME StoreInv, UNCHANGED vars PROVE RegisterStep
  <2>1. UNCHANGED <<Readable, Asked, result>>
    BY <1>1 DEF vars, control, Readable, Asked, Chunks
  <2>2. QED
    BY <2>1 DEF RegisterStep, Register!vars
<1>2. QED
  BY <1>1, StartRefines, WriteChunkRefines, WriteManifestRefines, DeletePartRefines,
     EndRefines DEF Next

\* The Codex store implements the register, whatever fails and wherever it dies:
\* ReadCredential finds the old document or the one that was to replace it.
THEOREM StoreImplementsRegister ==
  ASSUME OneKind
  PROVE  Spec => Implements
<1>1. Init => Register!Init
  BY AskedIs DEF Init, Register!Init, Register!Contents, Readable, Asked, Plain, Missing
<1>2. StoreInv /\ [Next]_vars => [Register!Next]_(Register!vars)
  BY NextRefines DEF RegisterStep
<1>3. QED
  BY <1>1, <1>2, StoreInvariant, PTL DEF Spec, Implements, Register!Spec

=============================================================================
