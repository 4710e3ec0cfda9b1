------------------------ MODULE LiveCredentialProofs ------------------------
(***************************************************************************)
(* Theorems about LiveCredential, for any credentials, accounts and        *)
(* members of .claude.json, wherever cas fails or dies and whatever Claude *)
(* Code writes in between.                                                 *)
(***************************************************************************)
EXTENDS LiveCredential, FiniteSetTheorems, SequenceTheorems, TLAPS

-----------------------------------------------------------------------------
(***************************************************************************)
(* jsonpatch                                                               *)
(***************************************************************************)

\* What a document is, without its bound on the length.
LEMMA DocIsSequence ==
  ASSUME NEW d \in Docs
  PROVE  /\ d \in Seq(Members) /\ Len(d) \in Nat /\ DOMAIN d = 1..Len(d)
         /\ Len(d) <= Cardinality(Rest) + 1
         /\ \A i \in 1..Len(d) : d[i] \in Members
         /\ \A i, j \in 1..Len(d) : d[i].key = d[j].key => i = j
<1>1. PICK n \in 0..(Cardinality(Rest) + 1) : d \in [1..n -> Members]
  BY DEF Docs, SeqOf
<1>2. Cardinality(Rest) \in Nat
  BY FS_CardinalityType, LiveCredentialAssumption
<1>3. n \in Nat /\ Len(d) = n /\ d \in Seq(Members)
  BY <1>1, <1>2
<1>4. \A i, j \in DOMAIN d : d[i].key = d[j].key => i = j
  BY DEF Docs
<1>5. QED
  BY <1>1, <1>2, <1>3, <1>4

\* The other way round.
LEMMA SequenceIsDoc ==
  ASSUME NEW n \in Nat, n <= Cardinality(Rest) + 1, NEW d \in [1..n -> Members],
         \A i, j \in 1..n : d[i].key = d[j].key => i = j
  PROVE  d \in Docs
<1>1. Cardinality(Rest) \in Nat
  BY FS_CardinalityType, LiveCredentialAssumption
<1>2. n \in 0..(Cardinality(Rest) + 1)
  BY <1>1
<1>3. d \in SeqOf(Members, Cardinality(Rest) + 1)
  BY <1>2 DEF SeqOf
<1>4. QED
  BY <1>3 DEF Docs

\* A document without an oauthAccount block has room for one: its names are
\* among the others, and none occurs twice.
LEMMA RoomForOwn ==
  ASSUME NEW d \in Docs, Position(d) = {}
  PROVE  Len(d) <= Cardinality(Rest)
<1> DEFINE n == Len(d)
           f == [i \in 1..n |-> d[i].key]
<1>1. /\ n \in Nat /\ DOMAIN d = 1..n
      /\ \A i \in 1..n : d[i] \in Members
      /\ \A i, j \in 1..n : d[i].key = d[j].key => i = j
  BY DocIsSequence
<1>2. \A i \in 1..n : d[i].key \in Rest
  BY <1>1 DEF Position, Members
<1>3. f \in Injection(1..n, Rest)
  BY <1>1, <1>2 DEF Injection, IsInjective
<1>4. Cardinality(1..n) <= Cardinality(Rest)
  BY <1>3, FS_Injection, LiveCredentialAssumption
<1>5. Cardinality(1..n) = n
  BY <1>1, FS_Interval
<1>6. QED
  BY <1>4, <1>5

\* SetTopLevelKey with a block to replace, and without.
LEMMA SetInPlace ==
  ASSUME NEW d \in Docs, NEW a \in Owners, Position(d) # {}, NEW e, e = SetTopLevelKey(d, a)
  PROVE  /\ DOMAIN e = 1..Len(d) /\ e \in [1..Len(d) -> Members]
         /\ \A i \in 1..Len(d) :
              /\ d[i].key = Own => e[i] = [key |-> Own, val |-> a]
              /\ d[i].key # Own => e[i] = d[i]
<1>1. e = [i \in DOMAIN d |-> IF i \in Position(d) THEN [key |-> Own, val |-> a] ELSE d[i]]
  BY DEF SetTopLevelKey
<1>2. DOMAIN d = 1..Len(d) /\ \A i \in 1..Len(d) : d[i] \in Members
  BY DocIsSequence
<1>3. [key |-> Own, val |-> a] \in Members
  BY DEF Members
<1>4. QED
  BY <1>1, <1>2, <1>3 DEF Position

LEMMA SetAtTheFront ==
  ASSUME NEW d \in Docs, NEW a \in Owners, Position(d) = {}, NEW e, e = SetTopLevelKey(d, a)
  PROVE  /\ DOMAIN e = 1..(Len(d) + 1) /\ e \in [1..(Len(d) + 1) -> Members]
         /\ e[1] = [key |-> Own, val |-> a]
         /\ \A i \in 1..Len(d) : e[i + 1] = d[i] /\ d[i].key # Own
<1> DEFINE o == [key |-> Own, val |-> a]
<1>1. e = <<o>> \o d
  BY DEF SetTopLevelKey
<1>2. d \in Seq(Members) /\ Len(d) \in Nat /\ DOMAIN d = 1..Len(d)
  BY DocIsSequence
<1>3. o \in Members /\ <<o>> \in Seq(Members) /\ Len(<<o>>) = 1 /\ <<o>>[1] = o
  BY DEF Members
<1>4. /\ e \in Seq(Members) /\ Len(e) = Len(d) + 1
      /\ \A i \in 1..Len(e) : e[i] = IF i <= 1 THEN <<o>>[i] ELSE d[i - 1]
  BY <1>1, <1>2, <1>3, ConcatProperties
<1>5. \A i \in 1..Len(d) : i + 1 \in 1..Len(e) /\ ~(i + 1 <= 1) /\ (i + 1) - 1 = i
  BY <1>2, <1>4
<1>6. \A i \in 1..Len(d) : d[i].key # Own
  BY <1>2 DEF Position
<1>7. 1 \in 1..Len(e)
  BY <1>2, <1>4
<1>8. DOMAIN e = 1..Len(e) /\ e \in [1..Len(e) -> Members]
  BY <1>4
<1>9. e[1] = o
  BY <1>3, <1>4, <1>7
<1>10. \A i \in 1..Len(d) : e[i + 1] = d[i]
  BY <1>4, <1>5
<1>11. DOMAIN e = 1..(Len(d) + 1) /\ e \in [1..(Len(d) + 1) -> Members]
  BY <1>4, <1>8
<1>12. QED
  BY <1>6, <1>9, <1>10, <1>11

\* The result is a document again: nothing in it twice.
LEMMA SetGivesDoc ==
  ASSUME NEW d \in Docs, NEW a \in Owners
  PROVE  SetTopLevelKey(d, a) \in Docs
<1> DEFINE e == SetTopLevelKey(d, a)
<1>1. /\ Len(d) \in Nat /\ Len(d) <= Cardinality(Rest) + 1 /\ Cardinality(Rest) \in Nat
      /\ \A i, j \in 1..Len(d) : d[i].key = d[j].key => i = j
  BY DocIsSequence, FS_CardinalityType, LiveCredentialAssumption
<1>2. CASE Position(d) # {}
  <2>1. e \in [1..Len(d) -> Members]
    BY <1>2, SetInPlace, Zenon
  <2>2. \A i \in 1..Len(d) : IF d[i].key = Own THEN e[i] = [key |-> Own, val |-> a] ELSE e[i] = d[i]
    BY <1>2, SetInPlace
  <2>3. \A i \in 1..Len(d) : e[i].key = d[i].key
    BY <2>2
  <2>4. QED
    BY <1>1, <2>1, <2>3, SequenceIsDoc
<1>3. CASE Position(d) = {}
  <2> e \in [1..(Len(d) + 1) -> Members]
    BY <1>3, SetAtTheFront, Zenon
  <2>1. /\ e[1] = [key |-> Own, val |-> a]
        /\ \A i \in 1..Len(d) : e[i + 1] = d[i] /\ d[i].key # Own
    BY <1>3, SetAtTheFront
  <2>2. \A i \in 1..(Len(d) + 1) : i # 1 => /\ i - 1 \in 1..Len(d) /\ e[i] = d[i - 1]
                                            /\ e[i].key # Own
    <3>1. ASSUME NEW i \in 1..(Len(d) + 1), i # 1
          PROVE  i - 1 \in 1..Len(d) /\ (i - 1) + 1 = i
      BY <1>1, <3>1
    <3>2. QED
      BY <2>1, <3>1
  <2>3. ASSUME NEW i \in 1..(Len(d) + 1), NEW j \in 1..(Len(d) + 1), e[i].key = e[j].key
        PROVE  i = j
    <3>1. CASE i = 1 \/ j = 1
      BY <2>1, <2>2, <2>3, <3>1
    <3>2. CASE i # 1 /\ j # 1
      <4>1. i - 1 = j - 1
        BY <1>1, <2>2, <2>3, <3>2
      <4>2. QED
        BY <1>1, <4>1
    <3>3. QED
      BY <3>1, <3>2
  <2>4. Len(d) + 1 \in Nat /\ Len(d) + 1 <= Cardinality(Rest) + 1
    BY <1>1, <1>3, RoomForOwn
  <2>5. QED
    BY <2>1, <2>3, <2>4, SequenceIsDoc
<1>4. QED
  BY <1>2, <1>3

\* It names the account, and no other.
LEMMA SetNamesAccount ==
  ASSUME NEW d \in Docs, NEW a \in Owners
  PROVE  AccountsOf(SetTopLevelKey(d, a)) = {a}
<1> DEFINE e == SetTopLevelKey(d, a)
<1>1. Len(d) \in Nat
  BY DocIsSequence
<1>2. CASE Position(d) # {}
  <2>1. /\ DOMAIN e = 1..Len(d)
        /\ \A i \in 1..Len(d) : IF d[i].key = Own THEN e[i] = [key |-> Own, val |-> a] ELSE e[i] = d[i]
    BY <1>2, SetInPlace
  <2>2. PICK i \in 1..Len(d) : d[i].key = Own
    BY <1>2, DocIsSequence DEF Position
  <2>3. i \in Position(e) /\ e[i].val = a
    BY <2>1, <2>2 DEF Position
  <2>4. \A j \in Position(e) : e[j].val = a
    BY <2>1 DEF Position
  <2>5. QED
    BY <2>3, <2>4 DEF AccountsOf
<1>3. CASE Position(d) = {}
  <2>1. /\ DOMAIN e = 1..(Len(d) + 1)
        /\ e[1] = [key |-> Own, val |-> a]
        /\ \A i \in 1..Len(d) : e[i + 1] = d[i] /\ d[i].key # Own
    BY <1>3, SetAtTheFront
  <2>2. 1 \in Position(e) /\ e[1].val = a
    BY <1>1, <2>1 DEF Position
  <2>3. ASSUME NEW j \in Position(e)
        PROVE  j = 1
    <3>1. j \in 1..(Len(d) + 1) /\ e[j].key = Own
      BY <2>1 DEF Position
    <3>2. j # 1 => j - 1 \in 1..Len(d) /\ (j - 1) + 1 = j
      BY <1>1, <3>1
    <3>3. QED
      BY <2>1, <3>1, <3>2
  <2>4. QED
    BY <2>2, <2>3 DEF AccountsOf
<1>4. QED
  BY <1>2, <1>3

\* And the other members are as they were.
LEMMA SetKeepsTheRest ==
  ASSUME NEW d \in Docs, NEW a \in Owners
  PROVE  SameRest(SetTopLevelKey(d, a), d)
<1> DEFINE e == SetTopLevelKey(d, a)
<1>1. Len(d) \in Nat /\ DOMAIN d = 1..Len(d)
  BY DocIsSequence
<1>2. SUFFICES ASSUME NEW m \in [key: Rest, val: Values], NEW n \in [key: Rest, val: Values]
               PROVE  Before(e, m, n) <=> Before(d, m, n)
  BY DEF SameRest
<1>3. m.key # Own /\ n.key # Own
  BY LiveCredentialAssumption
<1>4. CASE Position(d) # {}
  <2>1. /\ DOMAIN e = 1..Len(d)
        /\ \A i \in 1..Len(d) : IF d[i].key = Own THEN e[i] = [key |-> Own, val |-> a] ELSE e[i] = d[i]
    BY <1>4, SetInPlace
  <2>2. \A i \in 1..Len(d) : (e[i] = m <=> d[i] = m) /\ (e[i] = n <=> d[i] = n)
    BY <1>3, <2>1
  <2>3. QED
    BY <1>1, <2>1, <2>2 DEF Before
<1>5. CASE Position(d) = {}
  <2>1. /\ DOMAIN e = 1..(Len(d) + 1)
        /\ e[1] = [key |-> Own, val |-> a]
        /\ \A i \in 1..Len(d) : e[i + 1] = d[i] /\ d[i].key # Own
    BY <1>5, SetAtTheFront
  <2>2. ASSUME Before(d, m, n)
        PROVE  Before(e, m, n)
    <3>1. PICK i \in 1..Len(d), j \in 1..Len(d) : i <= j /\ d[i] = m /\ d[j] = n
      BY <1>1, <2>2 DEF Before
    <3>2. i + 1 \in DOMAIN e /\ j + 1 \in DOMAIN e /\ i + 1 <= j + 1
      BY <1>1, <2>1, <3>1
    <3>3. e[i + 1] = m /\ e[j + 1] = n
      BY <2>1, <3>1
    <3>4. QED
      BY <3>2, <3>3 DEF Before
  <2>3. ASSUME Before(e, m, n)
        PROVE  Before(d, m, n)
    <3>1. PICK i \in 1..(Len(d) + 1), j \in 1..(Len(d) + 1) : i <= j /\ e[i] = m /\ e[j] = n
      BY <2>1, <2>3 DEF Before
    <3>2. i # 1 /\ j # 1
      BY <1>3, <2>1, <3>1
    <3>3. /\ i - 1 \in 1..Len(d) /\ (i - 1) + 1 = i
          /\ j - 1 \in 1..Len(d) /\ (j - 1) + 1 = j /\ i - 1 <= j - 1
      BY <1>1, <3>1, <3>2
    <3>4. d[i - 1] = m /\ d[j - 1] = n
      BY <2>1, <3>1, <3>3
    <3>5. QED
      BY <1>1, <3>3, <3>4 DEF Before
  <2>4. QED
    BY <2>2, <2>3
<1>6. QED
  BY <1>4, <1>5

-----------------------------------------------------------------------------
(***************************************************************************)
(* The inductive invariant.                                                *)
(***************************************************************************)

\* What has a type, apart from the places a command can be at.
LEMMA Types ==
  ASSUME IInv
  PROVE  /\ keychain \in Stored /\ got \in Stored /\ seen \in Stored
         /\ disk \in [creds: Stored, config: Docs \union {None}, backup: Docs \union {None}]
         /\ temp \in [place: Places, data: Creds \union Docs \union {None}, full: BOOLEAN]
         /\ env \in Creds \union {None} /\ acct \in Owners \union {None}
         /\ doc \in Docs /\ rewritten \in BOOLEAN
         /\ pc \notin {"fill", "rename"} => temp = NoTemp
<1>1. disk.creds # Torn /\ disk.config # Torn /\ disk.backup # Torn
  BY DEF IInv, NeverTorn, Places
<1>2. disk \in [creds: Stored, config: Docs \union {None}, backup: Docs \union {None}]
  BY <1>1 DEF IInv, TypeOK
<1>3. QED
  BY <1>2 DEF IInv, TypeOK

\* No document, no credential and no absence is a torn file.
LEMMA WholeIsNotTorn ==
  /\ \A c \in Stored : c # Torn
  /\ \A d \in Docs \union {None} : d # Torn
BY LiveCredentialAssumption DEF Stored

LEMMA EmptyIsDoc == NoDoc \in Docs
<1>1. NoDoc \in Seq(Members) /\ Len(NoDoc) = 0
  BY DEF NoDoc
<1>2. 0 <= Cardinality(Rest) + 1
  BY FS_CardinalityType, LiveCredentialAssumption
<1>3. NoDoc \in [1..0 -> Members]
  BY <1>1
<1>4. \A i, j \in 1..0 : NoDoc[i].key = NoDoc[j].key => i = j
  OBVIOUS
<1>5. QED
  BY <1>2, <1>3, <1>4, SequenceIsDoc

LEMMA InitEstablishes ==
  ASSUME Init
  PROVE  IInv
<1>1. /\ None \in Stored
      /\ disk \in [creds: Stored, config: Docs \union {None}, backup: {None}]
  BY DEF Init, Stored
<1>2. TypeOK
  BY <1>1, EmptyIsDoc DEF Init, TypeOK, NoTemp, Places
<1>3. NeverTorn
  BY <1>1, WholeIsNotTorn DEF NeverTorn, Places
<1>4. Carries
  BY DEF Init, Carries
<1>5. QED
  BY <1>2, <1>3, <1>4 DEF IInv

\* A command may end anywhere.
LEMMA EndKeeps ==
  ASSUME IInv, End, UNCHANGED keychain,
         disk' \in [creds: Stored, config: Docs \union {None}, backup: Docs \union {None}],
         rewritten' \in BOOLEAN, rewritten' => disk'.backup # None
  PROVE  IInv'
<1>1. TypeOK'
  BY Types, EmptyIsDoc DEF End, TypeOK, NoTemp, Places, Stored
<1>2. NeverTorn'
  BY WholeIsNotTorn DEF NeverTorn, Places
<1>3. Carries'
  BY DEF End, Carries
<1>4. QED
  BY <1>1, <1>2, <1>3 DEF IInv

LEMMA QuitKeeps ==
  ASSUME IInv, Quit
  PROVE  IInv'
BY EndKeeps, Types DEF Quit, IInv, Carries

\* Reading, and repairing the Keychain.
LEMMA ReadsKeep ==
  ASSUME IInv, Begin \/ Get \/ Fallback \/ Repair
  PROVE  IInv'
<1>1. CASE Quit
  BY <1>1, QuitKeeps
<1>2. CASE ~Quit
  <2>1. /\ pc \in {"idle", "read", "fallback", "repair"}
        /\ pc' \in {"read", "fallback", "repair", "write"}
        /\ UNCHANGED <<disk, rewritten, temp, env, acct, doc>>
        /\ keychain' \in Stored /\ got' \in Stored /\ seen' \in Stored
        /\ pc' = "repair" => seen' \in Creds
        /\ pc' \in {"fallback", "repair"} => got' \notin Creds
    <3>1. CASE Begin
      BY <3>1, Types DEF Begin, locals
    <3>2. CASE Get
      BY <1>2, <3>2, Types DEF Get, Goes, Stored
    <3>3. CASE Fallback
      BY <1>2, <3>3, Types DEF Fallback, IInv, Carries, Stored
    <3>4. CASE Repair
      BY <1>2, <3>4, Types DEF Repair, Goes, Stored
    <3>5. QED
      BY <3>1, <3>2, <3>3, <3>4
  <2>2. TypeOK'
    BY <2>1 DEF IInv, TypeOK
  <2>3. NeverTorn' /\ Carries'
    BY <2>1 DEF IInv, NeverTorn, Carries
  <2>4. QED
    BY <2>2, <2>3 DEF IInv
<1>3. QED
  BY <1>1, <1>2

\* The Keychain gets the credential that is installed.
LEMMA WriteCredKeeps ==
  ASSUME IInv, WriteCred
  PROVE  IInv'
<1>1. CASE Quit
  BY <1>1, QuitKeeps
<1>2. ASSUME NEW c \in Creds, NEW a \in Owners, pc = "write",
             keychain' = c, env' = c, acct' = a, pc' = "stat",
             UNCHANGED <<disk, temp, got, seen, doc, rewritten>>
      PROVE  IInv'
  <2>1. TypeOK'
    BY <1>2 DEF IInv, TypeOK, Stored
  <2>2. NeverTorn' /\ Carries'
    BY <1>2 DEF IInv, NeverTorn, Carries
  <2>3. QED
    BY <2>1, <2>2 DEF IInv
<1>3. QED
  BY <1>1, <1>2 DEF WriteCred

\* A file that is on its way is not None: there is a temporary file.
LEMMA PutKeeps ==
  ASSUME IInv, NEW place \in Places, NEW data \in Creds \union Docs, Put(place, data),
         pc \in {"stat", "backup", "patch"},
         \/ place = "creds" /\ data = env
         \/ place = "config" /\ data = SetTopLevelKey(doc, acct) /\ disk.backup # None
         \/ place = "backup" /\ data \in Docs /\ disk.backup = None
  PROVE  IInv'
<1>1. /\ temp' = [place |-> place, data |-> data, full |-> FALSE] /\ pc' = "fill"
      /\ UNCHANGED <<keychain, disk, env, acct, got, seen, doc, rewritten>>
  BY DEF Put
<1>2. temp'.data # None /\ temp'.data = data /\ temp'.place = place
  BY <1>1, LiveCredentialAssumption
<1>3. temp' # NoTemp
  BY <1>2 DEF NoTemp
<1>4. TypeOK'
  <2>1. temp' \in [place: Places, data: Creds \union Docs \union {None}, full: BOOLEAN]
    BY <1>1
  <2>2. QED
    BY <1>1, <1>3, <2>1 DEF IInv, TypeOK
<1>5. NeverTorn'
  BY <1>1 DEF IInv, NeverTorn
<1>6. env' \in Creds /\ acct' \in Owners
  BY <1>1 DEF IInv, Carries
<1>7. Carries'
  BY <1>1, <1>2, <1>6 DEF IInv, Carries
<1>8. QED
  BY <1>4, <1>5, <1>7 DEF IInv

\* The credentials file, if there is one, .claude.json and its backup get theirs.
LEMMA PutsKeep ==
  ASSUME IInv, StatFile \/ Backup \/ Patch
  PROVE  IInv'
<1>1. CASE StatFile
  <2>1. CASE disk.creds # None /\ Put("creds", env)
    <3>1. pc = "stat" /\ env \in Creds
      BY <1>1 DEF StatFile, IInv, Carries
    <3>2. QED
      BY <2>1, <3>1, PutKeeps DEF Places
  <2>2. CASE disk.creds = None /\ pc' = "config" /\ UNCHANGED <<keychain, disk, locals, rewritten>>
    <3>1. TypeOK'
      BY <1>1, <2>2 DEF StatFile, IInv, TypeOK, locals
    <3>2. NeverTorn' /\ Carries'
      BY <1>1, <2>2 DEF StatFile, IInv, NeverTorn, Carries, locals
    <3>3. QED
      BY <3>1, <3>2 DEF IInv
  <2>3. QED
    BY <1>1, <2>1, <2>2 DEF StatFile
<1>2. CASE Backup
  <2>1. CASE Quit
    BY <2>1, QuitKeeps
  <2>2. CASE disk.config # None /\ Put("backup", disk.config)
    <3>1. pc = "backup" /\ disk.backup = None
      BY <1>2 DEF Backup, IInv, Carries
    <3>2. disk.config \in Docs
      BY <2>2, Types
    <3>3. QED
      BY <2>2, <3>1, <3>2, PutKeeps DEF Places
  <2>3. QED
    BY <1>2, <2>1, <2>2 DEF Backup
<1>3. CASE Patch
  <2>1. pc = "patch" /\ acct \in Owners /\ disk.backup # None /\ Put("config", SetTopLevelKey(doc, acct))
    BY <1>3 DEF Patch, IInv, Carries
  <2>2. SetTopLevelKey(doc, acct) \in Docs
    BY <2>1, Types, SetGivesDoc
  <2>3. QED
    BY <2>1, <2>2, PutKeeps DEF Places
<1>4. QED
  BY <1>1, <1>2, <1>3

\* The temporary file is filled.
LEMMA FillKeeps ==
  ASSUME IInv, Fill
  PROVE  IInv'
<1>1. CASE Quit
  BY <1>1, QuitKeeps
<1>2. CASE /\ pc = "fill" /\ pc' = "rename" /\ temp' = [temp EXCEPT !.full = TRUE]
           /\ UNCHANGED <<keychain, disk, env, acct, got, seen, doc, rewritten>>
  <2>1. /\ temp' \in [place: Places, data: Creds \union Docs \union {None}, full: BOOLEAN]
        /\ temp'.full /\ temp'.place = temp.place /\ temp'.data = temp.data
    BY <1>2, Types
  <2>2. TypeOK'
    BY <1>2, <2>1 DEF IInv, TypeOK, NoTemp
  <2>3. NeverTorn' /\ Carries'
    BY <1>2, <2>1 DEF IInv, NeverTorn, Carries
  <2>4. QED
    BY <2>2, <2>3 DEF IInv
<1>3. QED
  BY <1>1, <1>2 DEF Fill

\* What takes a place is whole, and what the place is for.
LEMMA RenameWrites ==
  ASSUME IInv, Rename, ~Quit
  PROVE  /\ temp.full /\ disk' = [disk EXCEPT ![temp.place] = temp.data]
         /\ temp.place \in {"creds", "config", "backup"}
         /\ temp.place = "creds" => /\ disk'.creds = env /\ env \in Creds
                                    /\ disk'.config = disk.config /\ disk'.backup = disk.backup
         /\ temp.place = "config" => /\ disk'.config = SetTopLevelKey(doc, acct) /\ acct \in Owners
                                     /\ disk'.creds = disk.creds /\ disk'.backup = disk.backup
                                     /\ disk.backup # None
         /\ temp.place = "backup" => /\ disk'.backup \in Docs /\ disk.backup = None
                                     /\ disk'.creds = disk.creds /\ disk'.config = disk.config
         /\ disk' \in [creds: Stored, config: Docs \union {None}, backup: Docs \union {None}]
         /\ rewritten' = (rewritten \/ temp.place = "config") /\ UNCHANGED keychain
<1>1. /\ pc = "rename" /\ temp.full /\ env \in Creds /\ acct \in Owners
      /\ disk' = [disk EXCEPT ![temp.place] = temp.data]
      /\ rewritten' = (rewritten \/ temp.place = "config") /\ UNCHANGED keychain
  BY DEF Rename, IInv, Carries
<1>2. /\ disk \in [creds: Stored, config: Docs \union {None}, backup: Docs \union {None}]
      /\ SetTopLevelKey(doc, acct) \in Docs
  BY <1>1, Types, SetGivesDoc
<1>3. CASE temp.place = "creds" /\ temp.data = env
  <2>1. disk' = [disk EXCEPT !.creds = env]
    BY <1>1, <1>3
  <2>2. QED
    BY <1>1, <1>2, <1>3, <2>1 DEF Stored
<1>4. CASE temp.place = "config" /\ temp.data = SetTopLevelKey(doc, acct) /\ disk.backup # None
  <2>1. disk' = [disk EXCEPT !.config = SetTopLevelKey(doc, acct)]
    BY <1>1, <1>4
  <2>2. QED
    BY <1>1, <1>2, <1>4, <2>1
<1>5. CASE temp.place = "backup" /\ temp.data \in Docs /\ disk.backup = None
  <2>1. disk' = [disk EXCEPT !.backup = temp.data]
    BY <1>1, <1>5
  <2>2. QED
    BY <1>1, <1>2, <1>5, <2>1
<1>6. QED
  BY <1>1, <1>3, <1>4, <1>5 DEF IInv, Carries

LEMMA RenameKeeps ==
  ASSUME IInv, Rename
  PROVE  IInv'
<1>1. CASE Quit
  BY <1>1, QuitKeeps
<1>2. CASE ~Quit
  <2>1. /\ disk' \in [creds: Stored, config: Docs \union {None}, backup: Docs \union {None}]
        /\ rewritten' \in BOOLEAN /\ UNCHANGED keychain
        /\ temp.place \in {"creds", "config", "backup"}
        /\ temp.place = "backup" => disk'.backup # None
        /\ rewritten' => disk'.backup # None
    BY <1>2, Types, RenameWrites, WholeIsNotTorn, LiveCredentialAssumption DEF IInv, Carries
  <2>2. CASE End
    BY <2>1, <2>2, EndKeeps
  <2>3. CASE /\ temp.place # "config" /\ temp' = NoTemp
             /\ pc' = IF temp.place = "creds" THEN "config" ELSE "patch"
             /\ UNCHANGED <<env, acct, got, seen, doc>>
    <3>1. TypeOK'
      BY <2>1, <2>3, Types DEF TypeOK, NoTemp, Places
    <3>2. NeverTorn'
      BY <2>1, WholeIsNotTorn DEF NeverTorn, Places
    <3>3. pc = "rename"
      BY DEF Rename
    <3>4. Carries'
      BY <2>1, <2>3, <3>3 DEF IInv, Carries
    <3>5. QED
      BY <3>1, <3>2, <3>4 DEF IInv
  <2>4. QED
    BY <1>2, <2>2, <2>3 DEF Rename
<1>3. QED
  BY <1>1, <1>2

\* .claude.json is read; it is backed up first if it never was.
LEMMA ReadConfigKeeps ==
  ASSUME IInv, ReadConfig
  PROVE  IInv'
<1>1. CASE Quit
  BY <1>1, QuitKeeps
<1>2. CASE /\ pc = "config" /\ disk.config \in Docs /\ doc' = disk.config
           /\ pc' = IF disk.backup = None THEN "backup" ELSE "patch"
           /\ UNCHANGED <<keychain, disk, temp, env, acct, got, seen, rewritten>>
  <2>1. TypeOK'
    BY <1>2 DEF IInv, TypeOK
  <2>2. NeverTorn' /\ Carries'
    BY <1>2 DEF IInv, NeverTorn, Carries
  <2>3. QED
    BY <2>1, <2>2 DEF IInv
<1>3. QED
  BY <1>1, <1>2 DEF ReadConfig

\* Claude Code never touches the backup, nor what cas has in its hands.
LEMMA ClaudeKeeps ==
  ASSUME IInv, Claude
  PROVE  IInv'
<1>1. /\ UNCHANGED <<pc, temp, env, acct, got, seen, doc, rewritten>>
      /\ keychain' \in Stored
      /\ disk' \in [creds: Stored, config: Docs \union {None}, backup: Docs \union {None}]
      /\ disk'.backup = disk.backup
  BY Types DEF Claude, locals, Stored
<1>2. TypeOK'
  BY <1>1 DEF IInv, TypeOK
<1>3. NeverTorn'
  BY <1>1, WholeIsNotTorn DEF NeverTorn, Places
<1>4. Carries'
  BY <1>1 DEF IInv, Carries
<1>5. QED
  BY <1>2, <1>3, <1>4 DEF IInv

LEMMA NextKeeps ==
  ASSUME IInv, [Cas \/ Claude]_vars
  PROVE  IInv'
<1>1. CASE UNCHANGED vars
  BY <1>1 DEF IInv, TypeOK, NeverTorn, Carries, vars, locals
<1>2. CASE Cas
  BY <1>2, ReadsKeep, WriteCredKeeps, PutsKeep, FillKeeps, RenameKeeps, ReadConfigKeeps, QuitKeeps
     DEF Cas, Crash
<1>3. QED
  BY <1>1, <1>2, ClaudeKeeps

-----------------------------------------------------------------------------
(***************************************************************************)
(* The theorems.                                                           *)
(***************************************************************************)

\* IInv holds in every reachable state.
THEOREM InvariantHolds == Spec => []IInv
<1>1. Init => IInv
  BY InitEstablishes
<1>2. IInv /\ [Cas \/ Claude]_vars => IInv'
  BY NextKeeps
<1>3. QED
  BY <1>1, <1>2, PTL DEF Spec

\* Every variable has its type: .claude.json and its backup are documents in
\* which no name occurs twice (SetTopLevelKey never adds a block that is there).
THEOREM TypeCorrect == Spec => []TypeOK
<1>1. IInv => TypeOK
  BY DEF IInv
<1>2. QED
  BY <1>1, InvariantHolds, PTL

\* No file is ever half of one (writeFileAtomic).
THEOREM FilesAreWhole == Spec => []NeverTorn
<1>1. IInv => NeverTorn
  BY DEF IInv
<1>2. QED
  BY <1>1, InvariantHolds, PTL

\* cas never replaces .claude.json without a backup, and never the backup
\* (backupOnce).
THEOREM BackupIsKept == Spec => OriginalKept
<1> DEFINE A == /\ rewritten' => disk'.backup # None
                /\ rewritten => disk'.backup = disk.backup
<1>1. IInv /\ IInv' /\ [Cas \/ Claude]_vars => [A]_vars
  <2>1. SUFFICES ASSUME IInv, IInv', Cas \/ Claude
                 PROVE  A
    OBVIOUS
  <2>2. rewritten' => disk'.backup # None
    BY <2>1 DEF IInv, Carries
  <2>3. CASE disk' = disk
    BY <2>2, <2>3
  <2>4. CASE Rename /\ ~Quit
    <3>1. temp.place # "backup" => disk'.backup = disk.backup
      BY <2>1, <2>4, RenameWrites
    <3>2. temp.place = "backup" => ~rewritten
      BY <2>1, <2>4, RenameWrites DEF IInv, Carries
    <3>3. QED
      BY <2>2, <3>1, <3>2
  <2>5. CASE Claude
    BY <2>1, <2>2, <2>5, Types DEF Claude
  <2>6. Cas => disk' = disk \/ (Rename /\ ~Quit)
    BY DEF Cas, Begin, Get, Fallback, Repair, WriteCred, StatFile, Put, Fill, ReadConfig,
           Backup, Patch, Crash, Quit, Goes
  <2>7. QED
    BY <2>1, <2>3, <2>4, <2>5, <2>6
<1>2. QED
  BY <1>1, InvariantHolds, PTL DEF Spec, OriginalKept

\* What Claude Code reads changes by nothing cas does, but to the credential
\* cas installs: ReadCred's repair, a crash and a failure leave it.
THEOREM LiveIsInstalled == Spec => OnlyInstalls
<1> DEFINE A == pc' # pc /\ (pc = "repair" => keychain = got /\ disk.creds = seen) =>
                  Live' \in {Live, env, env'}
<1>1. IInv /\ [Cas \/ Claude]_vars => [A]_vars
  <2>1. SUFFICES ASSUME IInv, Cas \/ Claude, pc' # pc,
                        pc = "repair" => keychain = got /\ disk.creds = seen
                 PROVE  Live' \in {Live, env, env'}
    OBVIOUS
  <2>2. CASE keychain' = keychain /\ disk'.creds = disk.creds
    BY <2>2 DEF Live
  <2>3. CASE Repair /\ ~Quit
    <3>1. pc = "repair" /\ keychain' = seen /\ disk' = disk
      BY <2>3 DEF Repair
    <3>2. seen \in Creds /\ got \notin Creds
      BY <2>1, <3>1 DEF IInv, Carries
    <3>3. QED
      BY <2>1, <3>1, <3>2 DEF Live
  <2>4. CASE WriteCred /\ ~Quit
    BY <2>4 DEF WriteCred, Live
  <2>5. CASE Rename /\ ~Quit
    <3>1. /\ keychain' = keychain
          /\ disk'.creds = disk.creds \/ (disk'.creds = env /\ env \in Creds)
      BY <2>1, <2>5, RenameWrites
    <3>2. QED
      BY <3>1 DEF Live
  <2>6. Claude => pc' = pc
    BY DEF Claude
  <2>7. Cas => \/ UNCHANGED <<keychain, disk>>
               \/ (Repair \/ WriteCred \/ Rename) /\ ~Quit
    BY DEF Cas, Begin, Get, Fallback, StatFile, Put, Fill, ReadConfig,
           Backup, Patch, Crash, Quit, Goes
  <2>8. QED
    BY <2>1, <2>2, <2>3, <2>4, <2>5, <2>6, <2>7
<1>2. QED
  BY <1>1, InvariantHolds, PTL DEF Spec, OnlyInstalls

\* Replacing .claude.json names the account that is installed, and leaves every
\* other member as and where it was (SetTopLevelKey, WriteOAuthAccount).
THEOREM RestIsKept == Spec => KeepsTheRest
<1> DEFINE A == pc = "rename" /\ temp.place = "config" /\ rewritten' /\ disk'.config # disk.config
                  /\ pc' # pc =>
                  /\ AccountsOf(disk'.config) = {acct}
                  /\ disk.config = doc => SameRest(disk'.config, disk.config)
<1>1. IInv /\ [Cas \/ Claude]_vars => [A]_vars
  <2>1. SUFFICES ASSUME IInv, Cas \/ Claude, pc = "rename", temp.place = "config", pc' # pc,
                        disk'.config # disk.config
                 PROVE  /\ AccountsOf(disk'.config) = {acct}
                        /\ disk.config = doc => SameRest(disk'.config, disk.config)
    OBVIOUS
  <2>2. Rename /\ ~Quit
    BY <2>1 DEF Cas, Begin, Get, Fallback, Repair, WriteCred, StatFile, Fill, ReadConfig,
           Backup, Patch, Crash, Quit, Claude
  <2>3. disk'.config = SetTopLevelKey(doc, acct) /\ acct \in Owners /\ doc \in Docs
    BY <2>1, <2>2, RenameWrites, Types
  <2>4. QED
    BY <2>3, SetNamesAccount, SetKeepsTheRest
<1>2. QED
  BY <1>1, InvariantHolds, PTL DEF Spec, KeepsTheRest

=============================================================================
