----------------------------- MODULE CodexTable -----------------------------
(***************************************************************************)
(* The slot table of package codexstore (State), which codex-state.json    *)
(* keeps, as a value; and the documents (package codexauth) it describes.  *)
(*                                                                         *)
(* A document is one login as auth.json holds it: the account whose        *)
(* identity it has, and the how-many-th document of that account it is,    *)
(* for the fingerprint that changes with every renewal.  All that a slot   *)
(* knows (identity, email, expiry, CredentialTag) is copied from one       *)
(* document (Slot.Apply), so a slot is kept as the document that was       *)
(* applied to it last.  Labels, plan names and times are left out.         *)
(***************************************************************************)
EXTENDS Identity, Integers

CONSTANTS
  NoSlot,      \* an unused slot number
  MaxSlots,    \* bound: the model's slot numbers are 1..MaxSlots
  MaxGen       \* bound: documents per account

SlotIds == 1..MaxSlots

Gens == 1..MaxGen

Doc == [acct: Accounts, gen: Gens]

NoDoc == [acct |-> NoAccount, gen |-> 0]

Docs == Doc \union {NoDoc}

Table == [active: SlotIds \union {0}, slots: [SlotIds -> Doc \union {NoSlot}]]

ASSUME CodexTableAssumption ==
  /\ MaxSlots \in Nat
  /\ MaxGen \in Nat \ {0}
  /\ NoSlot \notin Doc

-----------------------------------------------------------------------------

EmptyTable == [active |-> 0, slots |-> [n \in SlotIds |-> NoSlot]]

Registered(t) == {n \in SlotIds : t.slots[n] # NoSlot}

\* The lowest of some slot numbers, 0 (the code's nil) when there is none.
Lowest(S) == IF S = {} THEN 0 ELSE CHOOSE n \in S : \A m \in S : n <= m

\* State.Active: the active slot, 0 when there is none or it is gone.
Active(t) == IF t.active \in Registered(t) THEN t.active ELSE 0

\* Mutant: two documents are of one account only if they are the same.
MutFindByIdentity(t, d) == Lowest({n \in Registered(t) : t.slots[n] = d})

\* State.FindByIdentity, for the identity of document d.
FindByIdentity(t, d) == Lowest({n \in Registered(t) : t.slots[n].acct = d.acct})

\* State.Add: the smallest number that is free; 0 when the model has none left.
FreeNumber(t) == Lowest(SlotIds \ Registered(t))

\* Slot.Apply
Apply(t, n, d) == [t EXCEPT !.slots[n] = d]

Activate(t, n) == [t EXCEPT !.active = n]

\* State.Remove: the active marker goes with its slot.
Remove(t, n) ==
  [active |-> IF t.active = n THEN 0 ELSE t.active,
   slots  |-> [t.slots EXCEPT ![n] = NoSlot]]

=============================================================================
