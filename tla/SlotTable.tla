------------------------------ MODULE SlotTable ------------------------------
(***************************************************************************)
(* The slot table of package store (store.go): what `cas` keeps in         *)
(* state.json, as a value.  A table is a record: `active` is the number of *)
(* the switched-in slot (0 for none) and `slots` maps every number that    *)
(* the model allows to a slot or to NoSlot.  The code keeps a slice sorted *)
(* by number, so "the first match" is the match with the lowest number.    *)
(*                                                                         *)
(* Of a slot only what other components decide on is kept: the account it  *)
(* is registered for, the account its cached oauthAccount block describes  *)
(* and the Revoked flag.  An email stands and falls with its account's     *)
(* uuid (the servers send them together), so FindByEmail is                *)
(* FindByAccountUUID here; labels, plan names and times are left out.      *)
(***************************************************************************)
EXTENDS Identity, Integers

CONSTANTS
  NoSlot,      \* an unused slot number
  MaxSlots     \* bound: the model's slot numbers are 1..MaxSlots

SlotIds == 1..MaxSlots

Slot == [uuid: Owner, block: Owner, revoked: BOOLEAN]

Table == [active: SlotIds \union {0}, slots: [SlotIds -> Slot \union {NoSlot}]]

ASSUME SlotTableAssumption ==
  /\ MaxSlots \in Nat
  /\ NoSlot \notin Slot

-----------------------------------------------------------------------------

EmptyTable == [active |-> 0, slots |-> [n \in SlotIds |-> NoSlot]]

Registered(t) == {n \in SlotIds : t.slots[n] # NoSlot}

\* The lowest of some slot numbers, 0 (the code's nil) when there is none.
Lowest(S) == IF S = {} THEN 0 ELSE CHOOSE n \in S : \A m \in S : n <= m

\* State.Active: the switched-in slot, 0 when there is none or it is gone.
Active(t) == IF t.active \in Registered(t) THEN t.active ELSE 0

\* Mutant: a revoked slot is not found.
MutFindByAccountUUID(t, u) ==
  IF u = NoAccount THEN 0
  ELSE Lowest({n \in Registered(t) : t.slots[n].uuid = u /\ ~t.slots[n].revoked})

\* State.FindByAccountUUID: an empty uuid matches nothing.
FindByAccountUUID(t, u) ==
  IF u = NoAccount THEN 0
  ELSE Lowest({n \in Registered(t) : t.slots[n].uuid = u})

\* Mutant: one past the highest number, so gaps are never filled.
MutNextFreeSlot(t) == Lowest({n \in 1..(MaxSlots + 1) : \A m \in Registered(t) : m < n})

\* State.nextFreeSlot; 0 when the model has no number left.
NextFreeSlot(t) == Lowest(SlotIds \ Registered(t))

Put(t, n, s) == [t EXCEPT !.slots[n] = s]

\* Mutant: the active marker outlives its slot.
MutRemove(t, n) == [t EXCEPT !.slots[n] = NoSlot]

\* State.Remove: the active marker goes with its slot.
Remove(t, n) ==
  [active |-> IF t.active = n THEN 0 ELSE t.active,
   slots  |-> [t.slots EXCEPT ![n] = NoSlot]]

Activate(t, n) == [t EXCEPT !.active = n]

SetRevoked(t, n, b) == Put(t, n, [t.slots[n] EXCEPT !.revoked = b])

SetBlock(t, n, u) == Put(t, n, [t.slots[n] EXCEPT !.block = u])

==============================================================================
